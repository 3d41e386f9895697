------------------------------ MODULE MCAccess ------------------------------
(***************************************************************************)
(* Who gets in, and who says so: the support sessions of one operator, the *)
(* logins of one user, the team of the platform, the staff of a company    *)
(* with its roles and its branches, the company that signs up, and the     *)
(* limits on requests.  They share no state; `door' names the one that     *)
(* moves.                                                                  *)
(*                                                                         *)
(* The limits: two processes, both with Redis or both without, two users   *)
(* of one company of which each may spend half, and three moments; with    *)
(* Redis the last moment of a window and the first of the next.  A request *)
(* is over before the next moment.                                         *)
(***************************************************************************)
EXTENDS SupportSessions, TLC

CONSTANTS LoginCalls, Links, MaxTokens, MaxChanges, MaxDays, Life, NoLoginCall,
          Team, Staff, Roles, NoStaffCall, GivenIds,
          Slugs, Spares, Emails, NoLink,
          Hosts, Slots, CompanyOf, Limit, Span, MaxKeys, MaxMoment, MaxFailures, NoRequest

VARIABLES door,
          tokens, links, password, logins, today, overlapped, outran,
          account, teamCalls, forced,
          person, roleIs, holds, staffCalls, stripped, together,
          assigned, assigning, mixed,
          company, user, mail, entering,
          moment, mode, buckets, shared, fallback, failures, checking, log

User == INSTANCE Logins

Platform == INSTANCE Administrators WITH TeamCalls <- LoginCalls

Company == INSTANCE StaffRoles WITH StaffCalls <- LoginCalls

Given == INSTANCE UserBranches WITH AssignCalls <- LoginCalls

Entry == INSTANCE Signups WITH SignupCalls <- LoginCalls

Rates == INSTANCE RateLimits WITH
             Users <- Staff, MaxTime <- MaxMoment, now <- moment

\* The office of the instance: its staff is of one company, behind one address.
MCCompanyOf == [u \in Staff |-> "company"]

MCLimit == [api_ip |-> 2, voice_user |-> 1, voice_tenant |-> 2]

ASSUME LinksAssumption == User!LoginsAssumption /\ Entry!SignupAssumption

ASSUME LimitsAssumption == Rates!RatesAssumption

loginVars == <<tokens, links, password, logins, today, overlapped, outran>>

teamVars == <<account, teamCalls, forced>>

staffVars == <<person, roleIs, holds, staffCalls, stripped, together>>

assignVars == <<assigned, assigning, mixed>>

entryVars == <<company, user, mail, entering>>

rateVars == <<moment, mode, buckets, shared, fallback, failures, checking, log>>

\* A door that does not move keeps nothing.
NoLogins ==
    /\ tokens = NoSupportCall /\ links = NoSupportCall /\ password = NoSupportCall
    /\ logins = NoSupportCall /\ today = NoSupportCall /\ overlapped = NoSupportCall
    /\ outran = NoSupportCall

NoTeam ==
    /\ account = NoSupportCall /\ teamCalls = NoSupportCall /\ forced = NoSupportCall

NoStaff ==
    /\ person = NoSupportCall /\ roleIs = NoSupportCall /\ holds = NoSupportCall
    /\ staffCalls = NoSupportCall /\ stripped = NoSupportCall /\ together = NoSupportCall

NoGiven ==
    /\ assigned = NoSupportCall /\ assigning = NoSupportCall /\ mixed = NoSupportCall

NoEntry ==
    /\ company = NoSupportCall /\ user = NoSupportCall /\ mail = NoSupportCall
    /\ entering = NoSupportCall

NoRates ==
    /\ moment = NoSupportCall /\ mode = NoSupportCall /\ buckets = NoSupportCall
    /\ shared = NoSupportCall /\ fallback = NoSupportCall /\ failures = NoSupportCall
    /\ checking = NoSupportCall /\ log = NoSupportCall

AccessInit ==
    /\ door \in {"support", "logins", "team", "staff", "branches", "sign-up", "limits"}
    /\ SupportInit
    /\ IF door = "logins" THEN User!LoginInit ELSE NoLogins
    /\ IF door = "team" THEN Platform!TeamInit ELSE NoTeam
    /\ IF door = "staff" THEN Company!StaffInit ELSE NoStaff
    /\ IF door = "branches" THEN Given!AssignInit ELSE NoGiven
    /\ IF door = "sign-up" THEN Entry!SignupInit ELSE NoEntry
    /\ IF door = "limits" THEN Rates!RateInit ELSE NoRates
    /\ door = "team" => account[CHOOSE u \in Team : TRUE].admin     \* whoever is first
    /\ door = "staff" => /\ person[CHOOSE u \in Staff : TRUE] = "on"
                        /\ roleIs[CHOOSE r \in Roles : TRUE] = "on"
    /\ door = "limits" =>
           /\ \A g, h \in Hosts : mode[g] = mode[h]
           /\ moment = IF \E h \in Hosts : mode[h] = "redis" THEN Span - 1 ELSE 0

Supporting ==
    /\ door = "support"
    /\ SupportNext
    /\ UNCHANGED <<door, loginVars, teamVars, staffVars, assignVars, entryVars, rateVars>>

LoggingIn ==
    /\ door = "logins"
    /\ User!LoginNext
    /\ UNCHANGED <<door, supportVars, teamVars, staffVars, assignVars, entryVars, rateVars>>

Governing ==
    /\ door = "team"
    /\ Platform!TeamNext
    /\ UNCHANGED <<door, supportVars, loginVars, staffVars, assignVars, entryVars, rateVars>>

Staffing ==
    /\ door = "staff"
    /\ Company!StaffNext
    /\ UNCHANGED <<door, supportVars, loginVars, teamVars, assignVars, entryVars, rateVars>>

Assigning ==
    /\ door = "branches"
    /\ Given!AssignNext
    /\ UNCHANGED <<door, supportVars, loginVars, teamVars, staffVars, entryVars, rateVars>>

SigningUp ==
    /\ door = "sign-up"
    /\ Entry!SignupNext
    /\ UNCHANGED <<door, supportVars, loginVars, teamVars, staffVars, assignVars, rateVars>>

Limiting ==
    /\ door = "limits"
    /\ Rates!RateNext
    /\ moment' # moment => \A r \in Slots : checking[r] = NoRequest
    /\ UNCHANGED <<door, supportVars, loginVars, teamVars, staffVars, assignVars, entryVars>>

AccessNext ==
    \/ Supporting \/ LoggingIn \/ Governing
    \/ Staffing \/ Assigning \/ SigningUp \/ Limiting

\* The sessions are alike, and so are the calls of every kind.
Symmetry == Permutations(Sessions) \union Permutations(SupportCalls)

accessVars == <<door, supportVars, loginVars, teamVars, staffVars, assignVars, entryVars,
                rateVars>>

AccessSpec == AccessInit /\ [][AccessNext]_accessVars

-----------------------------------------------------------------------------
\* The types of the variables of the first two.
TypesOK ==
    CASE door = "support" -> SupportTypeOK
      [] door = "logins" -> User!LoginTypeOK
      [] OTHER -> TRUE

\* A credential is spent once, and the sessions of an old password end with it;
\* the link that a company signs up with is one, and makes a whole company.
CredentialsSpent ==
    /\ door = "logins" => User!SpentOnce /\ User!OldPasswordOut
    /\ door = "sign-up" => Entry!OneCompanyPerLink /\ Entry!WholeUnlessTemplate

\* Somebody is always left to administer the platform and every company, no
\* role is taken from whoever holds it by deleting it, and whoever has
\* branches has one by default; the exceptions are the ones that the
\* definitions of the three modules name.
SomebodyInCharge ==
    /\ door = "team" => Platform!AnAdminRemains
    /\ door = "staff" => Company!SomeoneAtWork /\ Company!NobodyStripped
    /\ door = "branches" => Given!OneDefault

\* The limits hold in every process and for those that share Redis, a user
\* leaves the company its quota, and the table of a process has a size.
LimitsKept ==
    door = "limits" => Rates!LimitsKept /\ Rates!SharedSpared /\ Rates!TableBounded

=============================================================================
