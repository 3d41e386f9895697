------------------------------- MODULE Logins -------------------------------
(***************************************************************************)
(* The sessions of one user (src/src/auth/application/services/            *)
(* auth_service.py over auth_token_repository.py): a login starts a chain  *)
(* of refresh tokens, a refresh exchanges the newest for the next one, and *)
(* a change of password, a reset or the reuse of a spent token closes them *)
(* all.                                                                    *)
(*                                                                         *)
(* A call reads its token, link or password, and commits later; no row is  *)
(* locked in between.  `logins' holds what each call in progress has read. *)
(* A call that the bounds would not let commit is not begun.               *)
(***************************************************************************)
EXTENDS Integers, FiniteSets

CONSTANTS LoginCalls, \* calls in progress at once
          Links,      \* rows of password_reset_tokens
          MaxTokens,  \* bound of the refresh tokens issued
          MaxChanges, \* bound of the changes of password
          MaxDays,    \* bound of the clock
          Life,       \* how long a refresh token may be exchanged
          NoLoginCall

LoginsAssumption == {MaxTokens, MaxChanges, MaxDays, Life} \subseteq Nat

VARIABLES tokens,     \* the rows of refresh_tokens, oldest first
          links,      \* the reset links, with the passwords each has set
          password,   \* how many times the password has changed
          logins,
          today,
          overlapped, \* credentials that two calls held at one time
          outran      \* chains with a call in progress while the password changed

loginVars == <<tokens, links, password, logins, today, overlapped, outran>>

Ids == 1..MaxTokens
NoToken == [chain |-> 0, parent |-> 0, live |-> FALSE, born |-> 0, password |-> 0]

Issued == {t \in Ids : tokens[t] # NoToken}
Live == {t \in Issued : tokens[t].live}
NextId == Cardinality(Issued) + 1

Holds(c, op) == logins[c] # NoLoginCall /\ logins[c].op = op

-----------------------------------------------------------------------------
Begin(c, op, on) ==
    /\ logins[c] = NoLoginCall
    /\ logins' = [logins EXCEPT ![c] = [op |-> op, on |-> on,
                                        password |-> IF op = "login" THEN password ELSE 0]]
    /\ overlapped' = IF \E d \in LoginCalls : Holds(d, op) /\ logins[d].on = on
                     THEN overlapped \union {<<op, on>>} ELSE overlapped
    /\ UNCHANGED <<tokens, links, password, today, outran>>

End(c) == logins' = [logins EXCEPT ![c] = NoLoginCall]

\* _issue_tokens and add_refresh
Issue(chain, parent, pass) ==
    LET new == [chain |-> chain, parent |-> parent, live |-> TRUE,
                born |-> today, password |-> pass]
    IN  [tokens EXCEPT ![NextId] = new]

\* revoke_all_for_user: an UPDATE over the rows committed so far.
AllRevoked == [t \in Ids |-> [tokens[t] EXCEPT !.live = FALSE]]

\* The chains that a refresh in progress is about to go on with.
Outrunning == {tokens[logins[c].on].chain : c \in {d \in LoginCalls : Holds(d, "refresh")}}

-----------------------------------------------------------------------------
\* login: the password is verified, then the token committed.
LoginRead(c) == NextId \in Ids /\ Begin(c, "login", 0)

LoginCommit(c) ==
    /\ Holds(c, "login")
    /\ NextId \in Ids
    /\ tokens' = Issue(NextId, 0, logins[c].password)
    /\ outran' = IF logins[c].password # password THEN outran \union {NextId} ELSE outran
    /\ End(c)
    /\ UNCHANGED <<links, password, today, overlapped>>

Fresh(t) == today - tokens[t].born <= Life

\* refresh, up to the reading of the row.
RefreshRead(c, t) ==
    /\ t \in Live
    /\ Fresh(t)
    /\ NextId \in Ids
    /\ Begin(c, "refresh", t)

\* A spent token is presented again: every session of the user is closed.
Reuse(t) ==
    /\ t \in Issued \ Live
    /\ Fresh(t)
    /\ tokens' = AllRevoked
    /\ UNCHANGED <<links, password, logins, today, overlapped, outran>>

\* Idle too long or too old: the row is revoked.
RefreshAged(t) ==
    /\ t \in Live
    /\ ~Fresh(t)
    /\ tokens' = [tokens EXCEPT ![t].live = FALSE]
    /\ UNCHANGED <<links, password, logins, today, overlapped, outran>>

\* Mutant: the old token stays unrevoked.
RefreshKeeping(c) ==
    /\ Holds(c, "refresh")
    /\ NextId \in Ids
    /\ LET old == logins[c].on
       IN  tokens' = Issue(tokens[old].chain, old, tokens[old].password)
    /\ End(c)
    /\ UNCHANGED <<links, password, today, overlapped, outran>>

\* The rest of refresh: the next token, and the old one revoked whatever
\* happened to it meanwhile.
RefreshCommit(c) ==
    /\ Holds(c, "refresh")
    /\ NextId \in Ids
    /\ LET old == logins[c].on
       IN  tokens' = [Issue(tokens[old].chain, old, tokens[old].password)
                        EXCEPT ![old].live = FALSE]
    /\ End(c)
    /\ UNCHANGED <<links, password, today, overlapped, outran>>

\* logout, revocar: one token.
Revoke(t) ==
    /\ t \in Live
    /\ tokens' = [tokens EXCEPT ![t].live = FALSE]
    /\ UNCHANGED <<links, password, logins, today, overlapped, outran>>

\* revocar_otras
RevokeOthers(t) ==
    /\ t \in Issued
    /\ tokens' = [u \in Ids |-> IF u = t THEN tokens[u] ELSE [tokens[u] EXCEPT !.live = FALSE]]
    /\ UNCHANGED <<links, password, logins, today, overlapped, outran>>

-----------------------------------------------------------------------------
\* The new password and the closing of every session, in one commit.
SetPassword(c) ==
    /\ password < MaxChanges
    /\ password' = password + 1
    /\ tokens' = AllRevoked
    /\ outran' = outran \union Outrunning
    /\ End(c)
    /\ UNCHANGED <<today, overlapped>>

\* change_password, verified against the password of the moment it reads.
ChangeRead(c) == password < MaxChanges /\ Begin(c, "change", 0)

ChangeCommit(c) ==
    /\ Holds(c, "change")
    /\ SetPassword(c)
    /\ UNCHANGED links

\* consume_password_resets_for_user
AllSpent == [l \in Links |-> IF links[l].state = "open" THEN [links[l] EXCEPT !.state = "used"]
                            ELSE links[l]]

\* request_password_reset; issue_password_setup_token first spends the others.
RequestReset(l) ==
    /\ links[l].state = "none"
    /\ links' = [links EXCEPT ![l].state = "open"]
    /\ UNCHANGED <<tokens, password, logins, today, overlapped, outran>>

Invite(l) ==
    /\ links[l].state = "none"
    /\ links' = [AllSpent EXCEPT ![l].state = "open"]
    /\ UNCHANGED <<tokens, password, logins, today, overlapped, outran>>

\* reset_password: the link is read open; every open link is spent with it.
ResetRead(c, l) ==
    /\ links[l].state = "open"
    /\ password < MaxChanges
    /\ Begin(c, "reset", l)

ResetCommit(c) ==
    /\ Holds(c, "reset")
    /\ links' = [AllSpent EXCEPT ![logins[c].on].passwords = @ + 1]
    /\ SetPassword(c)

\* A call that fails after it read: nothing is committed.
Abandon(c) ==
    /\ logins[c] # NoLoginCall
    /\ End(c)
    /\ UNCHANGED <<tokens, links, password, today, overlapped, outran>>

\* A day is long next to a call: none is in progress when the date changes.
NextDay ==
    /\ today < MaxDays
    /\ \A c \in LoginCalls : logins[c] = NoLoginCall
    /\ today' = today + 1
    /\ UNCHANGED <<tokens, links, password, logins, overlapped, outran>>

LoginInit ==
    /\ tokens = [t \in Ids |-> NoToken]
    /\ links = [l \in Links |-> [state |-> "none", passwords |-> 0]]
    /\ password = 0
    /\ logins = [c \in LoginCalls |-> NoLoginCall]
    /\ today = 0
    /\ overlapped = {}
    /\ outran = {}

LoginNext ==
    \/ \E c \in LoginCalls :
          \/ LoginRead(c) \/ LoginCommit(c)
          \/ RefreshCommit(c)
          \/ ChangeRead(c) \/ ChangeCommit(c)
          \/ ResetCommit(c) \/ Abandon(c)
          \/ \E t \in Ids : RefreshRead(c, t)
          \/ \E l \in Links : ResetRead(c, l)
    \/ \E t \in Ids : Reuse(t) \/ RefreshAged(t) \/ Revoke(t) \/ RevokeOthers(t)
    \/ \E l \in Links : RequestReset(l) \/ Invite(l)
    \/ NextDay

LoginSpec == LoginInit /\ [][LoginNext]_loginVars
-----------------------------------------------------------------------------
TokenType == [chain : 0..MaxTokens, parent : 0..MaxTokens, live : BOOLEAN,
              born : Nat, password : Nat]

CallType == [op : {"login", "refresh", "change", "reset"},
             on : Ids \union Links \union {0}, password : Nat]

LoginTypeOK ==
    /\ tokens \in [Ids -> TokenType]
    /\ links \in [Links -> [state : {"none", "open", "used"}, passwords : Nat]]
    /\ password \in Nat /\ today \in Nat
    /\ logins \in [LoginCalls -> {NoLoginCall} \union CallType]
    /\ outran \subseteq Ids

\* A refresh token is exchanged for one successor, and a reset link sets one
\* password, unless two calls held it at the same time: reading a credential
\* as unspent and spending it are separate steps.
SpentOnce ==
    /\ \A p \in Issued : Cardinality({t \in Issued : tokens[t].parent = p}) > 1
                            => <<"refresh", p>> \in overlapped
    /\ \A l \in Links : links[l].passwords > 1 => <<"reset", l>> \in overlapped

\* Once the password has changed, what is left open of the sessions that were
\* started with the old one descends from a call that was in progress at the
\* change: no other chain is ever continued.
OldPasswordOut ==
    \A t \in Live : tokens[t].password # password => tokens[t].chain \in outran

=============================================================================
