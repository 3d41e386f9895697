---------------------------- MODULE Administrators ----------------------------
(***************************************************************************)
(* The team of the platform: who has an account, active or not, and who    *)
(* holds platform_admin (PlatformUsersService).  The calls that could      *)
(* leave the platform without a super administrator look for another one   *)
(* and commit later; the others look at nothing.                           *)
(***************************************************************************)
EXTENDS Naturals, FiniteSets

CONSTANTS Team,         \* accounts without a company
          TeamCalls

VARIABLES account,      \* of each: its state, and whether platform_admin
          teamCalls,    \* the call of each request
          forced        \* no super administrator, and not by a call that looked

teamVars == <<account, teamCalls, forced>>

NoTeamCall == [op |-> "none", on |-> "nobody", admin |-> FALSE, overtaken |-> FALSE]

Live(u) == account[u].state \in {"on", "off"}

AdminsOf(accounts) == {u \in Team : accounts[u].state = "on" /\ accounts[u].admin}

ActiveAdmins == AdminsOf(account)

\* The actor is somebody of the team who could log in.
Actors == {u \in Team : account[u].state = "on"}

Ask(c, op, u, admin) ==
    /\ teamCalls[c] = NoTeamCall
    /\ teamCalls' = [teamCalls EXCEPT ![c] =
           [NoTeamCall EXCEPT !.op = op, !.on = u, !.admin = admin]]
    /\ UNCHANGED <<account, forced>>

-----------------------------------------------------------------------------
\* Mutant: one administrator is taken for two.
NotTheLastButTwo(u) == u \in ActiveAdmins => Cardinality(ActiveAdmins) >= 1

NotTheLast(u) == u \in ActiveAdmins => Cardinality(ActiveAdmins) > 1

\* desactivar_admin and eliminar_admin, by another.
DeactivateAdmin(c, u) ==
    Actors \ {u} # {} /\ NotTheLast(u) /\ Live(u) /\ Ask(c, "deactivate", u, FALSE)

DeleteAdmin(c, u) ==
    Actors \ {u} # {} /\ NotTheLast(u) /\ Live(u) /\ Ask(c, "delete", u, FALSE)

\* asignar_roles: whoever loses the role leaves another active one.
AssignTeamRoles(c, u, admin) ==
    /\ Actors # {} /\ Live(u) /\ account[u].admin # admin
    /\ account[u].admin /\ ~ admin => ActiveAdmins \ {u} # {}
    /\ Ask(c, "roles", u, admin)

-----------------------------------------------------------------------------
\* What becomes of the accounts; `looked' says that the call made sure of
\* another administrator, and nothing overtook it.
Settle(calls, accounts, looked) ==
    /\ account' = accounts
    /\ forced' = (AdminsOf(accounts) = {} /\ (forced \/ ~ looked))
    /\ teamCalls' = [x \in TeamCalls |->
           IF x \in calls \/ teamCalls[x] = NoTeamCall THEN NoTeamCall
           ELSE [teamCalls[x] EXCEPT !.overtaken = TRUE]]

CommitTeam(c) ==
    LET call == teamCalls[c]
        u    == call.on
    IN  \/ /\ call.op = "deactivate"
           /\ Settle({c}, [account EXCEPT ![u].state = IF @ = "on" THEN "off" ELSE @],
                     ~ call.overtaken)
        \/ /\ call.op = "delete"
           /\ Settle({c}, [account EXCEPT ![u].state = "gone"], ~ call.overtaken)
        \/ /\ call.op = "roles"
           /\ Settle({c}, [account EXCEPT ![u].admin = call.admin], ~ call.overtaken)

\* actualizar with is_active: it looks at nothing, and neither do these two.
Actualizar(u, before, state) ==
    /\ Actors # {} /\ account[u].state = before
    /\ Settle({}, [account EXCEPT ![u].state = state], state = "on")

Deactivate(u) == Actualizar(u, "on", "off")

Activate(u) == Actualizar(u, "off", "on")

\* crear, for the team.
Crear(u, admin) ==
    /\ Actors # {} /\ account[u].state = "none"
    /\ Settle({}, [account EXCEPT ![u] = [state |-> "on", admin |-> admin]], TRUE)

\* invitar_admin.
Invite(u) == Crear(u, TRUE)

TeamInit ==
    /\ \E first \in Team :
           account = [u \in Team |-> [state |-> IF u = first THEN "on" ELSE "none",
                                      admin |-> u = first]]
    /\ teamCalls = [c \in TeamCalls |-> NoTeamCall]
    /\ forced = FALSE

TeamNext ==
    \/ \E c \in TeamCalls :
        \/ CommitTeam(c)
        \/ \E u \in Team :
            \/ DeactivateAdmin(c, u) \/ DeleteAdmin(c, u)
            \/ \E admin \in BOOLEAN : AssignTeamRoles(c, u, admin)
    \/ \E u \in Team :
        \/ Deactivate(u) \/ Activate(u)
        \/ Crear(u, FALSE) \/ Invite(u)

-----------------------------------------------------------------------------
\* The platform is never left without an active super administrator by a call
\* that asks for another one (LastPlatformAdminError): only by two that
\* overlapped, or by the generic desactivar and actualizar, which do not ask
\* (platform_users_service.py:522, 299).
AnAdminRemains == ActiveAdmins = {} => forced

=============================================================================
