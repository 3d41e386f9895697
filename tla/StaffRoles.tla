------------------------------ MODULE StaffRoles ------------------------------
(***************************************************************************)
(* The staff of a company and the roles it makes for them: UserService and *)
(* RoleService.  A call reads and commits later.  SQLAlchemy writes a list *)
(* of roles, or of permissions, as what it adds to and takes from the one  *)
(* it had read, and the database deletes with a role whoever holds it.     *)
(*                                                                         *)
(* Addresses, e-mails and documents are left out; the permissions of a     *)
(* role are too, but for the ones of a role that is deleted.               *)
(***************************************************************************)
EXTENDS Naturals, FiniteSets

CONSTANTS Staff, Roles, StaffCalls, NoStaffCall

VARIABLES person,       \* of each member: "none", "on", "off" or "gone"
          roleIs,       \* of each role: "none", "on" or "off"
          holds,        \* user_roles
          staffCalls,   \* the call of each request
          stripped,     \* roles that members lost without being told so
          together      \* two calls overlapped since somebody was active

staffVars == <<person, roleIs, holds, staffCalls, stripped, together>>

NothingToDo == [op |-> "none", on |-> NoStaffCall, add |-> {}, del |-> {},
                overtaken |-> FALSE]

RolesOf(u) == {h[2] : h \in {x \in holds : x[1] = u}}

Holders(r) == {h[1] : h \in {x \in holds : x[2] = r}}

AtWork(u) == person[u] = "on" /\ RolesOf(u) # {}

Ask(c, op, on, add, del) ==
    /\ staffCalls[c] = NothingToDo
    /\ staffCalls' = [staffCalls EXCEPT ![c] =
           [NothingToDo EXCEPT !.op = op, !.on = on, !.add = add, !.del = del]]
    /\ UNCHANGED <<person, roleIs, holds, stripped, together>>

\* The call of x is over, and the ones under way have read the past.
Done(c) ==
    staffCalls' = [x \in StaffCalls |->
        IF x = c \/ staffCalls[x] = NothingToDo THEN NothingToDo
        ELSE [staffCalls[x] EXCEPT !.overtaken = TRUE]]

-----------------------------------------------------------------------------
\* create: the roles given exist and are active.
Hire(c, u, given) ==
    /\ person[u] = "none"
    /\ \A r \in given : roleIs[r] = "on"
    /\ Ask(c, "hire", u, {u} \X given, {})

\* assign_roles: nobody takes all of their own.
Assign(c, actor, u, given) ==
    /\ AtWork(actor) /\ person[u] \in {"on", "off"}
    /\ actor = u => given # {}
    /\ \A r \in given : roleIs[r] = "on"
    /\ Ask(c, "assign", u, {u} \X (given \ RolesOf(u)), {u} \X (RolesOf(u) \ given))

NotOneself(actor, u) == actor # u

Deactivate(c, actor, u) ==
    /\ AtWork(actor) /\ NotOneself(actor, u) /\ person[u] = "on"
    /\ Ask(c, "deactivate", u, {}, {})

Delete(c, actor, u) ==
    /\ AtWork(actor) /\ NotOneself(actor, u) /\ person[u] \in {"on", "off"}
    /\ Ask(c, "delete", u, {}, {})

Activate(c, actor, u) ==
    AtWork(actor) /\ person[u] = "off" /\ Ask(c, "bring", u, {}, {})

\* restore finds the deleted too.
Restore(c, actor, u) ==
    AtWork(actor) /\ person[u] = "gone" /\ Ask(c, "bring", u, {}, {})

-----------------------------------------------------------------------------
CreateRole(c, r) == roleIs[r] = "none" /\ Ask(c, "create", r, {}, {})

ActivateRole(c, r) == roleIs[r] = "off" /\ Ask(c, "open", r, {}, {})

DeactivateRole(c, r) == roleIs[r] = "on" /\ Ask(c, "close", r, {}, {})

DeleteRole(c, r) ==
    roleIs[r] # "none" /\ Holders(r) = {} /\ Ask(c, "drop", r, {}, {})

-----------------------------------------------------------------------------
\* What the members lose with the rows that a deleted role takes along.
Taken(c, r) == IF staffCalls[c].overtaken THEN {} ELSE {h \in holds : h[2] = r}

\* A row that is not there to delete, or is there to insert, or a role that
\* is no more, and the call fails.
Writable(call) ==
    /\ call.del \subseteq holds /\ call.add \intersect holds = {}
    /\ \A h \in call.add : roleIs[h[2]] # "none"

\* How the member ends, by operation.
Ends == [hire |-> "on", deactivate |-> "off", delete |-> "gone", bring |-> "on"]

CommitPerson(c) ==
    LET call == staffCalls[c]
    IN  /\ call.op \in DOMAIN Ends \union {"assign"}
        /\ call.op = "hire" => person[call.on] = "none"
        /\ Writable(call)
        /\ person' = IF call.op = "assign" THEN person
                     ELSE [person EXCEPT ![call.on] = Ends[call.op]]
        /\ holds' = (holds \ call.del) \union call.add
        /\ together' = ((together \/ call.overtaken)
               /\ ~ \E u \in Staff : person'[u] = "on" /\ \E h \in holds' : h[1] = u)
        /\ Done(c)
        /\ UNCHANGED <<roleIs, stripped>>

CommitRole(c) ==
    LET call == staffCalls[c]
        r    == call.on
    IN  /\ \/ /\ \/ call.op = "create" /\ roleIs[r] = "none"
                 \/ call.op = "open" /\ roleIs[r] # "none"
              /\ roleIs' = [roleIs EXCEPT ![r] = "on"]
              /\ UNCHANGED <<holds, stripped>>
           \/ /\ call.op = "close" /\ roleIs[r] # "none"
              /\ roleIs' = [roleIs EXCEPT ![r] = "off"]
              /\ UNCHANGED <<holds, stripped>>
           \/ /\ call.op = "drop" /\ roleIs[r] # "none"
              /\ roleIs' = [roleIs EXCEPT ![r] = "none"]
              /\ holds' = {h \in holds : h[2] # r}
              /\ stripped' = stripped \union Taken(c, r)
        /\ together' = ((together \/ call.overtaken)
               /\ ~ \E u \in Staff : person[u] = "on" /\ \E h \in holds' : h[1] = u)
        /\ Done(c)
        /\ UNCHANGED person

\* A call is refused, or its transaction fails.
Fail(c) ==
    /\ staffCalls[c] # NothingToDo
    /\ staffCalls' = [staffCalls EXCEPT ![c] = NothingToDo]
    /\ UNCHANGED <<person, roleIs, holds, stripped, together>>

-----------------------------------------------------------------------------
StaffInit ==
    /\ \E first \in Staff, r \in Roles :
        /\ person = [u \in Staff |-> IF u = first THEN "on" ELSE "none"]
        /\ roleIs = [x \in Roles |-> IF x = r THEN "on" ELSE "none"]
        /\ holds = {<<first, r>>}
    /\ staffCalls = [c \in StaffCalls |-> NothingToDo]
    /\ stripped = {}
    /\ together = FALSE

StaffNext ==
    \E c \in StaffCalls :
        \/ CommitPerson(c) \/ CommitRole(c) \/ Fail(c)
        \/ \E r \in Roles : CreateRole(c, r) \/ ActivateRole(c, r) \/ DeactivateRole(c, r)
                         \/ DeleteRole(c, r)
        \/ \E u \in Staff, given \in SUBSET Roles : Hire(c, u, given)
        \/ \E actor \in Staff, u \in Staff :
            \/ \E given \in SUBSET Roles : Assign(c, actor, u, given)
            \/ Deactivate(c, actor, u) \/ Delete(c, actor, u)
            \/ Activate(c, actor, u) \/ Restore(c, actor, u)

-----------------------------------------------------------------------------
\* A company that manages its own staff is never left without somebody active
\* who holds a role: nobody can deactivate, delete or strip themselves, but
\* two can do it to each other at once.
SomeoneAtWork == (\E u \in Staff : AtWork(u)) \/ together

\* Nobody loses a role because it was deleted, unless it was given to them
\* while the call that deleted it was deciding.
NobodyStripped == stripped = {}

=============================================================================
