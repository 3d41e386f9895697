------------------------------- MODULE Branches -------------------------------
(***************************************************************************)
(* The branches and the cash points of a company, and the limit of active  *)
(* branches: OrganizationService, PlanGuard.exigir_limite and whoever      *)
(* moves the limit.                                                        *)
(*                                                                         *)
(* A call reads, decides, and commits later what it changed: SQLAlchemy    *)
(* writes only the fields that differ from the row it had read, so a call  *)
(* is a set `writes' of <<row, field, value>>.  Only the calls that add an *)
(* active branch or change the plan lock the row of the company.           *)
(*                                                                         *)
(* Cities, suppliers, codes and names are left out: they are checked       *)
(* against rows of their own and nothing here depends on them.             *)
(***************************************************************************)
EXTENDS Naturals, FiniteSets

CONSTANTS BranchIds, CashIds, CallIds, NoCall, NoLimit,
          MaxLimit      \* limits tried: 0..MaxLimit

VARIABLES row,          \* branches and cash points; a branch is `at' itself
          planLimit,    \* max_active_branches in the plan of the company
          override,     \* its row in tenant_limits, or NoLimit
          lock,         \* the call that holds the row of the company
          calls,        \* the call in progress of each request
          excused,      \* the company went over its limit by an admitted way
          astray        \* cash points left working in a closed branch by one

branchVars == <<row, planLimit, override, lock, calls, excused, astray>>

Idle == [op |-> "none", at |-> "idle", writes |-> {}, value |-> 0,
         rowsMoved |-> FALSE, limitMoved |-> FALSE]

Live(i) == row[i].there /\ ~ row[i].deleted

IsOpen(rows, b) == rows[b].there /\ rows[b].active /\ ~ rows[b].deleted

\* SaasRepository.count_active_branches
Used(rows) == Cardinality({b \in BranchIds : IsOpen(rows, b)})

InForce(own, plan) == IF own # NoLimit THEN own ELSE plan

Limit == InForce(override, planLimit)

CashAt(b) == {k \in CashIds : row[k].there /\ row[k].at = b}

\* What setting fields of a row to `want' changes of what was read.
Net(i, want) == {<<i, f, want[f]>> : f \in {g \in DOMAIN want : row[i][g] # want[g]}}

Applied(writes) ==
    [i \in BranchIds \union CashIds |->
        [f \in DOMAIN row[i] |->
            LET new == {w[3] : w \in {x \in writes : x[1] = i /\ x[2] = f}}
            IN  IF new = {} THEN row[i][f] ELSE CHOOSE v \in new : TRUE]]

-----------------------------------------------------------------------------
\* The call has read what it needs; one that found nothing to change is over.
Begin(c, op, at, writes, v) ==
    /\ calls[c] = Idle
    /\ writes = {} => op \notin {"rows", "move", "open"}
    /\ calls' = [calls EXCEPT ![c] = [Idle EXCEPT
           !.op = op, !.at = at, !.writes = writes, !.value = v]]
    /\ UNCHANGED <<row, planLimit, override, lock, excused, astray>>

\* create_branch asks for the capacity first; value is the limit of the plan
\* that get_access_context may have left in the session.
CreateBranch(c) == Begin(c, "create", "waits", {}, planLimit)

\* set_branch_active(True): capacity only if the branch it read was closed.
ActivateBranch(c, b) ==
    /\ row[b].there
    /\ Begin(c, "open", IF IsOpen(row, b) THEN "ready" ELSE "waits",
             Net(b, [active |-> TRUE, deleted |-> FALSE])
                 \union UNION {Net(k, [active |-> TRUE]) : k \in CashAt(b)},
             planLimit)

DeactivateBranch(c, b) ==
    /\ row[b].there
    /\ Begin(c, "rows", "ready",
             UNION {Net(i, [active |-> FALSE]) : i \in {b} \union CashAt(b)}, 0)

DeleteBranch(c, b) ==
    /\ Live(b)
    /\ Begin(c, "rows", "ready",
             Net(b, [active |-> FALSE, deleted |-> TRUE])
                 \union UNION {Net(k, [active |-> FALSE]) : k \in CashAt(b)}, 0)

-----------------------------------------------------------------------------
CreateCashPoint(c, k, b) ==
    /\ ~ row[k].there /\ IsOpen(row, b)
    /\ Begin(c, "rows", "ready",
             Net(k, [there |-> TRUE, active |-> TRUE, at |-> b]), 0)

\* The branch a cash point moves to must exist, not be active.
UpdateCashPoint(c, k, b) ==
    /\ row[k].there /\ Live(k) /\ Live(b) /\ row[k].at # b
    /\ Begin(c, "move", "ready", Net(k, [at |-> b]), 0)

ActivateCashPoint(c, k) ==
    /\ row[k].there /\ IsOpen(row, row[k].at)
    /\ Begin(c, "rows", "ready", Net(k, [active |-> TRUE, deleted |-> FALSE]), 0)

DeactivateCashPoint(c, k) ==
    /\ row[k].there
    /\ Begin(c, "rows", "ready", Net(k, [active |-> FALSE]), 0)

DeleteCashPoint(c, k) ==
    /\ Live(k)
    /\ Begin(c, "rows", "ready", Net(k, [active |-> FALSE, deleted |-> TRUE]), 0)

-----------------------------------------------------------------------------
\* fijar_limite: the usage is read without the lock of the company.
SetLimit(c, v) == v >= Used(row) /\ Begin(c, "setLimit", "ready", {}, v)

ChangePlan(c, v) == v > 0 /\ Begin(c, "changePlan", "waits", {}, v)

-----------------------------------------------------------------------------
\* exigir_limite: the override, or the limit of the plan: the one the session
\* still has from the start of the request, unless it was collected.
HasRoom(call) ==
    \E l \in IF override = NoLimit THEN {planLimit, call.value} ELSE {override} :
        Used(row) < l

\* Mutant: the row of the company is read without FOR UPDATE.
AvailableAlways == TRUE

\* bloquear_empresa waits for whoever has the row of the company.
Available == lock = NoCall

\* bloquear_empresa, and what the call checks once it holds the company.
Enter(c) ==
    LET call  == calls[c]
        ready == [call EXCEPT !.at = "ready"]
    IN  /\ call.at = "waits" /\ Available
        /\ lock' = c
        /\ \/ /\ call.op = "create" /\ HasRoom(call)
              /\ \E b \in BranchIds :
                    /\ ~ row[b].there
                    /\ calls' = [calls EXCEPT ![c] = [ready EXCEPT
                           !.writes = Net(b, [there |-> TRUE, active |-> TRUE])]]
           \/ /\ call.op = "open" /\ HasRoom(call)
              /\ calls' = [calls EXCEPT ![c] = ready]
           \/ /\ call.op = "changePlan" /\ Used(row) <= call.value
              /\ calls' = [calls EXCEPT ![c] = ready]
        /\ UNCHANGED <<row, planLimit, override, excused, astray>>

\* The call is refused, or its transaction fails.
Abandon(c) ==
    /\ calls[c] # Idle
    /\ calls' = [calls EXCEPT ![c] = Idle]
    /\ lock' = IF lock = c THEN NoCall ELSE lock
    /\ UNCHANGED <<row, planLimit, override, excused, astray>>

-----------------------------------------------------------------------------
\* What the calls in progress have been overtaken by.
Overtaken(c, rows, limit) ==
    [x \in CallIds |->
        IF x = c \/ calls[x] = Idle THEN IF x = c THEN Idle ELSE calls[x]
        ELSE [calls[x] EXCEPT
                !.rowsMoved  = @ \/ (rows /\ calls[x].op \notin {"create", "changePlan"}),
                !.limitMoved = @ \/ (limit /\ calls[x].op \in {"create", "open", "setLimit"})]]

Astray(rows) ==
    {k \in CashIds : IsOpen(rows, k) /\ ~ IsOpen(rows, rows[k].at)}

Over(rows, limit) == Used(rows) > limit

\* A call that wrote rows commits.
CommitRows(c) ==
    LET call == calls[c]
    IN  /\ call.at = "ready" /\ call.op \in {"rows", "move", "open", "create"}
        /\ row' = Applied(call.writes)
        /\ calls' = Overtaken(c, TRUE, FALSE)
        /\ lock' = IF lock = c THEN NoCall ELSE lock
        /\ excused' = (Over(row', Limit) /\ (excused \/ call.limitMoved))
        /\ astray' = Astray(row') \intersect
               (IF call.rowsMoved \/ call.op = "move" THEN CashIds ELSE astray)
        /\ UNCHANGED <<planLimit, override>>

\* Another fijar_limite that committed since left an active row: the unique
\* index refuses this one.
CommitLimit(c) ==
    LET call == calls[c]
    IN  /\ call.at = "ready" /\ call.op = "setLimit"
        /\ call.limitMoved => override = NoLimit
        /\ override' = call.value
        /\ calls' = Overtaken(c, FALSE, TRUE)
        /\ excused' = (Over(row, call.value) /\ (excused \/ call.rowsMoved))
        /\ UNCHANGED <<row, planLimit, lock, astray>>

CommitPlan(c) ==
    LET call == calls[c]
    IN  /\ call.at = "ready" /\ call.op = "changePlan"
        /\ planLimit' = call.value
        /\ calls' = Overtaken(c, FALSE, TRUE)
        /\ lock' = IF lock = c THEN NoCall ELSE lock
        /\ excused' = (Over(row, InForce(override, call.value)) /\ excused)
        /\ UNCHANGED <<row, override, astray>>

\* PlanService.actualizar lowers the limit of everybody and reports who is over.
UpdatePlan(v) ==
    /\ v > 0 /\ planLimit # v
    /\ planLimit' = v
    /\ calls' = Overtaken(NoCall, FALSE, TRUE)
    /\ excused' = Over(row, InForce(override, v))
    /\ UNCHANGED <<row, override, lock, astray>>

\* quitar_limite, or the day the limit of the company expires.
DropLimit ==
    /\ override # NoLimit
    /\ override' = NoLimit
    /\ calls' = Overtaken(NoCall, FALSE, TRUE)
    /\ excused' = Over(row, planLimit)
    /\ UNCHANGED <<row, planLimit, lock, astray>>

-----------------------------------------------------------------------------
BranchInit ==
    /\ \E first \in BranchIds :
           row = [i \in BranchIds \union CashIds |->
                     [there |-> i = first, active |-> i = first, deleted |-> FALSE,
                      at |-> IF i \in BranchIds THEN i ELSE first]]
    /\ planLimit \in 1..MaxLimit
    /\ override = NoLimit
    /\ lock = NoCall
    /\ calls = [c \in CallIds |-> Idle]
    /\ excused = FALSE
    /\ astray = {}

BranchNext ==
    \/ \E c \in CallIds :
        \/ CreateBranch(c) \/ Enter(c) \/ Abandon(c)
        \/ CommitRows(c) \/ CommitLimit(c) \/ CommitPlan(c)
        \/ \E v \in 0..MaxLimit : SetLimit(c, v) \/ ChangePlan(c, v)
        \/ \E b \in BranchIds :
            \/ ActivateBranch(c, b) \/ DeactivateBranch(c, b) \/ DeleteBranch(c, b)
            \/ \E k \in CashIds : CreateCashPoint(c, k, b) \/ UpdateCashPoint(c, k, b)
        \/ \E k \in CashIds :
            ActivateCashPoint(c, k) \/ DeactivateCashPoint(c, k) \/ DeleteCashPoint(c, k)
    \/ \E v \in 1..MaxLimit : UpdatePlan(v)
    \/ DropLimit

BranchSpec == BranchInit /\ [][BranchNext]_branchVars

-----------------------------------------------------------------------------
\* A company has no more active branches than its limit, however its calls
\* overlap, unless the limit itself was lowered under them: by the plan or by
\* the end of its own limit, which only report it, or by a change of the limit
\* that overlapped the call that used the last place.
WithinLimit == Over(row, Limit) => excused

\* A cash point works only where its branch does, unless it was moved to a
\* closed one or the branch closed while the call was deciding.
CashWhereOpen == Astray(row) \subseteq astray

=============================================================================
