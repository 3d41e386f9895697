----------------------------- MODULE StockLocks -----------------------------
(***************************************************************************)
(* The order in which the operations of a branch lock rows.                *)
(* StockService.change locks the variant, then its stock row, and every    *)
(* caller goes through its lines in ascending variant order.               *)
(* OfflineSaleService.confirmar first locks the stock rows of the whole    *)
(* sale, in the order of the payload, and then calls change on each line.  *)
(***************************************************************************)
EXTENDS Integers, Sequences

CONSTANTS Services,  \* the operations that only use StockService
          Offline,   \* the offline sales being confirmed
          Documents, \* orders, reservations, cash points and returns
          Variants,  \* how many variants there are, numbered in uuid order
          Document,  \* the document an operation locks first
          Lines      \* its variants in the order it takes them

ASSUME StockLocksAssumption ==
    /\ Services \cap Offline = {}
    /\ Variants \in Nat
    /\ Document \in [Services -> Documents]
    /\ Lines \in [Services \cup Offline -> Seq(1 .. Variants)]

\* The callers of StockService sort their lines by variant, one line or several
\* of the same variant.
ASSUME LinesSorted ==
    \A p \in Services : \A i, j \in DOMAIN Lines[p] : i < j => Lines[p][i] <= Lines[p][j]

\* StockService.locked_stock for each line: the variant, then its stock row.
LockedStock(lines) ==
    [k \in 1 .. 2 * Len(lines) |->
        <<IF k % 2 = 1 THEN "variant" ELSE "stock", lines[(k + 1) \div 2]>>]

\* Mutant: one of the operations goes through its lines backwards.
ServicePlanUnsorted(p) ==
    LET one == CHOOSE q \in Services : Len(Lines[q]) > 1
        n == Len(Lines[p])
        lines == IF p = one THEN [i \in 1 .. n |-> Lines[p][n + 1 - i]] ELSE Lines[p]
    IN  <<<<"document", Document[p]>>>> \o LockedStock(lines)

ServicePlan(p) == <<<<"document", Document[p]>>>> \o LockedStock(Lines[p])

\* The availability loop of confirmar, then its calls of change.
OfflinePlan(p) ==
    [i \in DOMAIN Lines[p] |-> <<"stock", Lines[p][i]>>] \o LockedStock(Lines[p])

Rows == ({"document"} \X Documents) \cup ({"variant", "stock"} \X (1 .. Variants))

Plan == [p \in Services \cup Offline |->
            IF p \in Offline THEN OfflinePlan(p) ELSE ServicePlan(p)]

VARIABLE got

Locks == INSTANCE RowLocks WITH Callers <- Services \cup Offline

Spec == Locks!Spec

LiveSpec == Locks!LiveSpec

TypeOK == Locks!TypeOK

\* All callers share the lock order, so they never wait for one another in a
\* circle (docstring of StockService).
NoWaitCycle == Locks!NoWaitCycle

\* Every sale, release and adjustment gets its rows and commits.
AllCommit == Locks!AllCommit

=============================================================================
