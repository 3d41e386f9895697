----------------------------- MODULE RowLocks ------------------------------
(***************************************************************************)
(* Transactions that take row locks one by one and keep them until they    *)
(* commit, as SELECT ... FOR UPDATE does.  A plan is the order in which a  *)
(* transaction asks for its rows; asking again for a row it has is free.   *)
(***************************************************************************)
EXTENDS Integers, Sequences

CONSTANTS Callers,  \* the transactions in progress
          Rows,     \* the rows they lock
          Plan      \* the rows each one asks for, in order

PlansAreOrders == Plan \in [Callers -> Seq(Rows)]

VARIABLE got   \* how much of its plan a caller has; one more once it committed

Init == got = [p \in Callers |-> 0]

Held(p) == IF got[p] <= Len(Plan[p]) THEN {Plan[p][i] : i \in 1 .. got[p]} ELSE {}

Asking(p) == got[p] < Len(Plan[p])

Wanted(p) == Plan[p][got[p] + 1]

WaitsFor(p, q) == p # q /\ Asking(p) /\ Wanted(p) \in Held(q)

\* Mutant: a plain SELECT.
LockBlind(p) ==
    /\ Asking(p)
    /\ got' = [got EXCEPT ![p] = @ + 1]

Lock(p) ==
    /\ Asking(p)
    /\ \A q \in Callers : ~WaitsFor(p, q)
    /\ got' = [got EXCEPT ![p] = @ + 1]

Commit(p) ==
    /\ got[p] = Len(Plan[p])
    /\ got' = [got EXCEPT ![p] = @ + 1]

Next == \E p \in Callers : Lock(p) \/ Commit(p)

Spec == Init /\ [][Next]_got

LiveSpec == Spec /\ \A p \in Callers : WF_got(Lock(p) \/ Commit(p))

-----------------------------------------------------------------------------
\* The type of got, and that a row has one owner.
TypeOK ==
    /\ got \in [Callers -> Nat]
    /\ \A p \in Callers : got[p] <= Len(Plan[p]) + 1
    /\ \A p, q \in Callers : p # q => Held(p) \cap Held(q) = {}

\* No group of transactions waits for itself: some member of every group waits
\* for nobody in it.
NoWaitCycle ==
    \A group \in SUBSET Callers :
        group # {} => \E p \in group : \A q \in group : ~WaitsFor(p, q)

\* Every transaction commits.
AllCommit == \A p \in Callers : <>(got[p] > Len(Plan[p]))

=============================================================================
