--------------------------- MODULE RowLocksProofs ---------------------------
(***************************************************************************)
(* Transactions whose plans ascend never wait for one another in a circle, *)
(* whatever their number and their rows.                                   *)
(***************************************************************************)
EXTENDS RowLocks, WellFoundedInduction, TLAPS

\* A plan ascends when each row is one that the plan asked for before or ranks
\* above all of them.
Ascending(rank) ==
    \A p \in Callers : \A j \in 1 .. Len(Plan[p]) :
        \/ \E i \in 1 .. (j - 1) : Plan[p][i] = Plan[p][j]
        \/ \A i \in 1 .. (j - 1) : rank[Plan[p][i]] < rank[Plan[p][j]]

\* Every caller holds a prefix of its plan and no row has two owners: what
\* Lock has to check and Commit cannot break.
LEMMA OwnersInit == PlansAreOrders /\ Init => TypeOK
<1>1. SUFFICES ASSUME PlansAreOrders, Init PROVE TypeOK
  OBVIOUS
<1>2. \A p \in Callers : got[p] = 0 /\ Len(Plan[p]) \in Nat
  <2> TAKE p \in Callers
  <2>1. Plan[p] \in Seq(Rows)
    BY <1>1 DEF PlansAreOrders
  <2> QED
    BY <1>1, <2>1 DEF Init
<1>3. \A p \in Callers : Held(p) = {}
  <2> TAKE p \in Callers
  <2>1. 1 .. got[p] = {}
    BY <1>2
  <2> QED
    BY <2>1 DEF Held
<1> QED
  BY <1>1, <1>2, <1>3 DEF Init, TypeOK

\* No step of the locks gives a row two owners.
LEMMA OwnersStep == PlansAreOrders /\ TypeOK /\ [Next]_got => TypeOK'
<1> SUFFICES ASSUME PlansAreOrders, TypeOK, [Next]_got PROVE TypeOK'
  OBVIOUS
<1>1. CASE UNCHANGED got
  BY <1>1 DEF TypeOK, Held
<1>2. ASSUME NEW p \in Callers, Lock(p) \/ Commit(p) PROVE TypeOK'
  <2>1. /\ got' = [got EXCEPT ![p] = @ + 1]
        /\ Len(Plan[p]) \in Nat
        /\ got[p] \in Nat
        /\ got[p] <= Len(Plan[p])
    BY <1>2 DEF Lock, Commit, Asking, TypeOK, PlansAreOrders
  <2>2. \A q \in Callers : q # p => Held(q)' = Held(q)
    BY <2>1 DEF Held, TypeOK
  <2>3. CASE Lock(p)
    <3>1. Held(p)' = Held(p) \cup {Wanted(p)}
      <4>1. got'[p] = got[p] + 1 /\ got[p] + 1 <= Len(Plan[p])
        BY <2>1, <2>3 DEF Lock, Asking, TypeOK
      <4>2. 1 .. (got[p] + 1) = (1 .. got[p]) \cup {got[p] + 1}
        BY <2>1
      <4>3. Held(p)' = {Plan[p][i] : i \in 1 .. (got[p] + 1)}
        BY <4>1 DEF Held
      <4> QED
        BY <2>1, <4>2, <4>3 DEF Held, Wanted
    <3>2. \A q \in Callers : q # p => Wanted(p) \notin Held(q)
      BY <2>3 DEF Lock, WaitsFor
    <3>3. \A q \in Callers : q # p => Held(q) \cap Held(p)' = {} /\ Held(p)' \cap Held(q) = {}
      BY <3>1, <3>2 DEF TypeOK
    <3>4. \A q, r \in Callers : q # r => Held(q)' \cap Held(r)' = {}
      BY <2>2, <3>3 DEF TypeOK
    <3>5. got' \in [Callers -> Nat] /\ \A q \in Callers : got'[q] <= Len(Plan[q]) + 1
      BY <2>1 DEF TypeOK
    <3> QED
      BY <3>4, <3>5 DEF TypeOK
  <2>4. CASE Commit(p)
    <3>1. Held(p)' = {}
      BY <2>1, <2>4 DEF Commit, Held, TypeOK
    <3>2. \A q, r \in Callers : q # r => Held(q)' \cap Held(r)' = {}
      BY <2>2, <3>1 DEF TypeOK
    <3>3. got' \in [Callers -> Nat] /\ \A q \in Callers : got'[q] <= Len(Plan[q]) + 1
      BY <2>1 DEF TypeOK
    <3> QED
      BY <3>2, <3>3 DEF TypeOK
  <2> QED
    BY <1>2, <2>3, <2>4
<1> QED
  BY <1>1, <1>2 DEF Next

\* A non-empty set of naturals has a least element.
LEMMA Least ==
    ASSUME NEW S \in SUBSET Nat, S # {}
    PROVE  \E m \in S : \A n \in S : m <= n
<1>1. PICK m \in S : \A n \in S : ~(<<n, m>> \in OpToRel(<, Nat))
  BY WFMin, NatLessThanWellFounded
<1>2. ASSUME NEW n \in S, n < m PROVE FALSE
  <2>1. <<n, m>> \in Nat \X Nat
    OBVIOUS
  <2>2. <<n, m>>[1] < <<n, m>>[2]
    BY <1>2
  <2>3. <<n, m>> \in OpToRel(<, Nat)
    BY <2>1, <2>2 DEF OpToRel
  <2> QED
    BY <1>1, <2>3
<1> QED
  BY <1>2

\* Of a group in which everyone waits, the one that wants the row of the highest
\* rank waits for an owner that wants a higher one: there is no such group.
LEMMA AscentBreaksCycles ==
    ASSUME NEW Top \in Nat, NEW rank \in [Rows -> 0 .. Top],
           PlansAreOrders, Ascending(rank), TypeOK
    PROVE  NoWaitCycle
<1> SUFFICES ASSUME NEW group \in SUBSET Callers, group # {},
                    \A p \in group : \E q \in group : WaitsFor(p, q)
             PROVE  FALSE
  BY DEF NoWaitCycle
<1> DEFINE depth(p) == Top - rank[Wanted(p)]
<1>1. ASSUME NEW p \in group
      PROVE  /\ got[p] \in Nat
             /\ Len(Plan[p]) \in Nat
             /\ got[p] + 1 <= Len(Plan[p])
             /\ (got[p] + 1) - 1 = got[p]
             /\ got[p] + 1 \in 1 .. Len(Plan[p])
             /\ Wanted(p) \in Rows
             /\ Plan[p] \in Seq(Rows)
             /\ depth(p) \in Nat
  <2>1. /\ got[p] \in Nat
        /\ Plan[p] \in Seq(Rows)
        /\ got[p] < Len(Plan[p])
    BY DEF WaitsFor, Asking, TypeOK, PlansAreOrders
  <2>2. /\ got[p] + 1 \in 1 .. Len(Plan[p])
        /\ Len(Plan[p]) \in Nat
        /\ got[p] + 1 <= Len(Plan[p])
        /\ (got[p] + 1) - 1 = got[p]
    BY <2>1
  <2>3. Wanted(p) \in Rows
    BY <2>1, <2>2 DEF Wanted
  <2> QED
    BY <2>1, <2>2, <2>3
<1>2. PICK p \in group : \A q \in group : depth(p) <= depth(q)
  <2> DEFINE S == {depth(q) : q \in group}
  <2>1. S \in SUBSET Nat /\ S # {}
    BY <1>1
  <2>2. PICK m \in S : \A n \in S : m <= n
    BY <2>1, Least
  <2>3. PICK p \in group : depth(p) = m
    BY <2>2
  <2>4. \A q \in group : depth(p) <= depth(q)
    BY <2>2, <2>3
  <2> QED
    BY <2>4
<1>3. PICK q \in group : WaitsFor(p, q)
  OBVIOUS
<1>4. PICK r \in group : WaitsFor(q, r)
  OBVIOUS
<1>5. /\ got[q] \in Nat
      /\ Len(Plan[q]) \in Nat
      /\ got[q] + 1 <= Len(Plan[q])
      /\ (got[q] + 1) - 1 = got[q]
  BY <1>1
<1>6. Held(q) = {Plan[q][i] : i \in 1 .. got[q]}
  BY <1>5 DEF Held
<1>7. PICK i \in 1 .. got[q] : Plan[q][i] = Wanted(p)
  BY <1>3, <1>6 DEF WaitsFor
<1>8. rank[Wanted(p)] < rank[Wanted(q)]
  <2>1. Wanted(q) \notin Held(q)
    BY <1>4 DEF WaitsFor, TypeOK
  <2>2. \A k \in 1 .. got[q] : Plan[q][k] # Plan[q][got[q] + 1]
    BY <1>6, <2>1 DEF Wanted
  <2>3. got[q] + 1 \in 1 .. Len(Plan[q])
    BY <1>5
  <2>4. \/ \E k \in 1 .. got[q] : Plan[q][k] = Plan[q][got[q] + 1]
        \/ \A k \in 1 .. got[q] : rank[Plan[q][k]] < rank[Plan[q][got[q] + 1]]
    BY <1>5, <2>3 DEF Ascending
  <2> QED
    BY <1>7, <2>2, <2>4 DEF Wanted
<1>9. depth(p) <= depth(q)
  BY <1>2
<1> QED
  BY <1>1, <1>8, <1>9

\* Every row has one owner, whatever the plans.
THEOREM Owners ==
    ASSUME PlansAreOrders
    PROVE  Spec => []TypeOK
<1>1. Init => TypeOK
  BY OwnersInit
<1>2. TypeOK /\ [Next]_got => TypeOK'
  BY OwnersStep
<1> QED
  BY <1>1, <1>2, PTL DEF Spec

\* Plans that ascend, however many and over however many rows, never end in a
\* circle of transactions that wait for one another.
THEOREM NoCircle ==
    ASSUME NEW Top \in Nat, NEW rank \in [Rows -> 0 .. Top],
           PlansAreOrders, Ascending(rank)
    PROVE  Spec => []NoWaitCycle
<1>1. TypeOK => NoWaitCycle
  BY AscentBreaksCycles
<1> QED
  BY <1>1, Owners, PTL

=============================================================================
