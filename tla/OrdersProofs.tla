---------------------------- MODULE OrdersProofs ----------------------------
(***************************************************************************)
(* Proofs about Orders, for every set of orders, basket, supply and        *)
(* ceiling.                                                                *)
(***************************************************************************)
EXTENDS Orders, Sums

\* A basket that fits leaves levels between zero and the ceiling, taken or put.
LEMMA LevelsKept ==
    ASSUME NEW level \in Levels, NEW basket \in Baskets
    PROVE  /\ CanTake(level, basket) => Take(level, basket) \in Levels
           /\ CanPut(level, basket) => Put(level, basket) \in Levels
BY MaxStockAssumption DEF Levels, Baskets, CanTake, Take, CanPut, Put

\* The first state is well typed.
LEMMA TypeInit == Init => TypeOK
<1> SUFFICES ASSUME Init PROVE TypeOK
  OBVIOUS
<1>1. stock \in Levels /\ paid \subseteq Orders /\ linked \subseteq Orders /\ cards \in BOOLEAN
  BY OrdersAssumption DEF Init
<1>2. status \in [Orders -> Statuses]
  BY DEF Init, Statuses
<1>3. method \in [Orders -> {"none", "stripe", "manual", "offline"}]
  BY DEF Init
<1>4. session \in [Orders -> {"none", "open", "complete", "expired"}]
  BY DEF Init
<1>5. events \subseteq Orders \X EventTypes
  BY DEF Init
<1>6. announced \in [Orders -> Nat] /\ adjusted \in [Variants -> Int]
  BY DEF Init
<1> QED
  BY <1>1, <1>2, <1>3, <1>4, <1>5, <1>6 DEF TypeOK

\* Every handler keeps the types: no counter leaves its column and no handler
\* invents a status.
LEMMA TypeStep == TypeOK /\ [Next]_vars => TypeOK'
<1>0. SUFFICES ASSUME TypeOK, Next PROVE TypeOK'
  BY DEF TypeOK, vars
<1>1. ASSUME NEW o \in Orders, NEW m \in {"stripe", "manual"}, NEW free \in BOOLEAN,
             CreateOrder(o, m, free)
      PROVE  TypeOK'
  BY <1>0, <1>1, LevelsKept, OrdersAssumption DEF TypeOK, CreateOrder, Statuses
<1>2. ASSUME NEW o \in Orders, PosSale(o) PROVE TypeOK'
  BY <1>0, <1>2, LevelsKept, OrdersAssumption DEF TypeOK, PosSale, Statuses
<1>3. ASSUME NEW o \in Orders, Checkout(o) \/ CheckoutLost(o) PROVE TypeOK'
  BY <1>0, <1>3 DEF TypeOK, Checkout, CheckoutLost, SessionForKey
<1>4. ASSUME NEW o \in Orders, Reconcile(o) PROVE TypeOK'
  BY <1>0, <1>4, LevelsKept, OrdersAssumption
     DEF TypeOK, Reconcile, Confirm, Release, Statuses
<1>5. ASSUME NEW o \in Orders, Cancel(o) PROVE TypeOK'
  BY <1>0, <1>5, LevelsKept, OrdersAssumption DEF TypeOK, Cancel, Release, Statuses
<1>6. ASSUME NEW o \in Orders, CancelLost(o) \/ StripePays(o) \/ StripeExpires(o)
      PROVE  TypeOK'
  BY <1>0, <1>6 DEF TypeOK, CancelLost, StripePays, StripeExpires
<1>7. ASSUME NEW o \in Orders, ManualPayment(o) PROVE TypeOK'
  BY <1>0, <1>7 DEF TypeOK, ManualPayment, Statuses
<1>8. ASSUME NEW o \in Orders, NEW next \in Statuses, Tracking(o, next) PROVE TypeOK'
  BY <1>0, <1>8 DEF TypeOK, Tracking
<1>9. ASSUME NEW o \in Orders, NEW type \in EventTypes, PlatformWebhook(o, type)
      PROVE  TypeOK'
  BY <1>0, <1>9, LevelsKept, OrdersAssumption
     DEF TypeOK, PlatformWebhook, Confirm, Release, Statuses
<1>10. ASSUME NEW o \in Orders, NEW type \in EventTypes, ConnectWebhook(o, type)
       PROVE  TypeOK'
  BY <1>0, <1>10 DEF TypeOK, ConnectWebhook, Confirm, Statuses
<1>11. CASE AccountUpdated
  BY <1>0, <1>11 DEF TypeOK, AccountUpdated
<1>12. ASSUME NEW v \in Variants, NEW level \in AdjustTo, Adjust(v, level)
       PROVE  TypeOK'
  BY <1>0, <1>12, MaxStockAssumption, OrdersAssumption DEF TypeOK, Adjust, Levels
<1> QED
  BY <1>0, <1>1, <1>2, <1>3, <1>4, <1>5, <1>6, <1>7, <1>8, <1>9, <1>10, <1>11, <1>12
     DEF Next

\* In every run no stock counter leaves its column and no handler invents a status.
THEOREM TypeCorrect == Spec => []TypeOK
BY TypeInit, TypeStep, PTL DEF Spec

-----------------------------------------------------------------------------
\* What ties an order to its session.  The session is reachable for the customer
\* only while the order is linked to it, and an order leaves pending_payment only
\* with its session complete or expired.
SessionTie(o) ==
    /\ session[o] # "none" => method[o] = "stripe" /\ status[o] # "none"
    /\ o \in linked => session[o] # "none"
    /\ session[o] = "complete" => o \in linked /\ status[o] \notin Released
    /\ o \in linked /\ session[o] = "open" => status[o] = "pending_payment"
    /\ o \in linked /\ status[o] \in Released => session[o] = "expired"

\* What ties the payment of an order to its status and to the outbox.
PaymentTie(o) ==
    /\ o \in paid <=> status[o] \in {"paid", "processing", "shipped", "delivered"}
    /\ announced[o] \in {0, 1}
    /\ announced[o] = 1 => o \in paid
    /\ session[o] = "complete" /\ o \in paid => announced[o] = 1

IInv == TypeOK /\ \A o \in Orders : SessionTie(o) /\ PaymentTie(o)

\* Every handler keeps the ties.
LEMMA TiesStep == IInv /\ [Next]_vars => IInv'
<1>0. SUFFICES ASSUME IInv, Next PROVE \A q \in Orders : SessionTie(q)' /\ PaymentTie(q)'
  <2>1. TypeOK /\ [Next]_vars => TypeOK'
    BY TypeStep
  <2>2. IInv /\ UNCHANGED vars => IInv'
    BY DEF IInv, TypeOK, SessionTie, PaymentTie, vars, Levels
  <2> QED
    BY <2>1, <2>2 DEF IInv
<1> USE DEF IInv, TypeOK, SessionTie, PaymentTie, Released
<1>1. ASSUME NEW o \in Orders, NEW m \in {"stripe", "manual"}, NEW free \in BOOLEAN,
             CreateOrder(o, m, free)
      PROVE  \A q \in Orders : SessionTie(q)' /\ PaymentTie(q)'
  BY <1>0, <1>1 DEF CreateOrder
<1>2. ASSUME NEW o \in Orders, PosSale(o)
      PROVE  \A q \in Orders : SessionTie(q)' /\ PaymentTie(q)'
  BY <1>0, <1>2 DEF PosSale
<1>3. ASSUME NEW o \in Orders, Checkout(o) \/ CheckoutLost(o)
      PROVE  \A q \in Orders : SessionTie(q)' /\ PaymentTie(q)'
  BY <1>0, <1>3 DEF Checkout, CheckoutLost, AwaitsStripe, SessionForKey
<1>4. ASSUME NEW o \in Orders, Reconcile(o)
      PROVE  \A q \in Orders : SessionTie(q)' /\ PaymentTie(q)'
  BY <1>0, <1>4 DEF Reconcile, AwaitsStripe, Confirm, Release
<1>5. ASSUME NEW o \in Orders, Cancel(o)
      PROVE  \A q \in Orders : SessionTie(q)' /\ PaymentTie(q)'
  BY <1>0, <1>5 DEF Cancel, Release
<1>6. ASSUME NEW o \in Orders, CancelLost(o) \/ StripePays(o) \/ StripeExpires(o)
      PROVE  \A q \in Orders : SessionTie(q)' /\ PaymentTie(q)'
  BY <1>0, <1>6 DEF CancelLost, StripePays, StripeExpires
<1>7. ASSUME NEW o \in Orders, ManualPayment(o)
      PROVE  \A q \in Orders : SessionTie(q)' /\ PaymentTie(q)'
  BY <1>0, <1>7 DEF ManualPayment
<1>8. ASSUME NEW o \in Orders, NEW next \in Statuses, Tracking(o, next)
      PROVE  \A q \in Orders : SessionTie(q)' /\ PaymentTie(q)'
  BY <1>0, <1>8 DEF Tracking, TRANSITIONS
<1>9. ASSUME NEW o \in Orders, NEW type \in EventTypes, PlatformWebhook(o, type)
      PROVE  \A q \in Orders : SessionTie(q)' /\ PaymentTie(q)'
  BY <1>0, <1>9 DEF PlatformWebhook, EventTypes, Sent, Confirm, Release
<1>10. ASSUME NEW o \in Orders, NEW type \in EventTypes, ConnectWebhook(o, type)
       PROVE  \A q \in Orders : SessionTie(q)' /\ PaymentTie(q)'
  BY <1>0, <1>10 DEF ConnectWebhook, EventTypes, Sent, Confirm
<1>11. ASSUME AccountUpdated \/ \E v \in Variants, level \in AdjustTo : Adjust(v, level)
       PROVE  \A q \in Orders : SessionTie(q)' /\ PaymentTie(q)'
  BY <1>0, <1>11 DEF AccountUpdated, Adjust
<1> QED
  BY <1>0, <1>1, <1>2, <1>3, <1>4, <1>5, <1>6, <1>7, <1>8, <1>9, <1>10, <1>11 DEF Next

\* The strengthening holds in every run.
LEMMA Ties == Spec => []IInv
<1>1. Init => IInv
  <2>1. Init => TypeOK
    BY TypeInit
  <2>2. Init => \A o \in Orders : SessionTie(o) /\ PaymentTie(o)
    BY OrdersAssumption DEF Init, SessionTie, PaymentTie, Released
  <2> QED
    BY <2>1, <2>2 DEF IInv
<1> QED
  BY <1>1, TiesStep, PTL DEF Spec

\* No order ever has its units back on the shelf and a session behind it that
\* was paid or that the customer can still pay.
THEOREM NeverChargedOnceReleased == Spec => []ReleasedNeverCharged
<1>1. IInv => ReleasedNeverCharged
  BY DEF IInv, SessionTie, ReleasedNeverCharged
<1> QED
  BY <1>1, Ties, PTL

\* order.paid is published once per paid card or counter order and never for
\* another one.
THEOREM OneAnnouncement == Spec => []AnnouncedOnce
<1>1. IInv => AnnouncedOnce
  BY DEF IInv, PaymentTie, AnnouncedOnce
<1> QED
  BY <1>1, Ties, PTL

-----------------------------------------------------------------------------
\* An order that takes its basket off the shelf, or puts it back, moves the
\* units that the orders hold by as much.
LEMMA UnitsMove ==
    ASSUME NEW v \in Variants, NEW held \in SUBSET Orders
    PROVE  /\ Units(v, held) \in Int
           /\ \A o \in Orders :
                /\ Basket[o][v] \in Int
                /\ o \notin held => Units(v, held \cup {o}) = Basket[o][v] + Units(v, held)
                /\ o \in held => Units(v, held) = Basket[o][v] + Units(v, held \ {o})
<1> DEFINE units == [q \in Orders |-> Basket[q][v]]
<1>1. units \in [Orders -> Int] /\ \A q \in Orders : units[q] = Basket[q][v]
  BY OrdersAssumption, MaxStockAssumption DEF Baskets
<1> HIDE DEF units
<1>2. \A set : Units(v, set) = SumFunctionOnSet(units, set)
  BY DEF Units, units
<1> QED
  BY <1>1, <1>2, SumOfPart, OrdersAssumption

\* What a step does to the shelf, to the orders that hold units and to the
\* clerk's account.
Accounted ==
    \/ UNCHANGED <<stock, Holding, adjusted>>
    \/ \E o \in Orders :
         \/ o \notin Holding /\ Holding' = Holding \cup {o} /\ stock' = Take(stock, Basket[o])
         \/ o \in Holding /\ Holding' = Holding \ {o} /\ stock' = Put(stock, Basket[o])
       /\ UNCHANGED adjusted
    \/ \E v \in Variants, level \in AdjustTo : Adjust(v, level) /\ UNCHANGED Holding

\* Every step does one of these.
LEMMA StepAccounted == TypeOK /\ [Next]_vars => Accounted
<1>0. SUFFICES ASSUME TypeOK, Next PROVE Accounted
  BY DEF Accounted, Holding, vars
<1> USE DEF TypeOK, Holding, Released
<1>1. ASSUME NEW o \in Orders, NEW to \in Statuses \ {"none", "cancelled", "expired"},
             status[o] = "none", stock' = Take(stock, Basket[o]),
             status' = [status EXCEPT ![o] = to], UNCHANGED adjusted
      PROVE  Accounted
  <2>1. o \notin Holding /\ Holding' = Holding \cup {o}
    BY <1>0, <1>1
  <2> QED
    BY <1>1, <2>1 DEF Accounted
<1>2. ASSUME NEW o \in Orders, NEW final \in Released, status[o] = "pending_payment",
             Release(o, final)
      PROVE  Accounted
  <2>1. o \in Holding /\ Holding' = Holding \ {o}
    BY <1>0, <1>2 DEF Release
  <2> QED
    BY <1>2, <2>1 DEF Accounted, Release
<1>3. ASSUME NEW o \in Orders, NEW to \in Statuses \ {"none", "cancelled", "expired"},
             status[o] \notin {"none", "cancelled", "expired"},
             status' = [status EXCEPT ![o] = to], UNCHANGED <<stock, adjusted>>
      PROVE  Accounted
  <2>1. Holding' = Holding
    BY <1>0, <1>3
  <2> QED
    BY <1>3, <2>1 DEF Accounted
<1>4. ASSUME UNCHANGED <<stock, status, adjusted>> PROVE Accounted
  BY <1>4 DEF Accounted
<1>5. ASSUME NEW o \in Orders, NEW m \in {"stripe", "manual"}, NEW free \in BOOLEAN,
             CreateOrder(o, m, free)
      PROVE  Accounted
  <2>1. PICK to \in {"paid", "pending_payment"} : status' = [status EXCEPT ![o] = to]
    BY <1>5 DEF CreateOrder
  <2>2. to \in Statuses \ {"none", "cancelled", "expired"}
    BY DEF Statuses
  <2> QED
    BY <1>1, <1>5, <2>1, <2>2 DEF CreateOrder
<1>6. ASSUME NEW o \in Orders, PosSale(o) PROVE Accounted
  BY <1>1, <1>6 DEF PosSale, Statuses
<1>7. ASSUME NEW o \in Orders,
             Checkout(o) \/ CheckoutLost(o) \/ CancelLost(o) \/ StripePays(o) \/ StripeExpires(o)
      PROVE  Accounted
  BY <1>4, <1>7 DEF Checkout, CheckoutLost, CancelLost, StripePays, StripeExpires
<1>8. ASSUME NEW o \in Orders, status[o] = "pending_payment", Confirm(o) PROVE Accounted
  BY <1>3, <1>8 DEF Confirm, Statuses
<1>9. ASSUME NEW o \in Orders, Reconcile(o) PROVE Accounted
  BY <1>2, <1>8, <1>9 DEF Reconcile, AwaitsStripe
<1>10. ASSUME NEW o \in Orders, Cancel(o) PROVE Accounted
  BY <1>2, <1>10 DEF Cancel
<1>11. ASSUME NEW o \in Orders, ManualPayment(o) PROVE Accounted
  BY <1>3, <1>11 DEF ManualPayment, Statuses
<1>12. ASSUME NEW o \in Orders, NEW next \in Statuses, Tracking(o, next) PROVE Accounted
  <2>1. next \in Statuses \ {"none", "cancelled", "expired"}
        /\ status[o] \notin {"none", "cancelled", "expired"}
    BY <1>12 DEF Tracking, TRANSITIONS
  <2> QED
    BY <1>3, <1>12, <2>1 DEF Tracking
<1>13. ASSUME NEW o \in Orders, NEW type \in EventTypes, PlatformWebhook(o, type) PROVE Accounted
  BY <1>2, <1>4, <1>8, <1>13 DEF PlatformWebhook
<1>14. ASSUME NEW o \in Orders, NEW type \in EventTypes, ConnectWebhook(o, type) PROVE Accounted
  BY <1>4, <1>8, <1>14 DEF ConnectWebhook
<1>15. CASE AccountUpdated
  BY <1>4, <1>15 DEF AccountUpdated
<1>16. ASSUME NEW v \in Variants, NEW level \in AdjustTo, Adjust(v, level) PROVE Accounted
  BY <1>16 DEF Adjust, Accounted
<1> QED
  BY <1>0, <1>5, <1>6, <1>7, <1>9, <1>10, <1>11, <1>12, <1>13, <1>14, <1>15, <1>16 DEF Next

\* However many orders are created, paid, cancelled, expired or lost on the way,
\* the units of the branch are on the shelf or held by an order in force.
THEOREM UnitsAddUp == Spec => []StockConserved
<1>1. Init => StockConserved
  <2> SUFFICES ASSUME Init, NEW v \in Variants
               PROVE  stock[v] + Units(v, Holding) = Supply[v] + Units(v, Legacy) + adjusted[v]
    BY DEF StockConserved
  <2>1. Holding = Legacy
    BY OrdersAssumption DEF Init, Holding, Released
  <2>2. stock = Supply /\ Supply[v] \in Int /\ adjusted[v] = 0
    BY OrdersAssumption, MaxStockAssumption DEF Init, Levels
  <2>3. Units(v, Legacy) \in Int
    BY UnitsMove, OrdersAssumption
  <2> QED
    BY <2>1, <2>2, <2>3
<1>2. TypeOK /\ StockConserved /\ [Next]_vars => StockConserved'
  <2> SUFFICES ASSUME TypeOK, StockConserved, Accounted, NEW v \in Variants
               PROVE  stock'[v] + Units(v, Holding') = Supply[v] + Units(v, Legacy) + adjusted'[v]
    BY StepAccounted DEF StockConserved, Units
  <2>1. /\ stock[v] + Units(v, Holding) = Supply[v] + Units(v, Legacy) + adjusted[v]
        /\ stock \in [Variants -> Int] /\ adjusted \in [Variants -> Int] /\ Supply[v] \in Int
        /\ Holding \in SUBSET Orders
    BY MaxStockAssumption, OrdersAssumption DEF StockConserved, TypeOK, Levels, Holding
  <2>2. Units(v, Holding) \in Int /\ Units(v, Legacy) \in Int
    BY <2>1, UnitsMove, OrdersAssumption
  <2>3. CASE UNCHANGED <<stock, Holding, adjusted>>
    BY <2>1, <2>3
  <2>4. ASSUME NEW o \in Orders, o \notin Holding, Holding' = Holding \cup {o},
               stock' = Take(stock, Basket[o]), UNCHANGED adjusted
        PROVE  stock'[v] + Units(v, Holding') = Supply[v] + Units(v, Legacy) + adjusted'[v]
    <3>1. Units(v, Holding') = Basket[o][v] + Units(v, Holding) /\ Basket[o][v] \in Int
      BY <2>1, <2>4, UnitsMove
    <3>2. stock'[v] = stock[v] - Basket[o][v]
      BY <2>4 DEF Take
    <3> QED
      BY <2>1, <2>2, <2>4, <3>1, <3>2
  <2>5. ASSUME NEW o \in Orders, o \in Holding, Holding' = Holding \ {o},
               stock' = Put(stock, Basket[o]), UNCHANGED adjusted
        PROVE  stock'[v] + Units(v, Holding') = Supply[v] + Units(v, Legacy) + adjusted'[v]
    <3>1. /\ Units(v, Holding) = Basket[o][v] + Units(v, Holding')
          /\ Basket[o][v] \in Int /\ Units(v, Holding') \in Int
      BY <2>1, <2>5, UnitsMove
    <3>2. stock'[v] = stock[v] + Basket[o][v]
      BY <2>5 DEF Put
    <3> QED
      BY <2>1, <2>2, <2>5, <3>1, <3>2
  <2>6. ASSUME NEW w \in Variants, NEW level \in AdjustTo, Adjust(w, level), UNCHANGED Holding
        PROVE  stock'[v] + Units(v, Holding') = Supply[v] + Units(v, Legacy) + adjusted'[v]
    <3>1. level \in Int
      BY OrdersAssumption, MaxStockAssumption
    <3>2. CASE v = w
      BY <2>1, <2>2, <2>6, <3>1, <3>2 DEF Adjust
    <3>3. CASE v # w
      BY <2>1, <2>2, <2>6, <3>1, <3>3 DEF Adjust
    <3> QED
      BY <3>2, <3>3
  <2> QED
    BY <2>3, <2>4, <2>5, <2>6 DEF Accounted
<1> QED
  BY <1>1, <1>2, TypeCorrect, PTL DEF Spec

-----------------------------------------------------------------------------
Charged == {o \in Orders : session[o] = "complete"}

\* A step of the handlers as OrderPromise sees it.
Mapped == Kept!Act \/ UNCHANGED <<stock, Phase, Charged>>

\* The phase of the orders a handler leaves alone does not move.
LEMMA PhaseMoves ==
    ASSUME TypeOK, NEW o \in Orders, NEW s \in Statuses,
           status' = [status EXCEPT ![o] = s]
    PROVE  /\ Phase' = [Phase EXCEPT ![o] = Phase'[o]]
           /\ s \in Released => Phase'[o] = "freed"
           /\ s = "pending_payment" => Phase'[o] = "held"
           /\ s \in {"paid", "processing", "shipped", "delivered"} => Phase'[o] = "sold"
BY DEF TypeOK, Phase, Released, Statuses

\* Phase of an order by its status.
LEMMA PhaseOf ==
    ASSUME NEW o \in Orders, TypeOK
    PROVE  /\ status[o] = "none" => Phase[o] = "none"
           /\ status[o] = "pending_payment" => Phase[o] = "held"
           /\ status[o] \in {"paid", "processing", "shipped", "delivered"} => Phase[o] = "sold"
BY DEF TypeOK, Phase, Released, Statuses

\* Confirming a pending order settles it.
LEMMA ConfirmSettles ==
    ASSUME IInv, NEW o \in Orders, status[o] = "pending_payment",
           stock' = stock, status' = [status EXCEPT ![o] = "paid"], session' = session
    PROVE  Kept!Act
<1>1. Phase[o] = "held" /\ Phase' = [Phase EXCEPT ![o] = "sold"]
  BY PhaseMoves, PhaseOf DEF IInv, Statuses
<1>2. Charged' = Charged
  BY DEF Charged
<1>3. Kept!Settle(o)
  BY <1>1, <1>2 DEF Kept!Settle, Charged
<1> QED
  BY <1>3 DEF Kept!Act

\* Releasing a pending order that was not charged frees it.
LEMMA ReleaseFrees ==
    ASSUME IInv, NEW o \in Orders, NEW final \in Released, status[o] = "pending_payment",
           Release(o, final), session[o] # "complete", Charged' = Charged
    PROVE  Kept!Act
<1>1. Phase[o] = "held" /\ Phase' = [Phase EXCEPT ![o] = "freed"]
  BY PhaseMoves, PhaseOf DEF IInv, Statuses, Release, Released
<1>2. stock' = Put(stock, Basket[o])
  BY DEF Release
<1>3. Kept!Put(stock, Basket[o]) = Put(stock, Basket[o])
  BY DEF Kept!Put, Put
<1>4. Kept!Free(o)
  BY <1>1, <1>2, <1>3 DEF Kept!Free, Charged
<1> QED
  BY <1>4 DEF Kept!Act

\* Every handler is one step of OrderPromise or one it does not see.
LEMMA StepKept == IInv /\ [Next]_vars => Mapped
<1>0. SUFFICES ASSUME IInv, Next PROVE Mapped
  BY DEF Mapped, Phase, Charged, vars
<1>1. ASSUME NEW o \in Orders, NEW m \in {"stripe", "manual"}, NEW free \in BOOLEAN,
             CreateOrder(o, m, free)
      PROVE  Mapped
  <2>1. PICK to \in {"held", "sold"} : Phase' = [Phase EXCEPT ![o] = to]
    BY <1>0, <1>1, PhaseMoves DEF CreateOrder, IInv, Statuses
  <2>2. Phase[o] = "none" /\ Charged' = Charged
    BY <1>0, <1>1, PhaseOf DEF CreateOrder, IInv, Charged
  <2>3. Kept!Hold(o, to)
    BY <1>1, <2>1, <2>2
       DEF CreateOrder, Kept!Hold, CanTake, Take, Kept!CanTake, Kept!Take, Charged
  <2> QED
    BY <2>3 DEF Mapped, Kept!Act
<1>2. ASSUME NEW o \in Orders, PosSale(o) PROVE Mapped
  <2>1. Phase[o] = "none" /\ Phase' = [Phase EXCEPT ![o] = "sold"] /\ Charged' = Charged
    BY <1>0, <1>2, PhaseMoves, PhaseOf DEF PosSale, IInv, Statuses, Charged
  <2>2. Kept!Hold(o, "sold")
    BY <1>2, <2>1 DEF PosSale, Kept!Hold, CanTake, Take, Kept!CanTake, Kept!Take, Charged
  <2> QED
    BY <2>2 DEF Mapped, Kept!Act
<1>3. ASSUME NEW o \in Orders, Checkout(o) \/ CheckoutLost(o) PROVE Mapped
  BY <1>0, <1>3
     DEF Checkout, CheckoutLost, SessionForKey, Mapped, Phase, Charged, IInv, TypeOK
<1>4. ASSUME NEW o \in Orders, Reconcile(o) PROVE Mapped
  <2>1. CASE session[o] = "complete" /\ Confirm(o)
    BY <1>0, <1>4, <2>1, ConfirmSettles DEF Reconcile, AwaitsStripe, Confirm, Mapped
  <2>2. CASE session[o] = "expired" /\ Release(o, "expired")
    BY <1>0, <1>4, <2>2, ReleaseFrees
       DEF Reconcile, AwaitsStripe, Released, Charged, Mapped
  <2> QED
    BY <1>4, <2>1, <2>2 DEF Reconcile
<1>5. ASSUME NEW o \in Orders, Cancel(o) PROVE Mapped
  <2>1. session[o] # "complete" /\ Charged' = Charged
    BY <1>0, <1>5 DEF Cancel, Charged, IInv, TypeOK, SessionTie
  <2> QED
    BY <1>0, <1>5, <2>1, ReleaseFrees DEF Cancel, Released, Mapped
<1>6. ASSUME NEW o \in Orders, CancelLost(o) \/ StripeExpires(o) PROVE Mapped
  BY <1>0, <1>6 DEF CancelLost, StripeExpires, Mapped, Phase, Charged, IInv, TypeOK
<1>7. ASSUME NEW o \in Orders, StripePays(o) PROVE Mapped
  <2>1. Charged' = Charged \cup {o} /\ o \notin Charged
    BY <1>0, <1>7 DEF StripePays, Charged, IInv, TypeOK
  <2>2. Phase[o] = "held" /\ Phase' = Phase
    BY <1>0, <1>7, PhaseOf DEF StripePays, Phase, IInv, SessionTie
  <2>3. Kept!Charge(o)
    BY <1>7, <2>1, <2>2 DEF StripePays, Kept!Charge, Charged
  <2> QED
    BY <2>3 DEF Mapped, Kept!Act
<1>8. ASSUME NEW o \in Orders, ManualPayment(o) PROVE Mapped
  BY <1>0, <1>8, ConfirmSettles DEF ManualPayment, Mapped
<1>9. ASSUME NEW o \in Orders, NEW next \in Statuses, Tracking(o, next) PROVE Mapped
  <2>1. Phase' = [Phase EXCEPT ![o] = "sold"] /\ Phase[o] = "sold"
    BY <1>0, <1>9, PhaseMoves, PhaseOf DEF Tracking, TRANSITIONS, IInv
  <2>2. Phase' = Phase /\ Charged' = Charged
    BY <1>9, <2>1 DEF Phase, Tracking, Charged
  <2> QED
    BY <1>9, <2>2 DEF Tracking, Mapped
<1>10. ASSUME NEW o \in Orders, NEW type \in EventTypes, PlatformWebhook(o, type)
       PROVE  Mapped
  <2>1. CASE status[o] # "pending_payment"
    BY <1>10, <2>1 DEF PlatformWebhook, Mapped, Phase, Charged
  <2>2. CASE status[o] = "pending_payment" /\ type = "completed"
    BY <1>0, <1>10, <2>2, ConfirmSettles DEF PlatformWebhook, Confirm, Mapped
  <2>3. CASE status[o] = "pending_payment" /\ type = "expired"
    BY <1>0, <1>10, <2>3, ReleaseFrees
       DEF PlatformWebhook, Sent, Released, Charged, Mapped
  <2> QED
    BY <2>1, <2>2, <2>3 DEF EventTypes
<1>11. ASSUME NEW o \in Orders, NEW type \in EventTypes, ConnectWebhook(o, type)
       PROVE  Mapped
  <2>1. CASE UNCHANGED <<stock, status, paid, method, linked, cards, announced, adjusted>>
    BY <1>11, <2>1 DEF ConnectWebhook, Mapped, Phase, Charged
  <2>2. CASE status[o] = "pending_payment" /\ Confirm(o)
    BY <1>0, <1>11, <2>2, ConfirmSettles DEF ConnectWebhook, Confirm, Mapped
  <2> QED
    BY <1>11, <2>1, <2>2 DEF ConnectWebhook
<1>12. CASE AccountUpdated
  BY <1>12 DEF AccountUpdated, Mapped, Phase, Charged
<1>13. ASSUME NEW v \in Variants, NEW level \in AdjustTo, Adjust(v, level) PROVE Mapped
  <2>1. level \in 0 .. MaxStock /\ stock' = [stock EXCEPT ![v] = level]
    BY <1>13, OrdersAssumption DEF Adjust
  <2>2. Phase' = Phase /\ Charged' = Charged
    BY <1>13 DEF Adjust, Phase, Charged
  <2>3. Kept!Restock(v)
    BY <2>1, <2>2 DEF Kept!Restock, Charged
  <2> QED
    BY <2>3 DEF Mapped, Kept!Act
<1> QED
  BY <1>0, <1>1, <1>2, <1>3, <1>4, <1>5, <1>6, <1>7, <1>8, <1>9, <1>10, <1>11, <1>12,
     <1>13 DEF Next

\* The handlers, lost answers and webhooks of Orders implement OrderPromise:
\* units leave once, come back at most once, and never after a charge.
THEOREM PromiseKept == Spec => KeepsPromise
<1>1. Init => Kept!Start
  BY OrdersAssumption DEF Init, Kept!Start, Levels, Kept!Levels, Phase, Released
<1>2. IInv /\ [Next]_vars => [Kept!Moves]_(Kept!promise)
  <2>1. IInv /\ [Next]_vars => Kept!Act \/ UNCHANGED Kept!promise
    BY StepKept DEF Mapped, Kept!promise, Charged
  <2> QED
    BY <2>1 DEF Kept!Moves
<1> QED
  BY <1>1, <1>2, Ties, PTL DEF Spec, KeepsPromise, Kept!Promise

=============================================================================
