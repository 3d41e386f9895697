------------------------------- MODULE Orders -------------------------------
(***************************************************************************)
(* The orders of one branch: CommerceService (service.py), the Connect     *)
(* webhook (stripe_connect_service.py) and the stock they share.           *)
(*                                                                         *)
(* Every handler loads its order FOR UPDATE and keeps the row until it     *)
(* commits, so a handler is one step, the call it makes to Stripe          *)
(* included.  What the lock does not cover is Stripe itself: a call whose  *)
(* effect took place but whose answer never came back, or whose            *)
(* transaction died before the commit, changes the session alone           *)
(* (CheckoutLost, CancelLost).                                             *)
(***************************************************************************)
EXTENDS StockLedger, FiniteSets, Functions

CONSTANTS Orders,   \* order rows that may come to exist, web and counter
          Legacy,   \* those whose session predates the Connect accounts
          Basket,   \* the lines of each order
          Supply,   \* the stock of the branch at the start, less what Legacy holds
          AdjustTo  \* the levels a stock clerk may set: bounds Adjust

ASSUME OrdersAssumption ==
    /\ IsFiniteSet(Orders)
    /\ Legacy \subseteq Orders
    /\ Basket \in [Orders -> Baskets]
    /\ Supply \in Levels
    /\ AdjustTo \subseteq 0 .. MaxStock

VARIABLES
    stock,      \* StockModel.quantity of each variant
    status,     \* OrderModel.status, "none" while there is no row
    paid,       \* the orders whose payment_status is "paid"
    method,     \* OrderModel.payment_method, "offline" for cash, qr, card, transfer
    linked,     \* the orders whose stripe_session_id is stored
    cards,      \* the tenant's connected account is active and can charge
    session,    \* the order's Checkout Session as Stripe knows it
    events,     \* the Stripe events whose id was recorded, <<order, type>>
    announced,  \* how many order.paid events the outbox holds for the order
    adjusted    \* net units the clerk added, to state the conservation of stock

vars == <<stock, status, paid, method, linked, cards, session, events,
          announced, adjusted>>

Statuses == {"none", "pending_payment", "paid", "processing", "shipped",
             "delivered", "cancelled", "expired"}

Released == {"cancelled", "expired"}

\* Orders whose units are out of the stock counters.
Holding == {o \in Orders : status[o] \notin Released \cup {"none"}}

TRANSITIONS == {<<"paid", "processing">>, <<"processing", "shipped">>,
                <<"shipped", "delivered">>}

EventTypes == {"completed", "expired"}

\* The event Stripe sends once the session has ended.
Sent(o, type) == session[o] = IF type = "completed" THEN "complete" ELSE "expired"

-----------------------------------------------------------------------------
\* The day the connected accounts were released.
Init ==
    /\ stock = Supply
    /\ status = [o \in Orders |-> IF o \in Legacy THEN "pending_payment" ELSE "none"]
    /\ paid = {}
    /\ method = [o \in Orders |-> IF o \in Legacy THEN "stripe" ELSE "none"]
    /\ linked = Legacy
    /\ cards = FALSE
    /\ session = [o \in Orders |-> IF o \in Legacy THEN "open" ELSE "none"]
    /\ events = {}
    /\ announced = [o \in Orders |-> 0]
    /\ adjusted = [v \in Variants |-> 0]

\* CommerceService.create_order: the basket leaves the stock, the order waits
\* for its payment, or is born paid when the discounts cover its total.
CreateOrder(o, m, free) ==
    /\ status[o] = "none"
    /\ m = "stripe" /\ ~free => cards
    /\ CanTake(stock, Basket[o])
    /\ stock' = Take(stock, Basket[o])
    /\ status' = [status EXCEPT ![o] = IF free THEN "paid" ELSE "pending_payment"]
    /\ paid' = IF free THEN paid \cup {o} ELSE paid
    /\ method' = [method EXCEPT ![o] = m]
    /\ UNCHANGED <<linked, cards, session, events, announced, adjusted>>

\* CommerceService.pos_sale: sold, paid and delivered in one step.  A repeated
\* client_request_id finds the order and returns it.
PosSale(o) ==
    /\ status[o] = "none"
    /\ CanTake(stock, Basket[o])
    /\ stock' = Take(stock, Basket[o])
    /\ status' = [status EXCEPT ![o] = "delivered"]
    /\ paid' = paid \cup {o}
    /\ method' = [method EXCEPT ![o] = "offline"]
    /\ UNCHANGED <<linked, cards, session, events, announced, adjusted>>

-----------------------------------------------------------------------------
\* CommerceService.confirm_stripe_payment on an order that waits for it.
Confirm(o) ==
    /\ status' = [status EXCEPT ![o] = "paid"]
    /\ paid' = paid \cup {o}
    /\ announced' = [announced EXCEPT ![o] = @ + 1]
    /\ UNCHANGED <<stock, method, linked, cards, adjusted>>

\* Mutant: the ceiling of the rows is forgotten.
ReleaseOverCeiling(o, final) ==
    /\ stock' = Put(stock, Basket[o])
    /\ status' = [status EXCEPT ![o] = final]
    /\ UNCHANGED <<paid, method, linked, cards, announced, adjusted>>

\* CommerceService.release: every line goes back; it fails as a whole when a
\* row would go over the ceiling.
Release(o, final) ==
    /\ CanPut(stock, Basket[o])
    /\ stock' = Put(stock, Basket[o])
    /\ status' = [status EXCEPT ![o] = final]
    /\ UNCHANGED <<paid, method, linked, cards, announced, adjusted>>

\* Mutant: the order may have been released meanwhile.
AwaitsStripeUnread(o) == method[o] = "stripe" /\ o \notin paid

AwaitsStripe(o) == method[o] = "stripe" /\ status[o] = "pending_payment" /\ o \notin paid

\* Stripe answers a POST of the order's key: a new session, or the one that
\* the same Idempotency-Key created before.
SessionForKey(o) == IF session[o] = "none" THEN "open" ELSE session[o]

\* CommerceService.checkout of an order with no session yet; with one, the
\* handler is Reconcile.
Checkout(o) ==
    /\ AwaitsStripe(o)
    /\ o \notin linked
    /\ cards
    /\ session' = [session EXCEPT ![o] = SessionForKey(o)]
    /\ linked' = linked \cup {o}
    /\ UNCHANGED <<stock, status, paid, method, cards, events, announced, adjusted>>

\* The same, when Stripe created the session and the commit never happened.
CheckoutLost(o) ==
    /\ AwaitsStripe(o)
    /\ o \notin linked
    /\ cards
    /\ session' = [session EXCEPT ![o] = SessionForKey(o)]
    /\ UNCHANGED <<stock, status, paid, method, linked, cards, events, announced, adjusted>>

\* Mutant: any session that is not complete counts as expired.
ReconcileEager(o) ==
    /\ AwaitsStripe(o)
    /\ o \in linked
    /\ \/ session[o] = "complete" /\ Confirm(o)
       \/ session[o] # "complete" /\ Release(o, "expired")
    /\ UNCHANGED <<session, events>>

\* CommerceService.reconcile_payment: asks Stripe and applies a final answer.
Reconcile(o) ==
    /\ AwaitsStripe(o)
    /\ o \in linked
    /\ \/ session[o] = "complete" /\ Confirm(o)
       \/ session[o] = "expired" /\ Release(o, "expired")
    /\ UNCHANGED <<session, events>>

\* Mutant: the session is left to itself.
CancelLeavingSession(o) ==
    /\ status[o] = "pending_payment"
    /\ Release(o, "cancelled")
    /\ UNCHANGED <<session, events>>

\* CommerceService.cancel: a linked session has to accept the expiry first,
\* which Stripe refuses unless it is open.
Cancel(o) ==
    /\ status[o] = "pending_payment"
    /\ o \in linked => session[o] = "open"
    /\ session' = IF o \in linked THEN [session EXCEPT ![o] = "expired"] ELSE session
    /\ Release(o, "cancelled")
    /\ UNCHANGED events

\* The same, when Stripe expired the session and the release never committed.
CancelLost(o) ==
    /\ status[o] = "pending_payment"
    /\ o \in linked
    /\ session[o] = "open"
    /\ session' = [session EXCEPT ![o] = "expired"]
    /\ UNCHANGED <<stock, status, paid, method, linked, cards, events, announced, adjusted>>

\* CommerceService.manual_payment.
ManualPayment(o) ==
    /\ status[o] = "pending_payment"
    /\ method[o] = "manual"
    /\ status' = [status EXCEPT ![o] = "paid"]
    /\ paid' = paid \cup {o}
    /\ method' = [method EXCEPT ![o] = "offline"]
    /\ announced' = [announced EXCEPT ![o] = @ + 1]
    /\ UNCHANGED <<stock, linked, cards, session, events, adjusted>>

\* CommerceService.tracking.
Tracking(o, next) ==
    /\ <<status[o], next>> \in TRANSITIONS
    /\ status' = [status EXCEPT ![o] = next]
    /\ UNCHANGED <<stock, paid, method, linked, cards, session, events, announced, adjusted>>

-----------------------------------------------------------------------------
\* Mutant: a payment that was reconciled before is confirmed again.
PlatformWebhookAgain(o, type) ==
    /\ Sent(o, type)
    /\ o \in linked
    /\ o \in Legacy
    /\ <<o, type>> \notin events
    /\ IF type = "expired" THEN Release(o, "expired") ELSE Confirm(o)
    /\ events' = events \cup {<<o, type>>}
    /\ UNCHANGED session

\* Mutant: an expiry is recorded and nothing else.
PlatformWebhookDeaf(o, type) ==
    /\ Sent(o, type)
    /\ o \in linked
    /\ o \in Legacy
    /\ <<o, type>> \notin events
    /\ IF type = "expired" \/ status[o] # "pending_payment"
       THEN UNCHANGED <<stock, status, paid, method, linked, cards, announced, adjusted>>
       ELSE Confirm(o)
    /\ events' = events \cup {<<o, type>>}
    /\ UNCHANGED session

\* CommerceService.webhook: only sessions without a connected account are
\* found, the others are answered with an error that Stripe retries.
PlatformWebhook(o, type) ==
    /\ Sent(o, type)
    /\ o \in linked
    /\ o \in Legacy
    /\ <<o, type>> \notin events
    /\ IF status[o] # "pending_payment"
       THEN UNCHANGED <<stock, status, paid, method, linked, cards, announced, adjusted>>
       ELSE IF type = "expired" THEN Release(o, "expired") ELSE Confirm(o)
    /\ events' = events \cup {<<o, type>>}
    /\ UNCHANGED session

\* Mutant: the payment only counts while the account is active.
ConnectWebhookIfActive(o, type) ==
    /\ Sent(o, type)
    /\ o \notin Legacy
    /\ <<o, type>> \notin events
    /\ IF cards /\ type = "completed" /\ o \in linked /\ status[o] = "pending_payment"
       THEN Confirm(o)
       ELSE UNCHANGED <<stock, status, paid, method, linked, cards, announced, adjusted>>
    /\ events' = events \cup {<<o, type>>}
    /\ UNCHANGED session

\* StripeConnectService.procesar_webhook: every event is recorded, the payment
\* of a pending order of the account is confirmed, an expiry changes nothing.
ConnectWebhook(o, type) ==
    /\ Sent(o, type)
    /\ o \notin Legacy
    /\ <<o, type>> \notin events
    /\ IF type = "completed" /\ o \in linked /\ status[o] = "pending_payment" /\ o \notin paid
       THEN Confirm(o)
       ELSE UNCHANGED <<stock, status, paid, method, linked, cards, announced, adjusted>>
    /\ events' = events \cup {<<o, type>>}
    /\ UNCHANGED session

\* StripeConnectService._cuenta_actualizada.
AccountUpdated ==
    /\ cards' = ~cards
    /\ UNCHANGED <<stock, status, paid, method, linked, session, events, announced, adjusted>>

\* The customer pays the session whose address the checkout returned.
StripePays(o) ==
    /\ session[o] = "open"
    /\ o \in linked
    /\ session' = [session EXCEPT ![o] = "complete"]
    /\ UNCHANGED <<stock, status, paid, method, linked, cards, events, announced, adjusted>>

\* Stripe expires a session nobody paid.
StripeExpires(o) ==
    /\ session[o] = "open"
    /\ session' = [session EXCEPT ![o] = "expired"]
    /\ UNCHANGED <<stock, status, paid, method, linked, cards, events, announced, adjusted>>

\* update_stock and register_stock_movement: the clerk leaves a row at a level.
Adjust(v, level) ==
    /\ level # stock[v]
    /\ stock' = [stock EXCEPT ![v] = level]
    /\ adjusted' = [adjusted EXCEPT ![v] = @ + (level - stock[v])]
    /\ UNCHANGED <<status, paid, method, linked, cards, session, events, announced>>

-----------------------------------------------------------------------------
Next ==
    \/ \E o \in Orders :
         \/ \E m \in {"stripe", "manual"}, free \in BOOLEAN : CreateOrder(o, m, free)
         \/ PosSale(o)
         \/ Checkout(o)
         \/ CheckoutLost(o)
         \/ Reconcile(o)
         \/ Cancel(o)
         \/ CancelLost(o)
         \/ ManualPayment(o)
         \/ \E next \in Statuses : Tracking(o, next)
         \/ \E type \in EventTypes : PlatformWebhook(o, type) \/ ConnectWebhook(o, type)
         \/ StripePays(o)
         \/ StripeExpires(o)
    \/ AccountUpdated
    \/ \E v \in Variants, level \in AdjustTo : Adjust(v, level)

Spec == Init /\ [][Next]_vars

-----------------------------------------------------------------------------
\* The types of the variables.
TypeOK ==
    /\ stock \in Levels
    /\ status \in [Orders -> Statuses]
    /\ paid \subseteq Orders
    /\ method \in [Orders -> {"none", "stripe", "manual", "offline"}]
    /\ linked \subseteq Orders
    /\ cards \in BOOLEAN
    /\ session \in [Orders -> {"none", "open", "complete", "expired"}]
    /\ events \subseteq Orders \X EventTypes
    /\ announced \in [Orders -> Nat]
    /\ adjusted \in [Variants -> Int]

Units(v, set) == SumFunctionOnSet([o \in Orders |-> Basket[o][v]], set)

\* No circuit creates or loses units: what the branch started with and what the
\* clerk added is on the shelf or held by an order that was not released.
StockConserved ==
    \A v \in Variants :
        stock[v] + Units(v, Holding) = Supply[v] + Units(v, Legacy) + adjusted[v]

\* The units of a released order are never also paid for: no session that the
\* customer could reach is left open or complete behind a release, whatever
\* the order of cancel, webhook, reconciliation, lost answers and payment.
ReleasedNeverCharged ==
    \A o \in Orders : status[o] \in Released =>
        /\ session[o] # "complete"
        /\ o \in linked => session[o] = "expired"

\* An order paid by card or over the counter publishes order.paid exactly once,
\* although webhook, reconciliation and checkout may all see the same payment.
AnnouncedOnce ==
    \A o \in Orders :
        /\ announced[o] <= 1
        /\ announced[o] = 1 => o \in paid
        /\ session[o] = "complete" /\ o \in paid => announced[o] = 1

\* The circuit keeps the promise of OrderPromise: every handler is one of its
\* steps or changes nothing it speaks of.
Phase ==
    [o \in Orders |->
        CASE status[o] = "none" -> "none"
          [] status[o] \in Released -> "freed"
          [] status[o] = "pending_payment" -> "held"
          [] OTHER -> "sold"]

Kept == INSTANCE OrderPromise WITH
            shelf <- stock,
            phase <- Phase,
            charged <- {o \in Orders : session[o] = "complete"}

KeepsPromise == Kept!Promise

-----------------------------------------------------------------------------
\* Stripe retries an event until an endpoint answers 200.
Retried ==
    \A o \in Orders, type \in EventTypes :
        WF_vars(PlatformWebhook(o, type)) /\ WF_vars(ConnectWebhook(o, type))

LiveSpec == Spec /\ Retried

\* A card payment is eventually recorded, even if the customer never comes back
\* and nobody asks for a reconciliation.
PaymentRecorded == \A o \in Orders : session[o] = "complete" ~> o \in paid

\* The units behind an expired session of the platform's own account go back to
\* the shelf without anyone asking, unless a row has no room for them: then the
\* whole release fails, and every retry of the event with it.
PlatformHoldReleased ==
    \A o \in Legacy :
        session[o] = "expired" ~> status[o] \in Released \/ ~CanPut(stock, Basket[o])

=============================================================================
