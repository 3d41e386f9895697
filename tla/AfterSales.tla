----------------------------- MODULE AfterSales -----------------------------
(***************************************************************************)
(* The returns of one delivered and paid order: ReturnsService             *)
(* (returns_service.py), the rules of domain/returns.py and the refund in  *)
(* gateways.py.                                                            *)
(*                                                                         *)
(* A request and a counter return hold the order FOR UPDATE from the route *)
(* to the commit, a resolution holds the return and not the order.  So a   *)
(* request reads the returns of the order (Leer) and decides later with    *)
(* what it read, while resolutions commit in between.                      *)
(***************************************************************************)
EXTENDS StockLedger, Functions, FiniteSets

CONSTANTS
    Returns,   \* the requests that may be made, by their client_request_id
    Bought,    \* quantity of each variant in the order
    Price,     \* unit price of each variant, in cents
    Total,     \* what the customer paid for the order, discounts applied
    Supply,    \* stock of the branch at the start
    NoVariant  \* the replacement of a return that is not an exchange

AfterSalesAssumption ==
    /\ IsFiniteSet(Returns) /\ IsFiniteSet(Variants)
    /\ Bought \in Baskets
    /\ Price \in [Variants -> Nat]
    /\ Total \in Nat
    /\ Supply \in Levels
    /\ NoVariant \notin Variants

VARIABLES
    card,     \* the order was paid through Stripe
    inTime,   \* the order is inside DIAS_PARA_DEVOLVER
    stock,    \* StockModel.quantity in the branch of the order
    status,   \* OrderReturnModel.status, "none" while there is no row
    items,    \* units of each variant in the return
    swap,     \* replacement_variant_id
    amount,   \* refund_amount
    counter,  \* the returns attended at the counter
    refund,   \* Stripe's refund with the return's metadata
    reader,   \* a request holds the order's lock
    seen      \* the returns that were in force when it read them

vars == <<card, inTime, stock, status, items, swap, amount, counter, refund,
          reader, seen>>

TRANSICIONES == {<<"requested", "approved">>, <<"requested", "rejected">>,
                 <<"approved", "completed">>, <<"approved", "rejected">>}

VIGENTES == {"requested", "approved", "completed"}

InForce == {r \in Returns : status[r] \in VIGENTES}

EsCambio(r) == swap[r] # NoVariant

Nothing == [v \in Variants |-> 0]

Unit(v, n) == [Nothing EXCEPT ![v] = n]

Value(basket) == SumFunctionOnSet([v \in Variants |-> basket[v] * Price[v]], Variants)

UnitsOf(v, set) == SumFunctionOnSet([r \in Returns |-> items[r][v]], set)

AmountOf(set) == SumFunctionOnSet(amount, set)

-----------------------------------------------------------------------------
\* unidades_devolvibles, with the returns a request has read.
Devolvible(v) == Bought[v] - UnitsOf(v, seen)

\* armar_detalle accepts the basket.
Cierra(basket) ==
    /\ \E v \in Variants : basket[v] > 0
    /\ \A v \in Variants : basket[v] > 0 => basket[v] <= Devolvible(v)

\* ROUND_HALF_UP of n / d.
Rounded(n, d) == (2 * n + d) \div (2 * d)

\* Mutant: the share alone, each return rounded on its own.
MontoSinTope(basket) ==
    IF Value(Bought) = 0 THEN 0 ELSE Rounded(Value(basket) * Total, Value(Bought))

\* monto_a_reintegrar: the share of the total, within what is not committed.
MontoAReintegrar(basket) ==
    LET subtotal == Value(Bought)
        importe == Rounded(Value(basket) * Total, subtotal)
        resto == Total - AmountOf({r \in seen : ~EsCambio(r)})
        cota == IF importe < resto THEN importe ELSE resto
    IN  IF subtotal = 0 \/ Total = 0 \/ cota < 0 THEN 0 ELSE cota

-----------------------------------------------------------------------------
Init ==
    /\ card \in BOOLEAN
    /\ inTime = TRUE
    /\ stock = Supply
    /\ status = [r \in Returns |-> "none"]
    /\ items = [r \in Returns |-> Nothing]
    /\ swap = [r \in Returns |-> NoVariant]
    /\ amount = [r \in Returns |-> 0]
    /\ counter = {}
    /\ refund = [r \in Returns |-> "none"]
    /\ reader = FALSE
    /\ seen = {}

\* CommerceService.order locks the order, del_pedido reads its returns and
\* motivo_para_rechazar lets the request go on.
Leer ==
    /\ ~reader
    /\ inTime
    /\ reader' = TRUE
    /\ seen' = InForce
    /\ UNCHANGED <<card, inTime, stock, status, items, swap, amount, counter, refund>>

\* The request is refused, rolled back or was the replay of a known key.
Soltar ==
    /\ reader
    /\ reader' = FALSE
    /\ seen' = {}
    /\ UNCHANGED <<card, inTime, stock, status, items, swap, amount, counter, refund>>

\* The new row, and the end of the transaction.
Alta(r, to, basket, money, other) ==
    /\ reader
    /\ status[r] = "none"
    /\ status' = [status EXCEPT ![r] = to]
    /\ items' = [items EXCEPT ![r] = basket]
    /\ amount' = [amount EXCEPT ![r] = money]
    /\ swap' = [swap EXCEPT ![r] = other]
    /\ reader' = FALSE
    /\ seen' = {}
    /\ UNCHANGED <<card, inTime, refund>>

\* ReturnsService.solicitar.
Solicitar(r, basket) ==
    /\ Cierra(basket)
    /\ Alta(r, "requested", basket, MontoAReintegrar(basket), NoVariant)
    /\ UNCHANGED <<stock, counter>>

\* ReturnsService.solicitar_cambio: the replacement has the same price, is on
\* the shelf of the branch and leaves it at once.
SolicitarCambio(r, v, n, other) ==
    /\ v # other
    /\ Price[v] = Price[other]
    /\ Cierra(Unit(v, n))
    /\ CanTake(stock, Unit(other, n))
    /\ stock' = Take(stock, Unit(other, n))
    /\ Alta(r, "requested", Unit(v, n), 0, other)
    /\ UNCHANGED counter

\* ReturnsService.registrar_en_caja: the garments come in, the cash goes out.
RegistrarEnCaja(r, basket) ==
    /\ Cierra(basket)
    /\ CanPut(stock, basket)
    /\ stock' = Put(stock, basket)
    /\ counter' = counter \cup {r}
    /\ Alta(r, "completed", basket, MontoAReintegrar(basket), NoVariant)

-----------------------------------------------------------------------------
\* The return has to go back through Stripe.
PorStripe(r) == card /\ ~EsCambio(r) /\ amount[r] > 0

\* What a resolution leaves alone.
Resuelve(r, to) ==
    /\ <<status[r], to>> \in TRANSICIONES
    /\ status' = [status EXCEPT ![r] = to]
    /\ UNCHANGED <<card, inTime, items, swap, amount, counter, reader, seen>>

\* ReturnsService.resolver with status approved.
Aprobar(r) == Resuelve(r, "approved") /\ UNCHANGED <<stock, refund>>

\* ReturnsService.resolver with status rejected: the replacement of an
\* exchange returns to the shelf.
Rechazar(r) ==
    /\ Resuelve(r, "rejected")
    /\ IF EsCambio(r)
       THEN LET basket == Unit(swap[r], SumFunctionOnSet(items[r], Variants))
            IN  CanPut(stock, basket) /\ stock' = Put(stock, basket)
       ELSE UNCHANGED stock
    /\ UNCHANGED refund

\* Money that Stripe gave back, or holds to give back.
Given(r) == refund[r] \in {"pending", "succeeded"}

\* Stripe takes a refund of the return, within what the charge has left.
StripeAcepta(r) ==
    /\ refund[r] = "none"
    /\ AmountOf({q \in Returns : Given(q)}) + amount[r] <= Total

\* refund_order_return ends well: Stripe has, or creates, a refund that
\* succeeded.
Reembolsado(r) == refund[r] = "succeeded" \/ StripeAcepta(r)

\* ReturnsService.resolver with status completed.
Completar(r) ==
    /\ Resuelve(r, "completed")
    /\ PorStripe(r) => Reembolsado(r)
    /\ refund' = IF PorStripe(r) THEN [refund EXCEPT ![r] = "succeeded"] ELSE refund
    /\ CanPut(stock, items[r])
    /\ stock' = Put(stock, items[r])

\* The same, when Stripe took the refund and the resolution did not commit:
\* it is still pending (409), the answer was lost or a later step failed.
CompletarFallido(r) ==
    /\ <<status[r], "completed">> \in TRANSICIONES
    /\ PorStripe(r)
    /\ StripeAcepta(r)
    /\ \E state \in {"pending", "succeeded"} : refund' = [refund EXCEPT ![r] = state]
    /\ UNCHANGED <<card, inTime, stock, status, items, swap, amount, counter, reader, seen>>

\* Stripe settles a pending refund.
StripeLiquida(r) ==
    /\ refund[r] = "pending"
    /\ \E state \in {"succeeded", "failed"} : refund' = [refund EXCEPT ![r] = state]
    /\ UNCHANGED <<card, inTime, stock, status, items, swap, amount, counter, reader, seen>>

\* The last day to return passes.
Vencer ==
    /\ inTime
    /\ inTime' = FALSE
    /\ UNCHANGED <<card, stock, status, items, swap, amount, counter, refund, reader, seen>>

Requested == {basket \in [Variants -> 0 .. MaxStock] :
                \A v \in Variants : basket[v] <= Bought[v]}

Next ==
    \/ Leer
    \/ Soltar
    \/ Vencer
    \/ \E r \in Returns :
         \/ \E basket \in Requested : Solicitar(r, basket) \/ RegistrarEnCaja(r, basket)
         \/ \E v, other \in Variants, n \in 1 .. MaxStock : SolicitarCambio(r, v, n, other)
         \/ Aprobar(r)
         \/ Rechazar(r)
         \/ Completar(r)
         \/ CompletarFallido(r)
         \/ StripeLiquida(r)

Spec == Init /\ [][Next]_vars

-----------------------------------------------------------------------------
\* The types of the variables.
TypeOK ==
    /\ card \in BOOLEAN /\ inTime \in BOOLEAN /\ reader \in BOOLEAN
    /\ stock \in Levels
    /\ status \in [Returns -> VIGENTES \cup {"none", "rejected"}]
    /\ items \in [Returns -> Baskets]
    /\ swap \in [Returns -> Variants \cup {NoVariant}]
    /\ amount \in [Returns -> Nat]
    /\ counter \subseteq Returns
    /\ refund \in [Returns -> {"none", "pending", "succeeded", "failed"}]
    /\ seen \subseteq Returns

\* A unit of the order is in one return in force at most, whichever circuit
\* took it and although resolutions commit while a request decides.
UnitsReturnedOnce == \A v \in Variants : UnitsOf(v, InForce) <= Bought[v]

\* What the returns in force commit to give back never exceeds what the
\* customer paid, rounding included.
CommittedWithinTotal == AmountOf({r \in InForce : ~EsCambio(r)}) <= Total

Received(v) == UnitsOf(v, {r \in Returns : status[r] = "completed"})

Replaced(v) ==
    SumFunctionOnSet([r \in Returns |-> SumFunctionOnSet(items[r], Variants)],
                     {r \in InForce : swap[r] = v})

\* The shelf holds what it had, plus the garments received, minus the
\* replacements handed over or held for an exchange in force.
StockConserved ==
    \A v \in Variants : stock[v] = Supply[v] + Received(v) - Replaced(v)

\* A card return is closed only with its money back with the customer.
CompletedWasRefunded ==
    \A r \in Returns :
        status[r] = "completed" /\ r \notin counter /\ PorStripe(r) => refund[r] = "succeeded"

=============================================================================
