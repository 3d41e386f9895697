--------------------------- MODULE Subscriptions ---------------------------
(***************************************************************************)
(* The subscription of one company to the platform (plataforma_saas): the  *)
(* daily life cycle (jobs/suscripciones.py), Stripe Billing                *)
(* (billing_stripe.py), the invoices (billing_service.py), the platform's  *)
(* staff (subscription_service.py) and the status that every guarded       *)
(* request brings up to date (plan_guard.py).                              *)
(*                                                                         *)
(* None of them locks the row.  Each reads it, works on its copy and, when *)
(* it flushes, updates the columns that differ from what it had read (the  *)
(* unit of work of the ORM): a unit is a read and a Commit, and another    *)
(* unit may commit in between.  The plan, the amounts, the notices and the *)
(* dates of closed rows are left out.  The clock counts days; everything   *)
(* happens at one hour, and no unit lasts a day.                           *)
(***************************************************************************)
EXTENDS Integers, FiniteSets

CONSTANTS
    Cards,         \* the Stripe subscriptions the company may open
    None,
    Grace,         \* days of grace (3 in the code)
    ReadOnly,      \* days in read only before the end (30)
    PlanDays,      \* PlanModel.duration_days
    Renewal,       \* days that a payment of an ended period gives (30)
    Period,        \* days of a Stripe period
    MaxRows,       \* bound of the rows of the company
    MaxUnits,      \* bound of the units that overlap
    MaxEvents,     \* bound of the events on their way
    MaxNow         \* bound of the clock

\* What Stripe tells of a subscription.
Happenings == [type : {"completed", "paid", "deleted"}, card : Cards, start : Nat, end : Nat]

\* An invoice as the unit that issues it has it.
Issued == [of : Nat, start : Nat, paid : BOOLEAN, number : Nat \cup {None}]

ASSUME SubscriptionsAssumption ==
    /\ {Grace, ReadOnly, PlanDays, Renewal, Period, MaxRows, MaxUnits, MaxEvents, MaxNow}
            \subseteq Nat \ {0}
    /\ None \notin Cards \cup Int \cup Happenings \cup Issued

VARIABLES
    now,       \* days since the company signed up
    row,       \* SubscriptionModel: the open row
    gen,       \* the number of the open row; the earlier ones are closed
    owner,     \* the closed row that has a stripe_subscription_id, 0 for none
    invoices,  \* SubscriptionInvoiceModel
    units,     \* the unit of work of each actor, None when it has none
    cards,     \* Stripe: the state of each subscription and the end of its period
    events,    \* Stripe: the events not yet processed (stripe_events)
    charged,   \* Stripe: the periods that were charged
    paid,      \* the day the open row was last paid through
    stale      \* whether a unit that had read an older version wrote it

saas == <<row, gen, owner, invoices, paid, stale>>

stripe == <<cards, events, charged>>

vars == <<now, units, saas, stripe>>

Actors == {"hook", "job", "staff", "get"}

Statuses == {"ACTIVA", "VENCIDA", "SUSPENDIDA", "CANCELADA"}

Later(a, b) == IF a > b THEN a ELSE b

-----------------------------------------------------------------------------
(* Rows, and what their dates say of them.                                 *)

NewRow(start, end, status) ==
    [start |-> start, end |-> end, status |-> status, grace |-> None,
     ro |-> None, canceled |-> FALSE, card |-> None]

LifecycleState(r, t) ==
    IF r.canceled \/ r.status = "CANCELADA" THEN "canceled"
    ELSE IF r.ro # None THEN IF t > r.ro + ReadOnly THEN "canceled" ELSE "read_only"
    ELSE IF r.grace # None THEN IF t > r.grace THEN "read_only" ELSE "grace"
    ELSE IF r.status = "SUSPENDIDA" THEN "suspended"
    ELSE IF t <= r.end THEN "active"
    ELSE IF t <= r.end + Grace THEN "grace" ELSE "read_only"

\* vigente: the status as every guarded request leaves it.
Effective(r, t) ==
    [r EXCEPT !.status =
        CASE LifecycleState(r, t) = "canceled" -> "CANCELADA"
          [] LifecycleState(r, t) # "canceled" /\ r.status = "ACTIVA" /\ r.end < t -> "VENCIDA"
          [] OTHER -> r.status]

\* exigir_activa lets the request through.
MayOperate(r, t) ==
    LET state == LifecycleState(Effective(r, t), t)
    IN  /\ state # "read_only"
        /\ Effective(r, t).status = "ACTIVA" \/ state = "grace"

-----------------------------------------------------------------------------
(* Units of work.                                                          *)

Unit(new, invoice, event) ==
    [of |-> gen, read |-> row, new |-> new, successor |-> None,
     invoice |-> invoice, event |-> event]

Begin(a, unit) ==
    /\ units[a] = None
    /\ Cardinality({b \in Actors : units[b] # None}) < MaxUnits
    /\ units' = [units EXCEPT ![a] = unit]
    /\ UNCHANGED <<now, saas, stripe>>

Merge(r, read, new) ==
    [f \in DOMAIN r |-> IF new[f] # read[f] THEN new[f] ELSE r[f]]

InvoicesOf(g, start) == {i \in invoices : i.of = g /\ i.start = start}

\* _next_number: the highest number, read without a lock, plus one.
NextNumber == 1 + Cardinality(invoices)

\* emitir_periodo: the invoice of the period, or a new one.
EmitirPeriodo(g, start) ==
    [of |-> g, start |-> start,
     paid |-> \E i \in InvoicesOf(g, start) : i.paid,
     number |-> IF InvoicesOf(g, start) = {} THEN NextNumber ELSE None]

\* Mutant of Clash: stripe_subscription_id is not unique.
ClashOfInvoices(u) == u.invoice # None /\ u.invoice.number \notin {None, NextNumber}

\* A unique key: the number of an invoice, its period or the card of a row.
Clash(u) ==
    \/ /\ u.invoice # None
       /\ u.invoice.number \notin {None, NextNumber}
    \/ /\ u.new.card \notin {u.read.card, None}
       /\ \/ owner[u.new.card] # 0
          \/ u.of # gen /\ row.card = u.new.card

Pays(u) == u.invoice # None /\ u.invoice.paid

ApplyOpen(u) ==
    LET merged == Merge(row, u.read, u.new)
    IN  IF u.successor # None
        THEN /\ row' = u.successor
             /\ gen' = gen + 1
             /\ owner' = IF merged.card = None THEN owner ELSE [owner EXCEPT ![merged.card] = gen]
             /\ paid' = None
             /\ stale' = FALSE
        ELSE /\ row' = merged
             /\ paid' = IF Pays(u) THEN merged.end ELSE paid
             /\ stale' = CASE row # u.read /\ u.new # u.read -> TRUE
                           [] row = u.read /\ Pays(u) -> FALSE
                           [] OTHER -> stale
             /\ UNCHANGED <<gen, owner>>

\* The row was closed since it was read, or was closed already.
ApplyClosed(u) ==
    /\ owner' = [c \in Cards |-> CASE u.new.card = u.read.card -> owner[c]
                                  [] u.new.card # u.read.card /\ c = u.new.card -> u.of
                                  [] u.new.card # u.read.card /\ c = u.read.card -> 0
                                  [] OTHER -> owner[c]]
    /\ UNCHANGED <<row, gen, paid, stale>>

Apply(u) ==
    /\ IF u.of = gen THEN ApplyOpen(u) ELSE ApplyClosed(u)
    /\ invoices' = IF u.invoice = None THEN invoices
                   ELSE (invoices \ InvoicesOf(u.invoice.of, u.invoice.start))
                            \cup {[of |-> u.invoice.of, start |-> u.invoice.start,
                                   paid |-> u.invoice.paid]}
    /\ events' = events \ {u.event}

\* Mutant of Commit: the event is registered in a transaction of its own.
CommitRegisteredFirst(a) ==
    /\ units[a] # None
    /\ a = "staff" => ~Pays(units[a])
    /\ units' = [units EXCEPT ![a] = None]
    /\ IF Clash(units[a]) THEN events' = events \ {units[a].event} /\ UNCHANGED saas
       ELSE Apply(units[a])
    /\ UNCHANGED <<now, cards, charged>>

\* The flush and the commit; a violated key rolls the unit back.
Commit(a) ==
    /\ units[a] # None
    /\ a = "staff" => ~Pays(units[a])
    /\ units' = [units EXCEPT ![a] = None]
    /\ IF Clash(units[a]) THEN UNCHANGED <<saas, events>> ELSE Apply(units[a])
    /\ UNCHANGED <<now, cards, charged>>

-----------------------------------------------------------------------------
(* The daily job.                                                          *)

PasarAGracia(r, t) ==
    IF r.status = "ACTIVA" /\ r.end < t /\ r.grace = None
    THEN [r EXCEPT !.grace = t + Grace] ELSE r

\* Mutant of Vencida: the last day of grace is not given.
VencidaUnDiaAntes(r, t) ==
    IF r.grace = None THEN t >= r.end + Grace ELSE t >= r.grace

Vencida(r, t) ==
    IF r.grace = None THEN t > r.end + Grace ELSE t > r.grace

PasarASoloLectura(r, t) ==
    IF r.ro = None /\ r.status # "CANCELADA" /\ Vencida(r, t)
    THEN [r EXCEPT !.ro = t, !.status = "VENCIDA"] ELSE r

PasarACancelada(r, t) ==
    IF r.ro # None /\ ~r.canceled /\ t > r.ro + ReadOnly
    THEN [r EXCEPT !.canceled = TRUE, !.status = "CANCELADA"] ELSE r

\* subscriptions.lifecycle: no other unit brings a row back to an earlier
\* scan within a day, so the scans read it once.
LifecycleJob ==
    LET new == PasarACancelada(PasarASoloLectura(PasarAGracia(row, now), now), now)
    IN  new # row /\ Begin("job", Unit(new, None, None))

\* invoices.issue
EmitirPendientes ==
    /\ row.status \in {"ACTIVA", "VENCIDA"}
    /\ InvoicesOf(gen, row.start) = {}
    /\ Begin("job", Unit(row, EmitirPeriodo(gen, row.start), None))

-----------------------------------------------------------------------------
(* Guarded requests and the staff.                                         *)

\* vigente, in any request of the company.
Vigente ==
    /\ Effective(row, now) # row
    /\ Begin("get", Unit(Effective(row, now), None, None))

\* _replace: the open row is closed and another one takes its place.
Replace(start, end, status) ==
    /\ gen < MaxRows
    /\ Begin("staff", [Unit(Effective(row, now), None, None)
                          EXCEPT !.successor = NewRow(start, end, status)])

CambiarPlan == Replace(now, now + PlanDays - 1, "ACTIVA")

Renovar ==
    LET start == Later(now, row.end) + 1
    IN  Replace(start, start + PlanDays - 1, "ACTIVA")

CambiarEstado(status) ==
    /\ status = "ACTIVA" => row.end >= now
    /\ Replace(row.start, row.end, status)

\* Mutant of Reactivar: the grace of the ended period stays.
ReactivarConGracia(r) ==
    [r EXCEPT !.ro = None, !.canceled = FALSE, !.status = "ACTIVA"]

Reactivar(r) ==
    [r EXCEPT !.grace = None, !.ro = None, !.canceled = FALSE, !.status = "ACTIVA"]

\* registrar_pago, and the end of the Stripe period when it is later.
RegistrarPago(r, end) ==
    [Reactivar(r) EXCEPT
        !.end = Later(end, IF r.end <= now THEN now + Renewal ELSE r.end)]

\* mark_invoice_paid, of an invoice of the open row.
MarkInvoicePaid(i) ==
    /\ i.of = gen
    /\ Begin("staff", Unit(RegistrarPago(row, 0),
                           [EmitirPeriodo(gen, i.start) EXCEPT !.paid = TRUE], None))

\* It flushes and nobody commits: get_db closes the session, and PostgreSQL
\* rolls the payment back.
CloseSession ==
    /\ units["staff"] # None
    /\ Pays(units["staff"])
    /\ units' = [units EXCEPT !["staff"] = None]
    /\ UNCHANGED <<now, saas, stripe>>

-----------------------------------------------------------------------------
(* The webhook (procesar_webhook).                                         *)

\* A unit on the closed row that has the card: its dates are left out.
OnClosed(new, invoice, event) ==
    [Unit(row, invoice, event) EXCEPT !.of = owner[event.card], !.read = [row EXCEPT !.card = event.card],
                                      !.new = [row EXCEPT !.card = new]]

CheckoutCompletado(e) ==
    Unit([row EXCEPT !.card = IF @ = None THEN e.card ELSE @], None, e)

\* _invoice_subscription: the row that has the card, or else the open one if
\* it has none; another one's invoice is ignored.
FacturaPagada(e) ==
    LET linked == [row EXCEPT !.card = e.card]
        invoice(g) == EmitirPeriodo(g, e.start)
    IN  CASE owner[e.card] # 0 ->
               OnClosed(e.card, [invoice(owner[e.card]) EXCEPT !.paid = TRUE], e)
          [] owner[e.card] = 0 /\ row.card \in {None, e.card} ->
               IF invoice(gen).paid THEN Unit(linked, None, e)
               ELSE Unit(RegistrarPago(linked, e.end), [invoice(gen) EXCEPT !.paid = TRUE], e)
          [] OTHER -> Unit(row, None, e)

SuscripcionEliminada(e) ==
    CASE owner[e.card] # 0 -> OnClosed(None, None, e)
      [] e.card = row.card -> Unit([row EXCEPT !.card = None], None, e)
      [] OTHER -> Unit(row, None, e)

Handler(e) ==
    CASE e.type = "completed" -> CheckoutCompletado(e)
      [] e.type = "paid" -> FacturaPagada(e)
      [] e.type = "deleted" -> SuscripcionEliminada(e)

ProcesarWebhook(e) == e \in events /\ Begin("hook", Handler(e))

-----------------------------------------------------------------------------
(* Stripe and the clock.                                                   *)

Happens(type, card, start, end) ==
    [type |-> type, card |-> card, start |-> start, end |-> end]

\* crear_checkout, with what it asks Stripe first.
CrearCheckout(c) ==
    /\ cards[c].state = "none"
    /\ row.card = None
    /\ \A d \in Cards : cards[d].state \notin {"checkout", "active"}
    /\ cards' = [cards EXCEPT ![c].state = "checkout"]
    /\ UNCHANGED <<now, units, saas, events, charged>>

CheckoutPaid(c) ==
    /\ cards[c].state = "checkout"
    /\ cards' = [cards EXCEPT ![c] = [state |-> "active", end |-> now + Period]]
    /\ events' = events \cup {Happens("completed", c, 0, 0), Happens("paid", c, now, now + Period)}
    /\ charged' = charged \cup {[card |-> c, start |-> now]}
    /\ UNCHANGED <<now, units, saas>>

StripeRenews(c) ==
    LET end == cards[c].end
    IN  /\ cards[c].state = "active"
        /\ end <= now
        /\ Cardinality(events) < MaxEvents
        /\ cards' = [cards EXCEPT ![c].end = @ + Period]
        /\ events' = events \cup {Happens("paid", c, end, end + Period)}
        /\ charged' = charged \cup {[card |-> c, start |-> end]}
        /\ UNCHANGED <<now, units, saas>>

\* The session expires, or the customer cancels in the portal.
StripeEnds(c) ==
    /\ cards[c].state \in {"checkout", "active"}
    /\ Cardinality(events) < MaxEvents
    /\ cards' = [cards EXCEPT ![c] = [state |-> "ended", end |-> 0]]
    /\ events' = IF cards[c].state = "checkout" THEN events
                 ELSE events \cup {Happens("deleted", c, 0, 0)}
    /\ UNCHANGED <<now, units, saas, charged>>

NextDay ==
    /\ now < MaxNow
    /\ \A a \in Actors : units[a] = None
    /\ now' = now + 1
    /\ UNCHANGED <<units, saas, stripe>>

-----------------------------------------------------------------------------

Init ==
    /\ now = 0
    /\ row = NewRow(0, PlanDays - 1, "ACTIVA")
    /\ gen = 1
    /\ owner = [c \in Cards |-> 0]
    /\ invoices = {}
    /\ units = [a \in Actors |-> None]
    /\ cards = [c \in Cards |-> [state |-> "none", end |-> 0]]
    /\ events = {}
    /\ charged = {}
    /\ paid = None
    /\ stale = FALSE

Next ==
    \/ NextDay \/ LifecycleJob \/ EmitirPendientes \/ Vigente
    \/ CambiarPlan \/ Renovar \/ CloseSession
    \/ \E status \in {"ACTIVA", "SUSPENDIDA", "CANCELADA"} : CambiarEstado(status)
    \/ \E i \in invoices : MarkInvoicePaid(i)
    \/ \E e \in events : ProcesarWebhook(e)
    \/ \E a \in Actors : Commit(a)
    \/ \E c \in Cards : \/ CrearCheckout(c) \/ CheckoutPaid(c)
                        \/ StripeRenews(c) \/ StripeEnds(c)

Spec == Init /\ [][Next]_vars

-----------------------------------------------------------------------------
(* Properties.                                                             *)

Rows ==
    [start : Nat, end : Nat, status : Statuses, grace : Nat \cup {None},
     ro : Nat \cup {None}, canceled : BOOLEAN, card : Cards \cup {None}]

\* The rows and the invoices are well typed, and no two rows have the same
\* Stripe subscription, whatever the webhook and the staff do to it.
TypeOK ==
    /\ now \in 0 .. MaxNow
    /\ row \in Rows
    /\ gen \in 1 .. MaxRows
    /\ owner \in [Cards -> 0 .. gen - 1]
    /\ row.card # None => owner[row.card] = 0
    /\ invoices \subseteq [of : 1 .. gen, start : Nat, paid : BOOLEAN]
    /\ paid \in Nat \cup {None}
    /\ stale \in BOOLEAN

\* A company whose open row is paid through today may operate (exigir_activa):
\* no scan, no request and no late event takes the service from who paid,
\* unless a unit wrote over a version of the row it had not read.
PaidMayOperate ==
    paid # None /\ now <= paid /\ ~stale => MayOperate(row, now)

\* The life cycle never takes a stage early: a row becomes read only after its
\* days of grace and is canceled after its days in read only, unless the unit
\* had read an older version of it.
OnlyWhenDue ==
    [][gen' = gen /\ ~stale' =>
        /\ row.ro = None /\ row'.ro # None => now > row.end + Grace
        /\ ~row.canceled /\ row'.canceled => row.ro # None /\ now > row.ro + ReadOnly]_vars

\* What Stripe charges is on its way or has its invoice paid, although a unit
\* of the job may take the number or the period of the invoice meanwhile; only
\* a second Stripe subscription of the company may have a charge ignored.
ChargesAccounted ==
    \A c \in charged :
        \/ \E e \in events : e.type = "paid" /\ e.card = c.card /\ e.start = c.start
        \/ \E i \in invoices : i.paid /\ i.start = c.start
        \/ \E d \in Cards \ {c.card} : cards[d].state # "none"

\* registrar_pago, "Registra el pago de un comprobante y reactiva la
\* suscripción": whoever registers a payment leaves its invoice paid.
RegisteredIsPaid ==
    [][\A a \in Actors :
        units[a] # None /\ units'[a] = None /\ Pays(units[a]) /\ ~Clash(units[a]) =>
            \E i \in invoices' : i.start = units[a].invoice.start /\ i.paid]_vars

=============================================================================
