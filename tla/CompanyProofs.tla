---------------------------- MODULE CompanyProofs ----------------------------
(***************************************************************************)
(* Proofs about what the platform keeps of a company: its subscription, for*)
(* every length of the stages and of the periods and any number of rows,   *)
(* units, events, days and Stripe subscriptions; the branches under its    *)
(* limit and its cash points, for any number of them and of calls that     *)
(* overlap; and its modules, for any modules, plans and updates.           *)
(***************************************************************************)
EXTENDS MCPlatform, FiniteSetTheorems, TLAPS

-----------------------------------------------------------------------------
(* The subscription: types, stages and days.                               *)

(* What a unit is, and what Stripe holds.                                  *)

\* A unit in progress, by its parts.
UnitTyped(u) ==
    /\ u.of \in 1 .. gen
    /\ u.read \in Rows
    /\ u.new \in Rows
    /\ u.successor \in Rows \cup {None}
    /\ u.successor # None =>
          u.of < MaxRows /\ u.successor.grace = None /\ u.successor.card = None
    /\ u.invoice # None => /\ u.invoice.of \in 1 .. gen
                           /\ u.invoice.start \in Nat
                           /\ u.invoice.paid \in BOOLEAN

\* The units of the actors.
UnitsTyped ==
    /\ DOMAIN units = Actors
    /\ \A a \in Actors : units[a] # None => UnitTyped(units[a])

\* What Stripe holds.
StripeTyped ==
    /\ cards \in [Cards -> [state : {"none", "checkout", "active", "ended"}, end : Nat]]
    /\ events \subseteq Happenings

-----------------------------------------------------------------------------
(* What the dates of a row promise.                                        *)

\* A row whose company may operate with no stage of the life cycle begun.
InOrder(r) ==
    now <= r.end /\ r.status = "ACTIVA" /\ r.grace = None /\ r.ro = None /\ ~r.canceled

\* The grace that a row was given lasts all its days.
WholeGrace(r) == r.grace # None => r.grace >= r.end + Grace

\* A stage that comes is due.
Due(r, s) ==
    /\ r.ro = None /\ s.ro # None =>
          IF r.grace = None THEN now > r.end + Grace ELSE now > r.grace
    /\ ~r.canceled /\ s.canceled => r.ro # None /\ now > r.ro + ReadOnly

\* What an operation that keeps the row open makes of it.
Step(r, s) ==
    /\ InOrder(r) => InOrder(s)
    /\ WholeGrace(r) => WholeGrace(s)
    /\ r.end <= s.end
    /\ Due(r, s)

\* A unit makes a legal step of what it read, a payment leaves the open row in
\* order, and only a unit that is stale reads a row in order when it is not.
UnitLegal(u) ==
    /\ Step(u.read, u.new)
    /\ u.of = gen /\ Pays(u) => InOrder(u.new) /\ u.successor = None
    /\ u.of = gen /\ InOrder(u.read) /\ ~stale => InOrder(row)

\* Every unit in progress is legal.
UnitsLegal == \A a \in Actors : units[a] # None => UnitLegal(units[a])

\* The open row, unless a stale unit wrote it: its grace is whole, and a
\* payment holds up to the day it pays for.
RowLegal ==
    ~stale => /\ WholeGrace(row)
              /\ paid # None => paid <= row.end /\ (now <= paid => InOrder(row))

\* The inductive invariant.
IInv == TypeOK /\ UnitsTyped /\ StripeTyped /\ UnitsLegal /\ RowLegal

-----------------------------------------------------------------------------
(* The columns that a flush writes.                                        *)

\* A row written over another is a row, with the card that the writer changed.
LEMMA MergeTyped ==
    ASSUME NEW r \in Rows, NEW read \in Rows, NEW new \in Rows
    PROVE  /\ Merge(r, read, new) \in Rows
           /\ Merge(r, read, new).card = IF new.card # read.card THEN new.card ELSE r.card
BY DEF Rows, Merge

\* A unit that read the row as it is writes what it made of it.
LEMMA MergeFresh ==
    ASSUME NEW r \in Rows, NEW new \in Rows
    PROVE  Merge(r, r, new) = new
BY DEF Rows, Merge

\* A unit that changed nothing writes nothing.
LEMMA MergeNothing ==
    ASSUME NEW r \in Rows, NEW read \in Rows
    PROVE  Merge(r, read, read) = r
BY DEF Rows, Merge

-----------------------------------------------------------------------------
(* The operations on a row.                                                *)

\* What PlanGuard.vigente writes over a row is due.
LEMMA EffectiveStep ==
    ASSUME NEW r \in Rows, now \in Nat
    PROVE  Effective(r, now) \in Rows /\ Step(r, Effective(r, now))
<1>1. Effective(r, now) \in Rows
  BY DEF Effective, Rows, Statuses
<1>2. InOrder(r) => InOrder(Effective(r, now))
  BY SubscriptionsAssumption DEF Effective, LifecycleState, InOrder, Rows
<1>3. /\ Effective(r, now).end = r.end
      /\ Effective(r, now).grace = r.grace
      /\ Effective(r, now).ro = r.ro
      /\ Effective(r, now).canceled = r.canceled
  BY DEF Effective, Rows
<1> QED
  BY <1>1, <1>2, <1>3 DEF Step, WholeGrace, Due, Rows

\* What the daily job writes over a row is due.
LEMMA LifecycleStep ==
    ASSUME NEW r \in Rows, now \in Nat
    PROVE  LET new == PasarACancelada(PasarASoloLectura(PasarAGracia(r, now), now), now)
           IN  new \in Rows /\ Step(r, new)
<1> DEFINE g == PasarAGracia(r, now)
           s == PasarASoloLectura(g, now)
           c == PasarACancelada(s, now)
<1>1. /\ g \in Rows
      /\ g.end = r.end /\ g.ro = r.ro /\ g.canceled = r.canceled /\ g.status = r.status
      /\ g.grace = r.grace \/ (r.grace = None /\ r.end < now /\ g.grace = now + Grace)
  BY SubscriptionsAssumption DEF PasarAGracia, Rows
<1>2. /\ s \in Rows
      /\ s.end = g.end /\ s.grace = g.grace /\ s.canceled = g.canceled
      /\ \/ s.ro = g.ro /\ s.status = g.status
         \/ g.ro = None /\ s.ro = now /\ Vencida(g, now)
  BY <1>1, SubscriptionsAssumption DEF PasarASoloLectura, Rows, Statuses
<1>3. /\ c \in Rows
      /\ c.end = s.end /\ c.grace = s.grace /\ c.ro = s.ro
      /\ \/ c.canceled = s.canceled /\ c.status = s.status
         \/ c.canceled /\ s.ro # None /\ now > s.ro + ReadOnly
  BY <1>2 DEF PasarACancelada, Rows, Statuses
<1> HIDE DEF g, s, c
<1>4. InOrder(r) => InOrder(c)
  BY <1>1, <1>2, <1>3, SubscriptionsAssumption DEF InOrder, Vencida, Rows
<1>5. WholeGrace(r) => WholeGrace(c)
  BY <1>1, <1>2, <1>3, SubscriptionsAssumption DEF WholeGrace, Rows
<1>6. r.end <= c.end
  BY <1>1, <1>2, <1>3 DEF Rows
<1>7. Due(r, c)
  BY <1>1, <1>2, <1>3, SubscriptionsAssumption DEF Due, Vencida, Rows
<1>8. c \in Rows /\ Step(r, c)
  BY <1>3, <1>4, <1>5, <1>6, <1>7 DEF Step
<1> QED
  BY <1>8 DEF c, s, g

\* A payment puts a row in order.
LEMMA PaymentStep ==
    ASSUME NEW r \in Rows, NEW end \in Nat, now \in Nat
    PROVE  RegistrarPago(r, end) \in Rows /\ Step(r, RegistrarPago(r, end))
           /\ InOrder(RegistrarPago(r, end))
<1> DEFINE e == Later(end, IF r.end <= now THEN now + Renewal ELSE r.end)
           s == RegistrarPago(r, end)
<1>1. Renewal \in Nat /\ Renewal > 0
  BY SubscriptionsAssumption
<1>2. e \in Nat /\ now <= e /\ r.end <= e
  BY <1>1 DEF Later, Rows
<1>3. s = [Reactivar(r) EXCEPT !.end = e]
  BY DEF RegistrarPago
<1> HIDE DEF e, s
<1>4. Reactivar(r) \in Rows
  BY DEF Reactivar, Rows, Statuses
<1>5. /\ Reactivar(r).status = "ACTIVA"
      /\ Reactivar(r).grace = None
      /\ Reactivar(r).ro = None
      /\ ~Reactivar(r).canceled
  BY DEF Reactivar, Rows
<1>6. /\ s \in Rows
      /\ s.status = "ACTIVA" /\ s.grace = None /\ s.ro = None /\ ~s.canceled
      /\ s.end = e
  BY <1>2, <1>3, <1>4, <1>5 DEF Rows
<1>7. InOrder(s) /\ Step(r, s)
  BY <1>2, <1>6 DEF Step, InOrder, WholeGrace, Due
<1> QED
  BY <1>6, <1>7 DEF s

\* Linking a row to a Stripe subscription, or nothing at all, is a step.
LEMMA CardStep ==
    ASSUME NEW r \in Rows, NEW s \in Rows, now \in Nat,
           s.end = r.end, s.status = r.status, s.grace = r.grace, s.ro = r.ro,
           s.canceled = r.canceled
    PROVE  Step(r, s)
BY DEF Step, InOrder, WholeGrace, Due, Rows

-----------------------------------------------------------------------------
(* Units that begin.                                                       *)

\* What is assumed of the days and the cards, as the proofs use it.
LEMMA Numbers ==
    /\ {Grace, ReadOnly, PlanDays, Renewal, Period, MaxRows} \subseteq Nat \ {0}
    /\ MaxNow \in Nat
    /\ None \notin Cards
    /\ None \notin Int
BY SubscriptionsAssumption

\* The invoice of a period is well typed, paid or not.
LEMMA InvoiceTyped ==
    ASSUME NEW g, NEW start
    PROVE  LET i == EmitirPeriodo(g, start)
               p == [i EXCEPT !.paid = TRUE]
           IN  /\ i.of = g /\ i.start = start /\ i.paid \in BOOLEAN
               /\ p.of = g /\ p.start = start /\ p.paid = TRUE
BY DEF EmitirPeriodo

\* A legal unit begins.
Starts(a) == \E u : UnitTyped(u) /\ UnitLegal(u) /\ Begin(a, u)

\* A unit of work that begins well typed and legal keeps the invariant.
LEMMA StartsKeeps ==
    ASSUME IInv, NEW a \in Actors, Starts(a)
    PROVE  IInv'
<1>1. PICK u : UnitTyped(u) /\ UnitLegal(u) /\ Begin(a, u)
  BY DEF Starts
<1>2. UNCHANGED <<now, saas, stripe>> /\ units' = [units EXCEPT ![a] = u]
  BY <1>1 DEF Begin
<1>3. TypeOK' /\ StripeTyped' /\ RowLegal'
  BY <1>2 DEF IInv, TypeOK, StripeTyped, RowLegal, WholeGrace, InOrder, saas, stripe
<1>4. \A b \in Actors : units'[b] = IF b = a THEN u ELSE units[b]
  BY <1>2 DEF IInv, UnitsTyped
<1>5. \A v : (UnitTyped(v) => UnitTyped(v)') /\ (UnitLegal(v) => UnitLegal(v)')
  BY <1>2 DEF UnitTyped, UnitLegal, Step, InOrder, WholeGrace, Due, Pays, saas
<1>6. UnitsTyped'
  BY <1>1, <1>2, <1>4, <1>5 DEF IInv, UnitsTyped
<1>7. UnitsLegal'
  BY <1>1, <1>4, <1>5 DEF IInv, UnitsLegal
<1> QED
  BY <1>3, <1>6, <1>7 DEF IInv

\* A unit on the open row that makes a legal step of it may begin.
LEMMA OpenUnit ==
    ASSUME IInv, NEW new, NEW invoice, NEW event,
           new \in Rows, Step(row, new),
           invoice # None => /\ invoice.of \in 1 .. gen
                             /\ invoice.start \in Nat
                             /\ invoice.paid \in BOOLEAN
                             /\ invoice.paid => InOrder(new)
    PROVE  UnitTyped(Unit(new, invoice, event)) /\ UnitLegal(Unit(new, invoice, event))
<1> DEFINE u == Unit(new, invoice, event)
<1>1. /\ u.of = gen /\ u.read = row /\ u.new = new
      /\ u.successor = None /\ u.invoice = invoice
  BY DEF Unit
<1> HIDE DEF u
<1>2. UnitTyped(u)
  BY <1>1 DEF UnitTyped, IInv, TypeOK
<1>3. UnitLegal(u)
  BY <1>1 DEF UnitLegal, Pays
<1> QED
  BY <1>2, <1>3 DEF u

\* A unit that replaces the open row may begin.
LEMMA ReplaceStarts ==
    ASSUME IInv, NEW start \in Nat, NEW end \in Nat, NEW status \in Statuses,
           Replace(start, end, status)
    PROVE  Starts("staff")
<1> DEFINE v == Unit(Effective(row, now), None, None)
           u == [v EXCEPT !.successor = NewRow(start, end, status)]
<1>1. row \in Rows /\ now \in Nat /\ gen \in Nat
  BY Numbers DEF IInv, TypeOK
<1>2. Effective(row, now) \in Rows /\ Step(row, Effective(row, now))
  BY <1>1, EffectiveStep
<1>3. UnitTyped(v) /\ UnitLegal(v)
  BY <1>2, OpenUnit
<1>4. NewRow(start, end, status) \in Rows
       /\ NewRow(start, end, status).grace = None
       /\ NewRow(start, end, status).card = None
  BY DEF NewRow, Rows
<1>5. gen < MaxRows /\ Begin("staff", u)
  BY DEF Replace
<1>6. /\ u.of = gen /\ u.read = v.read /\ u.new = v.new /\ u.invoice = None
      /\ u.successor = NewRow(start, end, status)
      /\ v.of = gen
  BY DEF Unit
<1> HIDE DEF u, v
<1>7. UnitTyped(u)
  BY <1>3, <1>4, <1>5, <1>6 DEF UnitTyped
<1>8. UnitLegal(u)
  BY <1>3, <1>6 DEF UnitLegal, Pays
<1> QED
  BY <1>5, <1>7, <1>8 DEF Starts

\* Every unit of the job, of the requests and of the staff that begins is legal.
LEMMA OwnUnitsStart ==
    ASSUME IInv,
           \/ LifecycleJob \/ EmitirPendientes \/ Vigente
           \/ CambiarPlan \/ Renovar
           \/ \E status \in {"ACTIVA", "SUSPENDIDA", "CANCELADA"} : CambiarEstado(status)
           \/ \E i \in invoices : MarkInvoicePaid(i)
    PROVE  \E a \in Actors : Starts(a)
<1>1. row \in Rows /\ now \in Nat /\ gen \in Nat \ {0}
  BY Numbers DEF IInv, TypeOK
<1>2. Step(row, row)
  BY <1>1, CardStep
<1>3. CASE LifecycleJob
  <2> DEFINE new == PasarACancelada(PasarASoloLectura(PasarAGracia(row, now), now), now)
  <2>1. new \in Rows /\ Step(row, new)
    BY <1>1, LifecycleStep
  <2>2. Begin("job", Unit(new, None, None))
    BY <1>3 DEF LifecycleJob
  <2> HIDE DEF new
  <2>3. UnitTyped(Unit(new, None, None)) /\ UnitLegal(Unit(new, None, None))
    BY <2>1, OpenUnit
  <2> QED
    BY <2>2, <2>3 DEF Starts, Actors
<1>4. CASE EmitirPendientes
  <2> DEFINE i == EmitirPeriodo(gen, row.start)
  <2>1. i.of = gen /\ i.start = row.start /\ i.paid = FALSE
    BY <1>4 DEF EmitirPeriodo, EmitirPendientes
  <2>2. i.of \in 1 .. gen /\ i.start \in Nat
    BY <1>1, <2>1 DEF Rows
  <2>3. Begin("job", Unit(row, i, None))
    BY <1>4 DEF EmitirPendientes
  <2> HIDE DEF i
  <2>4. UnitTyped(Unit(row, i, None)) /\ UnitLegal(Unit(row, i, None))
    BY <1>1, <1>2, <2>1, <2>2, OpenUnit
  <2> QED
    BY <2>3, <2>4 DEF Starts, Actors
<1>5. CASE Vigente
  <2>1. UnitTyped(Unit(Effective(row, now), None, None))
        /\ UnitLegal(Unit(Effective(row, now), None, None))
    BY <1>1, EffectiveStep, OpenUnit
  <2>2. Begin("get", Unit(Effective(row, now), None, None))
    BY <1>5 DEF Vigente
  <2> QED
    BY <2>1, <2>2 DEF Starts, Actors
<1>6. CASE CambiarPlan
  <2>1. now + PlanDays - 1 \in Nat
    BY <1>1, Numbers
  <2>2. Starts("staff")
    BY <1>1, <1>6, <2>1, ReplaceStarts DEF CambiarPlan, Statuses
  <2> QED
    BY <2>2 DEF Actors
<1>7. CASE Renovar
  <2> DEFINE start == Later(now, row.end) + 1
  <2>1. start \in Nat /\ start + PlanDays - 1 \in Nat
    BY <1>1, Numbers DEF Later, Rows
  <2>2. Replace(start, start + PlanDays - 1, "ACTIVA")
    BY <1>7 DEF Renovar
  <2> HIDE DEF start
  <2>3. Starts("staff")
    BY <2>1, <2>2, ReplaceStarts DEF Statuses
  <2> QED
    BY <2>3 DEF Actors
<1>8. ASSUME NEW status \in {"ACTIVA", "SUSPENDIDA", "CANCELADA"}, CambiarEstado(status)
      PROVE  \E a \in Actors : Starts(a)
  <2>1. row.start \in Nat /\ row.end \in Nat /\ status \in Statuses
    BY <1>1 DEF Rows, Statuses
  <2>2. Replace(row.start, row.end, status)
    BY <1>8 DEF CambiarEstado
  <2>3. Starts("staff")
    BY <2>1, <2>2, ReplaceStarts
  <2> QED
    BY <2>3 DEF Actors
<1>9. ASSUME NEW i \in invoices, MarkInvoicePaid(i)
      PROVE  \E a \in Actors : Starts(a)
  <2> DEFINE new == RegistrarPago(row, 0)
             p == [EmitirPeriodo(gen, i.start) EXCEPT !.paid = TRUE]
  <2>1. new \in Rows /\ Step(row, new) /\ InOrder(new)
    BY <1>1, PaymentStep
  <2>2. p.of = gen /\ p.start = i.start /\ p.paid = TRUE
    BY InvoiceTyped
  <2>3. i.start \in Nat /\ gen \in 1 .. gen
    BY <1>1 DEF IInv, TypeOK
  <2>4. Begin("staff", Unit(new, p, None))
    BY <1>9 DEF MarkInvoicePaid
  <2> HIDE DEF new, p
  <2>5. UnitTyped(Unit(new, p, None)) /\ UnitLegal(Unit(new, p, None))
    BY <2>1, <2>2, <2>3, OpenUnit
  <2> QED
    BY <2>4, <2>5 DEF Starts, Actors
<1> QED
  BY <1>3, <1>4, <1>5, <1>6, <1>7, <1>8, <1>9

\* A unit on a closed row says nothing of the open one.
LEMMA ClosedUnit ==
    ASSUME IInv, NEW card \in Cards \cup {None}, NEW invoice, NEW e \in events,
           owner[e.card] # 0,
           invoice # None => /\ invoice.of \in 1 .. gen
                             /\ invoice.start \in Nat
                             /\ invoice.paid \in BOOLEAN
    PROVE  UnitTyped(OnClosed(card, invoice, e)) /\ UnitLegal(OnClosed(card, invoice, e))
<1> DEFINE u == OnClosed(card, invoice, e)
<1>1. row \in Rows /\ now \in Nat /\ gen \in Nat /\ e.card \in Cards
  BY Numbers DEF IInv, TypeOK, StripeTyped, Happenings
<1>2. owner[e.card] \in 1 .. gen - 1
  BY <1>1 DEF IInv, TypeOK
<1>3. /\ u.of = owner[e.card]
      /\ u.read = [row EXCEPT !.card = e.card]
      /\ u.new = [row EXCEPT !.card = card]
      /\ u.successor = None
      /\ u.invoice = invoice
  BY DEF OnClosed, Unit
<1> HIDE DEF u
<1>4. u.read \in Rows /\ u.new \in Rows /\ Step(u.read, u.new)
  <2>1. u.read \in Rows /\ u.new \in Rows
    BY <1>1, <1>3 DEF Rows
  <2>2. /\ u.new.end = u.read.end /\ u.new.status = u.read.status
        /\ u.new.grace = u.read.grace /\ u.new.ro = u.read.ro
        /\ u.new.canceled = u.read.canceled
    BY <1>1, <1>3 DEF Rows
  <2> QED
    BY <1>1, <2>1, <2>2, CardStep
<1>5. UnitTyped(u)
  BY <1>1, <1>2, <1>3, <1>4 DEF UnitTyped
<1>6. UnitLegal(u)
  BY <1>1, <1>2, <1>3, <1>4 DEF UnitLegal
<1> QED
  BY <1>5, <1>6 DEF u

\* The unit that a webhook begins is well typed and legal.
LEMMA WebhookStarts ==
    ASSUME IInv, NEW e \in events, ProcesarWebhook(e)
    PROVE  Starts("hook")
<1>1. row \in Rows /\ now \in Nat /\ gen \in 1 .. gen
  BY Numbers DEF IInv, TypeOK
<1>2. e.card \in Cards /\ e.start \in Nat /\ e.end \in Nat
      /\ e.type \in {"completed", "paid", "deleted"}
  BY DEF IInv, StripeTyped, Happenings
<1>3. owner[e.card] # 0 => owner[e.card] \in 1 .. gen
  BY <1>1, <1>2, Numbers DEF IInv, TypeOK
<1>4. ASSUME NEW card \in Cards \cup {None}
      PROVE  [row EXCEPT !.card = card] \in Rows /\ Step(row, [row EXCEPT !.card = card])
  <2> DEFINE r == [row EXCEPT !.card = card]
  <2>1. /\ r \in Rows
        /\ r.end = row.end /\ r.status = row.status /\ r.grace = row.grace
        /\ r.ro = row.ro /\ r.canceled = row.canceled
    BY <1>1 DEF Rows
  <2> HIDE DEF r
  <2>2. Step(row, r)
    BY <1>1, <2>1, CardStep
  <2> QED
    BY <2>1, <2>2 DEF r
<1>5. UnitTyped(Unit(row, None, e)) /\ UnitLegal(Unit(row, None, e))
  BY <1>1, CardStep, OpenUnit
<1>6. CASE e.type = "completed"
  <2> DEFINE card == IF row.card = None THEN e.card ELSE row.card
  <2>1. card \in Cards \cup {None}
    BY <1>1, <1>2 DEF Rows
  <2>2. Handler(e) = Unit([row EXCEPT !.card = card], None, e)
    BY <1>6 DEF Handler, CheckoutCompletado
  <2> HIDE DEF card
  <2>3. UnitTyped(Handler(e)) /\ UnitLegal(Handler(e))
    BY <1>4, <2>1, <2>2, OpenUnit
  <2> QED
    BY <2>3 DEF ProcesarWebhook, Starts
<1>7. CASE e.type = "deleted"
  <2>1. Handler(e) = SuscripcionEliminada(e)
    BY <1>7 DEF Handler
  <2>2. CASE owner[e.card] # 0
    <3>1. Handler(e) = OnClosed(None, None, e)
      <4>1. e.card # row.card
        BY <1>2, <2>2, Numbers DEF IInv, TypeOK
      <4> QED
        BY <2>1, <2>2, <4>1 DEF SuscripcionEliminada
    <3>2. UnitTyped(Handler(e)) /\ UnitLegal(Handler(e))
      BY <2>2, <3>1, ClosedUnit
    <3> QED
      BY <3>2 DEF ProcesarWebhook, Starts
  <2>3. CASE owner[e.card] = 0 /\ e.card = row.card
    <3>1. Handler(e) = Unit([row EXCEPT !.card = None], None, e)
      BY <2>1, <2>3 DEF SuscripcionEliminada
    <3>2. UnitTyped(Handler(e)) /\ UnitLegal(Handler(e))
      BY <1>4, <3>1, OpenUnit
    <3> QED
      BY <3>2 DEF ProcesarWebhook, Starts
  <2>4. CASE owner[e.card] = 0 /\ e.card # row.card
    BY <1>5, <2>1, <2>4 DEF SuscripcionEliminada, ProcesarWebhook, Starts
  <2> QED
    BY <2>2, <2>3, <2>4
<1>8. CASE e.type = "paid"
  <2> DEFINE linked == [row EXCEPT !.card = e.card]
  <2>1. Handler(e) = FacturaPagada(e)
    BY <1>8 DEF Handler
  <2>2. CASE owner[e.card] # 0
    <3> DEFINE p == [EmitirPeriodo(owner[e.card], e.start) EXCEPT !.paid = TRUE]
    <3>1. Handler(e) = OnClosed(e.card, p, e)
      BY <2>1, <2>2 DEF FacturaPagada
    <3>2. p.of = owner[e.card] /\ p.start = e.start /\ p.paid = TRUE
      BY InvoiceTyped
    <3> HIDE DEF p
    <3>3. UnitTyped(Handler(e)) /\ UnitLegal(Handler(e))
      BY <1>2, <1>3, <2>2, <3>1, <3>2, ClosedUnit
    <3> QED
      BY <3>3 DEF ProcesarWebhook, Starts
  <2>3. CASE owner[e.card] = 0 /\ row.card \in {None, e.card}
    <3> DEFINE i == EmitirPeriodo(gen, e.start)
               p == [i EXCEPT !.paid = TRUE]
               new == RegistrarPago(linked, e.end)
    <3>1. Handler(e) = IF i.paid THEN Unit(linked, None, e) ELSE Unit(new, p, e)
      BY <2>1, <2>3 DEF FacturaPagada
    <3>2. linked \in Rows /\ Step(row, linked)
      BY <1>2, <1>4
    <3>3. p.of = gen /\ p.start = e.start /\ p.paid = TRUE
      BY InvoiceTyped
    <3>4. /\ linked.end = row.end /\ linked.status = row.status
          /\ linked.grace = row.grace /\ linked.ro = row.ro
          /\ linked.canceled = row.canceled
      BY <1>1 DEF Rows
    <3> HIDE DEF linked
    <3>5. new \in Rows /\ Step(linked, new) /\ InOrder(new)
      BY <1>1, <1>2, <3>2, PaymentStep
    <3> HIDE DEF p, new
    <3>6. Step(row, new)
      BY <1>1, <3>4, <3>5 DEF Step, InOrder, WholeGrace, Due
    <3>7. UnitTyped(Unit(new, p, e)) /\ UnitLegal(Unit(new, p, e))
      BY <1>1, <1>2, <3>3, <3>5, <3>6, OpenUnit
    <3>8. UnitTyped(Unit(linked, None, e)) /\ UnitLegal(Unit(linked, None, e))
      BY <3>2, OpenUnit
    <3> QED
      BY <3>1, <3>7, <3>8 DEF ProcesarWebhook, Starts
  <2>4. CASE owner[e.card] = 0 /\ row.card \notin {None, e.card}
    <3>1. Handler(e) = Unit(row, None, e)
      BY <2>1, <2>4 DEF FacturaPagada
    <3> QED
      BY <1>5, <3>1 DEF ProcesarWebhook, Starts
  <2> QED
    BY <2>2, <2>3, <2>4
<1> QED
  BY <1>2, <1>6, <1>7, <1>8

-----------------------------------------------------------------------------
(* Units that end.                                                         *)

\* The units of the others stay what they are when the open row changes hands.
LEMMA OthersTyped ==
    ASSUME IInv, NEW a \in Actors, units' = [units EXCEPT ![a] = None],
           gen' \in {gen, gen + 1}
    PROVE  UnitsTyped'
<1>1. gen \in Nat
  BY Numbers DEF IInv, TypeOK
<1>2. DOMAIN units' = Actors
      /\ \A b \in Actors : units'[b] = IF b = a THEN None ELSE units[b]
  BY DEF IInv, UnitsTyped
<1>3. \A v : UnitTyped(v) => UnitTyped(v)'
  BY <1>1, Numbers DEF UnitTyped
<1> QED
  BY <1>2, <1>3 DEF IInv, UnitsTyped

\* A unit that leaves the open row, and what is known of it, as they are.
LEMMA RowUntouched ==
    ASSUME IInv, NEW a \in Actors, units' = [units EXCEPT ![a] = None],
           UNCHANGED <<now, row, gen, paid, stale>>
    PROVE  UnitsTyped' /\ UnitsLegal' /\ RowLegal'
<1>1. \A b \in Actors : units'[b] = IF b = a THEN None ELSE units[b]
  BY DEF IInv, UnitsTyped
<1>2. \A v : UnitLegal(v) => UnitLegal(v)'
  BY DEF UnitLegal, Step, InOrder, WholeGrace, Due, Pays
<1>3. UnitsLegal'
  BY <1>1, <1>2 DEF IInv, UnitsLegal
<1>4. RowLegal'
  BY DEF IInv, RowLegal, WholeGrace, InOrder
<1> QED
  BY <1>3, <1>4, OthersTyped

\* The invoices that a unit leaves behind.
LEMMA InvoicesKept ==
    ASSUME IInv, NEW u, UnitTyped(u), Apply(u), gen' \in {gen, gen + 1}
    PROVE  /\ invoices' \subseteq [of : 1 .. gen', start : Nat, paid : BOOLEAN]
           /\ events' \subseteq events
<1>1. gen \in Nat
  BY Numbers DEF IInv, TypeOK
<1>2. invoices \subseteq [of : 1 .. gen', start : Nat, paid : BOOLEAN]
  BY <1>1 DEF IInv, TypeOK
<1>3. u.invoice # None =>
        [of |-> u.invoice.of, start |-> u.invoice.start, paid |-> u.invoice.paid]
            \in [of : 1 .. gen', start : Nat, paid : BOOLEAN]
  BY <1>1 DEF UnitTyped
<1> QED
  BY <1>2, <1>3 DEF Apply

\* A unit that commits over a row already closed keeps the invariant.
LEMMA ClosedCommits ==
    ASSUME IInv, NEW a \in Actors, Commit(a), units[a] # None,
           ~Clash(units[a]), units[a].of # gen
    PROVE  IInv'
<1> DEFINE u == units[a]
<1>1. UnitTyped(u)
  BY DEF IInv, UnitsTyped
<1>2. /\ Apply(u) /\ ApplyClosed(u)
      /\ units' = [units EXCEPT ![a] = None]
      /\ UNCHANGED <<now, row, gen, paid, stale, cards>>
  BY DEF Commit, Apply, ApplyClosed
<1>3. UnitsTyped' /\ UnitsLegal' /\ RowLegal'
  BY <1>2, RowUntouched
<1>4. invoices' \subseteq [of : 1 .. gen', start : Nat, paid : BOOLEAN] /\ StripeTyped'
  BY <1>1, <1>2, InvoicesKept DEF IInv, StripeTyped
<1>5. gen \in Nat /\ u.of \in 1 .. gen - 1 /\ row.card \in Cards \cup {None}
      /\ u.new.card \in Cards \cup {None}
  BY <1>1, Numbers DEF IInv, TypeOK, UnitTyped, Rows
<1>6. owner \in [Cards -> 0 .. gen - 1] /\ (row.card # None => owner[row.card] = 0)
  BY DEF IInv, TypeOK
<1>7. u.new.card \notin {u.read.card, None} => row.card # u.new.card
  BY <1>5 DEF Clash
<1>8. ASSUME NEW c \in Cards
      PROVE  /\ owner'[c] \in {owner[c], u.of, 0}
             /\ owner'[c] \in {owner[c], 0} \/ (c = u.new.card /\ u.new.card # u.read.card)
  <2>1. CASE u.new.card = u.read.card
    BY <1>2, <2>1 DEF ApplyClosed
  <2>2. CASE u.new.card # u.read.card /\ c = u.new.card
    BY <1>2, <2>2 DEF ApplyClosed
  <2>3. CASE u.new.card # u.read.card /\ c # u.new.card /\ c = u.read.card
    BY <1>2, <2>3 DEF ApplyClosed
  <2>4. CASE u.new.card # u.read.card /\ c # u.new.card /\ c # u.read.card
    BY <1>2, <2>4 DEF ApplyClosed
  <2> QED
    BY <2>1, <2>2, <2>3, <2>4
<1>9. owner' \in [Cards -> 0 .. gen - 1]
  BY <1>2, <1>5, <1>6, <1>8 DEF ApplyClosed
<1>10. row.card # None => owner'[row.card] = 0
  BY <1>5, <1>6, <1>7, <1>8, Numbers
<1>11. TypeOK'
  BY <1>2, <1>4, <1>9, <1>10 DEF IInv, TypeOK
<1> QED
  BY <1>3, <1>4, <1>11 DEF IInv

\* So does one that closes the row and opens its successor.
LEMMA SuccessorCommits ==
    ASSUME IInv, NEW a \in Actors, Commit(a), units[a] # None,
           ~Clash(units[a]), units[a].of = gen, units[a].successor # None
    PROVE  IInv'
<1> DEFINE u == units[a]
           merged == Merge(row, u.read, u.new)
<1>1. UnitTyped(u) /\ row \in Rows /\ gen \in Nat /\ gen < MaxRows
  BY Numbers DEF IInv, UnitsTyped, TypeOK, UnitTyped
<1>2. Apply(u) /\ ApplyOpen(u) /\ units' = [units EXCEPT ![a] = None]
      /\ UNCHANGED <<now, cards>>
  BY DEF Commit, Apply
<1>3. /\ row' = u.successor /\ gen' = gen + 1 /\ paid' = None /\ stale' = FALSE
      /\ owner' = IF merged.card = None THEN owner ELSE [owner EXCEPT ![merged.card] = gen]
  BY <1>2 DEF ApplyOpen
<1>4. merged \in Rows
  BY <1>1, MergeTyped DEF UnitTyped
<1> HIDE DEF merged
<1>5. owner' \in [Cards -> 0 .. gen' - 1]
  <2>1. owner \in [Cards -> 0 .. gen - 1] /\ merged.card \in Cards \cup {None}
    BY <1>4 DEF IInv, TypeOK, Rows
  <2>2. owner \in [Cards -> 0 .. gen] /\ gen \in 0 .. gen
    BY <1>1, <2>1
  <2>3. owner' \in [Cards -> 0 .. gen]
    BY <1>3, <2>1, <2>2
  <2> QED
    BY <1>1, <1>3, <2>3
<1>6. row' \in Rows /\ row'.grace = None /\ row'.card = None
  BY <1>1, <1>3 DEF UnitTyped
<1>7. invoices' \subseteq [of : 1 .. gen', start : Nat, paid : BOOLEAN] /\ StripeTyped'
  BY <1>1, <1>2, <1>3, InvoicesKept DEF IInv, StripeTyped
<1>8. TypeOK'
  <2>1. gen' \in 1 .. MaxRows
    BY <1>1, <1>3, Numbers
  <2> QED
    BY <1>2, <1>3, <1>5, <1>6, <1>7, <2>1 DEF IInv, TypeOK
<1>9. UnitsTyped'
  BY <1>2, <1>3, OthersTyped
<1>10. RowLegal'
  BY <1>3, <1>6 DEF RowLegal, WholeGrace
<1>11. UnitsLegal'
  <2>1. \A v : UnitTyped(v) /\ UnitLegal(v) => UnitLegal(v)'
    <3> SUFFICES ASSUME NEW v, UnitTyped(v), UnitLegal(v)
                 PROVE  UnitLegal(v)'
      OBVIOUS
    <3>1. v.of # gen'
      BY <1>1, <1>3 DEF UnitTyped
    <3>2. Step(v.read, v.new)'
      BY <1>2 DEF UnitLegal, Step, InOrder, WholeGrace, Due
    <3> QED
      BY <3>1, <3>2 DEF UnitLegal
  <2>2. \A b \in Actors : units'[b] = IF b = a THEN None ELSE units[b]
    BY <1>2 DEF IInv, UnitsTyped
  <2> QED
    BY <2>1, <2>2 DEF IInv, UnitsTyped, UnitsLegal
<1> QED
  BY <1>7, <1>8, <1>9, <1>10, <1>11 DEF IInv

\* So does one that writes over the open row.
LEMMA OpenCommits ==
    ASSUME IInv, NEW a \in Actors, Commit(a), units[a] # None,
           ~Clash(units[a]), units[a].of = gen, units[a].successor = None
    PROVE  IInv'
<1> DEFINE u == units[a]
           merged == Merge(row, u.read, u.new)
<1>1. UnitTyped(u) /\ UnitLegal(u) /\ row \in Rows /\ gen \in Nat /\ now \in Nat
  BY Numbers DEF IInv, UnitsTyped, UnitsLegal, TypeOK
<1>2. Apply(u) /\ ApplyOpen(u) /\ units' = [units EXCEPT ![a] = None]
      /\ UNCHANGED <<now, cards>>
  BY DEF Commit, Apply
<1>3. /\ row' = merged
      /\ paid' = IF Pays(u) THEN merged.end ELSE paid
      /\ row # u.read /\ u.new # u.read => stale' = TRUE
      /\ row = u.read /\ Pays(u) => stale' = FALSE
      /\ u.new = u.read /\ row # u.read => stale' = stale
      /\ row = u.read /\ ~Pays(u) => stale' = stale
      /\ stale' \in {TRUE, FALSE, stale}
      /\ UNCHANGED <<gen, owner>>
  BY <1>2 DEF ApplyOpen
<1>4. /\ merged \in Rows
      /\ merged.card = IF u.new.card # u.read.card THEN u.new.card ELSE row.card
  BY <1>1, MergeTyped DEF UnitTyped
<1>5. row = u.read => merged = u.new
  BY <1>1, MergeFresh DEF UnitTyped
<1>6. u.new = u.read => merged = row
  BY <1>1, MergeNothing DEF UnitTyped
<1> HIDE DEF merged
<1>7. Pays(u) => InOrder(u.new)
  BY <1>1 DEF UnitLegal
<1>8. invoices' \subseteq [of : 1 .. gen', start : Nat, paid : BOOLEAN] /\ StripeTyped'
  BY <1>1, <1>2, <1>3, InvoicesKept DEF IInv, StripeTyped
<1>9. TypeOK'
  <2>1. row'.card # None => owner'[row'.card] = 0
    <3>1. CASE u.new.card # u.read.card
      BY <1>3, <1>4, <3>1 DEF Clash
    <3>2. CASE u.new.card = u.read.card
      BY <1>3, <1>4, <3>2 DEF IInv, TypeOK
    <3> QED
      BY <3>1, <3>2
  <2>2. paid' \in Nat \cup {None} /\ stale' \in BOOLEAN
    BY <1>3, <1>4 DEF IInv, TypeOK, Rows
  <2>3. row' \in Rows
    BY <1>3, <1>4
  <2> QED
    BY <1>2, <1>3, <1>8, <2>1, <2>2, <2>3 DEF IInv, TypeOK
<1>10. UnitsTyped'
  BY <1>2, <1>3, OthersTyped
<1>11. RowLegal'
  <2> SUFFICES ASSUME ~stale'
               PROVE  /\ WholeGrace(row)'
                      /\ paid' # None => paid' <= row'.end /\ (now <= paid' => InOrder(row)')
    BY <1>2 DEF RowLegal
  <2>1. CASE row = u.read /\ Pays(u)
    <3>1. row' = u.new /\ InOrder(u.new) /\ paid' = row'.end
      BY <1>3, <1>5, <1>7, <2>1
    <3>2. row'.end \in Nat
      BY <1>3, <1>4 DEF Rows
    <3> QED
      BY <1>2, <3>1, <3>2 DEF InOrder, WholeGrace
  <2>2. CASE row = u.read /\ ~Pays(u)
    <3>1. row' = u.new /\ paid' = paid /\ ~stale
      BY <1>3, <1>5, <2>2
    <3>2. Step(row, row')
      BY <1>1, <2>2, <3>1 DEF UnitLegal
    <3>3. row.end \in Nat /\ row'.end \in Nat /\ (paid # None => paid \in Nat)
      BY <1>1, <1>3, <1>4 DEF IInv, TypeOK, Rows
    <3> QED
      BY <1>2, <3>1, <3>2, <3>3 DEF IInv, RowLegal, Step, InOrder, WholeGrace
  <2>3. CASE row # u.read
    <3>1. u.new = u.read /\ row' = row /\ ~stale
      BY <1>3, <1>6, <2>3
    <3>2. CASE Pays(u)
      <4>1. InOrder(row)
        BY <1>1, <1>7, <3>1, <3>2 DEF UnitLegal
      <4>2. paid' = row'.end /\ row'.end \in Nat
        BY <1>3, <1>4, <3>1, <3>2
           DEF Rows
      <4> QED
        BY <1>2, <3>1, <4>1, <4>2 DEF IInv, RowLegal, InOrder, WholeGrace
    <3>3. CASE ~Pays(u)
      BY <1>2, <1>3, <3>1, <3>3 DEF IInv, RowLegal, InOrder, WholeGrace
    <3> QED
      BY <3>2, <3>3
  <2> QED
    BY <2>1, <2>2, <2>3
<1>12. UnitsLegal'
  <2>1. \A v : UnitLegal(v) => UnitLegal(v)'
    <3> SUFFICES ASSUME NEW v, UnitLegal(v)
                 PROVE  UnitLegal(v)'
      OBVIOUS
    <3>1. Step(v.read, v.new)'
      BY <1>2 DEF UnitLegal, Step, InOrder, WholeGrace, Due
    <3>2. v.of = gen /\ Pays(v) => InOrder(v.new)' /\ v.successor = None
      BY <1>2 DEF UnitLegal, InOrder
    <3>3. ASSUME v.of = gen, InOrder(v.read), ~stale'
          PROVE  InOrder(row)'
      <4>1. CASE row = u.read /\ Pays(u)
        BY <1>2, <1>3, <1>5, <1>7, <4>1 DEF InOrder
      <4>2. CASE row = u.read /\ ~Pays(u)
        <5>1. InOrder(row)
          BY <1>3, <3>3, <4>2 DEF UnitLegal
        <5> QED
          BY <1>1, <1>2, <1>3, <1>5, <4>2, <5>1 DEF UnitLegal, Step, InOrder
      <4>3. CASE row # u.read
        BY <1>2, <1>3, <1>6, <3>3, <4>3 DEF UnitLegal, InOrder
      <4> QED
        BY <4>1, <4>2, <4>3
    <3>4. InOrder(v.read)' => InOrder(v.read)
      BY <1>2 DEF InOrder
    <3> QED
      BY <1>3, <3>1, <3>2, <3>3, <3>4 DEF UnitLegal, Pays
  <2>2. \A b \in Actors : units'[b] = IF b = a THEN None ELSE units[b]
    BY <1>2 DEF IInv, UnitsTyped
  <2> QED
    BY <2>1, <2>2 DEF IInv, UnitsLegal
<1> QED
  BY <1>8, <1>9, <1>10, <1>11, <1>12 DEF IInv

-----------------------------------------------------------------------------
(* The inductive invariant.                                                *)

\* The first state satisfies the invariant.
LEMMA IInvInit == Init => IInv
<1> SUFFICES ASSUME Init PROVE IInv
  OBVIOUS
<1>1. row \in Rows /\ row.grace = None /\ row.card = None
  BY Numbers DEF Init, NewRow, Rows, Statuses
<1>2. TypeOK
  <2>1. now \in 0 .. MaxNow
    BY Numbers DEF Init
  <2>2. gen \in 1 .. MaxRows
    BY Numbers DEF Init
  <2>3. owner \in [Cards -> 0 .. gen - 1]
    BY DEF Init
  <2>4. invoices = {} /\ paid = None
    BY DEF Init
  <2>5. stale \in BOOLEAN
    BY DEF Init
  <2> QED
    BY <1>1, <2>1, <2>2, <2>3, <2>4, <2>5 DEF TypeOK
<1>3. UnitsTyped /\ UnitsLegal
  BY DEF Init, UnitsTyped, UnitsLegal
<1>4. StripeTyped
  BY DEF Init, StripeTyped
<1>5. RowLegal
  BY <1>1 DEF Init, RowLegal, WholeGrace
<1> QED
  BY <1>2, <1>3, <1>4, <1>5 DEF IInv

\* Every commit keeps the invariant.
LEMMA CommitKeeps ==
    ASSUME IInv, NEW a \in Actors, Commit(a)
    PROVE  IInv'
<1>1. units[a] # None
  BY DEF Commit
<1>2. CASE Clash(units[a])
  <2>1. units' = [units EXCEPT ![a] = None] /\ UNCHANGED <<now, saas, cards, events>>
    BY <1>2 DEF Commit
  <2>2. UnitsTyped' /\ UnitsLegal' /\ RowLegal'
    BY <2>1, RowUntouched DEF saas
  <2> QED
    BY <2>1, <2>2 DEF IInv, TypeOK, StripeTyped, saas
<1> QED
  BY <1>1, <1>2, ClosedCommits, SuccessorCommits, OpenCommits

\* A session that closes without a commit changes no row.
LEMMA CloseSessionKeeps ==
    ASSUME IInv, CloseSession
    PROVE  IInv'
<1>1. units' = [units EXCEPT !["staff"] = None] /\ UNCHANGED <<now, saas, stripe>>
  BY DEF CloseSession
<1>2. UnitsTyped' /\ UnitsLegal' /\ RowLegal'
  BY <1>1, RowUntouched DEF saas, Actors
<1> QED
  BY <1>1, <1>2 DEF IInv, TypeOK, StripeTyped, saas, stripe

\* A row that was legal yesterday is legal today.
LEMMA NextDayKeeps ==
    ASSUME IInv, NextDay
    PROVE  IInv'
<1>1. now' = now + 1 /\ now \in Nat /\ now' \in 0 .. MaxNow
      /\ UNCHANGED <<units, saas, stripe>>
  BY Numbers DEF NextDay, IInv, TypeOK
<1>2. \A a \in Actors : units'[a] = None
  BY <1>1 DEF NextDay
<1>3. TypeOK' /\ StripeTyped'
  BY <1>1 DEF IInv, TypeOK, StripeTyped, saas, stripe
<1>4. UnitsTyped' /\ UnitsLegal'
  BY <1>1, <1>2 DEF IInv, UnitsTyped, UnitsLegal
<1>5. RowLegal'
  <2>1. row.end \in Nat /\ (paid # None => paid \in Nat)
    BY DEF IInv, TypeOK, Rows
  <2> QED
    BY <1>1, <2>1 DEF IInv, RowLegal, WholeGrace, InOrder, saas
<1> QED
  BY <1>3, <1>4, <1>5 DEF IInv

\* What Stripe does on its side changes no row.
LEMMA StripeKeeps ==
    ASSUME IInv, NEW c \in Cards,
           CrearCheckout(c) \/ CheckoutPaid(c) \/ StripeRenews(c) \/ StripeEnds(c)
    PROVE  IInv'
<1>1. now \in Nat /\ Period \in Nat /\ cards[c].end \in Nat
  BY SubscriptionsAssumption DEF IInv, TypeOK, StripeTyped
<1>2. UNCHANGED <<now, units, saas>>
  BY DEF CrearCheckout, CheckoutPaid, StripeRenews, StripeEnds
<1>3. \A start, end \in Nat :
        /\ Happens("completed", c, start, end) \in Happenings
        /\ Happens("paid", c, start, end) \in Happenings
        /\ Happens("deleted", c, start, end) \in Happenings
  BY DEF Happens, Happenings
<1>4. cards \in [Cards -> [state : {"none", "checkout", "active", "ended"}, end : Nat]]
      /\ events \subseteq Happenings
  BY DEF IInv, StripeTyped
<1>5. StripeTyped'
  <2>1. CASE CrearCheckout(c)
    BY <1>4, <2>1 DEF CrearCheckout, StripeTyped
  <2>2. CASE CheckoutPaid(c)
    <3>1. now + Period \in Nat /\ 0 \in Nat
      BY <1>1
    <3>2. events' = events \cup {Happens("completed", c, 0, 0), Happens("paid", c, now, now + Period)}
          /\ cards' = [cards EXCEPT ![c] = [state |-> "active", end |-> now + Period]]
      BY <2>2 DEF CheckoutPaid
    <3>3. events' \subseteq Happenings
      BY <1>1, <1>3, <1>4, <3>1, <3>2
    <3> QED
      BY <1>4, <3>1, <3>2, <3>3 DEF StripeTyped
  <2>3. CASE StripeRenews(c)
    <3>1. cards[c].end + Period \in Nat
      BY <1>1
    <3>2. events' = events \cup {Happens("paid", c, cards[c].end, cards[c].end + Period)}
          /\ cards' = [cards EXCEPT ![c].end = cards[c].end + Period]
      BY <2>3 DEF StripeRenews
    <3>3. events' \subseteq Happenings
      BY <1>1, <1>3, <1>4, <3>1, <3>2
    <3> QED
      BY <1>4, <3>1, <3>2, <3>3 DEF StripeTyped
  <2>4. CASE StripeEnds(c)
    <3>1. events' \subseteq events \cup {Happens("deleted", c, 0, 0)}
          /\ cards' = [cards EXCEPT ![c] = [state |-> "ended", end |-> 0]]
      BY <2>4 DEF StripeEnds
    <3>2. events' \subseteq Happenings
      BY <1>3, <1>4, <3>1
    <3> QED
      BY <1>4, <3>1, <3>2 DEF StripeTyped
  <2> QED
    BY <2>1, <2>2, <2>3, <2>4
<1>6. TypeOK' /\ UnitsTyped' /\ RowLegal'
  BY <1>2 DEF IInv, TypeOK, UnitsTyped, UnitTyped, RowLegal, WholeGrace, InOrder, saas
<1>7. UnitsLegal'
  <2>1. \A v : UnitLegal(v) => UnitLegal(v)'
    BY <1>2 DEF UnitLegal, Step, InOrder, WholeGrace, Due, Pays, saas
  <2> QED
    BY <1>2, <2>1 DEF IInv, UnitsLegal
<1> QED
  BY <1>5, <1>6, <1>7 DEF IInv

\* Every step keeps the invariant.
LEMMA IInvStep == IInv /\ [Next]_vars => IInv'
<1> SUFFICES ASSUME IInv, [Next]_vars PROVE IInv'
  OBVIOUS
<1>1. CASE NextDay
  BY <1>1, NextDayKeeps
<1>2. CASE \/ LifecycleJob \/ EmitirPendientes \/ Vigente
           \/ CambiarPlan \/ Renovar
           \/ \E status \in {"ACTIVA", "SUSPENDIDA", "CANCELADA"} : CambiarEstado(status)
           \/ \E i \in invoices : MarkInvoicePaid(i)
  BY <1>2, OwnUnitsStart, StartsKeeps
<1>3. CASE CloseSession
  BY <1>3, CloseSessionKeeps
<1>4. ASSUME NEW e \in events, ProcesarWebhook(e) PROVE IInv'
  BY <1>4, WebhookStarts, StartsKeeps DEF Actors
<1>5. ASSUME NEW a \in Actors, Commit(a) PROVE IInv'
  BY <1>5, CommitKeeps
<1>6. ASSUME NEW c \in Cards,
             CrearCheckout(c) \/ CheckoutPaid(c) \/ StripeRenews(c) \/ StripeEnds(c)
      PROVE  IInv'
  BY <1>6, StripeKeeps
<1>7. CASE UNCHANGED vars
  <2>1. UNCHANGED <<now, units, saas, stripe>>
    BY <1>7 DEF vars
  <2>2. \A v : (UnitTyped(v) => UnitTyped(v)') /\ (UnitLegal(v) => UnitLegal(v)')
    BY <2>1 DEF UnitTyped, UnitLegal, Step, InOrder, WholeGrace, Due, Pays, saas
  <2>3. UnitsTyped' /\ UnitsLegal'
    BY <2>1, <2>2 DEF IInv, UnitsTyped, UnitsLegal
  <2> QED
    BY <2>1, <2>3 DEF IInv, TypeOK, StripeTyped, RowLegal, WholeGrace, InOrder, saas, stripe
<1> QED
  BY <1>1, <1>2, <1>3, <1>4, <1>5, <1>6, <1>7 DEF Next

\* Whatever the webhook, the job and the staff do to the rows of a company,
\* they are well typed and no two of them have the same Stripe subscription.
THEOREM TypeCorrect == Spec => []TypeOK
<1>1. IInv => TypeOK
  BY DEF IInv
<1> QED
  BY <1>1, IInvInit, IInvStep, PTL DEF Spec

-----------------------------------------------------------------------------
(* What the company is given.                                              *)

\* A company in order may operate.
LEMMA InOrderOperates ==
    ASSUME NEW r \in Rows, now \in Nat, InOrder(r)
    PROVE  MayOperate(r, now)
<1>1. LifecycleState(r, now) = "active"
  BY SubscriptionsAssumption DEF InOrder, LifecycleState, Rows
<1>2. /\ Effective(r, now) \in Rows
      /\ Effective(r, now).status = "ACTIVA"
      /\ Effective(r, now).end = r.end /\ Effective(r, now).grace = None
      /\ Effective(r, now).ro = None /\ ~Effective(r, now).canceled
  BY <1>1 DEF InOrder, Effective, Rows, Statuses
<1>3. LifecycleState(Effective(r, now), now) = "active"
  BY <1>2, SubscriptionsAssumption DEF InOrder, LifecycleState, Rows
<1> QED
  BY <1>2, <1>3 DEF MayOperate

\* A company whose open row is paid through today may operate (exigir_activa),
\* whatever units overlap, unless a stale one wrote the row.
THEOREM WhoPaidMayOperate == Spec => []PaidMayOperate
<1>1. IInv => PaidMayOperate
  <2> SUFFICES ASSUME IInv, paid # None, now <= paid, ~stale
               PROVE  MayOperate(row, now)
    BY DEF PaidMayOperate
  <2>1. row \in Rows /\ now \in Nat
    BY Numbers DEF IInv, TypeOK
  <2>2. InOrder(row)
    BY DEF IInv, RowLegal
  <2> QED
    BY <2>1, <2>2, InOrderOperates
<1> QED
  BY <1>1, IInvInit, IInvStep, PTL DEF Spec

\* Only the commit of a unit on the open row changes it and leaves it open.
LEMMA RowSteps ==
    ASSUME IInv, [Next]_vars, gen' = gen, row' # row
    PROVE  \E a \in Actors : /\ units[a] # None /\ units[a].of = gen
                             /\ Apply(units[a]) /\ units[a].successor = None
<1>1. ASSUME NEW a \in Actors, NEW u, Begin(a, u) PROVE FALSE
  BY <1>1 DEF Begin, saas
<1>2. PICK a \in Actors : Commit(a)
  BY <1>1 DEF Next, vars, NextDay, LifecycleJob, EmitirPendientes, Vigente, CambiarPlan,
              Renovar, CambiarEstado, Replace, CloseSession, MarkInvoicePaid, ProcesarWebhook,
              CrearCheckout, CheckoutPaid, StripeRenews, StripeEnds, saas, Actors
<1>3. Apply(units[a]) /\ units[a] # None
  BY <1>2 DEF Commit, saas
<1>4. units[a].of = gen /\ ApplyOpen(units[a])
  BY <1>3 DEF Apply, ApplyClosed
<1>5. units[a].successor = None
  <2>1. gen' # gen + 1
    BY Numbers DEF IInv, TypeOK
  <2> QED
    BY <1>4, <2>1 DEF ApplyOpen
<1> QED
  BY <1>3, <1>4, <1>5

\* No stage of the life cycle comes early, unless the unit was stale.
THEOREM StagesWhenDue == Spec => OnlyWhenDue
<1> DEFINE OnTime == gen' = gen /\ ~stale' =>
              /\ row.ro = None /\ row'.ro # None => now > row.end + Grace
              /\ ~row.canceled /\ row'.canceled => row.ro # None /\ now > row.ro + ReadOnly
<1>1. IInv /\ [Next]_vars => [OnTime]_vars
  <2> SUFFICES ASSUME IInv, [Next]_vars, gen' = gen, ~stale', row' # row
               PROVE  OnTime
    OBVIOUS
  <2>1. PICK a \in Actors : /\ units[a] # None /\ units[a].of = gen
                            /\ Apply(units[a]) /\ units[a].successor = None
    BY RowSteps
  <2> DEFINE u == units[a]
  <2>2. UnitTyped(u) /\ UnitLegal(u) /\ row \in Rows /\ now \in Nat
    BY <2>1, Numbers DEF IInv, UnitsTyped, UnitsLegal, TypeOK
  <2>3. ApplyOpen(u)
    BY <2>1 DEF Apply
  <2> HIDE DEF u
  <2>4. row' = Merge(row, u.read, u.new)
    BY <2>1, <2>3 DEF ApplyOpen, u
  <2>5. u.new # u.read
    BY <2>2, <2>4, MergeNothing DEF UnitTyped
  <2>6. row = u.read
    BY <2>1, <2>3, <2>5 DEF ApplyOpen, u
  <2>7. row' = u.new
    BY <2>2, <2>4, <2>6, MergeFresh DEF UnitTyped
  <2>8. Due(row, row')
    BY <2>2, <2>6, <2>7 DEF UnitLegal, Step
  <2>9. CASE Pays(u)
    BY <2>1, <2>2, <2>7, <2>9 DEF UnitLegal, InOrder, u
  <2>10. CASE ~Pays(u)
    <3>1. WholeGrace(row)
      <4>1. ~stale
        BY <2>1, <2>3, <2>6, <2>10 DEF ApplyOpen, u
      <4> QED
        BY <4>1 DEF IInv, RowLegal
    <3>2. row.end \in Nat /\ Grace \in Nat /\ (row.grace # None => row.grace \in Nat)
      BY <2>2, Numbers DEF Rows
    <3> QED
      BY <2>2, <2>8, <3>1, <3>2 DEF Due, WholeGrace
  <2> QED
    BY <2>9, <2>10
<1> QED
  BY <1>1, IInvInit, IInvStep, PTL DEF Spec, OnlyWhenDue

-----------------------------------------------------------------------------
(* The subscription: no charge of Stripe is lost.                          *)

\* There is a paid invoice of the period that begins on that day.
PaidInvoice(start) == \E i \in invoices : i.paid /\ i.start = start

\* The company has used another Stripe subscription.
Another(c) == \E d \in Cards \ {c} : cards[d].state # "none"

\* A period of an open row has one invoice.
OneInvoice ==
    /\ IsFiniteSet(invoices)
    /\ \A i, j \in invoices : i.of = j.of /\ i.start = j.start => i = j

\* Nobody knows of a Stripe subscription that was never opened.
CardsOpened ==
    /\ row.card # None => cards[row.card].state # "none"
    /\ \A e \in events : cards[e.card].state # "none"

\* An unpaid invoice can only be written over none, and the webhook that takes
\* an event away leaves its charge accounted for.
UnitCharges(u) ==
    /\ u.new.card # None => cards[u.new.card].state # "none"
    /\ u.invoice # None /\ ~u.invoice.paid =>
          /\ u.invoice.number \in Nat
          /\ u.invoice.number <= NextNumber
          /\ u.invoice.number = NextNumber => InvoicesOf(u.invoice.of, u.invoice.start) = {}
    /\ u.event \in Happenings /\ u.event.type = "paid" =>
          \/ u.invoice # None /\ u.invoice.paid /\ u.invoice.start = u.event.start
          \/ PaidInvoice(u.event.start)
          \/ Another(u.event.card)

\* Every unit in progress accounts for its charges.
UnitsCharge == \A a \in Actors : units[a] # None => UnitCharges(units[a])

\* The inductive invariant.
CInv == IInv /\ OneInvoice /\ CardsOpened /\ UnitsCharge /\ ChargesAccounted

-----------------------------------------------------------------------------

\* The first state keeps the books of the charges.
LEMMA CInvInit == Init => CInv
<1> SUFFICES ASSUME Init PROVE CInv
  OBVIOUS
<1>1. OneInvoice
  BY FS_EmptySet DEF Init, OneInvoice
<1>2. CardsOpened /\ UnitsCharge /\ ChargesAccounted
  BY DEF Init, NewRow, CardsOpened, UnitsCharge, ChargesAccounted
<1> QED
  BY <1>1, <1>2, IInvInit DEF CInv

\* A unit that accounts for its charges begins.
Charges(a) == \E u : UnitCharges(u) /\ Begin(a, u)

\* A unit of work that begins with true books keeps them.
LEMMA ChargesKeeps ==
    ASSUME CInv, IInv', NEW a \in Actors, Charges(a)
    PROVE  CInv'
<1>1. PICK u : UnitCharges(u) /\ Begin(a, u)
  BY DEF Charges
<1>2. UNCHANGED <<now, saas, stripe>> /\ units' = [units EXCEPT ![a] = u]
  BY <1>1 DEF Begin
<1>3. \A b \in Actors : units'[b] = IF b = a THEN u ELSE units[b]
  BY <1>2 DEF CInv, IInv, UnitsTyped
<1>4. \A v : UnitCharges(v) => UnitCharges(v)'
  BY <1>2 DEF UnitCharges, NextNumber, InvoicesOf, PaidInvoice, Another, saas, stripe
<1>5. UnitsCharge'
  BY <1>1, <1>3, <1>4 DEF CInv, UnitsCharge
<1>6. OneInvoice' /\ CardsOpened' /\ ChargesAccounted'
  BY <1>2 DEF CInv, OneInvoice, CardsOpened, ChargesAccounted, saas, stripe
<1> QED
  BY <1>5, <1>6 DEF CInv

\* A unit that comes with no event and pays its invoice, or has none.
LEMMA NoEvent ==
    ASSUME CInv, NEW u, u.event = None, u.new.card = row.card,
           u.invoice # None => u.invoice.paid
    PROVE  UnitCharges(u)
BY SubscriptionsAssumption DEF CInv, CardsOpened, UnitCharges

\* The units of the jobs and of the console leave the books of the charges true.
LEMMA OwnUnitsCharge ==
    ASSUME CInv,
           \/ LifecycleJob \/ EmitirPendientes \/ Vigente
           \/ CambiarPlan \/ Renovar
           \/ \E status \in {"ACTIVA", "SUSPENDIDA", "CANCELADA"} : CambiarEstado(status)
           \/ \E i \in invoices : MarkInvoicePaid(i)
    PROVE  \E a \in Actors : Charges(a)
<1>1. row \in Rows
  BY DEF CInv, IInv, TypeOK
<1>2. Effective(row, now).card = row.card
  BY <1>1 DEF Effective, Rows
<1>3. CASE LifecycleJob
  <2> DEFINE g == PasarAGracia(row, now)
             s == PasarASoloLectura(g, now)
             new == PasarACancelada(s, now)
             u == Unit(new, None, None)
  <2>1. g.card = row.card /\ DOMAIN g = DOMAIN row
    BY <1>1 DEF PasarAGracia, Rows
  <2>2. s.card = g.card /\ DOMAIN s = DOMAIN row
    BY <1>1, <2>1 DEF PasarASoloLectura, Rows
  <2>3. new.card = s.card
    BY <1>1, <2>2 DEF PasarACancelada, Rows
  <2>4. Begin("job", u)
    BY <1>3 DEF LifecycleJob
  <2> HIDE DEF g, s, new
  <2>5. UnitCharges(u)
    BY <2>1, <2>2, <2>3, NoEvent DEF Unit
  <2> QED
    BY <2>4, <2>5 DEF Charges, Actors
<1>4. CASE EmitirPendientes
  <2> DEFINE i == EmitirPeriodo(gen, row.start)
             u == Unit(row, i, None)
  <2>1. /\ i.of = gen /\ i.start = row.start /\ i.number = NextNumber
        /\ InvoicesOf(gen, row.start) = {}
    BY <1>4 DEF EmitirPeriodo, EmitirPendientes
  <2>2. Begin("job", u)
    BY <1>4 DEF EmitirPendientes
  <2>3. NextNumber \in Nat
    BY FS_CardinalityType DEF CInv, OneInvoice, NextNumber
  <2> HIDE DEF i
  <2>4. UnitCharges(u)
    BY <2>1, <2>3, SubscriptionsAssumption DEF UnitCharges, Unit, CInv, CardsOpened
  <2> QED
    BY <2>2, <2>4 DEF Charges, Actors
<1>5. CASE Vigente
  <2>1. UnitCharges(Unit(Effective(row, now), None, None))
    BY <1>2, NoEvent DEF Unit
  <2> QED
    BY <1>5, <2>1 DEF Vigente, Charges, Actors
<1>6. ASSUME NEW start, NEW end, NEW status, Replace(start, end, status)
      PROVE  \E a \in Actors : Charges(a)
  <2> DEFINE u == [Unit(Effective(row, now), None, None)
                      EXCEPT !.successor = NewRow(start, end, status)]
  <2>1. Begin("staff", u)
    BY <1>6 DEF Replace
  <2>2. u.event = None /\ u.new.card = row.card /\ u.invoice = None
    BY <1>2 DEF Unit
  <2> HIDE DEF u
  <2>3. UnitCharges(u)
    BY <2>2, NoEvent
  <2> QED
    BY <2>1, <2>3 DEF Charges, Actors
<1>7. ASSUME NEW i \in invoices, MarkInvoicePaid(i)
      PROVE  \E a \in Actors : Charges(a)
  <2> DEFINE new == RegistrarPago(row, 0)
             p == [EmitirPeriodo(gen, i.start) EXCEPT !.paid = TRUE]
             u == Unit(new, p, None)
  <2>1. new.card = row.card
    BY <1>1 DEF RegistrarPago, Reactivar, Rows
  <2>2. p.paid
    BY InvoiceTyped
  <2>3. Begin("staff", u)
    BY <1>7 DEF MarkInvoicePaid
  <2> HIDE DEF new, p
  <2>4. UnitCharges(u)
    BY <2>1, <2>2, NoEvent DEF Unit
  <2> QED
    BY <2>3, <2>4 DEF Charges, Actors
<1> QED
  BY <1>3, <1>4, <1>5, <1>6, <1>7 DEF CambiarPlan, Renovar, CambiarEstado

\* A paid invoice that a unit issues is not None.
LEMMA PaidIssued ==
    ASSUME CInv, NEW g \in Nat, NEW start \in Nat
    PROVE  LET p == [EmitirPeriodo(g, start) EXCEPT !.paid = TRUE]
           IN  p.paid /\ p.start = start /\ p # None
<1> DEFINE p == [EmitirPeriodo(g, start) EXCEPT !.paid = TRUE]
<1>1. NextNumber \in Nat
  BY FS_CardinalityType DEF CInv, OneInvoice, NextNumber
<1>2. p \in Issued
  BY <1>1 DEF EmitirPeriodo, Issued
<1>3. p.paid /\ p.start = start
  BY InvoiceTyped
<1> QED
  BY <1>2, <1>3, SubscriptionsAssumption

\* So does what a webhook of Stripe writes.
LEMMA WebhookCharges ==
    ASSUME CInv, NEW e \in events, ProcesarWebhook(e)
    PROVE  Charges("hook")
<1>1. row \in Rows /\ row.card \in Cards \cup {None}
  BY DEF CInv, IInv, TypeOK, Rows
<1>2. e \in Happenings /\ e.card \in Cards
      /\ e.type \in {"completed", "paid", "deleted"} /\ cards[e.card].state # "none"
  BY DEF CInv, CardsOpened, IInv, StripeTyped, Happenings
<1>3. row.card # None => cards[row.card].state # "none"
  BY DEF CInv, CardsOpened
<1>4. SUFFICES UnitCharges(Handler(e))
  BY DEF ProcesarWebhook, Charges
<1>5. owner[e.card] # 0 => e.card # row.card
  BY <1>2, Numbers DEF CInv, IInv, TypeOK
<1>6. \A c : [row EXCEPT !.card = c].card = c
  BY <1>1 DEF Rows
<1>7. ASSUME NEW u, u.event = e, u.invoice = None, u.new.card \in {row.card, e.card, None},
             e.type # "paid"
      PROVE  UnitCharges(u)
  BY <1>2, <1>3, <1>7 DEF UnitCharges
<1>8. CASE e.type = "completed"
  <2> DEFINE r == [row EXCEPT !.card = IF row.card = None THEN e.card ELSE row.card]
  <2>1. Handler(e) = Unit(r, None, e)
    BY <1>8 DEF Handler, CheckoutCompletado
  <2>2. r.card \in {row.card, e.card}
    BY <1>6
  <2> HIDE DEF r
  <2>3. /\ Handler(e).event = e /\ Handler(e).invoice = None
        /\ Handler(e).new.card \in {row.card, e.card, None}
    BY <2>1, <2>2 DEF Unit
  <2> QED
    BY <1>7, <1>8, <2>3
<1>9. CASE e.type = "deleted"
  <2>1. Handler(e) = SuscripcionEliminada(e)
    BY <1>9 DEF Handler
  <2>2. /\ Handler(e).event = e /\ Handler(e).invoice = None
        /\ Handler(e).new.card \in {row.card, e.card, None}
    <3>1. CASE owner[e.card] # 0
      BY <1>5, <1>6, <2>1, <3>1 DEF SuscripcionEliminada, OnClosed, Unit
    <3>2. CASE owner[e.card] = 0 /\ e.card = row.card
      <4> DEFINE r == [row EXCEPT !.card = None]
      <4>1. Handler(e) = Unit(r, None, e)
        BY <2>1, <3>2 DEF SuscripcionEliminada
      <4>2. r.card = None
        BY <1>6
      <4> HIDE DEF r
      <4> QED
        BY <4>1, <4>2 DEF Unit
    <3>3. CASE owner[e.card] = 0 /\ e.card # row.card
      <4>1. Handler(e) = Unit(row, None, e)
        BY <2>1, <3>3 DEF SuscripcionEliminada
      <4> QED
        BY <4>1 DEF Unit
    <3> QED
      BY <3>1, <3>2, <3>3
  <2> QED
    BY <1>7, <1>9, <2>2
<1>10. CASE e.type = "paid"
  <2>1. Handler(e) = FacturaPagada(e)
    BY <1>10 DEF Handler
  <2>2. e.start \in Nat /\ gen \in Nat
    BY <1>2, Numbers DEF Happenings, CInv, IInv, TypeOK
  <2>3. CASE owner[e.card] # 0
    <3> DEFINE p == [EmitirPeriodo(owner[e.card], e.start) EXCEPT !.paid = TRUE]
    <3>1. Handler(e) = OnClosed(e.card, p, e)
      BY <2>1, <2>3 DEF FacturaPagada
    <3>2. owner[e.card] \in Nat
      BY <1>2, <2>2 DEF CInv, IInv, TypeOK
    <3>3. p.paid /\ p.start = e.start /\ p # None
      BY <2>2, <3>2, PaidIssued
    <3> HIDE DEF p
    <3>4. Handler(e).event = e /\ Handler(e).invoice = p /\ Handler(e).new.card = e.card
      BY <1>6, <3>1 DEF OnClosed, Unit
    <3> QED
      BY <1>2, <3>3, <3>4 DEF UnitCharges
  <2>4. CASE owner[e.card] = 0 /\ row.card \in {None, e.card}
    <3> DEFINE linked == [row EXCEPT !.card = e.card]
               i == EmitirPeriodo(gen, e.start)
               p == [i EXCEPT !.paid = TRUE]
               new == RegistrarPago(linked, e.end)
    <3>1. Handler(e) = IF i.paid THEN Unit(linked, None, e) ELSE Unit(new, p, e)
      BY <2>1, <2>4 DEF FacturaPagada
    <3>2. linked.card = e.card
      BY <1>6
    <3>3. i.paid => PaidInvoice(e.start)
      BY DEF EmitirPeriodo, InvoicesOf, PaidInvoice
    <3>4. p.paid /\ p.start = e.start /\ p # None
      BY <2>2, PaidIssued
    <3>5. new.card = e.card
      <4>1. linked \in Rows
        BY <1>1, <1>2 DEF Rows
      <4> QED
        BY <3>2, <4>1 DEF RegistrarPago, Reactivar, Rows
    <3> HIDE DEF linked, p, i, new
    <3>6. CASE i.paid
      BY <1>2, <3>1, <3>2, <3>3, <3>6 DEF UnitCharges, Unit
    <3>7. CASE ~i.paid
      BY <1>2, <3>1, <3>4, <3>5, <3>7 DEF UnitCharges, Unit
    <3> QED
      BY <3>6, <3>7
  <2>5. CASE owner[e.card] = 0 /\ row.card \notin {None, e.card}
    <3>1. Handler(e) = Unit(row, None, e)
      BY <2>1, <2>5 DEF FacturaPagada
    <3>2. Another(e.card)
      BY <1>1, <1>3, <2>5 DEF Another
    <3> QED
      BY <1>3, <3>1, <3>2 DEF UnitCharges, Unit
  <2> QED
    BY <2>3, <2>4, <2>5
<1> QED
  BY <1>2, <1>8, <1>9, <1>10

-----------------------------------------------------------------------------
(* What a commit does to the invoices.                                     *)

\* A commit never leaves fewer invoices, nor an invoice of a period unpaid that
\* was paid; and if there are no more of them, they are of the same periods.
LEMMA InvoicesGrow ==
    ASSUME CInv, NEW a \in Actors, units[a] # None, ~Clash(units[a]), Apply(units[a])
    PROVE  /\ OneInvoice'
           /\ NextNumber \in Nat /\ NextNumber' \in Nat /\ NextNumber <= NextNumber'
           /\ \A start : PaidInvoice(start) => PaidInvoice(start)'
           /\ \A of, start :
                 NextNumber' = NextNumber /\ InvoicesOf(of, start) = {}
                     => InvoicesOf(of, start)' = {}
<1> DEFINE u == units[a]
           old == InvoicesOf(u.invoice.of, u.invoice.start)
           new == [of |-> u.invoice.of, start |-> u.invoice.start, paid |-> u.invoice.paid]
<1>1. UnitCharges(u) /\ OneInvoice
  BY DEF CInv, UnitsCharge
<1>2. Cardinality(invoices) \in Nat
  BY <1>1, FS_CardinalityType DEF OneInvoice
<1>3. CASE u.invoice = None
  <2>1. invoices' = invoices
    BY <1>3 DEF Apply
  <2> QED
    BY <1>1, <1>2, <2>1 DEF OneInvoice, NextNumber, PaidInvoice, InvoicesOf
<1>4. CASE u.invoice # None
  <2>1. invoices' = (invoices \ old) \cup {new}
    BY <1>4 DEF Apply
  <2>2. new.of = u.invoice.of /\ new.start = u.invoice.start /\ new.paid = u.invoice.paid
    OBVIOUS
  <2>3. ~u.invoice.paid => old = {}
    BY <1>1, <1>4, Numbers DEF UnitCharges, Clash
  <2>4. \A i \in old : i \in invoices /\ i.of = new.of /\ i.start = new.start
    BY DEF InvoicesOf
  <2>5. \A i \in invoices : i.of = new.of /\ i.start = new.start => i \in old
    BY DEF InvoicesOf
  <2> HIDE DEF old, new
  <2>6. \A start : PaidInvoice(start) => PaidInvoice(start)'
    <3> SUFFICES ASSUME NEW start, NEW i \in invoices, i.paid, i.start = start
                 PROVE  PaidInvoice(start)'
      BY DEF PaidInvoice
    <3>1. CASE i \in old
      BY <2>1, <2>2, <2>3, <2>4, <3>1 DEF PaidInvoice
    <3>2. CASE i \notin old
      BY <2>1, <3>2 DEF PaidInvoice
    <3> QED
      BY <3>1, <3>2
  <2>7. \A i, j \in invoices' : i.of = j.of /\ i.start = j.start => i = j
    BY <1>1, <2>1, <2>5 DEF OneInvoice
  <2>8. CASE old = {}
    <3>1. new \notin invoices
      BY <2>5, <2>8
    <3>2. invoices' = invoices \cup {new}
      BY <2>1, <2>8
    <3>3. IsFiniteSet(invoices') /\ Cardinality(invoices') = Cardinality(invoices) + 1
      BY <1>1, <3>1, <3>2, FS_AddElement DEF OneInvoice
    <3>4. OneInvoice'
      BY <2>7, <3>3 DEF OneInvoice
    <3>5. NextNumber \in Nat /\ NextNumber' = NextNumber + 1
      BY <1>2, <3>3 DEF NextNumber
    <3> QED
      BY <2>6, <3>4, <3>5
  <2>9. CASE old # {}
    <3>1. PICK i : i \in old
      BY <2>9
    <3>2. old = {i}
      BY <1>1, <2>4, <3>1 DEF OneInvoice
    <3> DEFINE rest == invoices \ {i}
    <3>3. IsFiniteSet(rest) /\ Cardinality(rest) = Cardinality(invoices) - 1
      BY <1>1, <2>4, <3>1, FS_RemoveElement DEF OneInvoice
    <3>4. new \notin rest /\ invoices' = rest \cup {new}
      BY <2>1, <2>5, <3>2
    <3> HIDE DEF rest
    <3>5. IsFiniteSet(invoices') /\ Cardinality(invoices') = Cardinality(rest) + 1
      BY <3>3, <3>4, FS_AddElement
    <3>6. OneInvoice'
      BY <2>7, <3>5 DEF OneInvoice
    <3>7. NextNumber \in Nat /\ NextNumber' = NextNumber
      BY <1>2, <3>3, <3>5 DEF NextNumber
    <3>8. \A of, start : InvoicesOf(of, start) = {} => InvoicesOf(of, start)' = {}
      <4> SUFFICES ASSUME NEW of, NEW start, NEW j \in invoices', j.of = of, j.start = start
                   PROVE  InvoicesOf(of, start) # {}
        BY DEF InvoicesOf
      <4>1. CASE j = new
        BY <2>4, <3>1, <4>1 DEF InvoicesOf
      <4>2. CASE j # new
        BY <2>1, <4>2 DEF InvoicesOf
      <4> QED
        BY <4>1, <4>2
    <3> QED
      BY <2>6, <3>6, <3>7, <3>8
  <2> QED
    BY <2>8, <2>9
<1> QED
  BY <1>3, <1>4

\* A unit that commits keeps the books, or is refused.
LEMMA CommitCharges ==
    ASSUME CInv, IInv', NEW a \in Actors, Commit(a)
    PROVE  CInv'
<1> DEFINE u == units[a]
<1>1. u # None /\ units' = [units EXCEPT ![a] = None] /\ UNCHANGED <<cards, charged>>
  BY DEF Commit
<1>2. \A b \in Actors : units'[b] = IF b = a THEN None ELSE units[b]
  BY <1>1 DEF CInv, IInv, UnitsTyped
<1>3. CASE Clash(u)
  <2>1. UNCHANGED <<row, invoices, events>>
    BY <1>3 DEF Commit, saas
  <2>2. \A v : UnitCharges(v) => UnitCharges(v)'
    BY <1>1, <2>1 DEF UnitCharges, NextNumber, InvoicesOf, PaidInvoice, Another
  <2> QED
    BY <1>1, <1>2, <2>1, <2>2
       DEF CInv, OneInvoice, CardsOpened, UnitsCharge, ChargesAccounted
<1>4. CASE ~Clash(u)
  <2>1. Apply(u)
    BY <1>4 DEF Commit
  <2>2. UnitCharges(u) /\ UnitTyped(u) /\ row \in Rows
    BY <1>1 DEF CInv, UnitsCharge, IInv, UnitsTyped, TypeOK
  <2>3. /\ OneInvoice'
        /\ NextNumber \in Nat /\ NextNumber' \in Nat /\ NextNumber <= NextNumber'
        /\ \A start : PaidInvoice(start) => PaidInvoice(start)'
        /\ \A of, start :
              NextNumber' = NextNumber /\ InvoicesOf(of, start) = {}
                  => InvoicesOf(of, start)' = {}
    BY <1>1, <1>4, <2>1, InvoicesGrow
  <2>4. events' = events \ {u.event}
    BY <2>1 DEF Apply
  <2>5. CardsOpened'
    <3>1. row'.card \in {u.new.card, row.card, None}
      <4>1. CASE u.of # gen
        BY <2>1, <4>1 DEF Apply, ApplyClosed
      <4>2. CASE u.of = gen /\ u.successor # None
        BY <2>1, <2>2, <4>2 DEF Apply, ApplyOpen, UnitTyped
      <4>3. CASE u.of = gen /\ u.successor = None
        <5>1. row' = Merge(row, u.read, u.new)
          BY <2>1, <4>3 DEF Apply, ApplyOpen
        <5> QED
          BY <2>2, <5>1, MergeTyped DEF UnitTyped
      <4> QED
        BY <4>1, <4>2, <4>3
    <3> QED
      BY <1>1, <2>2, <2>4, <3>1 DEF CInv, CardsOpened, UnitCharges
  <2>6. UnitsCharge'
    <3>1. \A v : UnitCharges(v) => UnitCharges(v)'
      <4> SUFFICES ASSUME NEW v, UnitCharges(v) PROVE UnitCharges(v)'
        OBVIOUS
      <4>1. v.invoice # None /\ ~v.invoice.paid =>
              /\ v.invoice.number \in Nat
              /\ v.invoice.number <= NextNumber'
              /\ v.invoice.number = NextNumber'
                     => InvoicesOf(v.invoice.of, v.invoice.start)' = {}
        BY <2>3 DEF UnitCharges
      <4>2. \A c : Another(c) => Another(c)'
        BY <1>1 DEF Another
      <4> QED
        BY <1>1, <2>3, <4>1, <4>2 DEF UnitCharges
    <3> QED
      BY <1>2, <3>1 DEF CInv, UnitsCharge
  <2>7. ChargesAccounted'
    <3> SUFFICES ASSUME NEW c \in charged
                 PROVE  \/ \E e \in events' : e.type = "paid" /\ e.card = c.card /\ e.start = c.start
                        \/ PaidInvoice(c.start)'
                        \/ Another(c.card)
      BY <1>1 DEF ChargesAccounted, PaidInvoice, Another
    <3>1. CASE PaidInvoice(c.start)
      BY <2>3, <3>1
    <3>2. CASE Another(c.card)
      BY <3>2
    <3>3. ASSUME NEW e \in events, e.type = "paid", e.card = c.card, e.start = c.start
          PROVE  \/ \E f \in events' : f.type = "paid" /\ f.card = c.card /\ f.start = c.start
                 \/ PaidInvoice(c.start)'
                 \/ Another(c.card)
      <4>1. CASE e # u.event
        BY <2>4, <3>3, <4>1
      <4>2. CASE e = u.event
        <5>1. e \in Happenings
          BY DEF CInv, IInv, StripeTyped
        <5>2. \/ u.invoice # None /\ u.invoice.paid /\ u.invoice.start = c.start
              \/ PaidInvoice(c.start)
              \/ Another(c.card)
          BY <2>2, <3>3, <4>2, <5>1 DEF UnitCharges
        <5>3. CASE u.invoice # None /\ u.invoice.paid /\ u.invoice.start = c.start
          <6> DEFINE i == [of |-> u.invoice.of, start |-> u.invoice.start,
                           paid |-> u.invoice.paid]
          <6>1. i \in invoices' /\ i.paid /\ i.start = c.start
            BY <2>1, <5>3 DEF Apply
          <6> QED
            BY <6>1 DEF PaidInvoice
        <5> QED
          BY <2>3, <5>2, <5>3
      <4> QED
        BY <4>1, <4>2
    <3> QED
      BY <3>1, <3>2, <3>3 DEF CInv, ChargesAccounted, PaidInvoice, Another
  <2> QED
    BY <2>3, <2>5, <2>6, <2>7 DEF CInv
<1> QED
  BY <1>3, <1>4

\* Stripe charges a period and says so; a subscription that was opened stays so.
LEMMA StripeCharges ==
    ASSUME CInv, IInv', NEW c \in Cards,
           CrearCheckout(c) \/ CheckoutPaid(c) \/ StripeRenews(c) \/ StripeEnds(c)
    PROVE  CInv'
<1>1. UNCHANGED <<now, units, row, invoices>>
  BY DEF CrearCheckout, CheckoutPaid, StripeRenews, StripeEnds, saas
<1>2. DOMAIN cards = Cards /\ \A d \in Cards : DOMAIN cards[d] = {"state", "end"}
  BY DEF CInv, IInv, StripeTyped
<1>3. /\ cards'[c].state # "none"
      /\ \A d \in Cards \ {c} : cards'[d] = cards[d]
  BY <1>2 DEF CrearCheckout, CheckoutPaid, StripeRenews, StripeEnds
<1>4. \A d \in Cards : cards[d].state # "none" => cards'[d].state # "none"
  BY <1>3
<1>5. events' \subseteq events \cup {e \in events' : e.card = c}
      /\ events \subseteq events'
  BY DEF CrearCheckout, CheckoutPaid, StripeRenews, StripeEnds, Happens
<1>6. \A d \in charged' \ charged :
        \E e \in events' : e.type = "paid" /\ e.card = d.card /\ e.start = d.start
  <2>1. CASE CrearCheckout(c) \/ StripeEnds(c)
    BY <2>1 DEF CrearCheckout, StripeEnds
  <2>2. ASSUME NEW start, NEW end, Happens("paid", c, start, end) \in events',
               charged' = charged \cup {[card |-> c, start |-> start]}
        PROVE  \A d \in charged' \ charged :
                 \E e \in events' : e.type = "paid" /\ e.card = d.card /\ e.start = d.start
    <3> DEFINE e == Happens("paid", c, start, end)
    <3>1. e.type = "paid" /\ e.card = c /\ e.start = start
      BY DEF Happens
    <3>2. \A d \in charged' \ charged : d.card = c /\ d.start = start
      BY <2>2
    <3> QED
      BY <2>2, <3>1, <3>2
  <2>3. CASE CheckoutPaid(c)
    BY <2>2, <2>3 DEF CheckoutPaid
  <2>4. CASE StripeRenews(c)
    BY <2>2, <2>4 DEF StripeRenews
  <2> QED
    BY <2>1, <2>3, <2>4
<1>7. OneInvoice'
  BY <1>1 DEF CInv, OneInvoice
<1>8. CardsOpened'
  <2>1. row.card \in Cards \cup {None} /\ \A e \in events : e.card \in Cards
    BY DEF CInv, IInv, TypeOK, Rows, StripeTyped, Happenings
  <2> QED
    BY <1>1, <1>3, <1>4, <1>5, <2>1 DEF CInv, CardsOpened
<1>9. \A k : Another(k) => Another(k)'
  BY <1>4 DEF Another
<1>10. UnitsCharge'
  <2>1. \A v : UnitTyped(v) /\ UnitCharges(v) => UnitCharges(v)'
    <3> SUFFICES ASSUME NEW v, UnitTyped(v), UnitCharges(v) PROVE UnitCharges(v)'
      OBVIOUS
    <3>1. v.new.card \in Cards \cup {None}
      BY DEF UnitTyped, Rows
    <3> QED
      BY <1>1, <1>4, <1>9, <3>1 DEF UnitCharges, NextNumber, InvoicesOf, PaidInvoice
  <2> QED
    BY <1>1, <2>1 DEF CInv, UnitsCharge, IInv, UnitsTyped
<1>11. ChargesAccounted'
  BY <1>1, <1>5, <1>6, <1>9 DEF CInv, ChargesAccounted, Another
<1> QED
  BY <1>7, <1>8, <1>10, <1>11 DEF CInv

\* Every step keeps the books of the charges.
LEMMA CInvStep == CInv /\ [Next]_vars => CInv'
<1> SUFFICES ASSUME CInv, [Next]_vars PROVE CInv'
  OBVIOUS
<1>0. IInv'
  BY IInvStep DEF CInv
<1>1. CASE \/ LifecycleJob \/ EmitirPendientes \/ Vigente
           \/ CambiarPlan \/ Renovar
           \/ \E status \in {"ACTIVA", "SUSPENDIDA", "CANCELADA"} : CambiarEstado(status)
           \/ \E i \in invoices : MarkInvoicePaid(i)
  BY <1>0, <1>1, OwnUnitsCharge, ChargesKeeps
<1>2. ASSUME NEW e \in events, ProcesarWebhook(e) PROVE CInv'
  BY <1>0, <1>2, WebhookCharges, ChargesKeeps DEF Actors
<1>3. ASSUME NEW a \in Actors, Commit(a) PROVE CInv'
  BY <1>0, <1>3, CommitCharges
<1>4. ASSUME NEW c \in Cards,
             CrearCheckout(c) \/ CheckoutPaid(c) \/ StripeRenews(c) \/ StripeEnds(c)
      PROVE  CInv'
  BY <1>0, <1>4, StripeCharges
<1>5. CASE NextDay \/ CloseSession \/ UNCHANGED vars
  <2>1. UNCHANGED <<row, invoices, cards, events, charged>>
    BY <1>5 DEF NextDay, CloseSession, vars, saas, stripe
  <2>2. \A a \in Actors : units'[a] \in {units[a], None}
    BY <1>5 DEF NextDay, CloseSession, vars, CInv, IInv, UnitsTyped
  <2>3. \A v : UnitCharges(v) => UnitCharges(v)'
    BY <2>1 DEF UnitCharges, NextNumber, InvoicesOf, PaidInvoice, Another
  <2> QED
    BY <1>0, <2>1, <2>2, <2>3
       DEF CInv, OneInvoice, CardsOpened, UnitsCharge, ChargesAccounted
<1> QED
  BY <1>1, <1>2, <1>3, <1>4, <1>5 DEF Next

\* What Stripe charges is on its way or has its invoice paid, unless the company
\* has used a second Stripe subscription, however its units overlap.
THEOREM NoChargeLost == Spec => []ChargesAccounted
<1>1. CInv => ChargesAccounted
  BY DEF CInv
<1> QED
  BY <1>1, CInvInit, CInvStep, PTL DEF Spec

-----------------------------------------------------------------------------
(* The branches and the cash points.                                       *)

\* A branch, or a cash point and the branch it is at.
PlaceRow == [there : BOOLEAN, active : BOOLEAN, deleted : BOOLEAN, at : BranchIds]

\* The rows of a company: its branches and its cash points.
Places == BranchIds \union CashIds

\* What a call sets: a field of a row.
Writing == (Places \X {"there", "active", "deleted"} \X BOOLEAN)
               \union (Places \X {"at"} \X BranchIds)

\* What a call is about, what it is to write and what overtook it.
BranchCall == [op : {"none", "create", "open", "rows", "move", "setLimit", "changePlan"},
               at : {"idle", "waits", "ready"}, writes : SUBSET Writing, value : Nat,
               rowsMoved : BOOLEAN, limitMoved : BOOLEAN]

\* The types of the part.
BranchTypeOK ==
    /\ places \in [Places -> PlaceRow]
    /\ planLimit \in Nat /\ override \in Nat \union {NoLimit}
    /\ calls \in [CallIds -> BranchCall]

\* A write that closes a branch, if it is of a branch at all, and one that opens
\* it.
Closes(w) ==
    w[1] \in BranchIds => \/ w[2] = "active" /\ w[3] = FALSE
                          \/ w[2] = "deleted" /\ w[3] = TRUE

\* A write that opens a branch.
Opens(w) == w[1] \in BranchIds /\ w[2] \in {"there", "active"} /\ w[3] = TRUE

\* What a call knows of the limit: only the one that holds the company opens a
\* branch, it opens one, and there is room for it until the limit moves.
KnowsRoom(c, u) ==
    /\ u.op \in {"rows", "move"} => \A w \in u.writes : Closes(w)
    /\ u.op = "create" => \A w \in u.writes : Opens(w)
    /\ u.op \in {"create", "open"} =>
           /\ ~ u.limitMoved => u.value = planLimit
           /\ \A w, x \in u.writes : w[1] \in BranchIds /\ x[1] \in BranchIds => w[1] = x[1]
           /\ u.at = "ready" =>
                  \/ \A w \in u.writes : w[1] \notin BranchIds
                  \/ lock = c /\ (~ u.limitMoved => Company!Used(places) < Company!Limit)
    /\ u.op = "setLimit" /\ ~ u.rowsMoved => Company!Used(places) <= u.value
    /\ u.op = "changePlan" /\ u.at = "ready" =>
           lock = c /\ Company!Used(places) <= u.value

\* What it knows of the cash points: while no row moves it sends none astray.
KnowsCash(u) ==
    u.op \in {"rows", "open"} /\ ~ u.rowsMoved =>
        Company!Astray(Company!Applied(u.writes)) \subseteq Company!Astray(places)

\* The inductive invariant.
BranchesInv ==
    /\ BranchTypeOK
    /\ \A c \in CallIds : KnowsRoom(c, calls[c]) /\ KnowsCash(calls[c])
    /\ Company!WithinLimit
    /\ Company!CashWhereOpen

\* A call at rest knows everything it has to.
LEMMA IdleTyped ==
    /\ Company!Idle \in BranchCall
    /\ Company!Idle.op = "none"
    /\ \A c : KnowsRoom(c, Company!Idle) /\ KnowsCash(Company!Idle)
<1>1. Company!Idle \in BranchCall /\ Company!Idle.op = "none"
  BY DEF Company!Idle, BranchCall
<1> QED
  BY <1>1 DEF KnowsRoom, KnowsCash

-----------------------------------------------------------------------------
\* What the writes of a call make of a field.
LEMMA AppliedField ==
    ASSUME BranchTypeOK, NEW writes, NEW i \in Places,
           NEW f \in {"there", "active", "deleted", "at"}
    PROVE  \/ /\ \A w \in writes : w[1] = i => w[2] # f
              /\ Company!Applied(writes)[i][f] = places[i][f]
           \/ \E w \in writes : w[1] = i /\ w[2] = f /\ Company!Applied(writes)[i][f] = w[3]
<1> DEFINE new == {w[3] : w \in {x \in writes : x[1] = i /\ x[2] = f}}
<1>1. f \in DOMAIN places[i]
  BY DEF BranchTypeOK, PlaceRow
<1>2. Company!Applied(writes)[i][f]
          = IF new = {} THEN places[i][f] ELSE CHOOSE v \in new : TRUE
  BY <1>1 DEF Company!Applied, Places
<1> HIDE DEF new
<1>3. CASE new = {}
  BY <1>2, <1>3 DEF new
<1>4. CASE new # {}
  <2>1. (CHOOSE v \in new : TRUE) \in new
    BY <1>4
  <2> QED
    BY <1>2, <1>4, <2>1 DEF new
<1> QED
  BY <1>3, <1>4

\* Rows stay rows.
LEMMA AppliedTyped ==
    ASSUME BranchTypeOK, NEW writes \in SUBSET Writing
    PROVE  Company!Applied(writes) \in [Places -> PlaceRow]
<1> DEFINE new == Company!Applied(writes)
<1>1. ASSUME NEW i \in Places PROVE new[i] \in PlaceRow
  <2>1. places[i] \in PlaceRow
    BY DEF BranchTypeOK
  <2>2. DOMAIN places[i] = {"there", "active", "deleted", "at"}
    BY <2>1 DEF PlaceRow
  <2>3. new[i] = [f \in DOMAIN places[i] |-> new[i][f]]
    BY DEF Company!Applied, Places
  <2>4. ASSUME NEW f \in {"there", "active", "deleted"} PROVE new[i][f] \in BOOLEAN
    <3>1. places[i][f] \in BOOLEAN
      BY <2>1 DEF PlaceRow
    <3>2. \A w \in writes : w[2] = f => w[3] \in BOOLEAN
      BY DEF Writing
    <3> QED
      BY <3>1, <3>2, AppliedField
  <2>5. new[i]["at"] \in BranchIds
    <3>1. places[i]["at"] \in BranchIds
      BY <2>1 DEF PlaceRow
    <3>2. \A w \in writes : w[2] = "at" => w[3] \in BranchIds
      BY DEF Writing
    <3> QED
      BY <3>1, <3>2, AppliedField
  <2> HIDE DEF new
  <2>6. new[i] = [there |-> new[i]["there"], active |-> new[i]["active"],
                  deleted |-> new[i]["deleted"], at |-> new[i]["at"]]
    BY <2>2, <2>3
  <2> QED
    BY <2>4, <2>5, <2>6 DEF PlaceRow
<1>2. new = [i \in Places |-> new[i]]
  BY DEF Company!Applied, Places
<1> QED
  BY <1>1, <1>2

\* A branch whose writes only close it opens nowhere.
LEMMA StaysClosed ==
    ASSUME BranchTypeOK, NEW writes, NEW b \in BranchIds,
           \A w \in writes : w[1] = b => Closes(w),
           Company!IsOpen(Company!Applied(writes), b)
    PROVE  Company!IsOpen(places, b)
<1> DEFINE new == Company!Applied(writes)[b]
<1>1. b \in Places
  BY DEF Places
<1>2. new["there"] /\ new["active"] /\ ~ new["deleted"]
  BY DEF Company!IsOpen
<1>3. places[b] \in PlaceRow
  BY <1>1 DEF BranchTypeOK
<1> HIDE DEF new
<1>4. ASSUME NEW w \in writes, w[1] = b, w[2] = "there" PROVE FALSE
  BY <1>4 DEF Closes
<1>5. ASSUME NEW w \in writes, w[1] = b, w[2] = "active" PROVE w[3] = FALSE
  BY <1>5 DEF Closes
<1>6. ASSUME NEW w \in writes, w[1] = b, w[2] = "deleted" PROVE w[3] = TRUE
  BY <1>6 DEF Closes
<1>7. new["there"] = places[b]["there"]
  BY <1>1, <1>4, AppliedField DEF new
<1>8. new["active"] = places[b]["active"] \/ new["active"] = FALSE
  <2>1. \/ new["active"] = places[b]["active"]
        \/ \E w \in writes : w[1] = b /\ w[2] = "active" /\ new["active"] = w[3]
    BY <1>1, AppliedField DEF new
  <2> QED
    BY <2>1, <1>5
<1>9. new["deleted"] = places[b]["deleted"] \/ new["deleted"] = TRUE
  <2>1. \/ new["deleted"] = places[b]["deleted"]
        \/ \E w \in writes : w[1] = b /\ w[2] = "deleted" /\ new["deleted"] = w[3]
    BY <1>1, AppliedField DEF new
  <2> QED
    BY <2>1, <1>6
<1> QED
  BY <1>2, <1>3, <1>7, <1>8, <1>9 DEF Company!IsOpen

\* A branch whose writes only open it stays open.
LEMMA StaysOpen ==
    ASSUME BranchTypeOK, NEW writes, NEW b \in BranchIds,
           \A w \in writes : w[1] = b => Opens(w),
           Company!IsOpen(places, b)
    PROVE  Company!IsOpen(Company!Applied(writes), b)
<1> DEFINE new == Company!Applied(writes)[b]
<1>1. b \in Places
  BY DEF Places
<1>2. places[b]["there"] /\ places[b]["active"] /\ ~ places[b]["deleted"]
  BY DEF Company!IsOpen
<1>3. ASSUME NEW f \in {"there", "active"} PROVE new[f] = places[b][f] \/ new[f] = TRUE
  BY <1>1, AppliedField DEF Opens
<1>4. new["deleted"] = places[b]["deleted"]
  BY <1>1, AppliedField DEF Opens
<1> HIDE DEF new
<1>5. new["there"] /\ new["active"] /\ ~ new["deleted"]
  BY <1>2, <1>3, <1>4
<1> QED
  BY <1>5 DEF Company!IsOpen, new

\* Counting the open branches.
LEMMA UsedCounts ==
    ASSUME NEW old, NEW new, NEW b
    PROVE  /\ Company!Used(old) \in Nat
           /\ (\A x \in BranchIds : Company!IsOpen(new, x) => Company!IsOpen(old, x))
                  => Company!Used(new) <= Company!Used(old)
           /\ (\A x \in BranchIds \ {b} : Company!IsOpen(new, x) => Company!IsOpen(old, x))
                  => Company!Used(new) <= Company!Used(old) + 1
<1> DEFINE A == {x \in BranchIds : Company!IsOpen(old, x)}
           B == {x \in BranchIds : Company!IsOpen(new, x)}
<1>1. IsFiniteSet(A) /\ IsFiniteSet(B) /\ IsFiniteSet(A \union {b})
  BY BranchesAssumption, FS_Subset, FS_AddElement
<1>2. Cardinality(A) \in Nat /\ Cardinality(B) \in Nat
  BY <1>1, FS_CardinalityType
<1>3. Cardinality(A \union {b}) \in {Cardinality(A), Cardinality(A) + 1}
  BY <1>1, <1>2, FS_AddElement
<1>4. Company!Used(old) = Cardinality(A) /\ Company!Used(new) = Cardinality(B)
  BY DEF Company!Used, Company!Cardinality, Cardinality
<1>5. B \subseteq A => Cardinality(B) <= Cardinality(A)
  BY <1>1, FS_Subset
<1>6. B \subseteq A \union {b} => Cardinality(B) <= Cardinality(A \union {b})
  BY <1>1, FS_Subset
<1>7. /\ (\A x \in BranchIds : Company!IsOpen(new, x) => Company!IsOpen(old, x))
             => B \subseteq A
      /\ (\A x \in BranchIds \ {b} : Company!IsOpen(new, x) => Company!IsOpen(old, x))
             => B \subseteq A \union {b}
  OBVIOUS
<1> HIDE DEF A, B
<1> QED
  BY <1>2, <1>3, <1>4, <1>5, <1>6, <1>7
-----------------------------------------------------------------------------
\* A Cardinality of the instance is that of the library.
LEMMA BranchCount == \A S : Company!Cardinality(S) = Cardinality(S)
BY Zenon DEF Company!Cardinality, Cardinality

\* Without a write of a row, nothing a call knows of the cash points changes,
\* and without one of the limit either, nothing it knows of the room.
LEMMA SameRows ==
    ASSUME UNCHANGED places
    PROVE  /\ \A u : KnowsCash(u)' <=> KnowsCash(u)
           /\ Company!Used(places)' = Company!Used(places)
           /\ Company!Astray(places)' = Company!Astray(places)
<1>1. \A w : Company!Applied(w)' = Company!Applied(w)
  BY Zenon DEF Company!Applied
<1>2. \A rows1 : Company!Astray(rows1)' = Company!Astray(rows1)
  BY DEF Company!Astray, Company!IsOpen
<1>3. Company!Used(places)' = Company!Used(places)
  BY DEF Company!Used, Company!IsOpen
<1>4. Company!Astray(places)' = Company!Astray(places)
  BY DEF Company!Astray, Company!IsOpen
<1> QED
  BY <1>1, <1>2, <1>3, <1>4 DEF KnowsCash

\* Where the rows and the limits are as they were, so is what a call knows.
LEMMA SameLimit ==
    ASSUME UNCHANGED <<places, planLimit, override, lock>>
    PROVE  /\ \A x, u : KnowsRoom(x, u)' <=> KnowsRoom(x, u)
           /\ Company!Limit' = Company!Limit
           /\ Company!Over(places, Company!Limit)' <=> Company!Over(places, Company!Limit)
<1>1. Company!Limit' = Company!Limit
  BY DEF Company!Limit, Company!InForce
<1> QED
  BY <1>1, SameRows DEF KnowsRoom, Company!Over, Closes, Opens

\* Nothing is over its limit or astray at first.
LEMMA BranchesStart == Company!BranchInit => BranchesInv
<1> SUFFICES ASSUME Company!BranchInit PROVE BranchesInv
  OBVIOUS
<1>1. PICK first \in BranchIds :
          places = [i \in Places |->
                       [there |-> i = first, active |-> i = first, deleted |-> FALSE,
                        at |-> IF i \in BranchIds THEN i ELSE first]]
  BY DEF Company!BranchInit, Places
<1>2. planLimit \in Nat /\ planLimit >= 1 /\ override = NoLimit
  BY BranchesAssumption DEF Company!BranchInit
<1>3. BranchTypeOK
  <2>1. places \in [Places -> PlaceRow]
    BY <1>1 DEF PlaceRow
  <2>2. calls \in [CallIds -> BranchCall]
    BY IdleTyped DEF Company!BranchInit
  <2> QED
    BY <1>2, <2>1, <2>2 DEF BranchTypeOK
<1>4. ~ Company!Over(places, Company!Limit)
  <2>1. {b \in BranchIds : Company!IsOpen(places, b)} = {first}
    BY <1>1 DEF Company!IsOpen, Places
  <2>2. Company!Used(places) = 1
    BY <2>1, FS_Singleton, BranchCount DEF Company!Used
  <2> QED
    BY <1>2, <2>2 DEF Company!Over, Company!Limit, Company!InForce
<1>5. Company!Astray(places) = {}
  BY <1>1, BranchesAssumption DEF Company!Astray, Company!IsOpen, Places
<1>6. \A c \in CallIds : calls[c] = Company!Idle
  BY DEF Company!BranchInit
<1> QED
  BY <1>3, <1>4, <1>5, <1>6, IdleTyped
     DEF BranchesInv, Company!WithinLimit, Company!CashWhereOpen

\* A call begins, with what it has just read.
LEMMA BeginKeeps ==
    ASSUME BranchesInv, NEW c \in CallIds,
           NEW op \in {"create", "open", "rows", "move", "setLimit", "changePlan"},
           NEW where \in {"waits", "ready"}, NEW writes \in SUBSET Writing, NEW v \in Nat,
           Company!Begin(c, op, where, writes, v),
           \A u \in BranchCall :
               /\ u.op = op /\ u.at = where /\ u.writes = writes /\ u.value = v
               /\ ~ u.rowsMoved /\ ~ u.limitMoved
               => KnowsRoom(c, u) /\ KnowsCash(u)
    PROVE  BranchesInv'
<1> DEFINE u1 == [Company!Idle EXCEPT !.op = op]
           u2 == [u1 EXCEPT !.at = where]
           u3 == [u2 EXCEPT !.writes = writes]
           u  == [u3 EXCEPT !.value = v]
<1>1. calls' = [calls EXCEPT ![c] = u]
  BY DEF Company!Begin
<1>2. UNCHANGED <<places, planLimit, override, lock, excused, astray>>
  BY DEF Company!Begin
<1>3. u1 \in BranchCall /\ u1.op = op /\ ~ u1.rowsMoved /\ ~ u1.limitMoved
  BY DEF Company!Idle, BranchCall
<1> HIDE DEF u1
<1>4. u2 \in BranchCall /\ u2.op = op /\ u2.at = where /\ ~ u2.rowsMoved /\ ~ u2.limitMoved
  BY <1>3 DEF BranchCall
<1> HIDE DEF u2
<1>5. /\ u3 \in BranchCall /\ u3.op = op /\ u3.at = where /\ u3.writes = writes
      /\ ~ u3.rowsMoved /\ ~ u3.limitMoved
  BY <1>4 DEF BranchCall
<1> HIDE DEF u3
<1>6. /\ u \in BranchCall /\ u.op = op /\ u.at = where /\ u.writes = writes /\ u.value = v
      /\ ~ u.rowsMoved /\ ~ u.limitMoved
  BY <1>5 DEF BranchCall
<1> HIDE DEF u
<1>7. KnowsRoom(c, u) /\ KnowsCash(u)
  BY <1>6
<1>8. BranchTypeOK'
  BY <1>1, <1>2, <1>6 DEF BranchesInv, BranchTypeOK
<1>9. \A x \in CallIds : KnowsRoom(x, calls'[x]) /\ KnowsCash(calls'[x])
  BY <1>1, <1>7 DEF BranchesInv, BranchTypeOK
<1>10. \A x \in CallIds : (KnowsRoom(x, calls[x]) /\ KnowsCash(calls[x]))'
  BY <1>2, <1>9, SameRows, SameLimit
<1>11. Company!WithinLimit' /\ Company!CashWhereOpen'
  BY <1>2, SameRows, SameLimit DEF BranchesInv, Company!WithinLimit, Company!CashWhereOpen
<1> QED
  BY <1>8, <1>10, <1>11 DEF BranchesInv

\* The values that setting fields of a row writes.
LEMMA NetWrites ==
    ASSUME NEW i, NEW want
    PROVE  /\ \A w \in Company!Net(i, want) :
                  \E f \in DOMAIN want : w = <<i, f, want[f]>>
           /\ \A w \in Company!Net(i, want) : w[1] = i /\ w[2] \in DOMAIN want /\ w[3] = want[w[2]]
           /\ \A f \in DOMAIN want : places[i][f] # want[f] => <<i, f, want[f]>> \in Company!Net(i, want)
BY DEF Company!Net

\* A row that is written whole has what was wanted, and keeps the rest.
LEMMA AppliedNet ==
    ASSUME BranchTypeOK, NEW writes, NEW i \in Places, NEW want,
           \A w \in writes : w[1] = i => w \in Company!Net(i, want),
           Company!Net(i, want) \subseteq writes,
           NEW f \in {"there", "active", "deleted", "at"}
    PROVE  Company!Applied(writes)[i][f] = IF f \in DOMAIN want THEN want[f] ELSE places[i][f]
<1>1. CASE \E w \in writes : w[1] = i /\ w[2] = f /\ Company!Applied(writes)[i][f] = w[3]
  <2>1. PICK w \in writes : w[1] = i /\ w[2] = f /\ Company!Applied(writes)[i][f] = w[3]
    BY <1>1
  <2>2. w[2] \in DOMAIN want /\ w[3] = want[w[2]]
    BY <2>1, NetWrites
  <2> QED
    BY <2>1, <2>2
<1>2. CASE /\ \A w \in writes : w[1] = i => w[2] # f
           /\ Company!Applied(writes)[i][f] = places[i][f]
  <2>1. ASSUME f \in DOMAIN want PROVE places[i][f] = want[f]
    <3>1. ASSUME places[i][f] # want[f] PROVE FALSE
      <4> DEFINE w == <<i, f, want[f]>>
      <4>1. w \in writes
        BY <2>1, <3>1, NetWrites
      <4>2. w[1] = i /\ w[2] = f
        OBVIOUS
      <4> QED
        BY <1>2, <4>1, <4>2
    <3> QED
      BY <3>1
  <2> QED
    BY <1>2, <2>1
<1> QED
  BY <1>1, <1>2, AppliedField

\* A row that is not written stays.
LEMMA Untouched ==
    ASSUME BranchTypeOK, NEW writes, NEW i \in Places, \A w \in writes : w[1] # i
    PROVE  /\ Company!Applied(writes)[i]["at"] = places[i]["at"]
           /\ Company!IsOpen(Company!Applied(writes), i) <=> Company!IsOpen(places, i)
<1>1. \A f \in {"there", "active", "deleted", "at"} :
          Company!Applied(writes)[i][f] = places[i][f]
  BY AppliedField
<1> QED
  BY <1>1 DEF Company!IsOpen

\* The rows of a branch and of what is at it send nothing else astray.
LEMMA BranchWrites ==
    ASSUME BranchTypeOK, NEW b \in BranchIds, NEW writes,
           \A w \in writes : w[1] \in {b} \union Company!CashAt(b) /\ w[2] # "at",
           \/ \A k \in Company!CashAt(b) : ~ Company!IsOpen(Company!Applied(writes), k)
           \/ Company!IsOpen(Company!Applied(writes), b)
    PROVE  Company!Astray(Company!Applied(writes)) \subseteq Company!Astray(places)
<1> DEFINE new == Company!Applied(writes)
<1> SUFFICES ASSUME NEW k \in CashIds, Company!IsOpen(new, k), ~ Company!IsOpen(new, new[k].at)
             PROVE  Company!IsOpen(places, k) /\ ~ Company!IsOpen(places, places[k].at)
  BY DEF Company!Astray
<1>1. k \in Places /\ k \notin BranchIds /\ places[k]["at"] \in BranchIds
  BY BranchesAssumption DEF Places, BranchTypeOK, PlaceRow
<1>2. new[k]["at"] = places[k]["at"]
  BY <1>1, AppliedField
<1> HIDE DEF new
<1>3. k \notin Company!CashAt(b)
  <2>1. ASSUME k \in Company!CashAt(b) PROVE FALSE
    <3>1. places[k]["at"] = b
      BY <2>1 DEF Company!CashAt
    <3> QED
      BY <1>2, <2>1, <3>1 DEF new
  <2> QED
    BY <2>1
<1>4. Company!IsOpen(places, k)
  BY <1>1, <1>3, Untouched DEF new
<1>5. places[k]["at"] # b
  BY <1>3, <1>4 DEF Company!CashAt, Company!IsOpen
<1>6. places[k]["at"] \notin Company!CashAt(b) /\ places[k]["at"] \in Places
  BY <1>1, BranchesAssumption DEF Company!CashAt, Places
<1>7. Company!IsOpen(new, places[k]["at"]) <=> Company!IsOpen(places, places[k]["at"])
  BY <1>5, <1>6, Untouched DEF new
<1> QED
  BY <1>2, <1>4, <1>7

\* The row of a cash point that ends up where it may work sends nothing else
\* astray.
LEMMA CashWrites ==
    ASSUME BranchTypeOK, NEW c \in CashIds, NEW writes, \A w \in writes : w[1] = c,
           \/ ~ Company!IsOpen(Company!Applied(writes), c)
           \/ Company!IsOpen(places, Company!Applied(writes)[c]["at"])
              /\ Company!Applied(writes)[c]["at"] \in BranchIds
    PROVE  Company!Astray(Company!Applied(writes)) \subseteq Company!Astray(places)
<1> DEFINE new == Company!Applied(writes)
<1> SUFFICES ASSUME NEW k \in CashIds, Company!IsOpen(new, k), ~ Company!IsOpen(new, new[k].at)
             PROVE  Company!IsOpen(places, k) /\ ~ Company!IsOpen(places, places[k].at)
  BY DEF Company!Astray
<1>1. k \in Places /\ places[k]["at"] \in BranchIds
  BY DEF Places, BranchTypeOK, PlaceRow
<1>2. \A b \in BranchIds : Company!IsOpen(new, b) <=> Company!IsOpen(places, b)
  BY Untouched, BranchesAssumption DEF Places
<1> HIDE DEF new
<1>3. k # c
  <2>1. ASSUME k = c PROVE FALSE
    BY <1>2, <2>1 DEF new
  <2> QED
    BY <2>1
<1>4. (Company!IsOpen(new, k) <=> Company!IsOpen(places, k)) /\ new[k]["at"] = places[k]["at"]
  BY <1>1, <1>3, Untouched DEF new
<1> QED
  BY <1>1, <1>2, <1>4

-----------------------------------------------------------------------------
(* The calls begin.                                                        *)

\* The branches, and the limit.
LEMMA CreateBranchKeeps ==
    ASSUME BranchesInv, NEW c \in CallIds, Company!CreateBranch(c)
    PROVE  BranchesInv'
<1>1. Company!Begin(c, "create", "waits", {}, planLimit) /\ planLimit \in Nat
  BY DEF Company!CreateBranch, BranchesInv, BranchTypeOK
<1>2. ASSUME NEW u \in BranchCall, u.op = "create", u.at = "waits", u.writes = {},
             u.value = planLimit
      PROVE  KnowsRoom(c, u) /\ KnowsCash(u)
  BY <1>2 DEF KnowsRoom, KnowsCash
<1> QED
  BY <1>1, <1>2, BeginKeeps

\* A call that is to change a limit begins.
LEMMA LimitsStart ==
    ASSUME BranchesInv, NEW c \in CallIds, NEW v \in 0..MaxLimit,
           Company!SetLimit(c, v) \/ Company!ChangePlan(c, v)
    PROVE  BranchesInv'
<1>1. v \in Nat /\ Company!Used(places) \in Nat
  BY BranchesAssumption, UsedCounts
<1>2. CASE Company!SetLimit(c, v)
  <2>1. Company!Begin(c, "setLimit", "ready", {}, v) /\ Company!Used(places) <= v
    BY <1>1, <1>2 DEF Company!SetLimit
  <2>2. ASSUME NEW u \in BranchCall, u.op = "setLimit", u.at = "ready", u.value = v
        PROVE  KnowsRoom(c, u) /\ KnowsCash(u)
    BY <2>1, <2>2 DEF KnowsRoom, KnowsCash
  <2> QED
    BY <1>1, <2>1, <2>2, BeginKeeps
<1>3. CASE Company!ChangePlan(c, v)
  <2>1. Company!Begin(c, "changePlan", "waits", {}, v)
    BY <1>3 DEF Company!ChangePlan
  <2>2. ASSUME NEW u \in BranchCall, u.op = "changePlan", u.at = "waits"
        PROVE  KnowsRoom(c, u) /\ KnowsCash(u)
    BY <2>2 DEF KnowsRoom, KnowsCash
  <2> QED
    BY <1>1, <2>1, <2>2, BeginKeeps
<1> QED
  BY <1>2, <1>3

\* Rows that a call writes, of which it knows that none goes astray.
LEMMA RowsStart ==
    ASSUME BranchesInv, NEW c \in CallIds, NEW writes \in SUBSET Writing,
           Company!Begin(c, "rows", "ready", writes, 0), \A w \in writes : Closes(w),
           Company!Astray(Company!Applied(writes)) \subseteq Company!Astray(places)
    PROVE  BranchesInv'
<1>1. ASSUME NEW u \in BranchCall, u.op = "rows", u.at = "ready", u.writes = writes
      PROVE  KnowsRoom(c, u) /\ KnowsCash(u)
  BY <1>1 DEF KnowsRoom, KnowsCash
<1> QED
  BY <1>1, BeginKeeps

\* The writes of one field, and of the two that open or close a row.
LEMMA NetActive ==
    ASSUME NEW i, NEW want, DOMAIN want = {"active"}
    PROVE  \A w \in Company!Net(i, want) :
               w[1] = i /\ w[2] = "active" /\ w[3] = want["active"] /\ w = <<i, "active", w[3]>>
<1> SUFFICES ASSUME NEW w \in Company!Net(i, want)
             PROVE  w[1] = i /\ w[2] = "active" /\ w[3] = want["active"] /\ w = <<i, "active", w[3]>>
  OBVIOUS
<1>1. PICK f \in DOMAIN want : w = <<i, f, want[f]>>
  BY NetWrites
<1> QED
  BY <1>1

\* What a call writes of two fields of a row.
LEMMA NetBoth ==
    ASSUME NEW i, NEW want, DOMAIN want = {"active", "deleted"}
    PROVE  \A w \in Company!Net(i, want) :
               /\ w[1] = i /\ w = <<i, w[2], w[3]>>
               /\ \/ w[2] = "active" /\ w[3] = want["active"]
                  \/ w[2] = "deleted" /\ w[3] = want["deleted"]
<1> SUFFICES ASSUME NEW w \in Company!Net(i, want)
             PROVE  /\ w[1] = i /\ w = <<i, w[2], w[3]>>
                    /\ \/ w[2] = "active" /\ w[3] = want["active"]
                       \/ w[2] = "deleted" /\ w[3] = want["deleted"]
  OBVIOUS
<1>1. PICK f \in DOMAIN want : w = <<i, f, want[f]>>
  BY NetWrites
<1> QED
  BY <1>1

\* A write of one of those fields is one.
LEMMA WritingOf ==
    ASSUME NEW i \in Places, NEW f \in {"there", "active", "deleted"}, NEW v \in BOOLEAN
    PROVE  <<i, f, v>> \in Writing
BY DEF Writing

\* A branch closes, with what is at it.
LEMMA ClosingStart ==
    ASSUME BranchesInv, NEW c \in CallIds, NEW b \in BranchIds,
           Company!DeactivateBranch(c, b) \/ Company!DeleteBranch(c, b)
    PROVE  BranchesInv'
<1> DEFINE off == [active |-> FALSE]
           gone == [active |-> FALSE, deleted |-> TRUE]
           want == IF Company!DeactivateBranch(c, b) THEN off ELSE gone
           tills == UNION {Company!Net(k, off) : k \in Company!CashAt(b)}
           writes == Company!Net(b, want) \union tills
<1>1. Company!Begin(c, "rows", "ready", writes, 0)
  <2>1. CASE Company!DeactivateBranch(c, b)
    <3>1. UNION {Company!Net(i, off) : i \in {b} \union Company!CashAt(b)} = writes
      BY <2>1
    <3> QED
      BY <2>1, <3>1 DEF Company!DeactivateBranch
  <2>2. CASE ~ Company!DeactivateBranch(c, b)
    BY <2>2 DEF Company!DeleteBranch
  <2> QED
    BY <2>1, <2>2
<1>2. b \in Places /\ Company!CashAt(b) \subseteq CashIds /\ b \notin CashIds
  BY BranchesAssumption DEF Places, Company!CashAt
<1>3. \A w \in Company!Net(b, want) :
          w[1] = b /\ w[2] \in {"active", "deleted"} /\ Closes(w) /\ w \in Writing
  <2>3. DOMAIN off = {"active"} /\ off["active"] = FALSE
    OBVIOUS
  <2>4. DOMAIN gone = {"active", "deleted"} /\ gone["active"] = FALSE /\ gone["deleted"] = TRUE
    OBVIOUS
  <2>5. want = off \/ want = gone
    OBVIOUS
  <2> HIDE DEF off, gone, want
  <2>1. ASSUME want = off, NEW w \in Company!Net(b, want)
        PROVE  w[1] = b /\ w[2] \in {"active", "deleted"} /\ Closes(w) /\ w \in Writing
    <3>1. w[1] = b /\ w[2] = "active" /\ w[3] = FALSE /\ w = <<b, "active", w[3]>>
      BY <2>1, <2>3, NetActive
    <3> QED
      BY <1>2, <3>1, WritingOf DEF Closes
  <2>2. ASSUME want = gone, NEW w \in Company!Net(b, want)
        PROVE  w[1] = b /\ w[2] \in {"active", "deleted"} /\ Closes(w) /\ w \in Writing
    <3>1. /\ w[1] = b /\ w = <<b, w[2], w[3]>>
          /\ \/ w[2] = "active" /\ w[3] = FALSE
             \/ w[2] = "deleted" /\ w[3] = TRUE
      BY <2>2, <2>4, NetBoth
    <3> QED
      BY <1>2, <3>1, WritingOf DEF Closes
  <2> QED
    BY <2>1, <2>2, <2>5
<1>4. ASSUME NEW k \in Company!CashAt(b), NEW w \in Company!Net(k, off)
      PROVE  w[1] = k /\ w[2] = "active" /\ Closes(w) /\ w \in Writing
  <2>3. DOMAIN off = {"active"} /\ off["active"] = FALSE
    OBVIOUS
  <2> HIDE DEF off
  <2>1. w[1] = k /\ w[2] = "active" /\ w[3] = FALSE /\ w = <<k, "active", w[3]>>
    BY <2>3, NetActive
  <2>2. k \in Places /\ k \notin BranchIds
    BY <1>2, BranchesAssumption DEF Places
  <2> QED
    BY <2>1, <2>2, WritingOf DEF Closes
<1> HIDE DEF want, off
<1>5. \A w \in writes : w \in Company!Net(b, want)
                         \/ \E k \in Company!CashAt(b) : w \in Company!Net(k, off)
  OBVIOUS
<1>6. writes \in SUBSET Writing /\ \A w \in writes : Closes(w)
  BY <1>3, <1>4, <1>5
<1>7. \A w \in writes : w[1] \in {b} \union Company!CashAt(b) /\ w[2] # "at"
  BY <1>3, <1>4, <1>5
<1>8. ASSUME NEW k \in Company!CashAt(b) PROVE ~ Company!IsOpen(Company!Applied(writes), k)
  <2>1. \A w \in writes : w[1] = k => w \in Company!Net(k, off)
    BY <1>2, <1>3, <1>4, <1>5
  <2>2. Company!Net(k, off) \subseteq writes
    OBVIOUS
  <2>3. k \in Places /\ BranchTypeOK
    BY <1>2 DEF Places, BranchesInv
  <2> HIDE DEF writes
  <2>4. "active" \in DOMAIN off /\ off["active"] = FALSE
    BY DEF off
  <2>5. Company!Applied(writes)[k]["active"] = FALSE
    BY <2>1, <2>2, <2>3, <2>4, AppliedNet
  <2> QED
    BY <2>5 DEF Company!IsOpen
<1> HIDE DEF writes
<1>9. Company!Astray(Company!Applied(writes)) \subseteq Company!Astray(places)
  BY <1>7, <1>8, BranchWrites DEF BranchesInv
<1> QED
  BY <1>1, <1>6, <1>9, RowsStart

\* A branch opens, with what is at it: without a lock only if it was open.
LEMMA OpeningStart ==
    ASSUME BranchesInv, NEW c \in CallIds, NEW b \in BranchIds, Company!ActivateBranch(c, b)
    PROVE  BranchesInv'
<1> DEFINE on == [active |-> TRUE]
           want == [active |-> TRUE, deleted |-> FALSE]
           tills == UNION {Company!Net(k, on) : k \in Company!CashAt(b)}
           writes == Company!Net(b, want) \union tills
           where == IF Company!IsOpen(places, b) THEN "ready" ELSE "waits"
<1>1. Company!Begin(c, "open", where, writes, planLimit) /\ places[b]["there"]
  BY DEF Company!ActivateBranch
<1>2. /\ b \in Places /\ Company!CashAt(b) \subseteq CashIds /\ b \notin CashIds
      /\ planLimit \in Nat /\ BranchTypeOK
  BY BranchesAssumption DEF Places, Company!CashAt, BranchesInv, BranchTypeOK
<1>3. ASSUME NEW w \in Company!Net(b, want)
      PROVE  w[1] = b /\ w[2] \in {"active", "deleted"} /\ w \in Writing
  <2>2. DOMAIN want = {"active", "deleted"} /\ want["active"] = TRUE /\ want["deleted"] = FALSE
    OBVIOUS
  <2> HIDE DEF want
  <2>1. /\ w[1] = b /\ w = <<b, w[2], w[3]>>
        /\ \/ w[2] = "active" /\ w[3] = TRUE
           \/ w[2] = "deleted" /\ w[3] = FALSE
    BY <2>2, NetBoth
  <2> QED
    BY <1>2, <2>1, WritingOf
<1>4. ASSUME NEW k \in Company!CashAt(b), NEW w \in Company!Net(k, on)
      PROVE  w[1] = k /\ k \notin BranchIds /\ w[2] = "active" /\ w \in Writing
  <2>3. DOMAIN on = {"active"} /\ on["active"] = TRUE
    OBVIOUS
  <2> HIDE DEF on
  <2>1. w[1] = k /\ w[2] = "active" /\ w[3] = TRUE /\ w = <<k, "active", w[3]>>
    BY <2>3, NetActive
  <2>2. k \in Places /\ k \notin BranchIds
    BY <1>2, BranchesAssumption DEF Places
  <2> QED
    BY <2>1, <2>2, WritingOf
<1> HIDE DEF on, want
<1>5. \A w \in writes : w \in Company!Net(b, want)
                         \/ \E k \in Company!CashAt(b) : w \in Company!Net(k, on)
  OBVIOUS
<1>6. writes \in SUBSET Writing
  BY <1>3, <1>4, <1>5
<1>7. \A w \in writes : /\ w[1] \in {b} \union Company!CashAt(b) /\ w[2] # "at"
                        /\ w[1] \in BranchIds => w[1] = b
  BY <1>3, <1>4, <1>5
<1>8. Company!IsOpen(Company!Applied(writes), b)
  <2>1. \A w \in writes : w[1] = b => w \in Company!Net(b, want)
    BY <1>2, <1>4, <1>5
  <2>4. /\ "active" \in DOMAIN want /\ want["active"] = TRUE
        /\ "deleted" \in DOMAIN want /\ want["deleted"] = FALSE /\ "there" \notin DOMAIN want
    BY DEF want
  <2>2. Company!Net(b, want) \subseteq writes
    OBVIOUS
  <2> HIDE DEF writes
  <2>3. /\ Company!Applied(writes)[b]["active"] = TRUE
        /\ Company!Applied(writes)[b]["deleted"] = FALSE
        /\ Company!Applied(writes)[b]["there"] = places[b]["there"]
    BY <1>2, <2>1, <2>2, <2>4, AppliedNet
  <2> QED
    BY <1>1, <2>3 DEF Company!IsOpen
<1>9. Company!IsOpen(places, b) => \A w \in writes : w[1] \notin BranchIds
  <2>1. ASSUME Company!IsOpen(places, b) PROVE Company!Net(b, want) = {}
    <3>1. places[b] \in PlaceRow
      BY <1>2 DEF BranchTypeOK
    <3>2. places[b]["active"] = TRUE /\ places[b]["deleted"] = FALSE
      BY <2>1, <3>1 DEF Company!IsOpen, PlaceRow
    <3>3. DOMAIN want = {"active", "deleted"} /\ want["active"] = TRUE /\ want["deleted"] = FALSE
      BY DEF want
    <3> QED
      BY <3>2, <3>3 DEF Company!Net
  <2> QED
    BY <1>4, <1>5, <2>1
<1> HIDE DEF writes
<1>10. Company!Astray(Company!Applied(writes)) \subseteq Company!Astray(places)
  BY <1>2, <1>7, <1>8, BranchWrites
<1>11. ASSUME NEW u \in BranchCall, u.op = "open", u.at = where, u.writes = writes,
              u.value = planLimit
       PROVE  KnowsRoom(c, u) /\ KnowsCash(u)
  BY <1>7, <1>9, <1>10, <1>11 DEF KnowsRoom, KnowsCash
<1>12. where \in {"waits", "ready"}
  OBVIOUS
<1> HIDE DEF where
<1> QED
  BY <1>1, <1>2, <1>6, <1>11, <1>12, BeginKeeps

\* The row of a cash point: what is written is of it.
LEMMA CashNet ==
    ASSUME NEW k \in CashIds, NEW want,
           \A f \in DOMAIN want : \/ f \in {"there", "active", "deleted"} /\ want[f] \in BOOLEAN
                                  \/ f = "at" /\ want[f] \in BranchIds
    PROVE  /\ Company!Net(k, want) \in SUBSET Writing
           /\ \A w \in Company!Net(k, want) : w[1] = k /\ Closes(w)
<1>1. k \in Places /\ k \notin BranchIds
  BY BranchesAssumption DEF Places
<1> SUFFICES ASSUME NEW w \in Company!Net(k, want)
             PROVE  w \in Writing /\ w[1] = k /\ Closes(w)
  OBVIOUS
<1>2. PICK f \in DOMAIN want : w = <<k, f, want[f]>>
  BY NetWrites
<1> QED
  BY <1>1, <1>2 DEF Writing, Closes

\* It is written where it may work, or switched off.
LEMMA CashStart ==
    ASSUME BranchesInv, NEW c \in CallIds, NEW k \in CashIds, NEW want,
           \A f \in DOMAIN want : \/ f \in {"there", "active", "deleted"} /\ want[f] \in BOOLEAN
                                  \/ f = "at" /\ want[f] \in BranchIds,
           Company!Begin(c, "rows", "ready", Company!Net(k, want), 0),
           \/ "active" \in DOMAIN want /\ want["active"] = FALSE
           \/ Company!IsOpen(places, IF "at" \in DOMAIN want THEN want["at"] ELSE places[k]["at"])
    PROVE  BranchesInv'
<1> DEFINE writes == Company!Net(k, want)
           new == Company!Applied(writes)[k]
<1>1. writes \in SUBSET Writing /\ \A w \in writes : w[1] = k /\ Closes(w)
  BY CashNet
<1>2. k \in Places /\ BranchTypeOK /\ places[k]["at"] \in BranchIds
  BY DEF Places, BranchesInv, BranchTypeOK, PlaceRow
<1>3. \A f \in {"there", "active", "deleted", "at"} :
          new[f] = IF f \in DOMAIN want THEN want[f] ELSE places[k][f]
  BY <1>2, AppliedNet
<1>4. \/ ~ Company!IsOpen(Company!Applied(writes), k)
      \/ Company!IsOpen(places, new["at"]) /\ new["at"] \in BranchIds
  <2>1. CASE "active" \in DOMAIN want /\ want["active"] = FALSE
    BY <1>3, <2>1 DEF Company!IsOpen
  <2>2. CASE Company!IsOpen(places, IF "at" \in DOMAIN want THEN want["at"] ELSE places[k]["at"])
    <3>1. new["at"] = IF "at" \in DOMAIN want THEN want["at"] ELSE places[k]["at"]
      BY <1>3
    <3>2. new["at"] \in BranchIds
      BY <1>2, <3>1
    <3> HIDE DEF new
    <3> QED
      BY <2>2, <3>1, <3>2
  <2> QED
    BY <2>1, <2>2
<1> HIDE DEF writes
<1>5. Company!Astray(Company!Applied(writes)) \subseteq Company!Astray(places)
  BY <1>1, <1>2, <1>4, CashWrites
<1> QED
  BY <1>1, <1>5, RowsStart DEF writes

\* A cash point is created, switched on or off, deleted or moved.
LEMMA CashKeeps ==
    ASSUME BranchesInv, NEW c \in CallIds, NEW k \in CashIds,
           \/ Company!ActivateCashPoint(c, k) \/ Company!DeactivateCashPoint(c, k)
           \/ Company!DeleteCashPoint(c, k)
    PROVE  BranchesInv'
<1>1. CASE Company!ActivateCashPoint(c, k)
  <2> DEFINE want == [active |-> TRUE, deleted |-> FALSE]
  <2>1. /\ Company!Begin(c, "rows", "ready", Company!Net(k, want), 0)
        /\ Company!IsOpen(places, places[k]["at"])
    BY <1>1 DEF Company!ActivateCashPoint
  <2>2. /\ DOMAIN want = {"active", "deleted"}
        /\ want["active"] \in BOOLEAN /\ want["deleted"] \in BOOLEAN
    OBVIOUS
  <2> HIDE DEF want
  <2>3. \A f \in DOMAIN want : \/ f \in {"there", "active", "deleted"} /\ want[f] \in BOOLEAN
                               \/ f = "at" /\ want[f] \in BranchIds
    BY <2>2
  <2>4. \/ "active" \in DOMAIN want /\ want["active"] = FALSE
        \/ Company!IsOpen(places, IF "at" \in DOMAIN want THEN want["at"] ELSE places[k]["at"])
    BY <2>1, <2>2
  <2> QED
    BY <2>1, <2>3, <2>4, CashStart
<1>2. CASE Company!DeactivateCashPoint(c, k)
  <2> DEFINE want == [active |-> FALSE]
  <2>1. Company!Begin(c, "rows", "ready", Company!Net(k, want), 0)
    BY <1>2 DEF Company!DeactivateCashPoint
  <2>2. DOMAIN want = {"active"} /\ want["active"] \in BOOLEAN /\ want["active"] = FALSE
    OBVIOUS
  <2> HIDE DEF want
  <2>3. \A f \in DOMAIN want : \/ f \in {"there", "active", "deleted"} /\ want[f] \in BOOLEAN
                               \/ f = "at" /\ want[f] \in BranchIds
    BY <2>2
  <2>4. \/ "active" \in DOMAIN want /\ want["active"] = FALSE
        \/ Company!IsOpen(places, IF "at" \in DOMAIN want THEN want["at"] ELSE places[k]["at"])
    BY <2>1, <2>2
  <2> QED
    BY <2>1, <2>3, <2>4, CashStart
<1>3. CASE Company!DeleteCashPoint(c, k)
  <2> DEFINE want == [active |-> FALSE, deleted |-> TRUE]
  <2>1. Company!Begin(c, "rows", "ready", Company!Net(k, want), 0)
    BY <1>3 DEF Company!DeleteCashPoint
  <2>2. /\ DOMAIN want = {"active", "deleted"} /\ want["active"] = FALSE
        /\ want["active"] \in BOOLEAN /\ want["deleted"] \in BOOLEAN
    OBVIOUS
  <2> HIDE DEF want
  <2>3. \A f \in DOMAIN want : \/ f \in {"there", "active", "deleted"} /\ want[f] \in BOOLEAN
                               \/ f = "at" /\ want[f] \in BranchIds
    BY <2>2
  <2>4. \/ "active" \in DOMAIN want /\ want["active"] = FALSE
        \/ Company!IsOpen(places, IF "at" \in DOMAIN want THEN want["at"] ELSE places[k]["at"])
    BY <2>1, <2>2
  <2> QED
    BY <2>1, <2>3, <2>4, CashStart
<1> QED
  BY <1>1, <1>2, <1>3

\* A cash point is created, or moved, at a branch that is open.
LEMMA CashOfKeeps ==
    ASSUME BranchesInv, NEW c \in CallIds, NEW k \in CashIds, NEW b \in BranchIds,
           Company!CreateCashPoint(c, k, b) \/ Company!UpdateCashPoint(c, k, b)
    PROVE  BranchesInv'
<1>1. CASE Company!CreateCashPoint(c, k, b)
  <2> DEFINE want == [there |-> TRUE, active |-> TRUE, at |-> b]
  <2>1. Company!Begin(c, "rows", "ready", Company!Net(k, want), 0) /\ Company!IsOpen(places, b)
    BY <1>1 DEF Company!CreateCashPoint
  <2>2. /\ DOMAIN want = {"there", "active", "at"} /\ want["at"] = b
        /\ want["there"] \in BOOLEAN /\ want["active"] \in BOOLEAN
    OBVIOUS
  <2> HIDE DEF want
  <2>3. \A f \in DOMAIN want : \/ f \in {"there", "active", "deleted"} /\ want[f] \in BOOLEAN
                               \/ f = "at" /\ want[f] \in BranchIds
    BY <2>2
  <2>4. \/ "active" \in DOMAIN want /\ want["active"] = FALSE
        \/ Company!IsOpen(places, IF "at" \in DOMAIN want THEN want["at"] ELSE places[k]["at"])
    BY <2>1, <2>2
  <2> QED
    BY <2>1, <2>3, <2>4, CashStart
<1>2. CASE Company!UpdateCashPoint(c, k, b)
  <2> DEFINE want == [at |-> b]
             writes == Company!Net(k, want)
  <2>1. Company!Begin(c, "move", "ready", writes, 0)
    BY <1>2 DEF Company!UpdateCashPoint
  <2>2. DOMAIN want = {"at"} /\ want["at"] = b
    OBVIOUS
  <2> HIDE DEF want
  <2>3. writes \in SUBSET Writing /\ \A w \in writes : Closes(w)
    BY <2>2, CashNet
  <2> HIDE DEF writes
  <2>4. ASSUME NEW u \in BranchCall, u.op = "move", u.writes = writes
        PROVE  KnowsRoom(c, u) /\ KnowsCash(u)
    BY <2>3, <2>4 DEF KnowsRoom, KnowsCash
  <2> QED
    BY <2>1, <2>3, <2>4, BeginKeeps
<1> QED
  BY <1>1, <1>2

-----------------------------------------------------------------------------
(* The calls go on.                                                        *)

\* A call that enters has the company, and room in it.
LEMMA EnterKeeps ==
    ASSUME BranchesInv, NEW c \in CallIds, Company!Enter(c)
    PROVE  BranchesInv'
<1>1. PICK u \in BranchCall : u = calls[c]
  BY DEF BranchesInv, BranchTypeOK
<1>2. PICK v \in BranchCall : /\ v = [u EXCEPT !.at = "ready"]
                             /\ v.op = u.op /\ v.at = "ready" /\ v.writes = u.writes
                             /\ v.value = u.value /\ v.limitMoved = u.limitMoved
                             /\ v.rowsMoved = u.rowsMoved
  <2> DEFINE r == [u EXCEPT !.at = "ready"]
  <2>1. /\ r \in BranchCall /\ r.op = u.op /\ r.at = "ready" /\ r.writes = u.writes
        /\ r.value = u.value /\ r.limitMoved = u.limitMoved /\ r.rowsMoved = u.rowsMoved
    BY DEF BranchCall
  <2> QED
    BY <2>1
<1>3. /\ u.at = "waits" /\ lock = NoCall /\ lock' = c
      /\ UNCHANGED <<places, planLimit, override, excused, astray>>
  BY <1>1 DEF Company!Enter, Company!Available
<1>4. KnowsRoom(c, u) /\ KnowsCash(u) /\ BranchTypeOK
  BY <1>1 DEF BranchesInv
<1>5. Company!Limit' = Company!Limit /\ Company!Used(places) \in Nat
      /\ Company!Used(places)' = Company!Used(places) /\ planLimit' = planLimit
  BY <1>3, UsedCounts, SameRows DEF Company!Limit, Company!InForce
<1>6. /\ u.op \in {"create", "open"} /\ Company!HasRoom(u) /\ ~ u.limitMoved
      => Company!Used(places) < Company!Limit
  BY <1>4 DEF KnowsRoom, Company!HasRoom, Company!Limit, Company!InForce
<1>7. \E y \in BranchCall : calls' = [calls EXCEPT ![c] = y] /\ KnowsRoom(c, y)' /\ KnowsCash(y)'
  <2>1. CASE u.op = "create"
    <3> DEFINE want == [there |-> TRUE, active |-> TRUE]
    <3>1. PICK b \in BranchIds : ~ places[b].there /\ Company!HasRoom(u)
              /\ calls' = [calls EXCEPT ![c] = [v EXCEPT !.writes = Company!Net(b, want)]]
      BY <1>1, <1>2, <2>1 DEF Company!Enter
    <3>2. DOMAIN want = {"there", "active"} /\ want["there"] = TRUE /\ want["active"] = TRUE
      OBVIOUS
    <3> HIDE DEF want
    <3>3. ASSUME NEW w \in Company!Net(b, want) PROVE w \in Writing /\ w[1] = b /\ Opens(w)
      <4>1. PICK f \in DOMAIN want : w = <<b, f, want[f]>>
        BY NetWrites
      <4> QED
        BY <3>2, <4>1 DEF Writing, Opens, Places
    <3>4. PICK writes \in SUBSET Writing : writes = Company!Net(b, want)
      BY <3>3
    <3>5. PICK y \in BranchCall : /\ y = [v EXCEPT !.writes = writes]
                                 /\ y.op = v.op /\ y.at = "ready" /\ y.writes = writes
                                 /\ y.value = u.value /\ y.limitMoved = u.limitMoved
      <4> DEFINE r == [v EXCEPT !.writes = writes]
      <4>1. /\ r \in BranchCall /\ r.op = v.op /\ r.at = "ready" /\ r.writes = writes
            /\ r.value = u.value /\ r.limitMoved = u.limitMoved
        BY <1>2 DEF BranchCall
      <4> QED
        BY <4>1
    <3>6. ~ u.limitMoved => u.value = planLimit /\ Company!Used(places) < Company!Limit
      BY <1>4, <1>6, <2>1, <3>1 DEF KnowsRoom
    <3>7. KnowsRoom(c, y)' /\ KnowsCash(y)'
      <4>1. \A w \in writes : Opens(w) /\ w[1] = b
        BY <3>3, <3>4
      <4>2. KnowsRoom(c, y)'
        BY <1>2, <1>3, <1>5, <2>1, <3>5, <3>6, <4>1 DEF KnowsRoom, Opens
      <4> QED
        BY <1>2, <2>1, <3>5, <4>2 DEF KnowsCash
    <3> QED
      BY <3>1, <3>4, <3>5, <3>7
  <2>2. CASE u.op = "open"
    <3>1. calls' = [calls EXCEPT ![c] = v] /\ Company!HasRoom(u)
      BY <1>1, <1>2, <2>2 DEF Company!Enter
    <3>2. ~ u.limitMoved => u.value = planLimit /\ Company!Used(places) < Company!Limit
      BY <1>4, <1>6, <2>2, <3>1 DEF KnowsRoom
    <3>3. \A w, x \in v.writes : w[1] \in BranchIds /\ x[1] \in BranchIds => w[1] = x[1]
      BY <1>2, <1>4, <2>2 DEF KnowsRoom
    <3>4. KnowsRoom(c, v)'
      BY <1>2, <1>3, <1>5, <2>2, <3>2, <3>3 DEF KnowsRoom
    <3>5. KnowsCash(v)'
      <4>1. KnowsCash(v)
        BY <1>2, <1>4 DEF KnowsCash
      <4> QED
        BY <1>3, <4>1, SameRows
    <3> QED
      BY <3>1, <3>4, <3>5
  <2>3. CASE u.op = "changePlan"
    <3>1. calls' = [calls EXCEPT ![c] = v] /\ Company!Used(places) <= u.value
      BY <1>1, <1>2, <2>3 DEF Company!Enter
    <3>2. KnowsRoom(c, v)'
      BY <1>2, <1>3, <1>5, <2>3, <3>1 DEF KnowsRoom
    <3>3. KnowsCash(v)'
      BY <1>2, <2>3 DEF KnowsCash
    <3> QED
      BY <3>1, <3>2, <3>3
  <2> QED
    BY <1>1, <2>1, <2>2, <2>3 DEF Company!Enter
<1>8. PICK y \in BranchCall : calls' = [calls EXCEPT ![c] = y] /\ KnowsRoom(c, y)' /\ KnowsCash(y)'
  BY <1>7
<1>9. BranchTypeOK'
  BY <1>3, <1>4, <1>8 DEF BranchTypeOK
<1>10. ASSUME NEW x \in CallIds PROVE (KnowsRoom(x, calls[x]) /\ KnowsCash(calls[x]))'
  <2>1. PICK z : z = calls'[x]
    OBVIOUS
  <2>2. CASE x = c
    <3>1. z = y
      BY <1>4, <1>8, <2>1, <2>2 DEF BranchTypeOK
    <3> QED
      BY <1>8, <2>1, <2>2, <3>1
  <2>3. CASE x # c
    <3>1. z = calls[x] /\ KnowsRoom(x, z) /\ KnowsCash(z) /\ lock # x
      BY <1>3, <1>4, <1>8, <2>1, <2>3, BranchesAssumption DEF BranchesInv, BranchTypeOK
    <3>2. KnowsRoom(x, z)'
      BY <1>3, <1>5, <3>1 DEF KnowsRoom
    <3>3. KnowsCash(z)'
      BY <1>3, <3>1, SameRows
    <3> QED
      BY <2>1, <3>2, <3>3
  <2> QED
    BY <2>2, <2>3
<1>11. Company!WithinLimit' /\ Company!CashWhereOpen'
  BY <1>3, <1>5, SameRows
     DEF BranchesInv, Company!WithinLimit, Company!CashWhereOpen, Company!Over
<1> QED
  BY <1>9, <1>10, <1>11 DEF BranchesInv

\* A call that another has overtaken: what it read has moved.
Overtook(u, v, moved, limit) ==
    /\ v.op = u.op /\ v.at = u.at /\ v.writes = u.writes /\ v.value = u.value
    /\ u.rowsMoved \/ (moved /\ u.op \in {"rows", "move", "open", "setLimit"}) => v.rowsMoved
    /\ u.limitMoved \/ (limit /\ u.op \in {"create", "open", "setLimit"}) => v.limitMoved

\* What a commit leaves of the other calls.
LEMMA OvertakenCall ==
    ASSUME BranchTypeOK, NEW c, NEW moved \in BOOLEAN, NEW limit \in BOOLEAN, NEW x \in CallIds
    PROVE  /\ Company!Overtaken(c, moved, limit)[x] \in BranchCall
           /\ x = c => Company!Overtaken(c, moved, limit)[x] = Company!Idle
           /\ x # c => Overtook(calls[x], Company!Overtaken(c, moved, limit)[x], moved, limit)
<1> DEFINE new == Company!Overtaken(c, moved, limit)[x]
<1>1. PICK u \in BranchCall : u = calls[x]
  BY DEF BranchTypeOK
<1>2. CASE x = c
  BY <1>2, IdleTyped DEF Company!Overtaken
<1>3. CASE x # c /\ u = Company!Idle
  <2>1. new = u /\ u.op = "none"
    BY <1>1, <1>3, IdleTyped DEF Company!Overtaken
  <2> QED
    BY <1>1, <1>3, <2>1 DEF Overtook
<1>4. CASE x # c /\ u # Company!Idle
  <2> DEFINE rowsNow == u.rowsMoved \/ (moved /\ u.op \notin {"create", "changePlan"})
             limitNow == u.limitMoved \/ (limit /\ u.op \in {"create", "open", "setLimit"})
             u1 == [u EXCEPT !.rowsMoved = rowsNow]
             u2 == [u1 EXCEPT !.limitMoved = limitNow]
  <2>1. new = u2
    BY <1>1, <1>4 DEF Company!Overtaken, BranchCall
  <2>2. rowsNow \in BOOLEAN /\ limitNow \in BOOLEAN
    BY DEF BranchCall
  <2>3. /\ u.rowsMoved \/ (moved /\ u.op \in {"rows", "move", "open", "setLimit"}) => rowsNow
        /\ u.limitMoved \/ (limit /\ u.op \in {"create", "open", "setLimit"}) => limitNow
    OBVIOUS
  <2> HIDE DEF rowsNow, limitNow
  <2>4. /\ u1 \in BranchCall /\ u1.op = u.op /\ u1.at = u.at /\ u1.writes = u.writes
        /\ u1.value = u.value /\ u1.rowsMoved = rowsNow
    BY <2>2 DEF BranchCall
  <2> HIDE DEF u1
  <2>5. /\ u2 \in BranchCall /\ u2.op = u.op /\ u2.at = u.at /\ u2.writes = u.writes
        /\ u2.value = u.value /\ u2.rowsMoved = rowsNow /\ u2.limitMoved = limitNow
    BY <2>2, <2>4 DEF BranchCall
  <2> HIDE DEF u2, new
  <2> QED
    BY <1>1, <1>4, <2>1, <2>3, <2>5 DEF Overtook, new
<1> QED
  BY <1>2, <1>3, <1>4

\* What the other calls know stays true: rows move with every call that read
\* them told, and so does the limit; and only the one that has the company adds
\* a branch.
LEMMA OthersKnow ==
    ASSUME BranchesInv, NEW c, NEW moved \in BOOLEAN, NEW limit \in BOOLEAN,
           \A x \in CallIds : /\ calls'[x] \in BranchCall
                              /\ x = c => calls'[x] = Company!Idle
                              /\ x # c => Overtook(calls[x], calls'[x], moved, limit),
           \A x \in CallIds : x # c /\ lock = x => lock' = x,
           moved \/ UNCHANGED places,
           limit \/ UNCHANGED <<planLimit, override>>,
           Company!Used(places)' <= Company!Used(places) \/ lock = c
    PROVE  \A x \in CallIds : (KnowsRoom(x, calls[x]) /\ KnowsCash(calls[x]))'
<1> SUFFICES ASSUME NEW x \in CallIds
             PROVE  (KnowsRoom(x, calls[x]) /\ KnowsCash(calls[x]))'
  OBVIOUS
<1>1. PICK v \in BranchCall : v = calls'[x]
  OBVIOUS
<1>2. CASE x = c
  <2>1. v = Company!Idle
    BY <1>1, <1>2
  <2>2. v.op = "none"
    BY <2>1, IdleTyped
  <2>3. KnowsRoom(x, v)' /\ KnowsCash(v)'
    BY <2>2 DEF KnowsRoom, KnowsCash
  <2> QED
    BY <1>1, <2>3
<1>3. CASE x # c
  <2>1. PICK u \in BranchCall : u = calls[x]
    BY DEF BranchesInv, BranchTypeOK
  <2>2. KnowsRoom(x, u) /\ KnowsCash(u) /\ Overtook(u, v, moved, limit)
    BY <1>1, <1>3, <2>1 DEF BranchesInv
  <2>3. Company!Used(places) \in Nat /\ Company!Used(places)' \in Nat
    <3>1. Company!Used(places)' = Company!Used(places')
      BY DEF Company!Used, Company!IsOpen
    <3> QED
      BY <3>1, UsedCounts
  <2>4. v.op \in {"rows", "move"} => \A w \in v.writes : Closes(w)
    BY <2>2 DEF KnowsRoom, Overtook
  <2>5. v.op = "create" => \A w \in v.writes : Opens(w)
    BY <2>2 DEF KnowsRoom, Overtook
  <2>6. ASSUME v.op \in {"create", "open"}
        PROVE  /\ ~ v.limitMoved => v.value = planLimit'
               /\ \A w, y \in v.writes : w[1] \in BranchIds /\ y[1] \in BranchIds => w[1] = y[1]
               /\ v.at = "ready" =>
                      \/ \A w \in v.writes : w[1] \notin BranchIds
                      \/ /\ lock' = x
                         /\ ~ v.limitMoved => Company!Used(places)' < Company!Limit'
    <3>1. ~ v.limitMoved => ~ u.limitMoved /\ ~ limit
      BY <2>2, <2>6 DEF Overtook
    <3>2. ~ v.limitMoved => planLimit' = planLimit /\ Company!Limit' = Company!Limit
      BY <3>1 DEF Company!Limit, Company!InForce
    <3>3. \A w, y \in v.writes : w[1] \in BranchIds /\ y[1] \in BranchIds => w[1] = y[1]
      BY <2>2, <2>6 DEF KnowsRoom, Overtook
    <3>4. ~ v.limitMoved => v.value = planLimit'
      BY <2>2, <2>6, <3>1, <3>2 DEF KnowsRoom, Overtook
    <3>5. ASSUME v.at = "ready", ~ (\A w \in v.writes : w[1] \notin BranchIds)
          PROVE  lock' = x /\ (~ v.limitMoved => Company!Used(places)' < Company!Limit')
      <4>1. lock = x /\ (~ u.limitMoved => Company!Used(places) < Company!Limit)
        BY <2>2, <2>6, <3>5 DEF KnowsRoom, Overtook
      <4>2. Company!Used(places)' <= Company!Used(places)
        BY <1>3, <4>1
      <4>3. Company!Limit \in Nat
        BY DEF BranchesInv, BranchTypeOK, Company!Limit, Company!InForce
      <4> QED
        BY <1>3, <2>3, <3>1, <3>2, <4>1, <4>2, <4>3
    <3> QED
      BY <3>3, <3>4, <3>5
  <2>7. v.op = "setLimit" /\ ~ v.rowsMoved => Company!Used(places)' <= v.value
    <3>1. ASSUME v.op = "setLimit", ~ v.rowsMoved PROVE UNCHANGED places /\ ~ u.rowsMoved
      BY <2>2, <3>1 DEF Overtook
    <3>2. UNCHANGED places => Company!Used(places)' = Company!Used(places)
      BY SameRows
    <3> QED
      BY <2>2, <3>1, <3>2 DEF KnowsRoom, Overtook
  <2>8. v.op = "changePlan" /\ v.at = "ready" =>
            lock' = x /\ Company!Used(places)' <= v.value
    <3>1. ASSUME v.op = "changePlan", v.at = "ready"
          PROVE  lock = x /\ Company!Used(places) <= u.value /\ v.value = u.value
      BY <2>2, <3>1 DEF KnowsRoom, Overtook
    <3>2. u.value \in Nat
      BY DEF BranchCall
    <3> QED
      BY <1>3, <2>3, <3>1, <3>2
  <2>9. KnowsRoom(x, v)'
    BY <2>4, <2>5, <2>6, <2>7, <2>8 DEF KnowsRoom, Closes, Opens
  <2>10. KnowsCash(v)'
    <3>1. CASE v.op \in {"rows", "open"} /\ ~ v.rowsMoved
      <4>1. UNCHANGED places /\ KnowsCash(v)
        BY <2>2, <3>1 DEF Overtook, KnowsCash
      <4> QED
        BY <4>1, SameRows
    <3>2. CASE ~ (v.op \in {"rows", "open"} /\ ~ v.rowsMoved)
      BY <3>2 DEF KnowsCash
    <3> QED
      BY <3>1, <3>2
  <2> QED
    BY <1>1, <2>9, <2>10
<1> QED
  BY <1>2, <1>3

\* A call ends without a commit.
LEMMA AbandonKeeps ==
    ASSUME BranchesInv, NEW c \in CallIds, Company!Abandon(c)
    PROVE  BranchesInv'
<1>1. /\ calls' = [calls EXCEPT ![c] = Company!Idle]
      /\ lock' = IF lock = c THEN NoCall ELSE lock
      /\ UNCHANGED <<places, planLimit, override, excused, astray>>
  BY DEF Company!Abandon
<1>2. calls' \in [CallIds -> BranchCall]
  BY <1>1, IdleTyped DEF BranchesInv, BranchTypeOK
<1>3. BranchTypeOK'
  BY <1>1, <1>2 DEF BranchesInv, BranchTypeOK
<1>4. \A x \in CallIds : /\ calls'[x] \in BranchCall
                         /\ x = c => calls'[x] = Company!Idle
                         /\ x # c => Overtook(calls[x], calls'[x], FALSE, FALSE)
  BY <1>1, <1>2 DEF Overtook, BranchesInv, BranchTypeOK
<1>5. Company!Used(places)' <= Company!Used(places)
  BY <1>1, SameRows, UsedCounts
<1>6. \A x \in CallIds : (KnowsRoom(x, calls[x]) /\ KnowsCash(calls[x]))'
  BY <1>1, <1>4, <1>5, OthersKnow
<1>7. Company!Limit' = Company!Limit
  BY <1>1 DEF Company!Limit, Company!InForce
<1>8. Company!WithinLimit' /\ Company!CashWhereOpen'
  BY <1>1, <1>7, SameRows
     DEF BranchesInv, Company!WithinLimit, Company!CashWhereOpen, Company!Over
<1> QED
  BY <1>3, <1>6, <1>8 DEF BranchesInv

\* The limit moves, with the calls that read it told.
LEMMA LimitMoves ==
    ASSUME BranchesInv, NEW c, calls' = Company!Overtaken(c, FALSE, TRUE),
           lock' = lock \/ (lock = c /\ lock' = NoCall), UNCHANGED <<places, astray>>,
           planLimit' \in Nat, override' \in Nat \union {NoLimit},
           Company!Over(places, Company!Limit)' => excused'
    PROVE  BranchesInv'
<1>1. \A x \in CallIds : /\ calls'[x] \in BranchCall
                         /\ x = c => calls'[x] = Company!Idle
                         /\ x # c => Overtook(calls[x], calls'[x], FALSE, TRUE)
  BY OvertakenCall DEF BranchesInv
<1>2. BranchTypeOK'
  <2>1. calls' \in [CallIds -> BranchCall]
    BY <1>1 DEF Company!Overtaken
  <2> QED
    BY <2>1 DEF BranchesInv, BranchTypeOK
<1>3. Company!Used(places)' <= Company!Used(places)
  BY SameRows, UsedCounts
<1>4. \A x \in CallIds : (KnowsRoom(x, calls[x]) /\ KnowsCash(calls[x]))'
  BY <1>1, <1>3, OthersKnow
<1>5. Company!WithinLimit' /\ Company!CashWhereOpen'
  BY SameRows DEF BranchesInv, Company!WithinLimit, Company!CashWhereOpen
<1> QED
  BY <1>2, <1>4, <1>5 DEF BranchesInv

\* A limit of its own is committed.
LEMMA CommitLimitKeeps ==
    ASSUME BranchesInv, NEW c \in CallIds, Company!CommitLimit(c)
    PROVE  BranchesInv'
<1>1. PICK u \in BranchCall : u = calls[c] /\ KnowsRoom(c, u)
  BY DEF BranchesInv, BranchTypeOK
<1>2. /\ u.op = "setLimit" /\ override' = u.value
      /\ calls' = Company!Overtaken(c, FALSE, TRUE)
      /\ excused' = (Company!Over(places, u.value) /\ (excused \/ u.rowsMoved))
      /\ UNCHANGED <<places, planLimit, lock, astray>>
  BY <1>1 DEF Company!CommitLimit
<1>3. u.value \in Nat /\ Company!Used(places) \in Nat /\ planLimit \in Nat
  BY UsedCounts DEF BranchCall, BranchesInv, BranchTypeOK
<1>4. Company!Limit' = u.value
  BY <1>2, <1>3, BranchesAssumption DEF Company!Limit, Company!InForce
<1>5. Company!Over(places, Company!Limit)' => excused'
  <2>1. Company!Over(places, Company!Limit)' <=> Company!Over(places, u.value)
    BY <1>2, <1>4, SameRows DEF Company!Over
  <2>2. Company!Over(places, u.value) => u.rowsMoved
    BY <1>1, <1>2, <1>3 DEF Company!Over, KnowsRoom
  <2> QED
    BY <1>2, <2>1, <2>2
<1> QED
  BY <1>2, <1>3, <1>5, LimitMoves

\* A change of plan is committed.
LEMMA CommitPlanKeeps ==
    ASSUME BranchesInv, NEW c \in CallIds, Company!CommitPlan(c)
    PROVE  BranchesInv'
<1>1. PICK u \in BranchCall : u = calls[c] /\ KnowsRoom(c, u)
  BY DEF BranchesInv, BranchTypeOK
<1>2. /\ u.op = "changePlan" /\ u.at = "ready" /\ planLimit' = u.value
      /\ calls' = Company!Overtaken(c, FALSE, TRUE)
      /\ lock' = IF lock = c THEN NoCall ELSE lock
      /\ excused' = (Company!Over(places, Company!InForce(override, u.value)) /\ excused)
      /\ UNCHANGED <<places, override, astray>>
  BY <1>1 DEF Company!CommitPlan
<1>3. /\ u.value \in Nat /\ Company!Used(places) \in Nat
      /\ override \in Nat \union {NoLimit}
  BY UsedCounts DEF BranchCall, BranchesInv, BranchTypeOK
<1>4. lock = c /\ Company!Used(places) <= u.value
  BY <1>1, <1>2 DEF KnowsRoom
<1>5. Company!Over(places, Company!Limit)' => excused'
  <2>1. Company!Limit' = Company!InForce(override, u.value)
    BY <1>2 DEF Company!Limit, Company!InForce
  <2>2. Company!Over(places, Company!Limit)'
            <=> Company!Over(places, Company!InForce(override, u.value))
    BY <1>2, <2>1, SameRows DEF Company!Over
  <2>3. Company!Over(places, Company!InForce(override, u.value))
            => Company!Over(places, Company!Limit)
    BY <1>3, <1>4 DEF Company!Over, Company!InForce, Company!Limit
  <2> QED
    BY <1>2, <2>2, <2>3 DEF BranchesInv, Company!WithinLimit
<1> QED
  BY <1>2, <1>3, <1>4, <1>5, LimitMoves

\* The plan is edited, or the limit of its own is dropped.
LEMMA LimitLowersKeeps ==
    ASSUME BranchesInv,
           (\E v \in 1..MaxLimit : Company!UpdatePlan(v)) \/ Company!DropLimit
    PROVE  BranchesInv'
<1>1. CASE \E v \in 1..MaxLimit : Company!UpdatePlan(v)
  <2>1. PICK v \in 1..MaxLimit : Company!UpdatePlan(v)
    BY <1>1
  <2>2. v \in Nat
    BY BranchesAssumption
  <2>3. /\ planLimit' = v /\ calls' = Company!Overtaken(NoCall, FALSE, TRUE)
        /\ excused' = Company!Over(places, Company!InForce(override, v))
        /\ UNCHANGED <<places, override, lock, astray>>
    BY <2>1 DEF Company!UpdatePlan
  <2>4. Company!Limit' = Company!InForce(override, v)
    BY <2>3 DEF Company!Limit, Company!InForce
  <2>5. Company!Over(places, Company!Limit)' => excused'
    BY <2>3, <2>4, SameRows DEF Company!Over
  <2> QED
    BY <2>2, <2>3, <2>5, LimitMoves DEF BranchesInv, BranchTypeOK
<1>2. CASE Company!DropLimit
  <2>1. /\ override' = NoLimit /\ calls' = Company!Overtaken(NoCall, FALSE, TRUE)
        /\ excused' = Company!Over(places, planLimit)
        /\ UNCHANGED <<places, planLimit, lock, astray>>
    BY <1>2 DEF Company!DropLimit
  <2>2. Company!Limit' = planLimit
    BY <2>1 DEF Company!Limit, Company!InForce
  <2>3. Company!Over(places, Company!Limit)' => excused'
    BY <2>1, <2>2, SameRows DEF Company!Over
  <2> QED
    BY <2>1, <2>3, LimitMoves DEF BranchesInv, BranchTypeOK
<1> QED
  BY <1>1, <1>2

\* A call commits its rows: it adds a branch only holding the company and with
\* room for it, and sends astray only the cash points it is excused for.
LEMMA CommitRowsKeeps ==
    ASSUME BranchesInv, NEW c \in CallIds, Company!CommitRows(c)
    PROVE  BranchesInv'
<1>1. PICK u \in BranchCall : u = calls[c] /\ KnowsRoom(c, u) /\ KnowsCash(u)
  BY DEF BranchesInv, BranchTypeOK
<1>2. PICK new : new = Company!Applied(u.writes)
  OBVIOUS
<1>3. /\ u.at = "ready" /\ u.op \in {"rows", "move", "open", "create"} /\ places' = new
      /\ calls' = Company!Overtaken(c, TRUE, FALSE)
      /\ lock' = IF lock = c THEN NoCall ELSE lock
      /\ UNCHANGED <<planLimit, override>>
  BY <1>1, <1>2 DEF Company!CommitRows
<1>4. excused' = (Company!Over(new, Company!Limit) /\ (excused \/ u.limitMoved))
  BY <1>1, <1>2 DEF Company!CommitRows, Company!Over, Company!Used, Company!IsOpen
<1>5. astray' = Company!Astray(new) \intersect
                    (IF u.rowsMoved \/ u.op = "move" THEN CashIds ELSE astray)
  BY <1>1, <1>2 DEF Company!CommitRows, Company!Astray, Company!IsOpen
<1>6. BranchTypeOK /\ u.writes \in SUBSET Writing
  BY DEF BranchesInv, BranchCall
<1>7. /\ Company!Used(places)' = Company!Used(new) /\ Company!Astray(places)' = Company!Astray(new)
      /\ Company!Limit' = Company!Limit
  BY <1>3 DEF Company!Used, Company!Astray, Company!IsOpen, Company!Limit, Company!InForce
<1>8. /\ Company!Used(places) \in Nat /\ Company!Used(new) \in Nat /\ Company!Limit \in Nat
  BY <1>6, UsedCounts DEF BranchTypeOK, Company!Limit, Company!InForce
<1>9. BranchTypeOK'
  <2>1. new \in [Places -> PlaceRow]
    BY <1>2, <1>6, AppliedTyped
  <2>2. calls' \in [CallIds -> BranchCall]
    BY <1>3, <1>6, OvertakenCall DEF Company!Overtaken
  <2> QED
    BY <1>3, <1>6, <2>1, <2>2 DEF BranchTypeOK
<1>10. \/ Company!Used(new) <= Company!Used(places)
       \/ /\ lock = c /\ Company!Used(new) <= Company!Used(places) + 1
          /\ ~ u.limitMoved => Company!Used(places) < Company!Limit
  <2>1. CASE u.op \in {"rows", "move"}
    <3>1. \A w \in u.writes : Closes(w)
      BY <1>1, <2>1 DEF KnowsRoom
    <3>2. \A b \in BranchIds : Company!IsOpen(new, b) => Company!IsOpen(places, b)
      BY <1>2, <1>6, <3>1, StaysClosed
    <3> QED
      BY <3>2, UsedCounts
  <2>2. CASE \A w \in u.writes : w[1] \notin BranchIds
    <3>1. \A b \in BranchIds : Company!IsOpen(new, b) => Company!IsOpen(places, b)
      BY <1>2, <1>6, <2>2, Untouched DEF Places
    <3> QED
      BY <3>1, UsedCounts
  <2>3. CASE u.op \in {"create", "open"} /\ ~ (\A w \in u.writes : w[1] \notin BranchIds)
    <3>1. PICK w \in u.writes : w[1] \in BranchIds
      BY <2>3
    <3>2. \A x \in u.writes : x[1] \in BranchIds => x[1] = w[1]
      BY <1>1, <2>3, <3>1 DEF KnowsRoom
    <3>3. \A b \in BranchIds \ {w[1]} : Company!IsOpen(new, b) => Company!IsOpen(places, b)
      BY <1>2, <1>6, <3>2, Untouched DEF Places
    <3>4. Company!Used(new) <= Company!Used(places) + 1
      BY <3>3, UsedCounts
    <3>5. lock = c /\ (~ u.limitMoved => Company!Used(places) < Company!Limit)
      BY <1>1, <1>3, <2>3 DEF KnowsRoom
    <3> QED
      BY <3>4, <3>5
  <2> QED
    BY <1>3, <2>1, <2>2, <2>3
<1>11. Company!WithinLimit'
  <2>1. Company!Over(places, Company!Limit)' <=> Company!Over(new, Company!Limit)
    BY <1>7 DEF Company!Over
  <2>2. Company!Over(new, Company!Limit) => excused \/ u.limitMoved
    BY <1>8, <1>10 DEF Company!Over, BranchesInv, Company!WithinLimit
  <2> QED
    BY <1>4, <2>1, <2>2 DEF Company!WithinLimit
<1>12. Company!CashWhereOpen'
  <2>1. Company!Astray(new) \subseteq CashIds /\ Company!Astray(places) \subseteq astray
    BY DEF Company!Astray, BranchesInv, Company!CashWhereOpen
  <2>2. CASE u.rowsMoved \/ u.op = "move"
    BY <1>5, <1>7, <2>1, <2>2 DEF Company!CashWhereOpen
  <2>3. CASE ~ u.rowsMoved /\ u.op \in {"rows", "open"}
    BY <1>1, <1>2, <1>5, <1>7, <2>1, <2>3 DEF Company!CashWhereOpen, KnowsCash
  <2>4. CASE ~ u.rowsMoved /\ u.op = "create"
    <3>1. \A w \in u.writes : Opens(w)
      BY <1>1, <2>4 DEF KnowsRoom
    <3>2. \A b \in BranchIds : Company!IsOpen(places, b) => Company!IsOpen(new, b)
      BY <1>2, <1>6, <3>1, StaysOpen
    <3>3. \A k \in CashIds : /\ k \in Places /\ places[k]["at"] \in BranchIds
                             /\ new[k]["at"] = places[k]["at"]
                             /\ Company!IsOpen(new, k) => Company!IsOpen(places, k)
      <4>1. \A k \in CashIds : k \in Places /\ \A w \in u.writes : w[1] # k
        BY <3>1, BranchesAssumption DEF Opens, Places
      <4> QED
        BY <1>2, <1>6, <4>1, Untouched DEF BranchTypeOK, PlaceRow
    <3>4. Company!Astray(new) \subseteq Company!Astray(places)
      BY <3>2, <3>3 DEF Company!Astray
    <3> QED
      BY <1>5, <1>7, <2>1, <2>4, <3>4 DEF Company!CashWhereOpen
  <2> QED
    BY <1>3, <2>2, <2>3, <2>4
<1>13. \A x \in CallIds : (KnowsRoom(x, calls[x]) /\ KnowsCash(calls[x]))'
  <2>1. \A x \in CallIds : /\ calls'[x] \in BranchCall
                           /\ x = c => calls'[x] = Company!Idle
                           /\ x # c => Overtook(calls[x], calls'[x], TRUE, FALSE)
    BY <1>3, <1>6, OvertakenCall
  <2>2. Company!Used(places)' <= Company!Used(places) \/ lock = c
    BY <1>7, <1>10
  <2> QED
    BY <1>3, <2>1, <2>2, OthersKnow
<1> QED
  BY <1>9, <1>11, <1>12, <1>13 DEF BranchesInv

\* Every step of the branches keeps it.
LEMMA BranchesKeep == BranchesInv /\ [Company!BranchNext]_branchVars => BranchesInv'
<1> SUFFICES ASSUME BranchesInv, [Company!BranchNext]_branchVars PROVE BranchesInv'
  OBVIOUS
<1>1. CASE UNCHANGED branchVars
  <2>1. UNCHANGED <<places, planLimit, override, lock, calls, excused, astray>>
    BY <1>1 DEF branchVars
  <2>2. BranchTypeOK' <=> BranchTypeOK
    BY <2>1 DEF BranchTypeOK
  <2>3. \A x \in CallIds : (KnowsRoom(x, calls[x]) /\ KnowsCash(calls[x]))'
    <3> SUFFICES ASSUME NEW x \in CallIds
                 PROVE  (KnowsRoom(x, calls[x]) /\ KnowsCash(calls[x]))'
      OBVIOUS
    <3>1. PICK u : u = calls[x]
      OBVIOUS
    <3>2. KnowsRoom(x, u) /\ KnowsCash(u)
      BY <3>1 DEF BranchesInv
    <3>3. KnowsRoom(x, u)' /\ KnowsCash(u)'
      BY <2>1, <3>2, SameRows, SameLimit
    <3> QED
      BY <2>1, <3>1, <3>3
  <2>4. Company!WithinLimit' /\ Company!CashWhereOpen'
    BY <2>1, SameRows, SameLimit DEF BranchesInv, Company!WithinLimit, Company!CashWhereOpen
  <2> QED
    BY <2>2, <2>3, <2>4 DEF BranchesInv
<1>2. ASSUME NEW c \in CallIds,
             \/ Company!CreateBranch(c) \/ Company!Enter(c) \/ Company!Abandon(c)
             \/ Company!CommitRows(c) \/ Company!CommitLimit(c) \/ Company!CommitPlan(c)
      PROVE  BranchesInv'
  BY <1>2, CreateBranchKeeps, EnterKeeps, AbandonKeeps, CommitRowsKeeps, CommitLimitKeeps,
     CommitPlanKeeps
<1>3. ASSUME NEW c \in CallIds, NEW v \in 0..MaxLimit,
             Company!SetLimit(c, v) \/ Company!ChangePlan(c, v)
      PROVE  BranchesInv'
  BY <1>3, LimitsStart
<1>4. ASSUME NEW c \in CallIds, NEW b \in BranchIds,
             \/ Company!ActivateBranch(c, b) \/ Company!DeactivateBranch(c, b)
             \/ Company!DeleteBranch(c, b)
      PROVE  BranchesInv'
  BY <1>4, ClosingStart, OpeningStart
<1>5. ASSUME NEW c \in CallIds, NEW b \in BranchIds, NEW k \in CashIds,
             Company!CreateCashPoint(c, k, b) \/ Company!UpdateCashPoint(c, k, b)
      PROVE  BranchesInv'
  BY <1>5, CashOfKeeps
<1>6. ASSUME NEW c \in CallIds, NEW k \in CashIds,
             \/ Company!ActivateCashPoint(c, k) \/ Company!DeactivateCashPoint(c, k)
             \/ Company!DeleteCashPoint(c, k)
      PROVE  BranchesInv'
  BY <1>6, CashKeeps
<1>7. CASE (\E v \in 1..MaxLimit : Company!UpdatePlan(v)) \/ Company!DropLimit
  BY <1>7, LimitLowersKeeps
<1> QED
  BY <1>1, <1>2, <1>3, <1>4, <1>5, <1>6, <1>7 DEF Company!BranchNext

-----------------------------------------------------------------------------
(* The modules.                                                            *)

\* An update in progress: what it set out to do and what overtook it.
IsUpdate(u) == u = [op |-> u.op, on |-> u.on, to |-> u.to, confirm |-> u.confirm,
                    overtaken |-> u.overtaken]

\* What an update that nothing overtook still knows: whom its plan hurts, and
\* that its dependencies close no circle.
StillUnhurt(u) ==
    u.op = "plan" /\ ~ u.confirm /\ u.overtaken = {} => ~ Sold!Hurts(u.on, u.to)

\* Its dependencies close no circle, unless others were committed meanwhile.
StillOpen(u) ==
    u.op = "deps" =>
        /\ u.on \in Modules /\ u.to \in SUBSET Modules
        /\ \/ \E o \in u.overtaken : o[1] = "deps"
           \/ ~ Sold!GoesRound([dependsOn EXCEPT ![u.on] = u.to], u.on)

\* The inductive invariant.
ModulesInv ==
    /\ dependsOn \in [Modules -> SUBSET Modules]
    /\ updates = [c \in CallIds |-> updates[c]]
    /\ \A c \in CallIds :
           IsUpdate(updates[c]) /\ StillUnhurt(updates[c]) /\ StillOpen(updates[c])
    /\ Sold!NoneLostUnasked
    /\ Sold!NoCircle

\* No update is in progress at first, and no module depends on another.
LEMMA ModulesStart == Sold!EntitlementInit => ModulesInv
<1> SUFFICES ASSUME Sold!EntitlementInit PROVE ModulesInv
  OBVIOUS
<1>1. \A c \in CallIds :
          IsUpdate(updates[c]) /\ StillUnhurt(updates[c]) /\ StillOpen(updates[c])
  BY DEF Sold!EntitlementInit, Sold!NoUpdate, IsUpdate, StillUnhurt, StillOpen
<1>2. \A m \in Modules : ~ Sold!GoesRound(dependsOn, m)
  BY DEF Sold!EntitlementInit, Sold!GoesRound
<1> QED
  BY <1>1, <1>2 DEF Sold!EntitlementInit, ModulesInv, Sold!NoneLostUnasked, Sold!NoCircle

\* A step in which every update is as it was, gone, new and true, or overtaken.
LEMMA UpdatesKeep ==
    ASSUME ModulesInv,
           updates' = [c \in CallIds |-> updates'[c]],
           dependsOn' \in [Modules -> SUBSET Modules],
           Sold!NoneLostUnasked', Sold!NoCircle',
           \A c \in CallIds :
               \/ updates'[c] = Sold!NoUpdate
               \/ (IsUpdate(updates[c]) /\ StillUnhurt(updates[c]) /\ StillOpen(updates[c]))'
    PROVE  ModulesInv'
<1>1. ASSUME NEW c \in CallIds, updates'[c] = Sold!NoUpdate
      PROVE  (IsUpdate(updates[c]) /\ StillUnhurt(updates[c]) /\ StillOpen(updates[c]))'
  BY <1>1 DEF Sold!NoUpdate, IsUpdate, StillUnhurt, StillOpen
<1> QED
  BY <1>1 DEF ModulesInv

\* What an operation of one kind leaves of the others'.
LEMMA OvertakenUpdate ==
    ASSUME ModulesInv, NEW calls1, NEW op, NEW on, Sold!Committing(calls1, op, on),
           NEW c \in CallIds
    PROVE  \/ updates'[c] = Sold!NoUpdate
           \/ /\ IsUpdate(updates'[c])
              /\ updates'[c].op = updates[c].op /\ updates'[c].on = updates[c].on
              /\ updates'[c].to = updates[c].to /\ updates'[c].confirm = updates[c].confirm
              /\ updates'[c].overtaken = updates[c].overtaken \union {<<op, on>>}
<1>1. IsUpdate(updates[c])
  BY DEF ModulesInv
<1> DEFINE u == updates[c]
           v == [u EXCEPT !.overtaken = @ \union {<<op, on>>}]
<1>2. updates'[c] \in {Sold!NoUpdate, v}
  BY DEF Sold!Committing
<1>3. /\ IsUpdate(v)
      /\ v.op = u.op /\ v.on = u.on /\ v.to = u.to /\ v.confirm = u.confirm
      /\ v.overtaken = u.overtaken \union {<<op, on>>}
  BY <1>1 DEF IsUpdate
<1> QED
  BY <1>2, <1>3

\* An operation that leaves the dependencies as they were.
LEMMA OperationKeeps ==
    ASSUME ModulesInv, NEW calls1, NEW op, NEW on, Sold!Committing(calls1, op, on),
           UNCHANGED <<dependsOn, crossed>>, lost' = {}
    PROVE  ModulesInv'
<1>1. updates' = [c \in CallIds |-> updates'[c]]
  BY DEF Sold!Committing
<1>2. Sold!NoneLostUnasked' /\ Sold!NoCircle'
  BY DEF ModulesInv, Sold!NoneLostUnasked, Sold!NoCircle, Sold!GoesRound
<1>3. ASSUME NEW c \in CallIds, updates'[c] # Sold!NoUpdate
      PROVE  (IsUpdate(updates[c]) /\ StillUnhurt(updates[c]) /\ StillOpen(updates[c]))'
  <2>1. /\ IsUpdate(updates'[c])
        /\ updates'[c].op = updates[c].op /\ updates'[c].on = updates[c].on
        /\ updates'[c].to = updates[c].to /\ updates'[c].confirm = updates[c].confirm
        /\ updates'[c].overtaken = updates[c].overtaken \union {<<op, on>>}
    BY <1>3, OvertakenUpdate
  <2>2. StillUnhurt(updates[c])'
    BY <2>1 DEF StillUnhurt
  <2>3. StillOpen(updates[c]) /\ dependsOn' = dependsOn
    BY DEF ModulesInv
  <2>4. StillOpen(updates[c])'
    BY <2>1, <2>3 DEF StillOpen, Sold!GoesRound
  <2> QED
    BY <2>1, <2>2, <2>4
<1> QED
  BY <1>1, <1>2, <1>3, UpdatesKeep DEF ModulesInv

\* A plan is saved: nobody lost what they were not asked about.
LEMMA PlanUpdateKeeps ==
    ASSUME ModulesInv, NEW c \in CallIds, Sold!CommitPlan(c)
    PROVE  ModulesInv'
<1> DEFINE u == updates[c]
<1>1. StillUnhurt(u) /\ lost = {}
  BY DEF ModulesInv, Sold!NoneLostUnasked
<1>2. lost' = {}
  <2>1. CASE u.confirm \/ u.overtaken # {} \/ planOf # u.on
    BY <1>1, <2>1 DEF Sold!CommitPlan
  <2>2. CASE ~ (u.confirm \/ u.overtaken # {} \/ planOf # u.on)
    <3>1. Sold!Has \ Sold!Effective(u.to) = {}
      BY <1>1, <2>2 DEF StillUnhurt, Sold!Hurts, Sold!CommitPlan
    <3>2. lost' = lost \union (Sold!Has \ Sold!Effective(u.to))
      BY <2>2 DEF Sold!CommitPlan
    <3> QED
      BY <1>1, <3>1, <3>2
  <2> QED
    BY <2>1, <2>2
<1> QED
  BY <1>2, OperationKeeps DEF Sold!CommitPlan

\* The dependencies of a module change: without another change meanwhile they
\* still close no circle, through it or past it.
LEMMA CommitDependenciesKeeps ==
    ASSUME ModulesInv, NEW c \in CallIds, Sold!CommitDependencies(c)
    PROVE  ModulesInv'
<1> DEFINE u == updates[c]
<1>1. /\ u.op = "deps" /\ Sold!Committing({c}, "deps", u.on) /\ lost' = lost
      /\ dependsOn' = [dependsOn EXCEPT ![u.on] = u.to]
      /\ crossed' = (crossed \/ \E o \in u.overtaken : o[1] = "deps")
  BY DEF Sold!CommitDependencies
<1>2. StillOpen(u) /\ dependsOn \in [Modules -> SUBSET Modules]
  BY DEF ModulesInv
<1>3. u.on \in Modules /\ u.to \in SUBSET Modules
  BY <1>1, <1>2 DEF StillOpen
<1>4. dependsOn' \in [Modules -> SUBSET Modules]
  BY <1>1, <1>2, <1>3
<1>5. ASSUME ~ crossed', NEW m \in Modules, Sold!GoesRound(dependsOn, m)' PROVE FALSE
  <2>1. ~ Sold!GoesRound(dependsOn', u.on)
    BY <1>1, <1>2, <1>5 DEF StillOpen
  <2>2. \A x \in Modules : ~ Sold!GoesRound(dependsOn, x)
    BY <1>1, <1>5 DEF ModulesInv, Sold!NoCircle
  <2>3. PICK round \in SUBSET Modules :
            m \in round /\ \A x \in round : dependsOn'[x] \intersect round # {}
    BY <1>5 DEF Sold!GoesRound
  <2>4. u.on \notin round
    BY <2>1, <2>3 DEF Sold!GoesRound
  <2>5. \A x \in round : dependsOn[x] \intersect round # {}
    BY <1>1, <1>2, <1>3, <2>3, <2>4
  <2> QED
    BY <2>2, <2>3, <2>5 DEF Sold!GoesRound
<1>6. Sold!NoneLostUnasked' /\ Sold!NoCircle'
  BY <1>1, <1>5 DEF ModulesInv, Sold!NoneLostUnasked, Sold!NoCircle
<1>7. ASSUME NEW x \in CallIds, updates'[x] # Sold!NoUpdate
      PROVE  (IsUpdate(updates[x]) /\ StillUnhurt(updates[x]) /\ StillOpen(updates[x]))'
  <2>1. /\ IsUpdate(updates'[x])
        /\ updates'[x].op = updates[x].op /\ updates'[x].on = updates[x].on
        /\ updates'[x].to = updates[x].to /\ updates'[x].confirm = updates[x].confirm
        /\ updates'[x].overtaken = updates[x].overtaken \union {<<"deps", u.on>>}
    BY <1>1, <1>7, OvertakenUpdate
  <2>2. StillUnhurt(updates[x])'
    BY <2>1 DEF StillUnhurt
  <2>3. StillOpen(updates[x])
    BY DEF ModulesInv
  <2>4. <<"deps", u.on>>[1] = "deps"
    OBVIOUS
  <2>5. StillOpen(updates[x])'
    BY <2>1, <2>3, <2>4 DEF StillOpen
  <2> QED
    BY <2>1, <2>2, <2>5
<1>8. updates' = [x \in CallIds |-> updates'[x]]
  BY <1>1 DEF Sold!Committing
<1> QED
  BY <1>4, <1>6, <1>7, <1>8, UpdatesKeep

\* An update that begins knows what it has just read.
LEMMA UpdateStarts ==
    ASSUME ModulesInv, NEW c \in CallIds, NEW u, Sold!Start(c, u),
           IsUpdate(u), StillUnhurt(u), StillOpen(u)
    PROVE  ModulesInv'
<1>1. UNCHANGED <<lifecycle, dependsOn, includes, planOf, grant, lost, crossed>>
  BY DEF Sold!Start
<1>2. updates' = [updates EXCEPT ![c] = u]
  BY DEF Sold!Start
<1>3. updates' = [x \in CallIds |-> updates'[x]]
  BY <1>2 DEF ModulesInv
<1>4. Sold!NoneLostUnasked' /\ Sold!NoCircle'
  BY <1>1 DEF ModulesInv, Sold!NoneLostUnasked, Sold!NoCircle, Sold!GoesRound
<1>5. \A v : (StillUnhurt(v) => StillUnhurt(v)') /\ (StillOpen(v) => StillOpen(v)')
  BY <1>1 DEF StillUnhurt, StillOpen, Sold!Hurts, Sold!PlanAlone, Sold!Has, Sold!Effective,
              Sold!Says, Sold!GoesRound
<1>6. \A x \in CallIds : updates'[x] = IF x = c THEN u ELSE updates[x]
  BY <1>2 DEF ModulesInv
<1> QED
  BY <1>1, <1>3, <1>4, <1>5, <1>6, UpdatesKeep DEF ModulesInv

\* The update of a call that has none.
LEMMA NoUpdateIs == IsUpdate(Sold!NoUpdate)
BY DEF Sold!NoUpdate, IsUpdate

\* Each update that begins.
LEMMA BeginningsKeep ==
    ASSUME ModulesInv, NEW c \in CallIds,
           \/ \E m \in Modules :
                  \/ \E new \in {"BETA", "GA", "RETIRADO"} : Sold!ChangeLife(c, m, new)
                  \/ \E deps \in SUBSET Modules : Sold!ChangeDependencies(c, m, deps)
                  \/ \E mode \in {"EXTRA", "TRIAL", "BLOQUEADO"} : Sold!Grant(c, m, mode)
           \/ \E p \in Plans, modules \in SUBSET Modules, confirm \in BOOLEAN :
                  Sold!ChangeIncluded(c, p, modules, confirm)
    PROVE  ModulesInv'
<1>1. ASSUME NEW m, NEW to, NEW op \in {"life", "deps", "grant"},
             Sold!Start(c, [Sold!NoUpdate EXCEPT !.op = op, !.on = m, !.to = to]),
             op = "deps" => /\ m \in Modules /\ to \in SUBSET Modules
                            /\ ~ Sold!GoesRound([dependsOn EXCEPT ![m] = to], m)
      PROVE  ModulesInv'
  <2> DEFINE u1 == [Sold!NoUpdate EXCEPT !.op = op]
             u2 == [u1 EXCEPT !.on = m]
             u  == [u2 EXCEPT !.to = to]
  <2>1. Sold!Start(c, u)
    BY <1>1
  <2>2. IsUpdate(u1) /\ u1.op = op
    BY NoUpdateIs DEF IsUpdate
  <2> HIDE DEF u1
  <2>3. IsUpdate(u2) /\ u2.op = op /\ u2.on = m
    BY <2>2 DEF IsUpdate
  <2> HIDE DEF u2
  <2>4. IsUpdate(u) /\ u.op = op /\ u.on = m /\ u.to = to
    BY <2>3 DEF IsUpdate
  <2> HIDE DEF u
  <2> QED
    BY <1>1, <2>1, <2>4, UpdateStarts DEF StillUnhurt, StillOpen
<1>2. ASSUME NEW m \in Modules, NEW deps \in SUBSET Modules, Sold!ChangeDependencies(c, m, deps)
      PROVE  ModulesInv'
  BY <1>1, <1>2 DEF Sold!ChangeDependencies
<1>3. ASSUME NEW p \in Plans, NEW modules \in SUBSET Modules, NEW confirm \in BOOLEAN,
             Sold!ChangeIncluded(c, p, modules, confirm)
      PROVE  ModulesInv'
  <2> DEFINE u == [op |-> "plan", on |-> p, to |-> modules, confirm |-> confirm,
                   overtaken |-> {}]
  <2>1. IsUpdate(u) /\ u.op = "plan" /\ u.on = p /\ u.to = modules /\ u.confirm = confirm
    BY DEF IsUpdate
  <2>2. Sold!Start(c, u) /\ (Sold!Hurts(p, modules) => confirm)
    BY <1>3 DEF Sold!ChangeIncluded
  <2> HIDE DEF u
  <2> QED
    BY <2>1, <2>2, UpdateStarts DEF StillUnhurt, StillOpen
<1> QED
  BY <1>1, <1>2, <1>3 DEF Sold!ChangeLife, Sold!Grant

\* No step on the modules takes one without asking or closes a circle.
LEMMA ModulesKeep == ModulesInv /\ [Sold!EntitlementNext]_entitlementVars => ModulesInv'
<1> SUFFICES ASSUME ModulesInv, [Sold!EntitlementNext]_entitlementVars PROVE ModulesInv'
  OBVIOUS
<1>1. CASE UNCHANGED entitlementVars
  BY <1>1 DEF entitlementVars, ModulesInv, IsUpdate, StillUnhurt, StillOpen, Sold!Hurts,
              Sold!PlanAlone, Sold!Has, Sold!Effective, Sold!Says, Sold!GoesRound,
              Sold!NoneLostUnasked, Sold!NoCircle
<1>2. lost = {}
  BY DEF ModulesInv, Sold!NoneLostUnasked
<1>3. ASSUME NEW c \in CallIds, Sold!CommitLife(c) \/ Sold!CommitGrant(c) PROVE ModulesInv'
  BY <1>2, <1>3, OperationKeeps DEF Sold!CommitLife, Sold!CommitGrant
<1>4. ASSUME NEW m, \/ Sold!Preview(m) \/ Sold!Revoke(m) \/ Sold!Expire(m)
                    \/ Sold!MoveToPlan(m) \/ Sold!ExpireTrials
      PROVE ModulesInv'
  BY <1>2, <1>4, OperationKeeps
     DEF Sold!Preview, Sold!Revoke, Sold!Expire, Sold!MoveToPlan, Sold!ExpireTrials,
         Sold!AtOnce
<1>5. ASSUME NEW c \in CallIds, Sold!GiveUp(c) PROVE ModulesInv'
  <2>1. /\ updates' = [updates EXCEPT ![c] = Sold!NoUpdate]
        /\ UNCHANGED <<lifecycle, dependsOn, includes, planOf, grant, lost, crossed>>
    BY <1>5 DEF Sold!GiveUp
  <2>2. updates' = [x \in CallIds |-> updates'[x]]
    BY <2>1 DEF ModulesInv
  <2>3. \A x \in CallIds : updates'[x] = IF x = c THEN Sold!NoUpdate ELSE updates[x]
    BY <2>1 DEF ModulesInv
  <2>4. \A v : (StillUnhurt(v) => StillUnhurt(v)') /\ (StillOpen(v) => StillOpen(v)')
    BY <2>1 DEF StillUnhurt, StillOpen, Sold!Hurts, Sold!PlanAlone, Sold!Has, Sold!Effective,
                Sold!Says, Sold!GoesRound
  <2>5. Sold!NoneLostUnasked' /\ Sold!NoCircle'
    BY <2>1 DEF ModulesInv, Sold!NoneLostUnasked, Sold!NoCircle, Sold!GoesRound
  <2> QED
    BY <2>1, <2>2, <2>3, <2>4, <2>5, UpdatesKeep DEF ModulesInv
<1>6. CASE Sold!EntitlementNext
  BY <1>3, <1>4, <1>5, <1>6, BeginningsKeep, PlanUpdateKeeps, CommitDependenciesKeeps
     DEF Sold!EntitlementNext
<1> QED
  BY <1>1, <1>6

-----------------------------------------------------------------------------
(* The parts together.                                                     *)

\* What holds of the part that moves.
CompanyInv ==
    /\ part \in {"branches", "cash points"} => BranchesInv
    /\ part = "modules" => ModulesInv

\* It holds at first.
LEMMA CompanyStarts == PlatformInit => CompanyInv
BY BranchesStart, ModulesStart DEF PlatformInit, CompanyInv

\* A step is one of the part that moves.
LEMMA CompanyKeeps == CompanyInv /\ [PlatformNext]_platformVars => CompanyInv'
<1> SUFFICES ASSUME CompanyInv, [PlatformNext]_platformVars PROVE CompanyInv'
  OBVIOUS
<1>1. part' = part
  BY DEF PlatformNext, Subscribing, Migrating, Organizing, Cashing, Entitling,
               Showing, Selling, Cataloguing, Copying, Refusing, Fitted, Importing,
               platformVars, saasVars, shopVars
<1>2. CASE part \in {"branches", "cash points"}
  <2>1. [Company!BranchNext]_branchVars
    BY <1>2 DEF PlatformNext, Subscribing, Migrating, Organizing, Cashing, Entitling,
               Showing, Selling, Cataloguing, Copying, Refusing, Fitted, Importing,
               platformVars, saasVars, shopVars
  <2> QED
    BY <1>1, <1>2, <2>1, BranchesKeep DEF CompanyInv
<1>3. CASE part = "modules"
  <2>1. [Sold!EntitlementNext]_entitlementVars
    BY <1>3 DEF PlatformNext, Subscribing, Migrating, Organizing, Cashing, Entitling,
               Showing, Selling, Cataloguing, Copying, Refusing, Fitted, Importing,
               platformVars, saasVars, shopVars
  <2> QED
    BY <1>1, <1>3, <2>1, ModulesKeep DEF CompanyInv
<1>4. CASE part \notin {"branches", "cash points", "modules"}
  BY <1>1, <1>4 DEF CompanyInv
<1> QED
  BY <1>2, <1>3, <1>4

\* The invariant holds of every state that a run reaches.
THEOREM CompanyInvariant == PlatformSpec => []CompanyInv
<1> QED
  BY CompanyStarts, CompanyKeeps, PTL DEF PlatformSpec

\* A company opens no branch beyond its limit and a cash point that works is at a
\* branch that does (organization_service.py); no module that a company uses
\* leaves it unasked, and no modules depend on one another in a circle
\* (tenant_module_service.py, module_service.py), but for what overlapped and the
\* definitions of the two modules name.
THEOREM CompanyIsKept == PlatformSpec => []CompanyKept
<1>1. CompanyInv => CompanyKept
  BY DEF CompanyInv, CompanyKept, BranchesInv, ModulesInv
<1> QED
  BY <1>1, CompanyInvariant, PTL

\* The subscriptions run among the other parts as they run alone, so what is
\* proved of them above holds on the platform.
THEOREM PlatformSubscribes == PlatformSpec => Spec
<1>1. PlatformInit => Init
  BY DEF PlatformInit
<1>2. [PlatformNext]_platformVars => [Next]_vars
  BY DEF PlatformNext, Subscribing, Migrating, Organizing, Cashing, Entitling,
               Showing, Selling, Cataloguing, Copying, Refusing, Fitted, Importing,
               platformVars, saasVars, shopVars
<1> QED
  BY <1>1, <1>2, PTL DEF PlatformSpec, Spec

=============================================================================
