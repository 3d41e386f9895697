----------------------------- MODULE DeviceCopies -----------------------------
(***************************************************************************)
(* What a device that works without a connection knows of a product: the   *)
(* check of the device (DeviceService), the snapshot it then gets          *)
(* (SnapshotService.generar) and the edits of the catalogue meanwhile.     *)
(*                                                                         *)
(* A snapshot carries the hour it began; the next one brings the rows      *)
(* stamped after it.  The stamp of a row is taken when the change is       *)
(* flushed (TimestampMixin), not when it is committed.  The device is not  *)
(* in this repository: it puts what `variants' names, and takes away what  *)
(* `removed' does.  It asks for one copy at a time, and syncs meanwhile.   *)
(*                                                                         *)
(* One product; stock, customers and branches come whole every time, and   *)
(* prices, which offers change with no stamp, are left out.                *)
(***************************************************************************)
EXTENDS Naturals, FiniteSets, FiniteSetsExt

CONSTANTS Variants, DeviceCalls, Editors, NoVariant,
          MaxClock      \* stamps taken

VARIABLES clock,
          product,      \* on or off, with its stamp
          variant,      \* none, on, off or gone, with its stamp; for one that
                        \* is gone, of its entry in the audit log if it counts
          edit,         \* the changes flushed and not committed
          device,       \* none, on or blocked; refusals counted; since and
                        \* what it knows
          asks,         \* the requests of the device under way
          untold,       \* variants that changed behind the back of a snapshot
          refused, overlapped   \* refusals, and whether two of them met

deviceVars == <<clock, product, variant, edit, device, asks, untold, refused,
                overlapped>>

NoAsk == [stage |-> "idle"]

NoEdit == [item |-> "none"]

Asking(c) == asks[c].stage # "idle"

-----------------------------------------------------------------------------
\* verificar_y_registrar, which a snapshot and a batch begin with: the device
\* is looked up, and then registered, let through or refused.
Verificar(c, op) ==
    /\ ~ Asking(c)
    /\ op = "snapshot" => \A x \in DeviceCalls : Asking(x) => asks[x].op = "sync"
    /\ asks' = [asks EXCEPT ![c] =
           [stage |-> "verified", op |-> op, found |-> device.status,
            attempts |-> device.attempts]]
    /\ UNCHANGED <<clock, product, variant, edit, device, untold, refused, overlapped>>

Pass(c) ==
    asks' = [asks EXCEPT ![c] =
        IF asks[c].op = "sync" THEN NoAsk ELSE [stage |-> "served", op |-> "snapshot"]]

\* One row per device: the second of two first requests fails.
Registrar(c) ==
    /\ asks[c].stage = "verified" /\ asks[c].found = "none"
    /\ IF device.status = "none"
       THEN device' = [device EXCEPT !.status = "on"] /\ Pass(c)
       ELSE asks' = [asks EXCEPT ![c] = NoAsk] /\ UNCHANGED device
    /\ UNCHANGED <<clock, product, variant, edit, untold, refused, overlapped>>

Usar(c) ==
    /\ asks[c].stage = "verified" /\ asks[c].found = "on"
    /\ Pass(c)
    /\ UNCHANGED <<clock, product, variant, edit, device, untold, refused, overlapped>>

\* The count is the one that was read, and one more.
Rechazar(c) ==
    /\ asks[c].stage = "verified" /\ asks[c].found = "blocked"
    /\ device' = [device EXCEPT !.attempts = asks[c].attempts + 1]
    /\ asks' = [asks EXCEPT ![c] = NoAsk]
    /\ refused' = refused + 1
    /\ overlapped' = (overlapped \/ asks[c].attempts # device.attempts)
    /\ UNCHANGED <<clock, product, variant, edit, untold>>

Bloquear ==
    /\ device.status = "on"
    /\ device' = [device EXCEPT !.status = "blocked"]
    /\ UNCHANGED <<clock, product, variant, edit, asks, untold, refused, overlapped>>

Desbloquear ==
    /\ device.status = "blocked"
    /\ device' = [device EXCEPT !.status = "on"]
    /\ UNCHANGED <<clock, product, variant, edit, asks, untold, refused, overlapped>>

-----------------------------------------------------------------------------
\* generar: the hour is taken first.
Generar(c, full) ==
    /\ asks[c].stage = "served"
    /\ clock < MaxClock
    /\ full \/ device.since > 0
    /\ asks' = [asks EXCEPT ![c] =
           [stage |-> "generated", op |-> "snapshot", at |-> clock,
            since |-> IF full THEN 0 ELSE device.since, late |-> {}]]
    /\ clock' = clock + 1
    /\ UNCHANGED <<product, variant, edit, device, untold, refused, overlapped>>

Rows == {v \in Variants : variant[v].state \in {"on", "off"}}

\* Mutant: only the stamp of the product counts.
IncludedByProduct(since) == product.stamp > since

\* The product comes when it or one of its variants is stamped after `since',
\* with all of its variants.
Included(since) ==
    product.stamp > since \/ \E v \in Rows : variant[v].stamp > since

ReadProducts(c) ==
    /\ asks[c].stage = "generated"
    /\ LET included == Included(asks[c].since)
       IN  asks' = [asks EXCEPT ![c] =
               [stage |-> "read", op |-> "snapshot", at |-> asks[c].at,
                since |-> asks[c].since, late |-> {}, included |-> included,
                put |-> IF ~ included \/ product.state = "off" THEN {}
                        ELSE {v \in Rows : variant[v].state = "on"},
                removed |-> IF ~ included \/ asks[c].since = 0 THEN {}
                            ELSE {v \in Rows : variant[v].state = "off"
                                                 \/ product.state = "off"}]]
    /\ UNCHANGED <<clock, product, variant, edit, device, untold, refused, overlapped>>

\* The variants that are gone are told by the audit log.
ReadDeleted(c) ==
    /\ asks[c].stage = "read"
    /\ asks' = [asks EXCEPT ![c].stage = "told",
           ![c].removed = IF asks[c].since = 0 THEN @
               ELSE @ \union {v \in Variants : variant[v].state = "gone"
                                  /\ variant[v].stamp > asks[c].since}]
    /\ UNCHANGED <<clock, product, variant, edit, device, untold, refused, overlapped>>

\* The device has it: what was out of date before may be right now.
Deliver(c) ==
    /\ asks[c].stage = "told"
    /\ LET call == asks[c]
           full == call.since = 0
       IN  /\ device' = [device EXCEPT
                  !.since = call.at,
                  !.known = ((IF full THEN {} ELSE @) \union call.put) \ call.removed]
           /\ untold' = call.late \union
                  (IF full THEN {} ELSE IF call.included THEN untold \ Rows ELSE untold)
    /\ asks' = [asks EXCEPT ![c] = NoAsk]
    /\ UNCHANGED <<clock, product, variant, edit, refused, overlapped>>

Lose(c) ==
    /\ Asking(c) /\ asks[c].op = "snapshot" /\ asks[c].stage # "verified"
    /\ asks' = [asks EXCEPT ![c] = NoAsk]
    /\ UNCHANGED <<clock, product, variant, edit, device, untold, refused, overlapped>>

-----------------------------------------------------------------------------
\* An edit of the catalogue is flushed and takes its stamp and the lock of its
\* row; `silent' is the deletion that a support operator makes, whom no company
\* has, so that no snapshot tells it.
Flush(e, item, value, silent) ==
    /\ edit[e].item = "none"
    /\ clock < MaxClock
    /\ \A x \in Editors : edit[x].item # item
    /\ edit' = [edit EXCEPT ![e] = [item |-> item, value |-> value,
                                    stamp |-> clock, silent |-> silent]]
    /\ clock' = clock + 1
    /\ UNCHANGED <<product, variant, device, asks, untold, refused, overlapped>>

\* set_product_active, delete_product and update_product
EditProduct(e, value) == Flush(e, NoVariant, value, FALSE)

AddVariant(e, v) == variant[v].state = "none" /\ Flush(e, v, "on", FALSE)

UpdateVariant(e, v, value) ==
    variant[v].state \in {"on", "off"} /\ Flush(e, v, value, FALSE)

DeleteVariant(e, v, silent) ==
    variant[v].state \in {"on", "off"} /\ Flush(e, v, "gone", silent)

CommitEdit(e) ==
    /\ edit[e].item # "none"
    /\ LET done == edit[e]
           touched == IF done.item = NoVariant THEN Variants ELSE {done.item}
           behind(hour) == IF hour > done.stamp \/ done.silent THEN touched ELSE {}
       IN  /\ IF done.item = NoVariant
              THEN /\ product' = [state |-> done.value, stamp |-> done.stamp]
                   /\ UNCHANGED variant
              ELSE /\ variant' = [variant EXCEPT ![done.item] =
                          [state |-> done.value,
                           stamp |-> IF done.silent THEN 0 ELSE done.stamp]]
                   /\ UNCHANGED product
           /\ untold' = untold \union behind(device.since)
           /\ asks' = [c \in DeviceCalls |->
                  IF asks[c].stage \in {"read", "told"}
                  THEN [asks[c] EXCEPT !.late = @ \union behind(asks[c].at)]
                  ELSE asks[c]]
    /\ edit' = [edit EXCEPT ![e] = NoEdit]
    /\ UNCHANGED <<clock, device, refused, overlapped>>

DeviceInit ==
    /\ clock = 1
    /\ product = [state |-> "on", stamp |-> 0]
    /\ variant = [v \in Variants |-> [state |-> "none", stamp |-> 0]]
    /\ edit = [e \in Editors |-> NoEdit]
    /\ device = [status |-> "none", attempts |-> 0, since |-> 0, known |-> {}]
    /\ asks = [c \in DeviceCalls |-> NoAsk]
    /\ untold = {} /\ refused = 0 /\ overlapped = FALSE

DeviceNext ==
    \/ \E c \in DeviceCalls :
          \/ \E op \in {"snapshot", "sync"} : Verificar(c, op)
          \/ Registrar(c)
          \/ Usar(c)
          \/ Rechazar(c)
          \/ \E full \in BOOLEAN : Generar(c, full)
          \/ ReadProducts(c)
          \/ ReadDeleted(c)
          \/ Deliver(c)
          \/ Lose(c)
    \/ \E e \in Editors :
          \/ \E value \in {"on", "off"} :
                \/ EditProduct(e, value)
                \/ \E v \in Variants : UpdateVariant(e, v, value)
          \/ \E v \in Variants :
                \/ AddVariant(e, v)
                \/ \E silent \in BOOLEAN : DeleteVariant(e, v, silent)
          \/ CommitEdit(e)
    \/ Bloquear
    \/ Desbloquear

-----------------------------------------------------------------------------
\* What the device knows of each variant is so, or the next snapshot will bring
\* it (a change stamped after the last one), or the change was committed behind
\* a snapshot that had begun after its stamp, or made by a support operator
\* (snapshot_service.py:26 and 63): those no snapshot but a full one corrects.
NothingMissed ==
    LET sold(v) == product.state = "on" /\ variant[v].state = "on"
        changed(v) == Max({product.stamp, variant[v].stamp})
    IN  device.since > 0 =>
            \A v \in Variants :
                \/ (v \in device.known) = sold(v)
                \/ changed(v) > device.since
                \/ v \in untold

\* Every refusal is counted, unless two met (verificar_y_registrar,
\* service.py:80, reads the count and writes it): then there are fewer.
RefusalsCounted ==
    /\ device.attempts <= refused
    /\ ~ overlapped => device.attempts = refused

=============================================================================
