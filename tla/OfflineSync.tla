---------------------------- MODULE OfflineSync ----------------------------
(***************************************************************************)
(* The offline sales of one branch: SyncService.procesar_lote and          *)
(* _procesar (sync_service.py), the reviews of ConflictService             *)
(* (conflict_service.py) and the counter sales that may carry the same     *)
(* client_request_id.                                                      *)
(*                                                                         *)
(* A sender is one delivery of a batch.  It runs its operations one after  *)
(* another, each in a transaction of its own; deliveries of the same       *)
(* operations overlap.  What the plan, the catalogue and the validations   *)
(* say of a sale changes freely and is chosen when they are read.          *)
(***************************************************************************)
EXTENDS StockLedger, FiniteSets, Sequences, Functions

CONSTANTS
    Senders,  \* the deliveries of POST /sync/operations
    Ops,      \* the contents of the operations, as payload_hash tells them apart
    Keys,     \* client_request_id
    KeyOf,    \* the key of each operation
    Batch,    \* the operations of a delivery, sorted by client_created_at
    Basket,   \* the garments of each sale
    NoOp,     \* no record
    Supply,   \* stock of the branch at the start
    MaxMoved  \* bound of what the other operations move

OfflineSyncAssumption ==
    /\ IsFiniteSet(Keys)
    /\ KeyOf \in [Ops -> Keys]
    /\ Batch \in [Senders -> Seq(Ops)]
    /\ Basket \in [Ops -> Baskets]
    /\ NoOp \notin Ops
    /\ Supply \in Levels
    /\ MaxMoved \in Nat

VARIABLES
    stock,    \* StockModel.quantity
    record,   \* SyncOperationModel.status of each key, "none" without a row
    content,  \* the operation whose hash the row keeps
    conflict, \* type of the open SyncConflictModel of the key, "RESOLVED" or "none"
    sold,     \* the units that the key's offline order took
    counter,  \* the keys of orders that pos_sale made
    at,       \* the operation a sender is at, in its batch
    step,     \* where it is in that operation
    outcome,  \* what its open transaction is about to record
    batch,    \* the SyncBatchModel row of the sender: "new", "saved" or "lost"
    told,     \* the last result the sender has for each operation
    moved     \* net units that the other operations took or added

records == <<record, content, conflict, sold>>

vars == <<stock, record, content, conflict, sold, counter, at, step, outcome,
          batch, told, moved>>

Conflicts == {"STOCK", "PRICE", "SUBSCRIPTION", "PRODUCT_INACTIVE"}

Settled == {"CONFIRMED", "REJECTED"}

Nothing == [v \in Variants |-> 0]

Init ==
    /\ stock = Supply
    /\ record = [k \in Keys |-> "none"]
    /\ content = [k \in Keys |-> NoOp]
    /\ conflict = [k \in Keys |-> "none"]
    /\ sold = [k \in Keys |-> Nothing]
    /\ counter = {}
    /\ at = [s \in Senders |-> 1]
    /\ step = [s \in Senders |-> "next"]
    /\ outcome = [s \in Senders |-> "none"]
    /\ batch = [s \in Senders |-> "new"]
    /\ told = [s \in Senders |-> [o \in Ops |-> "none"]]
    /\ moved = [v \in Variants |-> 0]

-----------------------------------------------------------------------------
Busy(s) == at[s] <= Len(Batch[s])

Op(s) == Batch[s][at[s]]

KeyAt(s) == KeyOf[Op(s)]

\* The sender has its result and goes on to the next operation.
Result(s, answer) ==
    /\ told' = [told EXCEPT ![s][Op(s)] = answer]
    /\ at' = [at EXCEPT ![s] = @ + 1]
    /\ step' = [step EXCEPT ![s] = "next"]
    /\ outcome' = [outcome EXCEPT ![s] = "none"]

\* Every commit saves the row of the batch, a rollback before the first one
\* loses it for good.
Committed(s) == batch' = [batch EXCEPT ![s] = IF @ = "new" THEN "saved" ELSE @]

RolledBack(s) == batch' = [batch EXCEPT ![s] = IF @ = "new" THEN "lost" ELSE @]

\* What a stored row answers to an operation with its key.
Replay(o) == IF content[KeyOf[o]] = o THEN record[KeyOf[o]] ELSE "REUSED"

\* _procesar looks for the key; a known one is answered from its row.
Look(s) ==
    /\ Busy(s)
    /\ step[s] = "next"
    /\ IF record[KeyAt(s)] # "none"
       THEN Result(s, Replay(Op(s))) /\ Committed(s)
       ELSE step' = [step EXCEPT ![s] = "missed"] /\ UNCHANGED <<at, outcome, batch, told>>
    /\ UNCHANGED <<stock, records, counter, moved>>

\* PlanGuard finds the subscription read-only: nothing is recorded.
ReadOnly(s) ==
    /\ step[s] = "missed"
    /\ Result(s, "RETRY")
    /\ Committed(s)
    /\ UNCHANGED <<stock, records, counter, moved>>

\* The sale found the catalogue and the plan as found says: an inactive garment
\* comes before the stock, the stock before the prices.
Outcome(o, found) ==
    CASE found = "invalid" -> "REJECTED"
      [] found = "inactive" -> "PRODUCT_INACTIVE"
      [] found = "unsubscribed" -> "SUBSCRIPTION"
      [] found \in {"same", "dear"} /\ ~CanTake(stock, Basket[o]) -> "STOCK"
      [] found = "dear" /\ CanTake(stock, Basket[o]) -> "PRICE"
      [] OTHER -> "CONFIRMED"

Rows(o) == {v \in Variants : Basket[o][v] > 0}

\* The stock rows an open transaction has locked.
Locked ==
    UNION {Rows(Op(s)) : s \in {t \in Senders :
              step[t] = "inserted" /\ outcome[t] \in {"CONFIRMED", "STOCK", "PRICE"}}}

\* Nobody has an uncommitted row with the key.
Unclaimed(k) == \A s \in Senders : step[s] = "inserted" => KeyAt(s) # k

\* Mutant: the orders have no unique client_request_id.
InsertBesideCounter(s, found) ==
    /\ step[s] = "missed"
    /\ Unclaimed(KeyAt(s))
    /\ found \in {"same", "dear"} => Rows(Op(s)) \cap Locked = {}
    /\ IF record[KeyAt(s)] # "none" \/ batch[s] = "lost"
       THEN step' = [step EXCEPT ![s] = "violated"] /\ UNCHANGED outcome
       ELSE /\ step' = [step EXCEPT ![s] = "inserted"]
            /\ outcome' = [outcome EXCEPT ![s] = Outcome(Op(s), found)]
    /\ UNCHANGED <<stock, records, counter, at, batch, told, moved>>

\* confirmar, or the rejection or conflict it ends in, up to the last flush: the
\* stock rows are locked, the rows of the order and of the operation inserted.
\* The unique keys and the batch's foreign key are checked here.
Insert(s, found) ==
    /\ step[s] = "missed"
    /\ Unclaimed(KeyAt(s))
    /\ found \in {"same", "dear"} => Rows(Op(s)) \cap Locked = {}
    /\ LET to == Outcome(Op(s), found)
       IN  IF \/ record[KeyAt(s)] # "none"
              \/ batch[s] = "lost"
              \/ to = "CONFIRMED" /\ KeyAt(s) \in counter
           THEN step' = [step EXCEPT ![s] = "violated"] /\ UNCHANGED outcome
           ELSE /\ step' = [step EXCEPT ![s] = "inserted"]
                /\ outcome' = [outcome EXCEPT ![s] = to]
    /\ UNCHANGED <<stock, records, counter, at, batch, told, moved>>

\* The savepoint is released and the transaction commits.
Write(s) ==
    LET k == KeyAt(s)
        to == outcome[s]
    IN  /\ content' = [content EXCEPT ![k] = Op(s)]
        /\ record' = [record EXCEPT ![k] = IF to \in Conflicts THEN "CONFLICT" ELSE to]
        /\ conflict' = IF to \in Conflicts THEN [conflict EXCEPT ![k] = to] ELSE conflict
        /\ IF to = "CONFIRMED"
           THEN /\ stock' = Take(stock, Basket[Op(s)])
                /\ sold' = [sold EXCEPT ![k] = Basket[Op(s)]]
           ELSE UNCHANGED <<stock, sold>>
        /\ UNCHANGED <<counter, moved>>

Commit(s) ==
    /\ step[s] = "inserted"
    /\ Write(s)
    /\ Result(s, IF outcome[s] \in Conflicts THEN "CONFLICT" ELSE outcome[s])
    /\ Committed(s)

\* The same, when the connection breaks before the commit is answered.
CommitUnanswered(s) ==
    /\ step[s] = "inserted"
    /\ Write(s)
    /\ Result(s, "RETRY")
    /\ Committed(s)

\* Mutant: the row is answered without comparing its hash.
RereadAnyContent(s) ==
    /\ step[s] = "violated"
    /\ Result(s, IF record[KeyAt(s)] = "none" THEN "RETRY" ELSE record[KeyAt(s)])
    /\ RolledBack(s)
    /\ UNCHANGED <<stock, records, counter, moved>>

\* IntegrityError: rollback, and the row with the key is read again.
Reread(s) ==
    /\ step[s] = "violated"
    /\ Result(s, IF record[KeyAt(s)] = "none" THEN "RETRY" ELSE Replay(Op(s)))
    /\ RolledBack(s)
    /\ UNCHANGED <<stock, records, counter, moved>>

\* Any other exception: a deadlock, a broken connection.
Fail(s) ==
    /\ step[s] \in {"missed", "inserted"}
    /\ Result(s, "RETRY")
    /\ RolledBack(s)
    /\ UNCHANGED <<stock, records, counter, moved>>

\* The process dies: the device gets no result and delivers the batch again.
Crash(s) ==
    /\ Busy(s)
    /\ at' = [at EXCEPT ![s] = Len(Batch[s]) + 1]
    /\ step' = [step EXCEPT ![s] = "next"]
    /\ outcome' = [outcome EXCEPT ![s] = "none"]
    /\ told' = [told EXCEPT ![s] = [o \in Ops |-> "none"]]
    /\ UNCHANGED <<stock, records, counter, batch, moved>>

-----------------------------------------------------------------------------
\* Mutant: a second review of a resolved conflict is not refused.
ResolveAgain(k, to) ==
    /\ conflict[k] # "none"
    /\ conflict' = [conflict EXCEPT ![k] = "RESOLVED"]
    /\ record' = [record EXCEPT ![k] = to]
    /\ UNCHANGED <<content, counter, at, step, outcome, batch, told, moved>>

\* ConflictService.resolver holds the row of the conflict until it commits.
Resolve(k, to) ==
    /\ conflict[k] \in Conflicts
    /\ conflict' = [conflict EXCEPT ![k] = "RESOLVED"]
    /\ record' = [record EXCEPT ![k] = to]
    /\ UNCHANGED <<content, counter, at, step, outcome, batch, told, moved>>

\* CANCEL.
Cancel(k) == Resolve(k, "REJECTED") /\ UNCHANGED <<stock, sold>>

\* Only an ADJUST, which only a lack of stock admits, sells less than was asked.
Resellable(k, basket) ==
    IF conflict[k] = "STOCK"
    THEN /\ \A v \in Variants : basket[v] <= Basket[content[k]][v]
         /\ basket # Nothing
    ELSE basket = Basket[content[k]]

\* ADJUST, AUTHORIZE_PRICE and RETRY: confirmar again; when it fails the
\* conflict stays as it was.
Resell(k, basket) ==
    /\ Resolve(k, "CONFIRMED")
    /\ Resellable(k, basket)
    /\ k \notin counter
    /\ {v \in Variants : basket[v] > 0} \cap Locked = {}
    /\ CanTake(stock, basket)
    /\ stock' = Take(stock, basket)
    /\ sold' = [sold EXCEPT ![k] = basket]

\* CommerceService.pos_sale with the key of an operation: an order with that
\* client_request_id refuses it.
PosSale(o) ==
    LET k == KeyOf[o]
    IN  /\ k \notin counter
        /\ record[k] # "CONFIRMED"
        /\ Unclaimed(k)
        /\ Rows(o) \cap Locked = {}
        /\ CanTake(stock, Basket[o])
        /\ stock' = Take(stock, Basket[o])
        /\ counter' = counter \cup {k}
        /\ moved' = [v \in Variants |-> moved[v] - Basket[o][v]]
        /\ UNCHANGED <<records, at, step, outcome, batch, told>>

\* StockService.change in any other operation of the branch.
Change(v, delta) ==
    /\ v \notin Locked
    /\ stock[v] + delta \in 0 .. MaxStock
    /\ moved[v] + delta \in -MaxMoved .. MaxMoved
    /\ stock' = [stock EXCEPT ![v] = @ + delta]
    /\ moved' = [moved EXCEPT ![v] = @ + delta]
    /\ UNCHANGED <<records, counter, at, step, outcome, batch, told>>

Sales == {basket \in [Variants -> 0 .. MaxStock] :
            \E o \in Ops : \A v \in Variants : basket[v] <= Basket[o][v]}

Found == {"same", "dear", "inactive", "unsubscribed", "invalid"}

Next ==
    \/ \E s \in Senders :
         \/ Look(s)
         \/ ReadOnly(s)
         \/ \E found \in Found : Insert(s, found)
         \/ Commit(s)
         \/ CommitUnanswered(s)
         \/ Reread(s)
         \/ Fail(s)
         \/ Crash(s)
    \/ \E k \in Keys : Cancel(k) \/ \E basket \in Sales : Resell(k, basket)
    \/ \E o \in Ops : PosSale(o)
    \/ \E v \in Variants, delta \in {-1, 1} : Change(v, delta)

Spec == Init /\ [][Next]_vars

-----------------------------------------------------------------------------
\* The types of the variables.
TypeOK ==
    /\ stock \in Levels
    /\ record \in [Keys -> Settled \cup {"none", "CONFLICT"}]
    /\ content \in [Keys -> Ops \cup {NoOp}]
    /\ conflict \in [Keys -> Conflicts \cup {"none", "RESOLVED"}]
    /\ sold \in [Keys -> Baskets]
    /\ counter \subseteq Keys
    /\ at \in [Senders -> Nat]
    /\ step \in [Senders -> {"next", "missed", "inserted", "violated"}]
    /\ outcome \in [Senders -> Settled \cup Conflicts \cup {"none"}]
    /\ batch \in [Senders -> {"new", "saved", "lost"}]
    /\ told \in [Senders -> [Ops -> Settled \cup {"none", "CONFLICT", "RETRY", "REUSED"}]]
    /\ moved \in [Variants -> Int]

\* Each unit that left the shelf belongs to one order, offline or of somebody
\* else, however deliveries, reviews and failures mix.
StockConserved ==
    \A v \in Variants :
        stock[v] + SumFunction([k \in Keys |-> sold[k][v]]) = Supply[v] + moved[v]

\* A key sells once at most: offline or at the counter, never both, and only
\* what the recorded operation asked for.
SoldOnce ==
    \A k \in Keys :
        /\ record[k] = "CONFIRMED" => k \notin counter
        /\ record[k] # "CONFIRMED" => sold[k] = Nothing
        /\ content[k] # NoOp =>
             \A v \in Variants : sold[k][v] <= Basket[content[k]][v]

\* The operation waits for a review exactly while its conflict is open, so no
\* operation is left in CONFLICT that nobody can resolve.
ReviewPending ==
    \A k \in Keys :
        /\ record[k] = "CONFLICT" <=> conflict[k] \in Conflicts
        /\ record[k] = "none" <=> content[k] = NoOp

\* The last result of an operation in a response can be relied on: a sale told
\* to be confirmed is in the books with that content, a refused one is not and
\* will not be, and one to be retried is never another's.
AnswersTrue ==
    \A s \in Senders, o \in Ops :
        /\ told[s][o] \in Settled => record[KeyOf[o]] = told[s][o] /\ content[KeyOf[o]] = o
        /\ told[s][o] = "CONFLICT" => content[KeyOf[o]] = o
        /\ told[s][o] = "REUSED" => content[KeyOf[o]] \notin {o, NoOp}

\* A settled operation is never settled again, by a delivery or by a review.
SettledStays ==
    \A k \in Keys :
        record[k] \in Settled => /\ record'[k] = record[k]
                                 /\ content'[k] = content[k]
                                 /\ sold'[k] = sold[k]

=============================================================================
