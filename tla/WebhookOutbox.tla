--------------------------- MODULE WebhookOutbox ---------------------------
(***************************************************************************)
(* The outbox of integration events                                        *)
(* (src/src/integraciones/application/webhooks_service.py): the operation  *)
(* writes the event and one delivery per subscribed endpoint in its own    *)
(* transaction, and a deliverer (the job webhooks.deliver) reads what is   *)
(* due, posts it, and commits the whole batch at the end.                  *)
(*                                                                         *)
(* Nothing marks a delivery as taken while it is being posted, and the     *)
(* receiver may answer after the five seconds of the client.               *)
(***************************************************************************)
EXTENDS Integers, FiniteSets

CONSTANTS Deliveries,   \* one event for one endpoint each
          Deliverers,   \* batches in progress at once
          Batch,        \* batch_size
          Retries,      \* Len(RETRY_INTERVALS_SECONDS)
          MaxTrouble,   \* bound of the crashes, withdrawals and redeliveries
          Idle

VARIABLES delivery,     \* the committed rows of webhook_deliveries
          waiting,      \* deliveries whose next_retry_at has not come
          work,         \* what each deliverer has read, and how each post went
          received,     \* deliveries the receiver has accepted
          posts,        \* how often each was posted, up to Retries + 1
          trouble       \* crashes, withdrawals and redeliveries so far

outboxVars == <<delivery, waiting, work, received, posts, trouble>>

Pending == {"pending", "retrying"}
NoRow == [status |-> "none", attempt |-> 0]
Gone == [status |-> "gone", attempt |-> 0]
New == [status |-> "pending", attempt |-> 1]

RowType == [status : Pending \union {"none", "gone", "delivered", "failed"}, attempt : 0..Retries + 1]

\* What a deliverer has read of some deliveries, and how the post of each went.
BatchType ==
    UNION {[read : [chosen -> RowType], went : [chosen -> {"not_yet", "well", "badly"}]] :
              chosen \in SUBSET Deliveries}

OutboxAssumption == Retries \in Nat /\ MaxTrouble \in Nat /\ Idle \notin BatchType

-----------------------------------------------------------------------------
\* publicar, in the transaction of the operation: both or neither.
Publish(d) ==
    /\ delivery[d] = NoRow
    /\ delivery' = [delivery EXCEPT ![d] = New]
    /\ UNCHANGED <<waiting, work, received, posts, trouble>>

Due == {d \in Deliveries : delivery[d].status \in Pending /\ d \notin waiting}

\* entregar_pendientes: any `Batch' of the rows that are due, unlocked.
Read(w) ==
    /\ work[w] = Idle
    /\ \E chosen \in SUBSET Due :
          /\ chosen # {}
          /\ Cardinality(chosen) <= Batch
          /\ chosen = Due \/ Cardinality(chosen) = Batch
          /\ work' = [work EXCEPT ![w] = [read |-> [d \in chosen |-> delivery[d]],
                                          went |-> [d \in chosen |-> "not_yet"]]]
    /\ UNCHANGED <<delivery, waiting, received, posts, trouble>>

\* _intentar_entrega: accepted and answered, accepted but answered after the
\* five seconds, or refused.  The rows change in memory only.
Post(w, d) ==
    /\ work[w] # Idle
    /\ d \in DOMAIN work[w].read
    /\ work[w].went[d] = "not_yet"
    /\ posts' = [posts EXCEPT ![d] = IF @ > Retries THEN @ ELSE @ + 1]
    /\ \E accepted, answered \in BOOLEAN :
          /\ answered => accepted
          /\ received' = IF accepted THEN received \union {d} ELSE received
          /\ work' = [work EXCEPT ![w].went[d] = IF answered THEN "well" ELSE "badly"]
    /\ UNCHANGED <<delivery, waiting, trouble>>

Posted(w) == work[w] # Idle /\ \A d \in DOMAIN work[w].read : work[w].went[d] # "not_yet"
Well(w) == {d \in DOMAIN work[w].read : work[w].went[d] = "well"}
\* Mutant: the last interval is not used.
RetriedOneLess(w) == {d \in DOMAIN work[w].read \ Well(w) : work[w].read[d].attempt < Retries}

\* _programar_reintento: attempts left, or not.
Retried(w) == {d \in DOMAIN work[w].read \ Well(w) : work[w].read[d].attempt <= Retries}
GivenUp(w) == DOMAIN work[w].read \ (Well(w) \union Retried(w))

\* Mutant: a retry does not count the attempt.
WrittenUncounted(w, d) ==
    [status |-> CASE d \in Well(w) -> "delivered" [] d \in Retried(w) -> "retrying" [] OTHER -> "failed",
     attempt |-> delivery[d].attempt]

\* The UPDATE of a row sets the columns that differ from what was read, over
\* whatever another deliverer has committed meanwhile.
Written(w, d) ==
    LET read == work[w].read[d]
        status == CASE d \in Well(w) -> "delivered"
                    [] d \in Retried(w) -> "retrying"
                    [] OTHER -> "failed"
    IN  [status |-> IF status = read.status THEN delivery[d].status ELSE status,
         attempt |-> IF d \in Retried(w) THEN read.attempt + 1 ELSE delivery[d].attempt]

\* The commit of the batch.
Commit(w) ==
    /\ Posted(w)
    /\ \A d \in DOMAIN work[w].read : delivery[d] # Gone
    /\ delivery' = [d \in Deliveries |->
                       IF d \in DOMAIN work[w].read THEN Written(w, d) ELSE delivery[d]]
    /\ waiting' = (waiting \union Retried(w)) \ GivenUp(w)
    /\ work' = [work EXCEPT ![w] = Idle]
    /\ UNCHANGED <<received, posts, trouble>>

Lose(w) ==
    /\ work' = [work EXCEPT ![w] = Idle]
    /\ UNCHANGED <<delivery, waiting, received, posts>>

\* The whole batch is rolled back, its rows as if never posted: one of them
\* was deleted meanwhile and its UPDATE finds nothing ...
CommitFails(w) ==
    /\ Posted(w)
    /\ \E d \in DOMAIN work[w].read : delivery[d] = Gone
    /\ Lose(w)
    /\ UNCHANGED trouble

Troubled == trouble < MaxTrouble /\ trouble' = trouble + 1

\* ... or the process dies.
Crash(w) ==
    /\ work[w] # Idle
    /\ Lose(w)
    /\ Troubled

\* eliminar_endpoint deletes the deliveries of the endpoint with it.
DeleteEndpoint(d) ==
    /\ delivery[d] \notin {NoRow, Gone}
    /\ delivery' = [delivery EXCEPT ![d] = Gone]
    /\ waiting' = waiting \ {d}
    /\ Troubled
    /\ UNCHANGED <<work, received, posts>>

\* The interval before the next attempt passes.
BecomeDue(d) ==
    /\ d \in waiting
    /\ waiting' = waiting \ {d}
    /\ UNCHANGED <<delivery, work, received, posts, trouble>>

\* redeliver, by hand: due at once, the count of attempts stays.
Redeliver(d) ==
    /\ delivery[d] \notin {NoRow, Gone}
    /\ delivery' = [delivery EXCEPT ![d].status = "pending"]
    /\ waiting' = waiting \ {d}
    /\ Troubled
    /\ UNCHANGED <<work, received, posts>>

OutboxInit ==
    /\ delivery = [d \in Deliveries |-> NoRow]
    /\ waiting = {}
    /\ work = [w \in Deliverers |-> Idle]
    /\ received = {}
    /\ posts = [d \in Deliveries |-> 0]
    /\ trouble = 0

OutboxNext ==
    \/ \E d \in Deliveries : Publish(d) \/ BecomeDue(d) \/ Redeliver(d) \/ DeleteEndpoint(d)
    \/ \E w \in Deliverers :
          \/ Read(w) \/ Commit(w) \/ CommitFails(w) \/ Crash(w)
          \/ \E d \in Deliveries : Post(w, d)

\* The job of webhooks.deliver comes round again, a batch begun is carried to
\* its commit, and time passes.
OutboxFairness ==
    /\ \A w \in Deliverers :
          /\ WF_outboxVars(Read(w))
          /\ WF_outboxVars(Commit(w) \/ CommitFails(w))
          /\ \A d \in Deliveries : WF_outboxVars(Post(w, d))
    /\ \A d \in Deliveries : WF_outboxVars(BecomeDue(d))

OutboxSpec == OutboxInit /\ [][OutboxNext]_outboxVars /\ OutboxFairness

-----------------------------------------------------------------------------
OutboxTypeOK ==
    /\ delivery \in [Deliveries -> RowType]
    /\ waiting \subseteq Deliveries /\ received \subseteq Deliveries
    /\ work \in [Deliverers -> {Idle} \union BatchType]
    /\ posts \in [Deliveries -> 0..Retries + 1] /\ trouble \in 0..MaxTrouble

\* The row tells the truth, whichever deliverer wrote it last over whatever it
\* had not read: a delivery marked delivered was accepted, and one given up
\* was posted once for every interval and once more.
StatusIsTrue ==
    \A d \in Deliveries :
       /\ delivery[d].status = "delivered" => d \in received
       /\ delivery[d].status = "failed" => posts[d] = Retries + 1

\* An event published is not forgotten: its delivery ends accepted, given up,
\* or deleted with its endpoint, however the batches are cut.
AlwaysSettles ==
    \A d \in Deliveries : delivery[d].status = "pending"
                           ~> delivery[d].status \in {"delivered", "failed", "gone"}

=============================================================================
