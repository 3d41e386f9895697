---------------------------- MODULE MCBackground ----------------------------
(***************************************************************************)
(* What runs beside the requests: the row locks of the stock, the mail     *)
(* queue, the outbox of webhooks, the try-on jobs and the runner of the    *)
(* scheduled jobs.  They share no state, so their interleavings add        *)
(* nothing: `part' names the one that moves, and a run explores each.      *)
(*                                                                         *)
(* The locks: four operations over three variants that pairwise overlap,   *)
(* two on the same order, one with a repeated line.  The mail: a queue of   *)
(* one place, so full queues, dropped sentinels and requests caught by the *)
(* shutdown all happen.                                                    *)
(***************************************************************************)
EXTENDS StockLocks, TryOnJobs, JobRunner

CONSTANTS pos, cancel, webhook, expiry, sync1, order1, hold1, till,
          Mails, Workers, Tamano, Stop,
          Deliveries, Deliverers, Batch, Retries, MaxTrouble, Idle

MCDocument == [p \in Services |->
    CASE p = pos -> till
      [] p = expiry -> hold1
      [] OTHER -> order1]

MCLines == [p \in Services \union Offline |->
    CASE p = pos -> <<1, 2, 3>>
      [] p = sync1 -> <<1, 2>>
      [] p = expiry -> <<2, 2, 3>>
      [] OTHER -> <<1, 3>>]

VARIABLES part,
          queue, apagando, hilos, pendientes, request, worker, closer, joining,
          stops, sent, late,
          delivery, waiting, work, received, posts, trouble

Mail == INSTANCE MailQueue WITH Requests <- Mails
Outbox == INSTANCE WebhookOutbox

ASSUME BackgroundAssumption == Mail!MailQueueAssumption /\ Outbox!OutboxAssumption

mailVars == <<queue, apagando, hilos, pendientes, request, worker, closer, joining,
              stops, sent, late>>

outboxVars == <<delivery, waiting, work, received, posts, trouble>>

Parts == {"locks", "mail", "outbox", "try-on", "jobs"}

BackgroundInit ==
    /\ part \in Parts
    /\ Locks!Init
    /\ Mail!Init
    /\ Outbox!OutboxInit
    /\ TryOnInit
    /\ JobRunnerInit
    /\ part # "jobs" => pool = CHOOSE s \in Arrivals : TRUE

Locking ==
    /\ part = "locks"
    /\ Locks!Next
    /\ UNCHANGED <<part, mailVars, outboxVars, tryOnVars, jobRunnerVars>>

Mailing ==
    /\ part = "mail"
    /\ Mail!Next
    /\ UNCHANGED <<part, got, outboxVars, tryOnVars, jobRunnerVars>>

Delivering ==
    /\ part = "outbox"
    /\ Outbox!OutboxNext
    /\ UNCHANGED <<part, got, mailVars, tryOnVars, jobRunnerVars>>

TryingOn ==
    /\ part = "try-on"
    /\ TryOnNext
    /\ UNCHANGED <<part, got, mailVars, outboxVars, jobRunnerVars>>

RunningJobs ==
    /\ part = "jobs"
    /\ JobRunnerNext
    /\ UNCHANGED <<part, got, mailVars, outboxVars, tryOnVars>>

BackgroundNext == Locking \/ Mailing \/ Delivering \/ TryingOn \/ RunningJobs

backgroundVars == <<part, got, mailVars, outboxVars, tryOnVars, jobRunnerVars>>

\* The fairness of LiveSpec, of MailQueue's LiveSpec and of OutboxFairness, each
\* for the part that moves.
BackgroundFairness ==
    /\ \A p \in Services : WF_got(part = "locks" /\ (Locks!Lock(p) \/ Locks!Commit(p)))
    /\ \A r \in Mails : WF_mailVars(part = "mail" /\ Mail!Encolar(r))
    /\ \A w \in Workers : WF_mailVars(part = "mail" /\ Mail!Trabajar(w))
    /\ WF_mailVars(part = "mail" /\ Mail!Cerrar)
    /\ \A w \in Deliverers :
          /\ WF_outboxVars(part = "outbox" /\ Outbox!Read(w))
          /\ WF_outboxVars(part = "outbox" /\ (Outbox!Commit(w) \/ Outbox!CommitFails(w)))
          /\ \A d \in Deliveries : WF_outboxVars(part = "outbox" /\ Outbox!Post(w, d))
    /\ \A d \in Deliveries : WF_outboxVars(part = "outbox" /\ Outbox!BecomeDue(d))

BackgroundSpec ==
    /\ BackgroundInit
    /\ [][BackgroundNext]_backgroundVars
    /\ BackgroundFairness

-----------------------------------------------------------------------------
\* The types of the variables of the five parts.
TypesOK ==
    /\ TypeOK
    /\ Mail!TypeOK
    /\ Outbox!OutboxTypeOK
    /\ TryOnTypeOK
    /\ JobRunnerTypeOK

\* Every sale, release and adjustment gets its rows and commits.
LocksCommit == part = "locks" => AllCommit

\* The mail is accounted for: the counter esperar waits on is exact, a mail is
\* in one place and sent at most once, no thread is left that nobody joins, and
\* only a request caught in encolar may leave its mail behind.
MailAccounted ==
    /\ Mail!PendingIsExact
    /\ Mail!OneCopy
    /\ Mail!NoOrphanThreads
    /\ Mail!OnlyLateLeft

\* Every request of a mail gets its answer, apagar returns, and an accepted
\* mail is sent unless the process is told to stop first.
MailAnswered == Mail!AllAnswered /\ Mail!AcceptedIsSent

\* A mail that encolar accepted is sent, waiting or in the hands of a worker
\* (the comment at cola.py:237).
NoneLost == Mail!NoneLost

\* What a customer asked to erase is gone, and no image is generated twice.
TryOnKept == PhotoGone /\ GeneratedOnce

\* A delivery marked delivered was accepted, one given up was posted once for
\* every interval and once more.
StatusIsTrue == Outbox!StatusIsTrue

\* An event published ends accepted, given up or deleted with its endpoint.
AlwaysSettles == Outbox!AlwaysSettles

=============================================================================
