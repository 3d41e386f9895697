----------------------------- MODULE MailQueue -----------------------------
(***************************************************************************)
(* ColaDeCorreos (email/cola.py): request threads hand their mail to       *)
(* daemon workers through a bounded queue, and apagar drains it when the   *)
(* process stops.  One step per statement that other threads can see; the  *)
(* sections under _candado and _vacia are one step each.  Every request    *)
(* sends one mail, which bears its name.                                   *)
(***************************************************************************)
EXTENDS Integers, Sequences, FiniteSets

CONSTANTS Requests, Workers,
          Tamano,  \* email_queue_size
          Stop     \* the None that ends a worker

MailQueueAssumption ==
    /\ Tamano \in Nat \ {0}
    /\ IsFiniteSet(Workers) /\ Workers # {}
    /\ Stop \notin Requests
    /\ Requests \cap {"off", "idle", "gone"} = {}

VARIABLES
    queue,       \* _cola
    apagando,    \* the event apagar sets
    hilos,       \* _hilos
    pendientes,  \* the counter esperar waits on
    request,     \* where each request is in encolar
    worker,      \* "off", "idle", "gone" or the mail in hand
    closer,      \* where apagar is
    joining,     \* the threads apagar took over
    stops,       \* sentinels apagar still has to put
    sent,        \* how many times each mail reached the server
    late         \* requests inside encolar when apagar returned

vars == <<queue, apagando, hilos, pendientes, request, worker, closer, joining,
          stops, sent, late>>

requestVars == <<closer, joining, stops, late>>

Entering == {"checked", "started", "counted"}

Init ==
    /\ queue = <<>>
    /\ apagando = FALSE
    /\ hilos = {}
    /\ pendientes = 0
    /\ request = [r \in Requests |-> "new"]
    /\ worker = [w \in Workers |-> "off"]
    /\ closer = "up"
    /\ joining = {}
    /\ stops = 0
    /\ sent = [r \in Requests |-> 0]
    /\ late = {}

-----------------------------------------------------------------------------
\* encolar reads _apagando.
Check(r) ==
    /\ request[r] = "new"
    /\ request' = [request EXCEPT ![r] = IF apagando THEN "refused" ELSE "checked"]
    /\ UNCHANGED <<queue, apagando, hilos, pendientes, worker, sent, requestVars>>

\* _arrancar: the first mail starts the threads, unless the queue is closing.
Arrancar(r) ==
    /\ request[r] = "checked"
    /\ request' = [request EXCEPT ![r] = "started"]
    /\ IF hilos = {} /\ ~apagando
       THEN /\ hilos' = Workers
            /\ worker' = [w \in Workers |-> "idle"]
       ELSE UNCHANGED <<hilos, worker>>
    /\ UNCHANGED <<queue, apagando, pendientes, sent, requestVars>>

Count(r) ==
    /\ request[r] = "started"
    /\ request' = [request EXCEPT ![r] = "counted"]
    /\ pendientes' = pendientes + 1
    /\ UNCHANGED <<queue, apagando, hilos, worker, sent, requestVars>>

Put(r) ==
    /\ request[r] = "counted"
    /\ Len(queue) < Tamano
    /\ queue' = Append(queue, r)
    /\ request' = [request EXCEPT ![r] = "accepted"]
    /\ UNCHANGED <<apagando, hilos, pendientes, worker, sent, requestVars>>

\* Mutant: the put waits for room without a limit.
PutFullNever(r) ==
    /\ request[r] = "counted"
    /\ Len(queue) > Tamano
    /\ pendientes' = pendientes - 1
    /\ request' = [request EXCEPT ![r] = "refused"]
    /\ UNCHANGED <<queue, apagando, hilos, worker, sent, requestVars>>

\* ESPERA_PARA_ENCOLAR ran out on a full queue.
PutFull(r) ==
    /\ request[r] = "counted"
    /\ Len(queue) = Tamano
    /\ pendientes' = pendientes - 1
    /\ request' = [request EXCEPT ![r] = "refused"]
    /\ UNCHANGED <<queue, apagando, hilos, worker, sent, requestVars>>

\* The caller of encolar sends a refused mail itself.
SendInline(r) ==
    /\ request[r] = "refused"
    /\ request' = [request EXCEPT ![r] = "done"]
    /\ sent' = [sent EXCEPT ![r] = @ + 1]
    /\ UNCHANGED <<queue, apagando, hilos, pendientes, worker, requestVars>>

-----------------------------------------------------------------------------
\* _trabajar takes a mail, or the sentinel that ends it.
Get(w) ==
    /\ worker[w] = "idle"
    /\ queue # <<>>
    /\ worker' = [worker EXCEPT ![w] = IF Head(queue) = Stop THEN "gone" ELSE Head(queue)]
    /\ queue' = Tail(queue)
    /\ UNCHANGED <<apagando, hilos, pendientes, request, sent, requestVars>>

\* procesar, and the discount of its finally.
Procesar(w) ==
    /\ worker[w] \in Requests
    /\ sent' = [sent EXCEPT ![worker[w]] = @ + 1]
    /\ pendientes' = pendientes - 1
    /\ worker' = [worker EXCEPT ![w] = "idle"]
    /\ UNCHANGED <<queue, apagando, hilos, request, requestVars>>

-----------------------------------------------------------------------------
Inside == {r \in Requests : request[r] \in Entering}

\* apagar takes the threads over; with none it returns at once.
Apagar ==
    /\ closer = "up"
    /\ apagando' = TRUE
    /\ joining' = hilos
    /\ hilos' = {}
    /\ closer' = IF hilos = {} THEN "off" ELSE "waiting"
    /\ late' = IF hilos = {} THEN Inside ELSE late
    /\ UNCHANGED <<queue, pendientes, request, worker, stops, sent>>

\* esperar returns: nothing is pending, or the margin ran out.
Esperar ==
    /\ closer = "waiting"
    /\ closer' = "stopping"
    /\ stops' = Cardinality(joining)
    /\ UNCHANGED <<queue, apagando, hilos, pendientes, request, worker, joining, sent, late>>

\* put(None): dropped when the queue stays full.
PutStop ==
    /\ closer = "stopping"
    /\ stops > 0
    /\ queue' = IF Len(queue) < Tamano THEN Append(queue, Stop) ELSE queue
    /\ stops' = stops - 1
    /\ UNCHANGED <<apagando, hilos, pendientes, request, worker, closer, joining, sent, late>>

\* The joins return: the threads ended, or the time for them did.
Join ==
    /\ closer = "stopping"
    /\ stops = 0
    /\ closer' = "draining"
    /\ UNCHANGED <<queue, apagando, hilos, pendientes, request, worker, joining, stops,
                   sent, late>>

\* Mutant: the element is read and left in the queue.
VaciarSinSacar ==
    /\ closer = "draining"
    /\ queue # <<>>
    /\ Head(queue) # Stop
    /\ sent' = [sent EXCEPT ![Head(queue)] = @ + 1]
    /\ pendientes' = pendientes - 1
    /\ UNCHANGED <<queue, apagando, hilos, request, worker, closer, joining, stops, late>>

\* _vaciar_a_mano, one element.
VaciarUno ==
    /\ closer = "draining"
    /\ queue # <<>>
    /\ queue' = Tail(queue)
    /\ IF Head(queue) = Stop
       THEN UNCHANGED <<sent, pendientes>>
       ELSE /\ sent' = [sent EXCEPT ![Head(queue)] = @ + 1]
            /\ pendientes' = pendientes - 1
    /\ UNCHANGED <<apagando, hilos, request, worker, closer, joining, stops, late>>

\* _vaciar_a_mano finds the queue empty, apagar returns.
VaciarFin ==
    /\ closer = "draining"
    /\ queue = <<>>
    /\ closer' = "off"
    /\ late' = Inside
    /\ UNCHANGED <<queue, apagando, hilos, pendientes, request, worker, joining, stops, sent>>

-----------------------------------------------------------------------------
Encolar(r) == Check(r) \/ Arrancar(r) \/ Count(r) \/ Put(r) \/ PutFull(r) \/ SendInline(r)

Trabajar(w) == Get(w) \/ Procesar(w)

Cerrar == Esperar \/ PutStop \/ Join \/ VaciarUno \/ VaciarFin

Next ==
    \/ \E r \in Requests : Encolar(r)
    \/ \E w \in Workers : Trabajar(w)
    \/ Apagar
    \/ Cerrar

Spec == Init /\ [][Next]_vars

\* Every thread runs until it waits; apagar is only called when the process
\* is told to stop.
LiveSpec ==
    /\ Spec
    /\ \A r \in Requests : WF_vars(Encolar(r))
    /\ \A w \in Workers : WF_vars(Trabajar(w))
    /\ WF_vars(Cerrar)

-----------------------------------------------------------------------------
\* The types of the variables; the queue never outgrows its size.
TypeOK ==
    /\ queue \in Seq(Requests \cup {Stop})
    /\ Len(queue) <= Tamano
    /\ apagando \in BOOLEAN
    /\ hilos \in {{}, Workers}
    /\ pendientes \in Nat
    /\ request \in [Requests -> Entering \cup {"new", "refused", "accepted", "done"}]
    /\ worker \in [Workers -> {"off", "idle", "gone"} \cup Requests]
    /\ closer \in {"up", "waiting", "stopping", "draining", "off"}
    /\ joining \in {{}, Workers}
    /\ stops \in 0 .. Cardinality(Workers)
    /\ sent \in [Requests -> Nat]
    /\ late \subseteq Requests

Queued(r) == \E i \in DOMAIN queue : queue[i] = r

InHand(r) == \E w \in Workers : worker[w] = r

\* _pendientes is what esperar relies on to know that nothing is left: it
\* counts the mails queued, in a worker's hands and about to be put, neither
\* more after a refusal nor less after the hand drain.
PendingIsExact ==
    pendientes = Cardinality({r \in Requests :
                                request[r] = "counted" \/ Queued(r) \/ InHand(r)})

\* A mail is in one place at a time and reaches the server at most once,
\* whoever sends it: its request, a worker or the hand drain.
OneCopy ==
    \A r \in Requests :
        /\ sent[r] <= 1
        /\ sent[r] = 1 => ~Queued(r) /\ ~InHand(r)
        /\ ~(Queued(r) /\ InHand(r))
        /\ request[r] = "accepted" => sent[r] = 1 \/ Queued(r) \/ InHand(r)

\* Once apagar took the threads nobody starts others that no one would join.
NoOrphanThreads ==
    closer # "up" => /\ hilos = {}
                     /\ \A w \in Workers \ joining : worker[w] = "off"

\* When apagar returns only a mail whose request was between its check of
\* _apagando and its put may come to be left in the queue.
OnlyLateLeft == closer = "off" => \A r \in Requests : Queued(r) => r \in late

\* The comment of apagar: no mail is lost during the shutdown.
NoneLost ==
    closer = "off" =>
        \A r \in Requests : Queued(r) => \E w \in Workers : worker[w] \in {"idle"} \cup Requests

\* Every request gets its answer and every apagar returns, full queue or not.
AllAnswered ==
    /\ \A r \in Requests : request[r] \in Entering ~> request[r] \in {"accepted", "done"}
    /\ closer = "waiting" ~> closer = "off"

\* An accepted mail is sent, unless the process is told to stop first.
AcceptedIsSent ==
    \A r \in Requests : Queued(r) ~> sent[r] = 1 \/ closer # "up"

=============================================================================
