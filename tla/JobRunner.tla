----------------------------- MODULE JobRunner -----------------------------
(***************************************************************************)
(* How the scheduled jobs take turns                                       *)
(* (src/src/plataforma_saas/application/jobs/runner.py, _run_job): the      *)
(* advisory lock of PostgreSQL belongs to a database connection, while the *)
(* commit of a job gives its connection back to the pool                   *)
(* (infrastructure/database/session.py).  The pool hands out its idle      *)
(* connections in the order they came back, to ticks and to requests alike.*)
(***************************************************************************)
EXTENDS Integers, Sequences, FiniteSets

CONSTANTS Ticks,        \* calls of POST /platform/ops/jobs/tick and /jobs/run
          Requests,     \* the other requests of the process
          Connections,  \* db_pool_size
          MaxDepth,     \* bound of the times one connection takes the lock
          NoConnection

ASSUME JobRunnerAssumption ==
    /\ NoConnection \notin Connections /\ IsFiniteSet(Connections)
    /\ Ticks \cap Requests = {}
    /\ MaxDepth \in Nat

VARIABLES pool,         \* the idle connections, first to leave first
          depth,        \* how many times each connection holds the lock
          conn,         \* the connection each tick or request has out
          step,         \* where each tick is
          skippedAlone  \* ghost: a tick was turned away and nobody ran the job

jobRunnerVars == <<pool, depth, conn, step, skippedAlone>>

Users == Ticks \union Requests
Held(c) == depth[c] > 0
Running == {t \in Ticks : step[t] = "running"}

\* The first statement of a transaction takes the connection at the head.
CheckOut(u) ==
    /\ conn[u] = NoConnection
    /\ pool # <<>>
    /\ conn' = [conn EXCEPT ![u] = Head(pool)]
    /\ pool' = Tail(pool)

\* A commit or a rollback puts it back at the tail; no lock is released.
GiveBack(u) ==
    /\ conn[u] # NoConnection
    /\ pool' = Append(pool, conn[u])
    /\ conn' = [conn EXCEPT ![u] = NoConnection]

Goto(t, s) == step' = [step EXCEPT ![t] = s]

\* Mutant: the answer of pg_try_advisory_lock is not looked at.
AcquireAnyway(t) ==
    /\ step[t] = "idle"
    /\ CheckOut(t)
    /\ depth[Head(pool)] < MaxDepth
    /\ depth' = [depth EXCEPT ![Head(pool)] = @ + 1]
    /\ Goto(t, "running")
    /\ UNCHANGED skippedAlone

\* _acquire_lock: pg_try_advisory_lock is granted again to its own holder.
Acquire(t) ==
    /\ step[t] = "idle"
    /\ CheckOut(t)
    /\ \A c \in Connections \ {Head(pool)} : ~Held(c)
    /\ depth[Head(pool)] < MaxDepth
    /\ depth' = [depth EXCEPT ![Head(pool)] = @ + 1]
    /\ Goto(t, "running")
    /\ UNCHANGED skippedAlone

\* ... and refused to every other connection: the run is recorded as skipped,
\* `lock_held_by_concurrent_worker'.
Skip(t) ==
    /\ step[t] = "idle"
    /\ CheckOut(t)
    /\ \E c \in Connections \ {Head(pool)} : Held(c)
    /\ Goto(t, "recording")
    /\ skippedAlone' = (skippedAlone \/ \A u \in Ticks : step[u] \notin {"running", "releasing"})
    /\ UNCHANGED depth

\* The job commits, or fails and rolls back.
Done(t) ==
    /\ step[t] = "running"
    /\ GiveBack(t)
    /\ Goto(t, "releasing")
    /\ UNCHANGED <<depth, skippedAlone>>

\* _release_lock, on whatever connection comes next: a connection that does
\* not hold the lock only gets a warning.
Release(t) ==
    /\ step[t] = "releasing"
    /\ CheckOut(t)
    /\ depth' = [depth EXCEPT ![Head(pool)] = IF @ > 0 THEN @ - 1 ELSE 0]
    /\ Goto(t, "recording")
    /\ UNCHANGED skippedAlone

\* The row of job_runs is committed.
Record(t) ==
    /\ step[t] = "recording"
    /\ GiveBack(t)
    /\ Goto(t, "idle")
    /\ UNCHANGED <<depth, skippedAlone>>

\* Any other request of the process uses the same pool.
Ask(r) == CheckOut(r) /\ UNCHANGED <<depth, step, skippedAlone>>
Answer(r) == GiveBack(r) /\ UNCHANGED <<depth, step, skippedAlone>>

\* pool_recycle: an idle connection too old is replaced by a new one, and the
\* locks of the old one go with it.
Recycle(c) ==
    /\ \A u \in Users : conn[u] # c
    /\ Held(c)
    /\ depth' = [depth EXCEPT ![c] = 0]
    /\ UNCHANGED <<pool, conn, step, skippedAlone>>

\* The orders the connections may have come back in.
Arrivals == {s \in [1..Cardinality(Connections) -> Connections] :
             \A i, j \in DOMAIN s : i # j => s[i] # s[j]}

JobRunnerInit ==
    /\ pool \in Arrivals
    /\ depth = [c \in Connections |-> 0]
    /\ conn = [u \in Users |-> NoConnection]
    /\ step = [t \in Ticks |-> "idle"]
    /\ skippedAlone = FALSE

JobRunnerNext ==
    \/ \E t \in Ticks : Acquire(t) \/ Skip(t) \/ Done(t) \/ Release(t) \/ Record(t)
    \/ \E r \in Requests : Ask(r) \/ Answer(r)
    \/ \E c \in Connections : Recycle(c)

JobRunnerSpec == JobRunnerInit /\ [][JobRunnerNext]_jobRunnerVars

-----------------------------------------------------------------------------
JobRunnerTypeOK ==
    /\ pool \in Seq(Connections)
    /\ depth \in [Connections -> 0..MaxDepth]
    /\ conn \in [Users -> Connections \union {NoConnection}]
    /\ step \in [Ticks -> {"idle", "running", "releasing", "recording"}]

\* Two ticks never run the job at once, although its lock is left behind on
\* idle connections: whoever runs has out the one connection that holds it.
OneRunAtATime == Cardinality(Running) <= 1

\* A run is skipped for `lock_held_by_concurrent_worker' (runner.py:69) only
\* when another worker is running the job.
SkippedOnlyWhileRunning == ~skippedAlone

=============================================================================
