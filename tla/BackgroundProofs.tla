-------------------------- MODULE BackgroundProofs --------------------------
(***************************************************************************)
(* Proofs about what runs beside the requests: for any number of           *)
(* connections, mails, deliveries, jobs and calls.  One part moves at a    *)
(* time, so each has an inductive invariant of its own, and the theorems   *)
(* at the end join them.                                                   *)
(***************************************************************************)
EXTENDS MCBackground, FiniteSetTheorems, TLAPS

-----------------------------------------------------------------------------
(* The runner of the scheduled jobs.                                       *)

\* Every connection is in one place: in the pool, once, or out to one user.
InOnePlace ==
    /\ \A i, j \in 1..Len(pool) : i # j => pool[i] # pool[j]
    /\ \A i \in 1..Len(pool), u \in Users : conn[u] # pool[i]
    /\ \A u, v \in Users : u # v /\ conn[u] # NoConnection => conn[u] # conn[v]

\* A tick has a connection while it runs and while it records; at most one
\* connection holds the lock, and whoever runs has that one out.
JobInv ==
    /\ JobRunnerTypeOK
    /\ InOnePlace
    /\ \A t \in Ticks : step[t] \in {"running", "recording"} <=> conn[t] # NoConnection
    /\ \A c, d \in Connections : Held(c) /\ Held(d) => c = d
    /\ \A t \in Ticks : step[t] = "running" => Held(conn[t])

\* Nobody holds the lock of the job, and every connection is idle.
LEMMA JobsStart == JobRunnerInit => JobInv
<1> SUFFICES ASSUME JobRunnerInit PROVE JobInv
  OBVIOUS
<1>1. Cardinality(Connections) \in Nat
  BY JobRunnerAssumption, FS_CardinalityType
<1>2. /\ pool \in Seq(Connections) /\ Len(pool) = Cardinality(Connections)
      /\ \A i, j \in 1..Len(pool) : i # j => pool[i] # pool[j]
  BY <1>1 DEF JobRunnerInit, Arrivals
<1>3. JobRunnerTypeOK
  BY <1>2, JobRunnerAssumption DEF JobRunnerInit, JobRunnerTypeOK
<1>4. InOnePlace
  BY <1>2, JobRunnerAssumption DEF JobRunnerInit, InOnePlace
<1>5. /\ \A c \in Connections : ~Held(c)
      /\ \A t \in Ticks : step[t] = "idle" /\ conn[t] = NoConnection
  BY DEF JobRunnerInit, Held, Users
<1> QED
  BY <1>3, <1>4, <1>5 DEF JobInv

\* What leaving and joining a queue does to it.
LEMMA TailOf ==
    ASSUME NEW S, NEW s \in Seq(S), s # <<>>
    PROVE  /\ Head(s) \in S /\ Head(s) = s[1] /\ Len(s) \in Nat \ {0}
           /\ Tail(s) \in Seq(S) /\ Len(Tail(s)) = Len(s) - 1
           /\ \A i \in 1..(Len(s) - 1) : Tail(s)[i] = s[i + 1]
OBVIOUS

\* A sequence with one more element is one over the same set.
LEMMA AppendOf ==
    ASSUME NEW S, NEW s \in Seq(S), NEW e \in S
    PROVE  /\ Append(s, e) \in Seq(S) /\ Len(Append(s, e)) = Len(s) + 1 /\ Len(s) \in Nat
           /\ Append(s, e)[Len(s) + 1] = e
           /\ \A i \in 1..Len(s) : Append(s, e)[i] = s[i]
OBVIOUS

\* The connection that is taken was nobody's, and is its user's alone.
LEMMA CheckedOut ==
    ASSUME JobInv, NEW u \in Users, CheckOut(u)
    PROVE  /\ Head(pool) \in Connections
           /\ pool' \in Seq(Connections)
           /\ conn' \in [Users -> Connections \union {NoConnection}]
           /\ conn'[u] = Head(pool) /\ \A v \in Users : v # u => conn'[v] = conn[v]
           /\ \A v \in Users : conn[v] # Head(pool)
           /\ InOnePlace'
<1>1. /\ pool \in Seq(Connections) /\ pool # <<>> /\ pool' = Tail(pool)
      /\ conn \in [Users -> Connections \union {NoConnection}]
      /\ conn' = [conn EXCEPT ![u] = Head(pool)]
  BY DEF CheckOut, JobInv, JobRunnerTypeOK
<1>2. /\ Head(pool) \in Connections /\ Head(pool) = pool[1] /\ Len(pool) \in Nat \ {0}
      /\ pool' \in Seq(Connections) /\ Len(pool') = Len(pool) - 1
      /\ \A i \in 1..Len(pool') : pool'[i] = pool[i + 1] /\ i + 1 \in 1..Len(pool) /\ i + 1 # 1
  BY <1>1, TailOf
<1>3. conn'[u] = Head(pool) /\ \A v \in Users : v # u => conn'[v] = conn[v]
  BY <1>1
<1>4. 1 \in 1..Len(pool) /\ \A v \in Users : conn[v] # Head(pool)
  BY <1>2 DEF JobInv, InOnePlace
<1>5. \A i, j \in 1..Len(pool') : i # j => pool'[i] # pool'[j]
  BY <1>2 DEF JobInv, InOnePlace
<1>6. \A i \in 1..Len(pool'), v \in Users : conn'[v] # pool'[i]
  BY <1>2, <1>3, <1>4 DEF JobInv, InOnePlace
<1>7. \A v, w \in Users : v # w /\ conn'[v] # NoConnection => conn'[v] # conn'[w]
  BY <1>3, <1>4 DEF JobInv, InOnePlace
<1> QED
  BY <1>1, <1>2, <1>3, <1>4, <1>5, <1>6, <1>7, JobRunnerAssumption DEF InOnePlace

\* The connection that comes back is in the pool, and its user has none.
LEMMA GivenBack ==
    ASSUME JobInv, NEW u \in Users, GiveBack(u)
    PROVE  /\ pool' \in Seq(Connections)
           /\ conn' \in [Users -> Connections \union {NoConnection}]
           /\ conn'[u] = NoConnection /\ \A v \in Users : v # u => conn'[v] = conn[v]
           /\ InOnePlace'
<1>1. /\ pool \in Seq(Connections) /\ conn[u] \in Connections /\ pool' = Append(pool, conn[u])
      /\ conn \in [Users -> Connections \union {NoConnection}]
      /\ conn' = [conn EXCEPT ![u] = NoConnection]
  BY DEF GiveBack, JobInv, JobRunnerTypeOK
<1>2. /\ pool' \in Seq(Connections) /\ Len(pool) \in Nat /\ Len(pool') = Len(pool) + 1
      /\ pool'[Len(pool')] = conn[u]
      /\ \A i \in 1..Len(pool) : pool'[i] = pool[i]
  BY <1>1, AppendOf
<1>3. conn'[u] = NoConnection /\ \A v \in Users : v # u => conn'[v] = conn[v]
  BY <1>1
<1>4. \A i \in 1..Len(pool') : i \in 1..Len(pool) \/ i = Len(pool')
  BY <1>2
<1>5. \A i, j \in 1..Len(pool') : i # j => pool'[i] # pool'[j]
  BY <1>2, <1>4 DEF JobInv, InOnePlace
<1>6. \A i \in 1..Len(pool'), v \in Users : conn'[v] # pool'[i]
  <2>1. \A i \in 1..Len(pool') : pool'[i] # NoConnection
    BY <1>2, JobRunnerAssumption
  <2>2. \A v \in Users : v # u => conn'[v] # conn[u]
    BY <1>1, <1>3, JobRunnerAssumption DEF JobInv, InOnePlace
  <2> QED
    BY <1>2, <1>3, <1>4, <2>1, <2>2 DEF JobInv, InOnePlace
<1>7. \A v, w \in Users : v # w /\ conn'[v] # NoConnection => conn'[v] # conn'[w]
  BY <1>3 DEF JobInv, InOnePlace
<1> QED
  BY <1>1, <1>2, <1>3, <1>5, <1>6, <1>7 DEF InOnePlace

\* A tick takes a connection: it runs the job, records that it was skipped, or
\* gives the lock back on it.
LEMMA TickTakes ==
    ASSUME JobInv, NEW t \in Ticks, Acquire(t) \/ Skip(t) \/ Release(t)
    PROVE  JobInv'
<1>1. t \in Users /\ CheckOut(t)
  BY DEF Users, Acquire, Skip, Release
<1>2. /\ step \in [Ticks -> {"idle", "running", "releasing", "recording"}]
      /\ depth \in [Connections -> 0..MaxDepth] /\ MaxDepth \in Nat
  BY JobRunnerAssumption DEF JobInv, JobRunnerTypeOK
<1>3. /\ Head(pool) \in Connections
      /\ conn'[t] = Head(pool) /\ conn'[t] # NoConnection
      /\ \A v \in Users : v # t => conn'[v] = conn[v]
      /\ \A v \in Users : conn[v] # Head(pool)
  BY <1>1, CheckedOut, JobRunnerAssumption
<1>4. PICK s \in {"running", "recording"} : step' = [step EXCEPT ![t] = s]
  BY DEF Acquire, Skip, Release, Goto
<1>5. /\ step' \in [Ticks -> {"idle", "running", "releasing", "recording"}]
      /\ step'[t] = s /\ \A u \in Ticks : u # t => step'[u] = step[u]
  BY <1>2, <1>4
<1>6. \A u \in Ticks : step'[u] \in {"running", "recording"} <=> conn'[u] # NoConnection
  BY <1>3, <1>5 DEF JobInv, Users
<1>7. CASE Acquire(t)
  <2>1. /\ depth' = [depth EXCEPT ![Head(pool)] = depth[Head(pool)] + 1]
        /\ depth[Head(pool)] < MaxDepth
        /\ \A c \in Connections \ {Head(pool)} : ~Held(c)
    BY <1>7, Zenon DEF Acquire
  <2>2. /\ depth' \in [Connections -> 0..MaxDepth]
        /\ depth'[Head(pool)] > 0
        /\ \A c \in Connections \ {Head(pool)} : depth'[c] = depth[c]
    BY <1>2, <1>3, <2>1
  <2>3. \A c \in Connections : Held(c)' <=> c = Head(pool)
    BY <2>1, <2>2 DEF Held
  <2>4. \A u \in Ticks : step[u] # "running"
    BY <1>3, <2>1 DEF JobInv, JobRunnerTypeOK, Users
  <2>5. \A u \in Ticks : step'[u] = "running" => depth'[conn'[u]] > 0
    BY <1>3, <1>5, <2>2, <2>4
  <2> QED
    BY <1>1, <1>5, <1>6, <2>2, <2>3, <2>5, CheckedOut DEF JobInv, JobRunnerTypeOK, Held
<1>8. CASE Skip(t) \/ Release(t)
  <2>1. /\ depth' \in [Connections -> 0..MaxDepth]
        /\ \A c \in Connections : depth'[c] <= depth[c]
        /\ \A c \in Connections : c # Head(pool) => depth'[c] = depth[c]
    <3>1. CASE Skip(t)
      BY <1>2, <3>1 DEF Skip
    <3>2. CASE Release(t)
      <4>1. depth' = [depth EXCEPT ![Head(pool)] = IF depth[Head(pool)] > 0
                                                   THEN depth[Head(pool)] - 1 ELSE 0]
        BY <3>2, Zenon DEF Release
      <4> QED
        BY <1>2, <1>3, <4>1
    <3> QED
      BY <1>8, <3>1, <3>2
  <2>2. \A c \in Connections : Held(c)' => Held(c)
    BY <1>2, <2>1 DEF Held
  <2>3. step'[t] = "recording"
    BY <1>2, <1>8 DEF Skip, Release, Goto
  <2>4. ASSUME NEW u \in Ticks, step'[u] = "running"
        PROVE  depth'[conn'[u]] > 0
    <3>1. u # t /\ u \in Users /\ step[u] = "running" /\ conn'[u] = conn[u]
      BY <1>3, <1>5, <2>3, <2>4 DEF Users
    <3>2. conn[u] \in Connections /\ conn[u] # Head(pool) /\ depth[conn[u]] > 0
      BY <1>3, <3>1 DEF JobInv, JobRunnerTypeOK, Held
    <3> QED
      BY <2>1, <3>1, <3>2
  <2> QED
    BY <1>1, <1>5, <1>6, <2>1, <2>2, <2>4, CheckedOut DEF JobInv, JobRunnerTypeOK, Held
<1> QED
  BY <1>7, <1>8

\* A tick commits, and its connection goes back with whatever lock it holds.
LEMMA TickGives ==
    ASSUME JobInv, NEW t \in Ticks, Done(t) \/ Record(t)
    PROVE  JobInv'
<1>1. t \in Users /\ GiveBack(t) /\ depth' = depth
  BY DEF Users, Done, Record
<1>2. step \in [Ticks -> {"idle", "running", "releasing", "recording"}]
  BY DEF JobInv, JobRunnerTypeOK
<1>3. PICK s \in {"releasing", "idle"} : step' = [step EXCEPT ![t] = s]
  BY DEF Done, Record, Goto
<1>4. /\ step' \in [Ticks -> {"idle", "running", "releasing", "recording"}]
      /\ step'[t] = s /\ \A u \in Ticks : u # t => step'[u] = step[u]
  BY <1>2, <1>3
<1>5. conn'[t] = NoConnection /\ \A v \in Users : v # t => conn'[v] = conn[v]
  BY <1>1, GivenBack
<1>6. \A u \in Ticks : step'[u] \in {"running", "recording"} <=> conn'[u] # NoConnection
  BY <1>4, <1>5 DEF JobInv, Users
<1>7. \A c \in Connections : Held(c)' <=> Held(c)
  BY <1>1 DEF Held
<1>8. ASSUME NEW u \in Ticks, step'[u] = "running" PROVE depth'[conn'[u]] > 0
  BY <1>1, <1>4, <1>5, <1>8 DEF JobInv, Users, Held
<1> QED
  BY <1>1, <1>4, <1>6, <1>7, <1>8, GivenBack DEF JobInv, JobRunnerTypeOK, Held

\* Another request takes a connection or gives it back.
LEMMA RequestKeeps ==
    ASSUME JobInv, NEW r \in Requests, Ask(r) \/ Answer(r)
    PROVE  JobInv'
<1>1. r \in Users /\ r \notin Ticks /\ UNCHANGED <<depth, step>>
  BY JobRunnerAssumption DEF Users, Ask, Answer
<1>2. /\ pool' \in Seq(Connections) /\ InOnePlace'
      /\ conn' \in [Users -> Connections \union {NoConnection}]
      /\ \A u \in Ticks : conn'[u] = conn[u]
  BY <1>1, CheckedOut, GivenBack DEF Ask, Answer, Users
<1> QED
  BY <1>1, <1>2 DEF JobInv, JobRunnerTypeOK, Held

\* An idle connection is replaced: nobody who runs loses the lock.
LEMMA RecycleKeeps ==
    ASSUME JobInv, NEW c \in Connections, Recycle(c)
    PROVE  JobInv'
<1>1. /\ depth' = [depth EXCEPT ![c] = 0] /\ UNCHANGED <<pool, conn, step>>
      /\ \A u \in Users : conn[u] # c
      /\ depth \in [Connections -> 0..MaxDepth] /\ MaxDepth \in Nat
  BY JobRunnerAssumption DEF Recycle, JobInv, JobRunnerTypeOK
<1>2. /\ depth' \in [Connections -> 0..MaxDepth] /\ depth'[c] = 0
      /\ \A d \in Connections : d # c => depth'[d] = depth[d]
  BY <1>1
<1>3. \A d \in Connections : Held(d)' => Held(d)
  BY <1>2 DEF Held
<1>4. ASSUME NEW t \in Ticks, step[t] = "running" PROVE depth'[conn[t]] > 0
  <2>1. conn[t] \in Connections /\ conn[t] # c /\ depth[conn[t]] > 0
    BY <1>1, <1>4 DEF JobInv, JobRunnerTypeOK, Users, Held
  <2> QED
    BY <1>2, <2>1
<1> QED
  BY <1>1, <1>2, <1>3, <1>4 DEF JobInv, JobRunnerTypeOK, InOnePlace, Held

\* Every step of the jobs.
LEMMA JobsKeep == JobInv /\ [JobRunnerNext]_jobRunnerVars => JobInv'
<1> SUFFICES ASSUME JobInv, [JobRunnerNext]_jobRunnerVars PROVE JobInv'
  OBVIOUS
<1>1. CASE UNCHANGED jobRunnerVars
  BY <1>1 DEF jobRunnerVars, JobInv, JobRunnerTypeOK, InOnePlace, Held
<1>2. CASE JobRunnerNext
  BY <1>2, TickTakes, TickGives, RequestKeeps, RecycleKeeps DEF JobRunnerNext
<1> QED
  BY <1>1, <1>2

\* Two ticks that run would hold the lock on two connections.
LEMMA OneRuns == JobInv => OneRunAtATime
<1> SUFFICES ASSUME JobInv PROVE Cardinality(Running) <= 1
  BY DEF OneRunAtATime
<1>1. \A t, u \in Running : t = u
  BY DEF Running, JobInv, JobRunnerTypeOK, InOnePlace, Users
<1>2. CASE Running = {}
  BY <1>2, FS_EmptySet
<1>3. ASSUME NEW t \in Running PROVE Cardinality(Running) <= 1
  <2>1. Running = {t}
    BY <1>1
  <2>2. Cardinality({t}) = 1
    BY FS_Singleton
  <2> QED
    BY <2>1, <2>2
<1> QED
  BY <1>2, <1>3

-----------------------------------------------------------------------------
(* The try-on jobs.                                                        *)

\* A call on a job, in one of some steps.
Doing(c, j, steps) ==
    tryOns[c] # NobodyTryOn /\ tryOns[c].job = j /\ tryOns[c].step \in steps

Early == {"polled", "marked", "generating"}
WithLock == {"marked", "generating", "failing", "stored"}

\* What holds of a job that no poll overlapped and no crash cut off.
Once(j) ==
    /\ \A c, d \in TryOnCalls :
          Doing(c, j, Early \union {"stored"}) /\ Doing(d, j, Early \union {"stored"}) => c = d
    /\ made[j] <= 1
    /\ made[j] # 0 => \A c \in TryOnCalls : ~Doing(c, j, Early)
    /\ made[j] # 0 => \/ \E c \in TryOnCalls : Doing(c, j, {"stored"})
                      \/ rows[j].status \notin ACTIVOS \union {"none"}
    /\ \A c \in TryOnCalls : Doing(c, j, {"stored"}) =>
          made[j] # 0 /\ tryOns[c].row.image \in images[j] /\ rows[j].image = NoImage
    /\ made[j] = 0 => rows[j].image = NoImage
    /\ rows[j].status = "ready" => \/ rows[j].image \in images[j]
                                   \/ \E c \in TryOnCalls : Doing(c, j, Erased)

\* What holds of every job.
TryJob(j) ==
    /\ \A c \in TryOnCalls : Doing(c, j, WithLock) => lock[j] = c
    /\ \A c \in TryOnCalls : Doing(c, j, {"creating"}) => rows[j].status = "none"
    /\ \A c, d \in TryOnCalls : Doing(c, j, {"creating"}) /\ Doing(d, j, Steps) => c = d
    /\ \A c \in TryOnCalls : Doing(c, j, Steps \ {"creating"}) => rows[j].status # "none"
    /\ \A c \in TryOnCalls : Doing(c, j, Erased) => ~photo[j]
    /\ rows[j].status \in Erased => ~photo[j]
    /\ j \notin disturbed => Once(j)

TryInv == TryOnTypeOK /\ \A j \in Jobs : TryJob(j)

\* There is no job.
LEMMA TryOnStarts == TryOnInit => TryInv
<1> SUFFICES ASSUME TryOnInit PROVE TryInv
  OBVIOUS
<1>1. Fresh \in Row /\ Fresh.status = "none" /\ Fresh.image = NoImage
  BY TryOnAssumption DEF Fresh, Row, NoImage
<1>2. TryOnTypeOK
  BY <1>1, TryOnAssumption DEF TryOnInit, TryOnTypeOK
<1>3. ASSUME NEW j \in Jobs PROVE TryJob(j)
  <2>1. /\ \A c \in TryOnCalls : tryOns[c] = NobodyTryOn
        /\ rows[j] = Fresh /\ made[j] = 0
    BY DEF TryOnInit
  <2>2. \A c \in TryOnCalls : \A S : ~Doing(c, j, S)
    BY <2>1 DEF Doing
  <2> QED
    BY <1>1, <2>1, <2>2 DEF TryJob, Once, Erased, Kept
<1> QED
  BY <1>2, <1>3 DEF TryInv

\* What the invariant says of a run.
LEMMA TryOnSeen == TryInv => TryOnTypeOK /\ PhotoGone /\ GeneratedOnce
<1> SUFFICES ASSUME TryInv PROVE TryOnTypeOK /\ PhotoGone /\ GeneratedOnce
  OBVIOUS
<1>1. PhotoGone
  BY DEF TryInv, TryJob, PhotoGone
<1>2. GeneratedOnce
  BY DEF TryInv, TryJob, Once, GeneratedOnce, Doing, On
<1> QED
  BY <1>1, <1>2 DEF TryInv

\* The row of one call changes.
LEMMA CallMoves ==
    ASSUME TryOnTypeOK, NEW c \in TryOnCalls, NEW call \in TryOnCallType,
           tryOns' = [tryOns EXCEPT ![c] = call]
    PROVE  /\ tryOns' \in [TryOnCalls -> {NobodyTryOn} \union TryOnCallType]
           /\ tryOns'[c] = call /\ \A d \in TryOnCalls \ {c} : tryOns'[d] = tryOns[d]
           /\ \A k, S : Doing(c, k, S)' <=> call.job = k /\ call.step \in S
           /\ \A d \in TryOnCalls \ {c} : \A k, S : Doing(d, k, S)' <=> Doing(d, k, S)
BY TryOnAssumption DEF TryOnTypeOK, Doing

\* A call is over.
LEMMA CallLeaves ==
    ASSUME TryOnTypeOK, NEW c \in TryOnCalls, Leave(c)
    PROVE  /\ tryOns' \in [TryOnCalls -> {NobodyTryOn} \union TryOnCallType]
           /\ \A d \in TryOnCalls \ {c} : tryOns'[d] = tryOns[d]
           /\ \A k, S : ~Doing(c, k, S)'
           /\ \A d \in TryOnCalls \ {c} : \A k, S : Doing(d, k, S)' <=> Doing(d, k, S)
BY TryOnAssumption DEF TryOnTypeOK, Doing, Leave

\* A step is about one job.
LEMMA OtherJob ==
    ASSUME TryInv, NEW k \in Jobs, disturbed \subseteq disturbed',
           rows'[k] = rows[k], lock'[k] = lock[k], photo'[k] = photo[k],
           images'[k] = images[k], made'[k] = made[k],
           \A d \in TryOnCalls : \A S : Doing(d, k, S)' <=> Doing(d, k, S),
           \A d \in TryOnCalls : Doing(d, k, {"stored"}) =>
               tryOns'[d].row.image = tryOns[d].row.image
    PROVE  TryJob(k)'
<1>1. TryJob(k)
  BY DEF TryInv
<1>2. ASSUME k \notin disturbed' PROVE Once(k)'
  BY <1>1, <1>2 DEF TryJob, Once
<1> QED
  BY <1>1, <1>2 DEF TryJob

\* The photo is stored before the row: nobody else is about the job.
LEMMA StoreKeeps ==
    ASSUME TryInv, NEW c \in TryOnCalls, NEW j \in Jobs, StorePhoto(c, j)
    PROVE  TryInv'
<1> DEFINE call == [job |-> j, row |-> rows[j], step |-> "creating"]
<1>1. /\ tryOns' = [tryOns EXCEPT ![c] = call] /\ photo' = [photo EXCEPT ![j] = TRUE]
      /\ tryOns[c] = NobodyTryOn /\ rows[j].status = "none"
      /\ UNCHANGED <<rows, lock, images, made, lapsed, disturbed>>
  BY DEF StorePhoto
<1>2. call \in TryOnCallType /\ call.job = j /\ call.step = "creating"
  BY DEF TryOnCallType, Steps, TryInv, TryOnTypeOK
<1> HIDE DEF call
<1>3. /\ tryOns' \in [TryOnCalls -> {NobodyTryOn} \union TryOnCallType]
      /\ \A k, S : Doing(c, k, S)' <=> j = k /\ "creating" \in S
      /\ \A d \in TryOnCalls \ {c} : tryOns'[d] = tryOns[d]
      /\ \A d \in TryOnCalls \ {c} : \A k, S : Doing(d, k, S)' <=> Doing(d, k, S)
  <2>1. TryOnTypeOK
    BY DEF TryInv
  <2>2. /\ tryOns' \in [TryOnCalls -> {NobodyTryOn} \union TryOnCallType]
        /\ \A k, S : Doing(c, k, S)' <=> call.job = k /\ call.step \in S
        /\ \A d \in TryOnCalls \ {c} : tryOns'[d] = tryOns[d]
        /\ \A d \in TryOnCalls \ {c} : \A k, S : Doing(d, k, S)' <=> Doing(d, k, S)
    BY <1>1, <1>2, <2>1, CallMoves
  <2> QED
    BY <1>2, <2>2
<1>4. \A S : ~Doing(c, j, S)
  BY <1>1 DEF Doing
<1>5. ASSUME NEW k \in Jobs PROVE TryJob(k)'
  <2>1. CASE k # j
    <3>1. photo'[k] = photo[k]
      BY <1>1, <2>1 DEF TryInv, TryOnTypeOK
    <3>2. \A S : ~Doing(c, k, S)
      BY <1>1 DEF Doing
    <3> QED
      BY <1>1, <1>3, <2>1, <3>1, <3>2, OtherJob
  <2>2. CASE k = j
    <3>1. \A d \in TryOnCalls : \A S : ~Doing(d, j, S)
      BY DEF StorePhoto, On, Doing
    <3>2. \A d \in TryOnCalls : \A S : Doing(d, j, S)' => d = c /\ "creating" \in S
      BY <1>3, <3>1
    <3>3. TryJob(j) /\ (j \notin disturbed => Once(j))
      BY DEF TryInv, TryJob
    <3>4. "none" \notin Erased /\ "creating" \notin Early \union WithLock \union Erased \union {"stored"}
      BY DEF Erased, Early, WithLock
    <3>5. ASSUME j \notin disturbed PROVE Once(j)'
      BY <1>1, <3>1, <3>2, <3>3, <3>4, <3>5 DEF Once
    <3> QED
      BY <1>1, <2>2, <3>2, <3>3, <3>4, <3>5 DEF TryJob
  <2> QED
    BY <2>1, <2>2
<1>6. photo' \in [Jobs -> BOOLEAN]
  BY <1>1 DEF TryInv, TryOnTypeOK
<1> QED
  BY <1>1, <1>3, <1>5, <1>6 DEF TryInv, TryOnTypeOK

\* The row of a new job is committed.
LEMMA CreateKeeps ==
    ASSUME TryInv, NEW c \in TryOnCalls, Create(c)
    PROVE  TryInv'
<1>1. PICK j \in Jobs : j = JobOf(c) /\ Doing(c, j, {"creating"})
  BY DEF Create, At, JobOf, Doing, TryInv, TryOnTypeOK, TryOnCallType
<1> DEFINE row == [rows[j] EXCEPT !.status = "queued"]
<1>2. /\ rows' = [rows EXCEPT ![j] = row] /\ Leave(c)
      /\ UNCHANGED <<lock, photo, images, made, lapsed, disturbed>>
  BY <1>1, Zenon DEF Create
<1>3. row \in Row /\ row.status = "queued" /\ row.image = rows[j].image
  <2>1. rows[j] \in Row
    BY DEF TryInv, TryOnTypeOK
  <2> QED
    BY <2>1 DEF Row, ACTIVOS
<1> HIDE DEF row
<1>4. /\ rows' \in [Jobs -> Row] /\ rows'[j] = row
      /\ \A k \in Jobs : k # j => rows'[k] = rows[k]
  BY <1>2, <1>3 DEF TryInv, TryOnTypeOK
<1>5. /\ tryOns' \in [TryOnCalls -> {NobodyTryOn} \union TryOnCallType]
      /\ \A k, S : ~Doing(c, k, S)'
      /\ \A d \in TryOnCalls \ {c} : tryOns'[d] = tryOns[d]
      /\ \A d \in TryOnCalls \ {c} : \A k, S : Doing(d, k, S)' <=> Doing(d, k, S)
  BY <1>2, CallLeaves DEF TryInv
<1>6. ASSUME NEW k \in Jobs PROVE TryJob(k)'
  <2>1. CASE k # j
    <3>1. \A S : ~Doing(c, k, S)
      BY <1>1, <2>1 DEF Doing
    <3>2. \A d \in TryOnCalls : \A S : Doing(d, k, S)' <=> Doing(d, k, S)
      BY <1>5, <3>1
    <3> QED
      BY <1>2, <1>4, <1>5, <2>1, <3>1, <3>2, OtherJob
  <2>2. CASE k = j
    <3>1. TryJob(j)
      BY DEF TryInv
    <3>2. \A d \in TryOnCalls : \A S : Doing(d, j, S) => d = c \/ ~(S \subseteq Steps)
      BY <1>1, <3>1 DEF TryJob, Doing
    <3>3. /\ Early \union {"stored"} \subseteq Steps /\ WithLock \subseteq Steps
          /\ Erased \subseteq Steps /\ {"stored"} \subseteq Steps /\ {"creating"} \subseteq Steps
          /\ Steps \ {"creating"} \subseteq Steps /\ Early \subseteq Steps
      BY DEF Early, WithLock, Steps
    <3>4. \A d \in TryOnCalls : \A S : S \subseteq Steps => ~Doing(d, j, S)'
      BY <1>5, <3>2
    <3>5. \A d \in TryOnCalls : ~Doing(d, j, {"stored"})
      <4>1. ~Doing(c, j, {"stored"})
        BY <1>1 DEF Doing
      <4> QED
        BY <3>2, <3>3, <4>1
    <3>6. "queued" \notin Erased \union {"none", "ready"} /\ rows[j].status = "none"
      BY <1>1, <3>1 DEF Erased, TryJob
    <3>7. ASSUME j \notin disturbed PROVE Once(j)'
      <4>1. made[j] = 0 /\ rows[j].image = NoImage
        BY <3>1, <3>5, <3>6, <3>7 DEF TryJob, Once
      <4> QED
        BY <1>2, <1>3, <1>4, <3>3, <3>4, <3>6, <4>1 DEF Once
    <3> QED
      BY <1>2, <1>3, <1>4, <2>2, <3>3, <3>4, <3>6, <3>7 DEF TryJob
  <2> QED
    BY <2>1, <2>2
<1> QED
  BY <1>2, <1>4, <1>5, <1>6 DEF TryInv, TryOnTypeOK

\* A call goes on to its next step.
LEMMA CallGoesOn ==
    ASSUME TryInv, NEW c \in TryOnCalls, NEW s \in Steps, tryOns[c] # NobodyTryOn, Move(c, s)
    PROVE  /\ JobOf(c) \in Jobs
           /\ tryOns' \in [TryOnCalls -> {NobodyTryOn} \union TryOnCallType]
           /\ \A k, S : Doing(c, k, S)' <=> JobOf(c) = k /\ s \in S
           /\ \A d \in TryOnCalls \ {c} : tryOns'[d] = tryOns[d]
           /\ \A d \in TryOnCalls \ {c} : \A k, S : Doing(d, k, S)' <=> Doing(d, k, S)
<1> DEFINE call == [tryOns[c] EXCEPT !.step = s]
<1>1. TryOnTypeOK /\ tryOns[c] \in TryOnCallType
  BY DEF TryInv, TryOnTypeOK
<1>2. tryOns' = [tryOns EXCEPT ![c] = call]
  BY Zenon DEF Move
<1>3. call \in TryOnCallType /\ call.job = JobOf(c) /\ call.step = s /\ JobOf(c) \in Jobs
  BY <1>1 DEF TryOnCallType, JobOf
<1> HIDE DEF call
<1>4. /\ tryOns' \in [TryOnCalls -> {NobodyTryOn} \union TryOnCallType]
      /\ \A k, S : Doing(c, k, S)' <=> call.job = k /\ call.step \in S
      /\ \A d \in TryOnCalls \ {c} : tryOns'[d] = tryOns[d]
      /\ \A d \in TryOnCalls \ {c} : \A k, S : Doing(d, k, S)' <=> Doing(d, k, S)
  BY <1>1, <1>2, <1>3, CallMoves
<1> QED
  BY <1>3, <1>4

\* A poll finds the job unfinished, and nobody about to finish it.
LEMMA PollKeeps ==
    ASSUME TryInv, NEW c \in TryOnCalls, NEW j \in Jobs, Poll(c, j)
    PROVE  TryInv'
<1>1. /\ tryOns[c] = NobodyTryOn /\ "polled" \in Steps /\ rows[j].status \in ACTIVOS
      /\ tryOns' = [tryOns EXCEPT ![c] = [job |-> j, row |-> rows[j], step |-> "polled"]]
      /\ UNCHANGED <<rows, lock, photo, images, made, lapsed>>
  BY DEF Poll, Steps
<1>2. /\ tryOns' \in [TryOnCalls -> {NobodyTryOn} \union TryOnCallType]
      /\ \A k, S : ~Doing(c, k, S)
      /\ \A k, S : Doing(c, k, S)' <=> j = k /\ "polled" \in S
      /\ \A d \in TryOnCalls \ {c} : tryOns'[d] = tryOns[d]
      /\ \A d \in TryOnCalls \ {c} : \A k, S : Doing(d, k, S)' <=> Doing(d, k, S)
  <2> DEFINE call == [job |-> j, row |-> rows[j], step |-> "polled"]
  <2>1. call \in TryOnCallType /\ call.job = j /\ call.step = "polled"
    BY <1>1 DEF TryOnCallType, TryInv, TryOnTypeOK
  <2>2. TryOnTypeOK /\ tryOns' = [tryOns EXCEPT ![c] = call]
    BY <1>1 DEF TryInv
  <2> HIDE DEF call
  <2>3. /\ tryOns' \in [TryOnCalls -> {NobodyTryOn} \union TryOnCallType]
        /\ \A k, S : Doing(c, k, S)' <=> call.job = k /\ call.step \in S
        /\ \A d \in TryOnCalls \ {c} : tryOns'[d] = tryOns[d]
        /\ \A d \in TryOnCalls \ {c} : \A k, S : Doing(d, k, S)' <=> Doing(d, k, S)
    BY <2>1, <2>2, CallMoves
  <2>4. \A k, S : ~Doing(c, k, S)
    BY <1>1 DEF Doing
  <2> QED
    BY <2>1, <2>3, <2>4
<1>3. /\ disturbed \subseteq disturbed' /\ disturbed' \subseteq disturbed \union {j}
      /\ j \notin disturbed' => /\ j \notin disturbed
                                /\ \A d \in TryOnCalls : ~Doing(d, j, Early \union {"stored"})
  BY DEF Poll, On, Doing, Early
<1>4. ASSUME NEW k \in Jobs PROVE TryJob(k)'
  <2>1. CASE k # j
    BY <1>1, <1>2, <1>3, <2>1, OtherJob
  <2>2. CASE k = j
    <3>1. TryJob(j)
      BY DEF TryInv
    <3>2. /\ "polled" \notin WithLock \union Erased \union {"creating", "stored"}
          /\ "polled" \in Early /\ rows[j].status \notin Erased \union {"none", "ready"}
      BY <1>1 DEF WithLock, Erased, Early, ACTIVOS
    <3>3. \A d \in TryOnCalls : ~Doing(d, j, {"creating"})
      BY <3>1, <3>2 DEF TryJob
    <3>4. ASSUME j \notin disturbed' PROVE Once(j)'
      <4>1. \A d \in TryOnCalls : ~Doing(d, j, {"stored"}) /\ ~Doing(d, j, Early)
        BY <1>3, <3>4 DEF Doing
      <4>2. made[j] = 0 /\ rows[j].image = NoImage
        BY <1>1, <1>3, <3>1, <3>4, <4>1 DEF TryJob, Once
      <4>3. \A d \in TryOnCalls : ~Doing(d, j, {"stored"})'
        BY <1>2, <3>2, <4>1
      <4>4. \A d \in TryOnCalls : Doing(d, j, Early \union {"stored"})' => d = c
        BY <1>2, <1>3, <3>4
      <4> QED
        BY <1>1, <3>2, <4>2, <4>3, <4>4 DEF Once
    <3>5. /\ \A d \in TryOnCalls : Doing(d, j, WithLock)' => Doing(d, j, WithLock)
          /\ \A d \in TryOnCalls : Doing(d, j, Erased)' => Doing(d, j, Erased)
          /\ \A d \in TryOnCalls : ~Doing(d, j, {"creating"})'
      BY <1>2, <3>2, <3>3
    <3> QED
      BY <1>1, <2>2, <3>1, <3>2, <3>4, <3>5 DEF TryJob
  <2> QED
    BY <2>1, <2>2
<1>5. disturbed' \subseteq Jobs
  BY <1>3 DEF TryInv, TryOnTypeOK
<1> QED
  BY <1>1, <1>2, <1>4, <1>5 DEF TryInv, TryOnTypeOK

\* A poll goes on, with the lock of the row.
LEMMA StepKeeps ==
    ASSUME TryInv, NEW c \in TryOnCalls, NEW s \in {"marked", "generating", "failing"},
           NEW j, j = JobOf(c), Doing(c, j, Early), Move(c, s),
           lock[j] \in {c, NobodyTryOn}, lock' = [lock EXCEPT ![j] = c],
           UNCHANGED <<rows, photo, images, made, lapsed, disturbed>>
    PROVE  TryInv'
<1>1. s \in Steps /\ tryOns[c] # NobodyTryOn
  BY DEF Steps, Doing
<1>2. /\ j \in Jobs
      /\ tryOns' \in [TryOnCalls -> {NobodyTryOn} \union TryOnCallType]
      /\ \A k, S : Doing(c, k, S)' <=> j = k /\ s \in S
      /\ \A d \in TryOnCalls \ {c} : tryOns'[d] = tryOns[d]
      /\ \A d \in TryOnCalls \ {c} : \A k, S : Doing(d, k, S)' <=> Doing(d, k, S)
  BY <1>1, CallGoesOn
<1>3. /\ lock' \in [Jobs -> TryOnCalls \union {NobodyTryOn}] /\ lock'[j] = c
      /\ \A k \in Jobs : k # j => lock'[k] = lock[k]
  BY <1>2 DEF TryInv, TryOnTypeOK
<1>4. ASSUME NEW k \in Jobs PROVE TryJob(k)'
  <2>1. CASE k # j
    <3>1. \A S : ~Doing(c, k, S)
      BY <2>1 DEF Doing, JobOf
    <3>2. \A d \in TryOnCalls : \A S : Doing(d, k, S)' <=> Doing(d, k, S)
      BY <1>2, <2>1, <3>1
    <3> QED
      BY <1>2, <1>3, <2>1, <3>1, <3>2, OtherJob
  <2>2. CASE k = j
    <3>1. TryJob(j)
      BY <1>2 DEF TryInv
    <3>2. /\ s \notin Erased \union {"creating", "stored"} /\ Doing(c, j, Steps \ {"creating"})
          /\ \A d \in TryOnCalls : ~Doing(d, j, {"creating"})
      <4>1. s \notin Erased \union {"creating", "stored"} /\ Doing(c, j, Steps \ {"creating"})
        BY DEF Erased, Doing, Early, Steps
      <4> QED
        BY <3>1, <4>1 DEF TryJob
    <3>3. \A d \in TryOnCalls \ {c} : ~Doing(d, j, WithLock)
      BY <3>1, TryOnAssumption DEF TryJob
    <3>4. ASSUME j \notin disturbed PROVE Once(j)'
      <4>1. \A d \in TryOnCalls : Doing(d, j, Early \union {"stored"}) => d = c
        <5>1. Doing(c, j, Early \union {"stored"})
          BY DEF Doing
        <5> QED
          BY <3>1, <3>4, <5>1 DEF TryJob, Once
      <4>2. /\ \A d \in TryOnCalls : Doing(d, j, {"stored"})' => Doing(d, j, {"stored"}) /\ d # c
            /\ \A d \in TryOnCalls : Doing(d, j, {"stored"}) => d = c
        <5>1. s \notin {"stored"}
          OBVIOUS
        <5>2. \A d \in TryOnCalls : Doing(d, j, {"stored"}) => d = c
          BY <4>1 DEF Doing
        <5> QED
          BY <1>2, <5>1, <5>2
      <4>3. ~Doing(c, j, {"stored"})
        BY DEF Doing, Early
      <4>4. \A d \in TryOnCalls : ~Doing(d, j, {"stored"})'
        BY <4>2
      <4>5. made[j] = 0
        BY <3>1, <3>4 DEF TryJob, Once
      <4>6. \A d \in TryOnCalls : Doing(d, j, Early \union {"stored"})' => d = c
        BY <1>2, <4>1
      <4>7. rows[j].status = "ready" => rows[j].image \in images[j]
                                        \/ \E d \in TryOnCalls : Doing(d, j, Erased)'
        <5>1. \A d \in TryOnCalls : Doing(d, j, Erased) => d # c
          BY DEF Doing, Early, Erased
        <5> QED
          BY <1>2, <3>1, <3>4, <5>1 DEF TryJob, Once
      <4> QED
        BY <3>1, <3>4, <4>4, <4>5, <4>6, <4>7 DEF TryJob, Once
    <3>5. /\ \A d \in TryOnCalls : Doing(d, j, WithLock)' => d = c
          /\ \A d \in TryOnCalls : Doing(d, j, Erased)' => Doing(d, j, Erased)
          /\ \A d \in TryOnCalls : ~Doing(d, j, {"creating"})'
          /\ rows[j].status # "none"
      BY <1>2, <3>1, <3>2, <3>3 DEF TryJob
    <3> QED
      BY <1>3, <2>2, <3>1, <3>4, <3>5 DEF TryJob
  <2> QED
    BY <2>1, <2>2
<1> QED
  BY <1>2, <1>3, <1>4 DEF TryInv, TryOnTypeOK

\* Its row read again, the photo, and what the provider answers.
LEMMA ProcessKeeps ==
    ASSUME TryInv, NEW c \in TryOnCalls, Mark(c) \/ Download(c) \/ GenerateFails(c)
    PROVE  TryInv'
<1>1. CASE Mark(c) /\ Exists(JobOf(c))
  <2>1. /\ Move(c, "marked") /\ lock[JobOf(c)] = NobodyTryOn
        /\ lock' = [lock EXCEPT ![JobOf(c)] = c]
        /\ UNCHANGED <<rows, photo, images, made, lapsed, disturbed>>
        /\ Doing(c, JobOf(c), Early)
    BY <1>1 DEF Mark, At, Doing, JobOf, Early
  <2> QED
    BY <2>1, StepKeeps
<1>2. CASE Download(c) \/ GenerateFails(c)
  <2>1. PICK s \in {"generating", "failing"} : Move(c, s)
    BY <1>2 DEF Download, GenerateFails
  <2>2. /\ UNCHANGED <<lock, rows, photo, images, made, lapsed, disturbed>>
        /\ Doing(c, JobOf(c), Early) /\ Doing(c, JobOf(c), WithLock) /\ JobOf(c) \in Jobs
    BY <1>2 DEF Download, GenerateFails, At, Doing, JobOf, Early, WithLock, TryInv,
                TryOnTypeOK, TryOnCallType
  <2>3. lock[JobOf(c)] = c /\ lock \in [Jobs -> TryOnCalls \union {NobodyTryOn}]
    BY <2>2 DEF TryInv, TryJob, TryOnTypeOK
  <2>4. lock' = [lock EXCEPT ![JobOf(c)] = c]
    BY <2>2, <2>3
  <2> QED
    BY <2>1, <2>2, <2>3, <2>4, StepKeeps
<1>3. CASE Mark(c) /\ ~Exists(JobOf(c))
  <2>1. /\ Leave(c) /\ UNCHANGED <<rows, lock, photo, images, made, lapsed, disturbed>>
        /\ tryOns[c].step = "polled"
    BY <1>3 DEF Mark, At
  <2>2. /\ tryOns' \in [TryOnCalls -> {NobodyTryOn} \union TryOnCallType]
        /\ \A k, S : ~Doing(c, k, S)'
        /\ \A d \in TryOnCalls \ {c} : tryOns'[d] = tryOns[d]
        /\ \A d \in TryOnCalls \ {c} : \A k, S : Doing(d, k, S)' <=> Doing(d, k, S)
    BY <2>1, CallLeaves DEF TryInv
  <2>3. \A k, S : "polled" \notin S => ~Doing(c, k, S)
    BY <2>1 DEF Doing
  <2>4. ASSUME NEW k \in Jobs PROVE TryJob(k)'
    <3>1. /\ \A d \in TryOnCalls : \A S : Doing(d, k, S)' => Doing(d, k, S) /\ d # c
          /\ \A d \in TryOnCalls : Doing(d, k, {"stored"})' <=> Doing(d, k, {"stored"})
          /\ \A d \in TryOnCalls : Doing(d, k, Erased)' <=> Doing(d, k, Erased)
      BY <2>2, <2>3 DEF Erased
    <3>2. TryJob(k)
      BY DEF TryInv
    <3>3. ASSUME k \notin disturbed PROVE Once(k)'
      BY <2>1, <2>2, <3>1, <3>2, <3>3 DEF TryJob, Once
    <3> QED
      BY <2>1, <3>1, <3>2, <3>3 DEF TryJob
  <2> QED
    BY <2>1, <2>2, <2>4 DEF TryInv, TryOnTypeOK
<1> QED
  BY <1>1, <1>2, <1>3

\* The image is made once: whoever generates found none made.
LEMMA GenerateKeeps ==
    ASSUME TryInv, NEW c \in TryOnCalls, Generate(c)
    PROVE  TryInv'
<1>1. PICK j \in Jobs : j = JobOf(c) /\ Doing(c, j, {"generating"}) /\ tryOns[c] \in TryOnCallType
  BY DEF Generate, At, JobOf, Doing, TryInv, TryOnTypeOK, TryOnCallType
<1> DEFINE n == made[j] + 1
           call == [[tryOns[c] EXCEPT !.step = "stored"] EXCEPT !.row = [tryOns[c].row EXCEPT !.image = n]]
<1>2. /\ made[j] < MaxImages /\ made' = [made EXCEPT ![j] = n]
      /\ images' = [images EXCEPT ![j] = images[j] \union {n}]
      /\ tryOns' = [tryOns EXCEPT ![c].step = "stored", ![c].row.image = made[j] + 1]
      /\ UNCHANGED <<rows, lock, photo, lapsed, disturbed>>
  BY <1>1, Zenon DEF Generate
<1>3. n \in 1..MaxImages /\ n # 0 /\ made \in [Jobs -> 0..MaxImages]
  BY <1>2, TryOnAssumption DEF TryInv, TryOnTypeOK
<1>4. tryOns' = [tryOns EXCEPT ![c] = call]
  BY <1>1, <1>2 DEF TryInv, TryOnTypeOK, TryOnCallType
<1>5. call \in TryOnCallType /\ call.job = j /\ call.step = "stored" /\ call.row.image = n
  <2>1. [tryOns[c].row EXCEPT !.image = n] \in Row /\ [tryOns[c].row EXCEPT !.image = n].image = n
    BY <1>1, <1>3 DEF TryOnCallType, Row
  <2> QED
    BY <1>1, <2>1 DEF TryOnCallType, JobOf, Steps
<1> HIDE DEF call, n
<1>6. /\ tryOns' \in [TryOnCalls -> {NobodyTryOn} \union TryOnCallType]
      /\ \A k, S : Doing(c, k, S)' <=> call.job = k /\ call.step \in S
      /\ tryOns'[c] = call
      /\ \A d \in TryOnCalls \ {c} : tryOns'[d] = tryOns[d]
      /\ \A d \in TryOnCalls \ {c} : \A k, S : Doing(d, k, S)' <=> Doing(d, k, S)
  BY <1>4, <1>5, CallMoves DEF TryInv
<1>7. \A k, S : Doing(c, k, S)' <=> j = k /\ "stored" \in S
  BY <1>5, <1>6
<1>8. /\ made' \in [Jobs -> 0..MaxImages] /\ made'[j] = n
      /\ images' \in [Jobs -> SUBSET (1..MaxImages)] /\ images'[j] = images[j] \union {n}
      /\ \A k \in Jobs : k # j => made'[k] = made[k] /\ images'[k] = images[k]
  BY <1>2, <1>3 DEF TryInv, TryOnTypeOK
<1>9. ASSUME NEW k \in Jobs PROVE TryJob(k)'
  <2>1. CASE k # j
    <3>1. \A S : ~Doing(c, k, S)
      BY <1>1, <2>1 DEF Doing
    <3>2. \A d \in TryOnCalls : \A S : Doing(d, k, S)' <=> Doing(d, k, S)
      BY <1>6, <1>7, <2>1, <3>1
    <3> QED
      BY <1>2, <1>6, <1>8, <2>1, <3>1, <3>2, OtherJob
  <2>2. CASE k = j
    <3>1. TryJob(j)
      BY DEF TryInv
    <3>2. /\ Doing(c, j, Steps \ {"creating"}) /\ Doing(c, j, WithLock)
          /\ Doing(c, j, Early) /\ Doing(c, j, Early \union {"stored"})
          /\ ~Doing(c, j, {"stored"}) /\ ~Doing(c, j, Erased) /\ ~Doing(c, j, {"creating"})
          /\ "stored" \notin Erased \union Early \union {"creating"} /\ "stored" \in WithLock
      BY <1>1 DEF Doing, Steps, WithLock, Early, Erased
    <3>3. ASSUME j \notin disturbed PROVE Once(j)'
      <4>1. \A d \in TryOnCalls : Doing(d, j, Early \union {"stored"}) => d = c
        BY <3>1, <3>2, <3>3 DEF TryJob, Once
      <4>2. made[j] = 0 /\ rows[j].image = NoImage /\ made'[j] = 1
        BY <1>8, <3>1, <3>2, <3>3 DEF TryJob, Once, n
      <4>3. \A d \in TryOnCalls : Doing(d, j, Early \union {"stored"})' => d = c
        BY <1>6, <4>1
      <4>4. /\ \A d \in TryOnCalls : Doing(d, j, Early)' => Doing(d, j, Early \union {"stored"})'
            /\ \A d \in TryOnCalls : Doing(d, j, {"stored"})' => Doing(d, j, Early \union {"stored"})'
        BY DEF Doing
      <4>5. \A d \in TryOnCalls : ~Doing(d, j, Early)' /\ (Doing(d, j, {"stored"})' <=> d = c)
        BY <1>7, <3>2, <4>3, <4>4
      <4>6. tryOns'[c].row.image \in images'[j]
        BY <1>5, <1>6, <1>8
      <4>7. \A d \in TryOnCalls : Doing(d, j, Erased) => Doing(d, j, Erased)'
        BY <1>6, <3>2
      <4>8. rows[j].status = "ready" => rows[j].image \in images'[j]
                                        \/ \E d \in TryOnCalls : Doing(d, j, Erased)'
        BY <1>8, <3>1, <3>3, <4>7 DEF TryJob, Once
      <4>9. \A d \in TryOnCalls : Doing(d, j, {"stored"})' =>
               made'[j] # 0 /\ tryOns'[d].row.image \in images'[j] /\ rows'[j].image = NoImage
        <5>1. rows'[j].image = NoImage /\ made'[j] # 0
          BY <1>2, <4>2
        <5>2. \A d \in TryOnCalls : Doing(d, j, {"stored"})' => d = c
          BY <4>5
        <5> QED
          BY <4>6, <5>1, <5>2, Zenon
      <4>10. \E d \in TryOnCalls : Doing(d, j, {"stored"})'
        BY <4>5
      <4>11. rows' = rows
        BY <1>2
      <4>12. \A d, e \in TryOnCalls : Doing(d, j, Early \union {"stored"})' /\ Doing(e, j, Early \union {"stored"})'
                                 => d = e
        BY <4>3
      <4>13. made'[j] <= 1 /\ made'[j] # 0
        BY <4>2
      <4> QED
        BY <4>5, <4>8, <4>9, <4>10, <4>11, <4>12, <4>13 DEF Once
    <3>4. /\ \A d \in TryOnCalls : Doing(d, j, WithLock)' => Doing(d, j, WithLock)
          /\ \A d \in TryOnCalls : Doing(d, j, Erased)' => Doing(d, j, Erased)
          /\ \A d \in TryOnCalls : ~Doing(d, j, {"creating"})'
          /\ rows[j].status # "none"
      BY <1>6, <1>7, <3>1, <3>2 DEF TryJob
    <3> QED
      BY <1>2, <2>2, <3>1, <3>3, <3>4 DEF TryJob
  <2> QED
    BY <2>1, <2>2
<1> QED
  BY <1>2, <1>6, <1>8, <1>9 DEF TryInv, TryOnTypeOK

\* The row of a job committed, ready or failed.
LEMMA FinishKeeps ==
    ASSUME TryInv, NEW c \in TryOnCalls, Finish(c)
    PROVE  TryInv'
<1>1. PICK j \in Jobs : j = JobOf(c) /\ Doing(c, j, {"stored", "failing"}) /\ tryOns[c] \in TryOnCallType
  BY DEF Finish, At, JobOf, Doing, TryInv, TryOnTypeOK, TryOnCallType
<1> DEFINE row == IF At(c, "stored") THEN [status |-> "ready", image |-> tryOns[c].row.image]
                                     ELSE [rows[j] EXCEPT !.status = "failed"]
<1>2. /\ rows' = [rows EXCEPT ![j] = row] /\ lock' = [lock EXCEPT ![j] = NobodyTryOn] /\ Leave(c)
      /\ UNCHANGED <<photo, images, made, lapsed, disturbed>>
  BY <1>1, Zenon DEF Finish
<1>3. /\ row \in Row /\ row.status \in Kept
      /\ row.status = "ready" => Doing(c, j, {"stored"}) /\ row.image = tryOns[c].row.image
      /\ row.image = rows[j].image \/ Doing(c, j, {"stored"})
  <2>1. rows[j] \in Row /\ tryOns[c].row \in Row
    BY <1>1 DEF TryInv, TryOnTypeOK, TryOnCallType
  <2>2. CASE At(c, "stored")
    BY <1>1, <2>1, <2>2 DEF Row, Kept, At, Doing
  <2>3. CASE ~At(c, "stored")
    BY <2>1, <2>3 DEF Row, Kept
  <2> QED
    BY <2>2, <2>3
<1> HIDE DEF row
<1>4. /\ rows' \in [Jobs -> Row] /\ rows'[j] = row
      /\ lock' \in [Jobs -> TryOnCalls \union {NobodyTryOn}]
      /\ \A k \in Jobs : k # j => rows'[k] = rows[k] /\ lock'[k] = lock[k]
  BY <1>2, <1>3 DEF TryInv, TryOnTypeOK
<1>5. /\ tryOns' \in [TryOnCalls -> {NobodyTryOn} \union TryOnCallType]
      /\ \A k, S : ~Doing(c, k, S)'
      /\ \A d \in TryOnCalls \ {c} : tryOns'[d] = tryOns[d]
      /\ \A d \in TryOnCalls \ {c} : \A k, S : Doing(d, k, S)' <=> Doing(d, k, S)
  BY <1>2, CallLeaves DEF TryInv
<1>6. ASSUME NEW k \in Jobs PROVE TryJob(k)'
  <2>1. CASE k # j
    <3>1. \A S : ~Doing(c, k, S)
      BY <1>1, <2>1 DEF Doing
    <3>2. \A d \in TryOnCalls : \A S : Doing(d, k, S)' <=> Doing(d, k, S)
      BY <1>5, <3>1
    <3> QED
      BY <1>2, <1>4, <1>5, <2>1, <3>1, <3>2, OtherJob
  <2>2. CASE k = j
    <3>1. TryJob(j)
      BY DEF TryInv
    <3>2. /\ Doing(c, j, Steps \ {"creating"}) /\ Doing(c, j, WithLock)
          /\ ~Doing(c, j, Erased) /\ ~Doing(c, j, {"creating"})
          /\ row.status \notin Erased \union ACTIVOS \union {"none"}
      BY <1>1, <1>3 DEF Doing, Steps, WithLock, Erased, Kept, ACTIVOS
    <3>3. /\ \A d \in TryOnCalls : \A S : Doing(d, j, S)' => Doing(d, j, S) /\ d # c
          /\ \A d \in TryOnCalls : Doing(d, j, Erased) => Doing(d, j, Erased)'
      BY <1>5, <3>2
    <3>4. \A d \in TryOnCalls : ~Doing(d, j, WithLock)'
      BY <3>1, <3>2, <3>3 DEF TryJob
    <3>5. \A d \in TryOnCalls : ~Doing(d, j, {"stored"})'
      BY <3>4 DEF Doing, WithLock
    <3>6. \A d \in TryOnCalls : ~Doing(d, j, {"creating"})'
      BY <3>1, <3>2, <3>3 DEF TryJob
    <3>7. ASSUME j \notin disturbed PROVE Once(j)'
      <4>1. Once(j)
        BY <3>1, <3>7 DEF TryJob
      <4>2. made[j] # 0 => \A d \in TryOnCalls : ~Doing(d, j, Early)'
        BY <3>3, <4>1 DEF Once
      <4>3. made[j] = 0 => row.image = NoImage
        BY <1>3, <4>1 DEF Once
      <4>4. row.status = "ready" => row.image \in images[j]
        BY <1>3, <4>1 DEF Once
      <4>5. \A d, e \in TryOnCalls : Doing(d, j, Early \union {"stored"})' /\ Doing(e, j, Early \union {"stored"})'
                                 => d = e
        <5>1. \A d, e \in TryOnCalls : Doing(d, j, Early \union {"stored"}) /\ Doing(e, j, Early \union {"stored"})
                                   => d = e
          BY <4>1 DEF Once
        <5> QED
          BY <3>3, <5>1, Zenon
      <4>6. made[j] <= 1
        BY <4>1 DEF Once
      <4> QED
        BY <1>2, <1>4, <3>2, <3>5, <4>2, <4>3, <4>4, <4>5, <4>6 DEF Once
    <3>8. \A d \in TryOnCalls : Doing(d, j, Erased)' => ~photo[j]
      BY <3>1, <3>3 DEF TryJob
    <3> QED
      BY <1>2, <1>4, <2>2, <3>2, <3>4, <3>6, <3>7, <3>8 DEF TryJob
  <2> QED
    BY <2>1, <2>2
<1> QED
  BY <1>2, <1>4, <1>5, <1>6 DEF TryInv, TryOnTypeOK

\* The files go first, the row later: meanwhile somebody is about to say so.
LEMMA EraseKeeps ==
    ASSUME TryInv, NEW c \in TryOnCalls, NEW j \in Jobs, NEW s \in Erased,
           rows[j].status # "none", Erase(c, j, s)
    PROVE  TryInv'
<1>1. /\ tryOns[c] = NobodyTryOn /\ s \in Steps
      /\ tryOns' = [tryOns EXCEPT ![c] = [job |-> j, row |-> rows[j], step |-> s]]
      /\ photo' = [photo EXCEPT ![j] = FALSE]
      /\ images' = [images EXCEPT ![j] = images[j] \ {rows[j].image}]
      /\ UNCHANGED <<rows, lock, made, lapsed, disturbed>>
  BY Zenon DEF Erase, Steps
<1>2. /\ tryOns' \in [TryOnCalls -> {NobodyTryOn} \union TryOnCallType]
      /\ \A k, S : ~Doing(c, k, S)
      /\ \A k, S : Doing(c, k, S)' <=> j = k /\ s \in S
      /\ \A d \in TryOnCalls \ {c} : tryOns'[d] = tryOns[d]
      /\ \A d \in TryOnCalls \ {c} : \A k, S : Doing(d, k, S)' <=> Doing(d, k, S)
  <2> DEFINE call == [job |-> j, row |-> rows[j], step |-> s]
  <2>1. call \in TryOnCallType /\ call.job = j /\ call.step = s
    BY <1>1 DEF TryOnCallType, TryInv, TryOnTypeOK
  <2>2. TryOnTypeOK /\ tryOns' = [tryOns EXCEPT ![c] = call]
    BY <1>1 DEF TryInv
  <2> HIDE DEF call
  <2>3. /\ tryOns' \in [TryOnCalls -> {NobodyTryOn} \union TryOnCallType]
        /\ \A k, S : Doing(c, k, S)' <=> call.job = k /\ call.step \in S
        /\ \A d \in TryOnCalls \ {c} : tryOns'[d] = tryOns[d]
        /\ \A d \in TryOnCalls \ {c} : \A k, S : Doing(d, k, S)' <=> Doing(d, k, S)
    BY <2>1, <2>2, CallMoves
  <2>4. \A k, S : ~Doing(c, k, S)
    BY <1>1 DEF Doing
  <2> QED
    BY <2>1, <2>3, <2>4
<1>3. /\ photo' \in [Jobs -> BOOLEAN] /\ ~photo'[j]
      /\ images' \in [Jobs -> SUBSET (1..MaxImages)] /\ images'[j] = images[j] \ {rows[j].image}
      /\ \A k \in Jobs : k # j => photo'[k] = photo[k] /\ images'[k] = images[k]
  BY <1>1 DEF TryInv, TryOnTypeOK
<1>4. ASSUME NEW k \in Jobs PROVE TryJob(k)'
  <2>1. CASE k # j
    <3>1. \A d \in TryOnCalls : \A S : Doing(d, k, S)' <=> Doing(d, k, S)
      BY <1>2, <2>1
    <3>2. \A d \in TryOnCalls : Doing(d, k, {"stored"}) => tryOns'[d].row.image = tryOns[d].row.image
      BY <1>2
    <3>3. /\ disturbed \subseteq disturbed' /\ rows'[k] = rows[k] /\ lock'[k] = lock[k]
          /\ photo'[k] = photo[k] /\ images'[k] = images[k] /\ made'[k] = made[k]
      BY <1>1, <1>3, <2>1
    <3> QED
      BY <3>1, <3>2, <3>3, OtherJob
  <2>2. CASE k = j
    <3>1. TryJob(j)
      BY DEF TryInv
    <3>2. s \notin Early \union WithLock \union {"creating", "stored"}
      BY DEF Early, WithLock, Erased
    <3>3. /\ \A d \in TryOnCalls : Doing(d, j, WithLock)' => Doing(d, j, WithLock)
          /\ \A d \in TryOnCalls : ~Doing(d, j, {"creating"})'
          /\ \A d \in TryOnCalls : Doing(d, j, {"stored"})' => Doing(d, j, {"stored"}) /\ d # c
          /\ \A d \in TryOnCalls : Doing(d, j, Early)' => Doing(d, j, Early)
          /\ Doing(c, j, Erased)'
      BY <1>2, <3>1, <3>2 DEF TryJob
    <3>4. ASSUME j \notin disturbed PROVE Once(j)'
      <4>1. Once(j)
        BY <3>1, <3>4 DEF TryJob
      <4>2. \A d \in TryOnCalls : Doing(d, j, Early \union {"stored"})' => Doing(d, j, Early \union {"stored"})
        BY <1>2, <3>2
      <4>3. \A d, e \in TryOnCalls : Doing(d, j, Early \union {"stored"})' /\ Doing(e, j, Early \union {"stored"})'
                                 => d = e
        <5>1. \A d, e \in TryOnCalls : Doing(d, j, Early \union {"stored"}) /\ Doing(e, j, Early \union {"stored"})
                                   => d = e
          BY <4>1 DEF Once
        <5> QED
          BY <4>2, <5>1, Zenon
      <4>4. made[j] <= 1 /\ (made[j] # 0 => \A d \in TryOnCalls : ~Doing(d, j, Early)')
        BY <3>3, <4>1 DEF Once
      <4>5. \A d \in TryOnCalls : Doing(d, j, {"stored"}) => Doing(d, j, {"stored"})'
        BY <1>2
      <4>6. made[j] # 0 => \/ \E d \in TryOnCalls : Doing(d, j, {"stored"})'
                           \/ rows[j].status \notin ACTIVOS \union {"none"}
        BY <4>1, <4>5 DEF Once
      <4>7. ASSUME NEW d \in TryOnCalls, Doing(d, j, {"stored"})'
            PROVE  made[j] # 0 /\ tryOns'[d].row.image \in images'[j] /\ rows[j].image = NoImage
        <5>1. Doing(d, j, {"stored"}) /\ tryOns'[d] = tryOns[d]
          BY <1>2, <3>3, <4>7
        <5>2. made[j] # 0 /\ tryOns[d].row.image \in images[j] /\ rows[j].image = NoImage
          BY <4>1, <5>1 DEF Once
        <5>3. images[j] \in SUBSET (1..MaxImages) /\ NoImage \notin 1..MaxImages
          BY TryOnAssumption DEF TryInv, TryOnTypeOK, NoImage
        <5> QED
          BY <1>3, <5>1, <5>2, <5>3
      <4>8. made[j] = 0 => rows[j].image = NoImage
        BY <4>1 DEF Once
      <4>9. rows' = rows /\ made' = made
        BY <1>1
      <4> QED
        BY <3>3, <4>3, <4>4, <4>6, <4>7, <4>8, <4>9 DEF Once
    <3> QED
      BY <1>1, <1>3, <2>2, <3>1, <3>3, <3>4 DEF TryJob
  <2> QED
    BY <2>1, <2>2
<1> QED
  BY <1>1, <1>2, <1>3, <1>4 DEF TryInv, TryOnTypeOK

\* What was erased is committed, unless the row is gone.
LEMMA CommitErasedKeeps ==
    ASSUME TryInv, NEW c \in TryOnCalls, CommitErased(c)
    PROVE  TryInv'
<1>1. PICK j \in Jobs : j = JobOf(c) /\ Doing(c, j, Erased) /\ tryOns[c] \in TryOnCallType
  BY DEF CommitErased, At, JobOf, Doing, TryInv, TryOnTypeOK, TryOnCallType
<1> DEFINE row == IF Exists(j) THEN [rows[j] EXCEPT !.status = tryOns[c].step] ELSE rows[j]
<1>2. /\ rows' = [rows EXCEPT ![j] = row] /\ Leave(c)
      /\ UNCHANGED <<lock, photo, images, made, lapsed, disturbed>>
  <2>1. CASE Exists(j)
    BY <1>1, <2>1, Zenon DEF CommitErased
  <2>2. CASE ~Exists(j)
    BY <1>1, <2>2 DEF CommitErased, TryInv, TryOnTypeOK
  <2> QED
    BY <2>1, <2>2
<1>3. row \in Row /\ row.status \in Erased /\ row.image = rows[j].image
  <2>1. rows[j] \in Row /\ rows[j].status # "none" /\ tryOns[c].step \in Erased
    <3>1. Doing(c, j, Steps \ {"creating"})
      BY <1>1 DEF Doing, Erased, Steps
    <3>2. rows[j].status # "none"
      BY <1>1, <3>1 DEF TryInv, TryJob
    <3> QED
      BY <1>1, <3>2 DEF TryInv, TryOnTypeOK, Doing
  <2>2. CASE Exists(j)
    BY <2>1, <2>2 DEF Row
  <2>3. CASE ~Exists(j)
    BY <2>1, <2>3 DEF Exists, Erased
  <2> QED
    BY <2>2, <2>3
<1> HIDE DEF row
<1>4. /\ rows' \in [Jobs -> Row] /\ rows'[j] = row
      /\ \A k \in Jobs : k # j => rows'[k] = rows[k]
  BY <1>2, <1>3 DEF TryInv, TryOnTypeOK
<1>5. /\ tryOns' \in [TryOnCalls -> {NobodyTryOn} \union TryOnCallType]
      /\ \A k, S : ~Doing(c, k, S)'
      /\ \A d \in TryOnCalls \ {c} : tryOns'[d] = tryOns[d]
      /\ \A d \in TryOnCalls \ {c} : \A k, S : Doing(d, k, S)' <=> Doing(d, k, S)
  BY <1>2, CallLeaves DEF TryInv
<1>6. ASSUME NEW k \in Jobs PROVE TryJob(k)'
  <2>1. CASE k # j
    <3>1. \A S : ~Doing(c, k, S)
      BY <1>1, <2>1 DEF Doing
    <3>2. \A d \in TryOnCalls : \A S : Doing(d, k, S)' <=> Doing(d, k, S)
      BY <1>5, <3>1
    <3> QED
      BY <1>2, <1>4, <1>5, <2>1, <3>1, <3>2, OtherJob
  <2>2. CASE k = j
    <3>1. TryJob(j)
      BY DEF TryInv
    <3>2. /\ Doing(c, j, Steps \ {"creating"}) /\ ~Doing(c, j, {"stored"})
          /\ row.status \notin ACTIVOS \union {"none", "ready"}
      BY <1>1, <1>3 DEF Doing, Steps, Erased, ACTIVOS
    <3>3. \A d \in TryOnCalls : \A S : Doing(d, j, S)' => Doing(d, j, S) /\ tryOns'[d] = tryOns[d]
      BY <1>5
    <3>4. ~photo[j] /\ \A d \in TryOnCalls : ~Doing(d, j, {"creating"})'
      BY <1>1, <3>1, <3>2, <3>3 DEF TryJob
    <3>5. ASSUME j \notin disturbed PROVE Once(j)'
      <4>1. Once(j)
        BY <3>1, <3>5 DEF TryJob
      <4>2. \A d, e \in TryOnCalls : Doing(d, j, Early \union {"stored"})' /\ Doing(e, j, Early \union {"stored"})'
                                 => d = e
        <5>1. \A d, e \in TryOnCalls : Doing(d, j, Early \union {"stored"}) /\ Doing(e, j, Early \union {"stored"})
                                   => d = e
          BY <4>1 DEF Once
        <5> QED
          BY <3>3, <5>1, Zenon
      <4>3. made[j] <= 1 /\ (made[j] # 0 => \A d \in TryOnCalls : ~Doing(d, j, Early)')
        BY <3>3, <4>1 DEF Once
      <4>4. \A d \in TryOnCalls : Doing(d, j, {"stored"})' =>
               made[j] # 0 /\ tryOns'[d].row.image \in images[j] /\ row.image = NoImage
        BY <1>3, <3>3, <4>1 DEF Once
      <4>5. made[j] = 0 => row.image = NoImage
        BY <1>3, <4>1 DEF Once
      <4> QED
        BY <1>2, <1>4, <3>2, <4>2, <4>3, <4>4, <4>5 DEF Once
    <3>6. /\ \A d \in TryOnCalls : Doing(d, j, WithLock)' => lock[j] = d
          /\ \A d \in TryOnCalls : Doing(d, j, Erased)' => ~photo[j]
      BY <3>1, <3>3 DEF TryJob
    <3> QED
      BY <1>2, <1>4, <2>2, <3>2, <3>4, <3>5, <3>6 DEF TryJob
  <2> QED
    BY <2>1, <2>2
<1> QED
  BY <1>2, <1>4, <1>5, <1>6 DEF TryInv, TryOnTypeOK

\* A process dies: its job is one that was cut off.
LEMMA CrashKeeps ==
    ASSUME TryInv, NEW c \in TryOnCalls, Crash(c)
    PROVE  TryInv'
<1>1. PICK j \in Jobs : j = JobOf(c) /\ tryOns[c] # NobodyTryOn /\ tryOns[c].job = j
  BY DEF Crash, JobOf, TryInv, TryOnTypeOK, TryOnCallType
<1>2. /\ lock' = [k \in Jobs |-> IF lock[k] = c THEN NobodyTryOn ELSE lock[k]]
      /\ disturbed' = disturbed \union {j} /\ Leave(c)
      /\ UNCHANGED <<rows, photo, images, made, lapsed>>
  BY <1>1 DEF Crash
<1>3. /\ tryOns' \in [TryOnCalls -> {NobodyTryOn} \union TryOnCallType]
      /\ \A k, S : ~Doing(c, k, S)'
      /\ \A d \in TryOnCalls \ {c} : tryOns'[d] = tryOns[d]
      /\ \A d \in TryOnCalls \ {c} : \A k, S : Doing(d, k, S)' <=> Doing(d, k, S)
  BY <1>2, CallLeaves DEF TryInv
<1>4. ASSUME NEW k \in Jobs PROVE TryJob(k)'
  <2>1. TryJob(k)
    BY DEF TryInv
  <2>2. \A d \in TryOnCalls : \A S : Doing(d, k, S)' => Doing(d, k, S) /\ d # c /\ tryOns'[d] = tryOns[d]
    BY <1>3
  <2>3. \A d \in TryOnCalls : Doing(d, k, WithLock)' => lock'[k] = d
    BY <1>2, <2>1, <2>2 DEF TryJob
  <2>4. ASSUME k \notin disturbed' PROVE Once(k)'
    <3>1. k # j /\ Once(k)
      BY <1>2, <2>1, <2>4 DEF TryJob
    <3>2. \A d \in TryOnCalls : \A S : Doing(d, k, S) => Doing(d, k, S)'
      BY <1>1, <1>3, <3>1 DEF Doing
    <3> QED
      BY <1>2, <2>2, <3>1, <3>2 DEF Once
  <2> QED
    BY <1>2, <2>1, <2>2, <2>3, <2>4 DEF TryJob
<1>5. lock' \in [Jobs -> TryOnCalls \union {NobodyTryOn}] /\ disturbed' \subseteq Jobs
  BY <1>1, <1>2 DEF TryInv, TryOnTypeOK
<1> QED
  BY <1>2, <1>3, <1>4, <1>5 DEF TryInv, TryOnTypeOK

\* The hours of a photo pass.
LEMMA LapseKeeps ==
    ASSUME TryInv, NEW j \in Jobs, Lapse(j)
    PROVE  TryInv'
<1>1. lapsed' \subseteq Jobs /\ UNCHANGED <<rows, lock, photo, images, made, tryOns, disturbed>>
  BY DEF Lapse, TryInv, TryOnTypeOK
<1>2. \A d \in TryOnCalls, k \in Jobs : \A S : Doing(d, k, S)' <=> Doing(d, k, S)
  BY <1>1 DEF Doing
<1>3. \A k \in Jobs : TryJob(k)'
  BY <1>1, <1>2, OtherJob
<1> QED
  BY <1>1, <1>3 DEF TryInv, TryOnTypeOK

\* The invariant of the try-on jobs is inductive.
LEMMA TryOnKeeps == TryInv /\ [TryOnNext]_tryOnVars => TryInv'
<1> SUFFICES ASSUME TryInv, [TryOnNext]_tryOnVars PROVE TryInv'
  OBVIOUS
<1>1. CASE \E j \in Jobs : Lapse(j)
  BY <1>1, LapseKeeps
<1>2. ASSUME NEW c \in TryOnCalls, TryOnCall(c) PROVE TryInv'
  <2>1. CASE \E j \in Jobs : StorePhoto(c, j) \/ Poll(c, j)
    BY <2>1, StoreKeeps, PollKeeps
  <2>2. CASE \E j \in Jobs : Cancel(c, j) \/ Delete(c, j) \/ Expire(c, j)
    <3>1. PICK j \in Jobs, s \in Erased : Erase(c, j, s) /\ rows[j].status # "none"
      BY <2>2 DEF Cancel, Delete, Expire, Erased, Exists, ACTIVOS, Kept
    <3> QED
      BY <3>1, EraseKeeps
  <2>3. CASE Create(c) \/ Generate(c)
    BY <2>3, CreateKeeps, GenerateKeeps
  <2>4. CASE Mark(c) \/ Download(c) \/ GenerateFails(c)
    BY <2>4, ProcessKeeps
  <2>5. CASE Finish(c) \/ CommitErased(c) \/ Crash(c)
    BY <2>5, FinishKeeps, CommitErasedKeeps, CrashKeeps
  <2> QED
    BY <1>2, <2>1, <2>2, <2>3, <2>4, <2>5 DEF TryOnCall
<1>3. CASE UNCHANGED tryOnVars
  <2>1. UNCHANGED <<rows, lock, photo, images, made, lapsed, tryOns, disturbed>>
    BY <1>3 DEF tryOnVars
  <2>2. \A d \in TryOnCalls, k \in Jobs : \A S : Doing(d, k, S)' <=> Doing(d, k, S)
    BY <2>1 DEF Doing
  <2>3. \A k \in Jobs : TryJob(k)'
    BY <2>1, <2>2, OtherJob
  <2> QED
    BY <2>1, <2>3 DEF TryInv, TryOnTypeOK
<1> QED
  BY <1>1, <1>2, <1>3 DEF TryOnNext

-----------------------------------------------------------------------------
(* The outbox of webhooks.                                                 *)

\* Every attempt of a row but the one to come was posted, and so was every
\* delivery a deliverer is done with; what a row says is true.
OutboxInv ==
    /\ Outbox!OutboxTypeOK
    /\ \A d \in Deliveries : delivery[d].attempt <= posts[d] + 1
    /\ \A w \in Deliverers : work[w] # Idle =>
          \A d \in DOMAIN work[w].read :
             /\ work[w].read[d].attempt <= posts[d] + 1
             /\ work[w].went[d] # "not_yet" => work[w].read[d].attempt <= posts[d]
             /\ work[w].went[d] = "well" => d \in received
    /\ Outbox!StatusIsTrue

\* What a deliverer has in hand.
LEMMA BatchOf ==
    ASSUME NEW b \in Outbox!BatchType
    PROVE  /\ DOMAIN b.read \subseteq Deliveries
           /\ b.read \in [DOMAIN b.read -> Outbox!RowType]
           /\ b.went \in [DOMAIN b.read -> {"not_yet", "well", "badly"}]
BY DEF Outbox!BatchType

\* What a deliverer keeps of its batch is a batch.
LEMMA BatchIs ==
    ASSUME NEW S \in SUBSET Deliveries, NEW r \in [S -> Outbox!RowType],
           NEW h \in [S -> {"not_yet", "well", "badly"}]
    PROVE  [read |-> r, went |-> h] \in Outbox!BatchType
BY DEF Outbox!BatchType

\* There is no delivery.
LEMMA OutboxStarts == Outbox!OutboxInit => OutboxInv
<1> SUFFICES ASSUME Outbox!OutboxInit PROVE OutboxInv
  OBVIOUS
<1>1. Retries \in Nat /\ MaxTrouble \in Nat
  BY BackgroundAssumption DEF Outbox!OutboxAssumption
<1>2. Outbox!NoRow \in Outbox!RowType /\ Outbox!NoRow.status = "none" /\ Outbox!NoRow.attempt = 0
  BY <1>1 DEF Outbox!NoRow, Outbox!RowType
<1>3. Outbox!OutboxTypeOK
  BY <1>1, <1>2 DEF Outbox!OutboxInit, Outbox!OutboxTypeOK
<1>4. /\ \A d \in Deliveries : delivery[d] = Outbox!NoRow /\ posts[d] = 0
      /\ \A w \in Deliverers : work[w] = Idle
  BY DEF Outbox!OutboxInit
<1> QED
  BY <1>2, <1>3, <1>4 DEF OutboxInv, Outbox!StatusIsTrue

\* One row changes, nothing else does: published, redelivered or deleted.
LEMMA RowKeeps ==
    ASSUME OutboxInv, NEW d \in Deliveries, NEW row \in Outbox!RowType,
           row.attempt <= posts[d] + 1, row.status \notin {"delivered", "failed"},
           delivery' = [delivery EXCEPT ![d] = row], waiting' \subseteq Deliveries,
           trouble' \in 0..MaxTrouble, UNCHANGED <<work, received, posts>>
    PROVE  OutboxInv'
<1>1. delivery' \in [Deliveries -> Outbox!RowType] /\ delivery'[d] = row
      /\ \A e \in Deliveries : e # d => delivery'[e] = delivery[e]
  BY DEF OutboxInv, Outbox!OutboxTypeOK
<1>2. Outbox!OutboxTypeOK'
  BY <1>1 DEF OutboxInv, Outbox!OutboxTypeOK
<1>3. Outbox!StatusIsTrue'
  BY <1>1 DEF OutboxInv, Outbox!StatusIsTrue
<1> QED
  BY <1>1, <1>2, <1>3 DEF OutboxInv

\* One deliverer changes what it has in hand.
LEMMA WorkKeeps ==
    ASSUME OutboxInv, NEW w \in Deliverers, NEW b \in {Idle} \union Outbox!BatchType,
           work' = [work EXCEPT ![w] = b],
           b # Idle => \A d \in DOMAIN b.read :
               /\ b.read[d].attempt <= posts'[d] + 1
               /\ b.went[d] # "not_yet" => b.read[d].attempt <= posts'[d]
               /\ b.went[d] = "well" => d \in received',
           received \subseteq received', received' \subseteq Deliveries,
           posts' \in [Deliveries -> 0..Retries + 1], \A d \in Deliveries : posts[d] <= posts'[d],
           trouble' \in 0..MaxTrouble, UNCHANGED <<delivery, waiting>>
    PROVE  OutboxInv'
<1>0. Retries \in Nat
  BY BackgroundAssumption DEF Outbox!OutboxAssumption
<1>1. /\ work' \in [Deliverers -> {Idle} \union Outbox!BatchType] /\ work'[w] = b
      /\ \A v \in Deliverers : v # w => work'[v] = work[v]
  BY DEF OutboxInv, Outbox!OutboxTypeOK
<1>2. Outbox!OutboxTypeOK'
  BY <1>1 DEF OutboxInv, Outbox!OutboxTypeOK
<1>3. /\ delivery \in [Deliveries -> Outbox!RowType] /\ posts \in [Deliveries -> 0..Retries + 1]
      /\ \A d \in Deliveries : delivery[d].attempt \in 0..Retries + 1
  BY DEF OutboxInv, Outbox!OutboxTypeOK, Outbox!RowType
<1>4. Outbox!StatusIsTrue'
  <2> SUFFICES ASSUME NEW d \in Deliveries
               PROVE  /\ delivery[d].status = "delivered" => d \in received'
                      /\ delivery[d].status = "failed" => posts'[d] = Retries + 1
    BY DEF Outbox!StatusIsTrue
  <2>1. delivery[d].status = "failed" => posts[d] = Retries + 1
    BY DEF OutboxInv, Outbox!StatusIsTrue
  <2>2. posts'[d] \in 0..Retries + 1 /\ posts[d] <= posts'[d]
    OBVIOUS
  <2> QED
    BY <1>0, <2>1, <2>2 DEF OutboxInv, Outbox!StatusIsTrue
<1>5. ASSUME NEW d \in Deliveries PROVE delivery'[d].attempt <= posts'[d] + 1
  <2>1. delivery[d].attempt <= posts[d] + 1 /\ posts[d] <= posts'[d]
    BY DEF OutboxInv
  <2>2. posts'[d] \in Nat /\ posts[d] \in Nat
    BY <1>0, <1>3
  <2> QED
    BY <1>3, <2>1, <2>2
<1>6. ASSUME NEW v \in Deliverers, work'[v] # Idle, NEW d \in DOMAIN work'[v].read
      PROVE  /\ work'[v].read[d].attempt <= posts'[d] + 1
             /\ work'[v].went[d] # "not_yet" => work'[v].read[d].attempt <= posts'[d]
             /\ work'[v].went[d] = "well" => d \in received'
  <2>1. CASE v = w
    BY <1>1, <1>6, <2>1
  <2>2. CASE v # w
    <3>1. work'[v] = work[v] /\ work[v] \in Outbox!BatchType
      BY <1>1, <1>6, <2>2
    <3>2. d \in Deliveries /\ work[v].read[d] \in Outbox!RowType
      BY <1>6, <3>1, BatchOf
    <3>3. /\ work[v].read[d].attempt \in Nat /\ posts[d] \in Nat /\ posts'[d] \in Nat
          /\ posts[d] <= posts'[d]
      BY <1>0, <1>3, <3>2 DEF Outbox!RowType
    <3>4. /\ work[v].read[d].attempt <= posts[d] + 1
          /\ work[v].went[d] # "not_yet" => work[v].read[d].attempt <= posts[d]
          /\ work[v].went[d] = "well" => d \in received
      BY <1>6, <3>1 DEF OutboxInv
    <3> QED
      BY <3>1, <3>3, <3>4
  <2> QED
    BY <2>1, <2>2
<1> QED
  BY <1>2, <1>4, <1>5, <1>6 DEF OutboxInv

\* The rows that are due are read as they are.
LEMMA ReadKeeps ==
    ASSUME OutboxInv, NEW w \in Deliverers, Outbox!Read(w)
    PROVE  OutboxInv'
<1>1. PICK chosen \in SUBSET Deliveries :
         /\ work' = [work EXCEPT ![w] = [read |-> [d \in chosen |-> delivery[d]],
                                         went |-> [d \in chosen |-> "not_yet"]]]
         /\ UNCHANGED <<delivery, waiting, received, posts, trouble>>
  BY DEF Outbox!Read, Outbox!Due
<1> DEFINE b == [read |-> [d \in chosen |-> delivery[d]], went |-> [d \in chosen |-> "not_yet"]]
<1>2. b \in Outbox!BatchType
  <2>1. [d \in chosen |-> delivery[d]] \in [chosen -> Outbox!RowType]
    BY DEF OutboxInv, Outbox!OutboxTypeOK
  <2> QED
    BY <2>1, BatchIs
<1>3. /\ DOMAIN b.read = chosen
      /\ \A d \in chosen : b.read[d] = delivery[d] /\ b.went[d] = "not_yet"
  OBVIOUS
<1>4. /\ \A d \in chosen : delivery[d].attempt <= posts[d] + 1
      /\ posts \in [Deliveries -> 0..Retries + 1] /\ trouble \in 0..MaxTrouble
      /\ received \subseteq Deliveries
  BY DEF OutboxInv, Outbox!OutboxTypeOK
<1>5. \A d \in Deliveries : posts[d] <= posts[d]
  BY <1>4, BackgroundAssumption DEF Outbox!OutboxAssumption
<1> HIDE DEF b
<1>6. work' = [work EXCEPT ![w] = b]
  BY <1>1 DEF b
<1> QED
  BY <1>1, <1>2, <1>3, <1>4, <1>5, <1>6, WorkKeeps

\* A post counts, whatever the receiver does.
LEMMA PostKeeps ==
    ASSUME OutboxInv, NEW w \in Deliverers, NEW d \in Deliveries, Outbox!Post(w, d)
    PROVE  OutboxInv'
<1>0. Retries \in Nat /\ MaxTrouble \in Nat
  BY BackgroundAssumption DEF Outbox!OutboxAssumption
<1>1. PICK accepted, answered \in BOOLEAN :
         /\ answered => accepted
         /\ received' = IF accepted THEN received \union {d} ELSE received
         /\ work' = [work EXCEPT ![w].went[d] = IF answered THEN "well" ELSE "badly"]
  BY DEF Outbox!Post
<1>2. /\ work[w] # Idle /\ d \in DOMAIN work[w].read /\ work[w].went[d] = "not_yet"
      /\ posts' = [posts EXCEPT ![d] = IF posts[d] > Retries THEN posts[d] ELSE posts[d] + 1]
      /\ UNCHANGED <<delivery, waiting, trouble>>
  BY Zenon DEF Outbox!Post
<1>3. work[w] \in Outbox!BatchType
  BY <1>2 DEF OutboxInv, Outbox!OutboxTypeOK
<1> DEFINE S == DOMAIN work[w].read
           h == [work[w].went EXCEPT ![d] = IF answered THEN "well" ELSE "badly"]
           b == [read |-> work[w].read, went |-> h]
<1>4. /\ S \subseteq Deliveries /\ work[w].read \in [S -> Outbox!RowType]
      /\ work[w].went \in [S -> {"not_yet", "well", "badly"}]
  BY <1>3, BatchOf
<1>5. h \in [S -> {"not_yet", "well", "badly"}] /\ h[d] = (IF answered THEN "well" ELSE "badly")
      /\ \A e \in S : e # d => h[e] = work[w].went[e]
  BY <1>2, <1>4
<1>6. b \in Outbox!BatchType /\ b.read = work[w].read /\ b.went = h
  BY <1>4, <1>5, BatchIs
<1>7. work' = [work EXCEPT ![w] = b]
  <2>1. [work[w] EXCEPT !.went[d] = IF answered THEN "well" ELSE "badly"] = b
    BY <1>3 DEF Outbox!BatchType
  <2> QED
    BY <1>1, <2>1 DEF OutboxInv, Outbox!OutboxTypeOK
<1>8. /\ posts \in [Deliveries -> 0..Retries + 1] /\ trouble \in 0..MaxTrouble
      /\ received \subseteq Deliveries
  BY DEF OutboxInv, Outbox!OutboxTypeOK
<1>9. /\ posts' \in [Deliveries -> 0..Retries + 1]
      /\ \A e \in Deliveries : posts[e] <= posts'[e]
      /\ posts'[d] = posts[d] + 1 \/ posts'[d] = Retries + 1
  BY <1>0, <1>2, <1>8
<1>10. received \subseteq received' /\ received' \subseteq Deliveries /\ (accepted => d \in received')
  BY <1>1, <1>8
<1>11. ASSUME NEW e \in S
       PROVE  /\ work[w].read[e].attempt <= posts'[e] + 1
              /\ h[e] # "not_yet" => work[w].read[e].attempt <= posts'[e]
              /\ h[e] = "well" => e \in received'
  <2>1. /\ work[w].read[e].attempt \in 0..Retries + 1 /\ posts[e] \in 0..Retries + 1
        /\ posts'[e] \in 0..Retries + 1 /\ posts[e] <= posts'[e]
    BY <1>4, <1>8, <1>9 DEF Outbox!RowType
  <2>2. /\ work[w].read[e].attempt <= posts[e] + 1
        /\ work[w].went[e] # "not_yet" => work[w].read[e].attempt <= posts[e]
        /\ work[w].went[e] = "well" => e \in received
    BY <1>2, <1>11 DEF OutboxInv
  <2>3. CASE e = d
    <3>1. work[w].read[e].attempt <= posts'[e]
      BY <1>0, <1>9, <2>1, <2>2, <2>3
    <3>2. h[e] = "well" => e \in received'
      BY <1>1, <1>5, <1>10, <2>3
    <3> QED
      BY <1>0, <2>1, <3>1, <3>2
  <2>4. CASE e # d
    BY <1>0, <1>5, <1>10, <2>1, <2>2, <2>4
  <2> QED
    BY <2>3, <2>4
<1> HIDE DEF b, h, S
<1>12. \A e \in DOMAIN b.read : /\ b.read[e].attempt <= posts'[e] + 1
                                /\ b.went[e] # "not_yet" => b.read[e].attempt <= posts'[e]
                                /\ b.went[e] = "well" => e \in received'
  BY <1>6, <1>11 DEF S
<1> QED
  BY <1>2, <1>6, <1>7, <1>8, <1>9, <1>10, <1>12, WorkKeeps

\* What the commit of a batch writes over a row is true of it.
LEMMA WrittenRow ==
    ASSUME OutboxInv, NEW w \in Deliverers, Outbox!Posted(w), NEW d \in DOMAIN work[w].read
    PROVE  LET row == Outbox!Written(w, d)
           IN  /\ row \in Outbox!RowType
               /\ row.attempt <= posts[d] + 1
               /\ row.status = "delivered" => d \in received
               /\ row.status = "failed" => posts[d] = Retries + 1
<1>0. Retries \in Nat
  BY BackgroundAssumption DEF Outbox!OutboxAssumption
<1>1. work[w] \in Outbox!BatchType /\ work[w] # Idle
  BY DEF OutboxInv, Outbox!OutboxTypeOK, Outbox!Posted
<1>2. /\ d \in Deliveries /\ work[w].read[d] \in Outbox!RowType
      /\ work[w].went[d] \in {"well", "badly"}
  BY <1>1, BatchOf DEF Outbox!Posted
<1> DEFINE read == work[w].read[d]
           row == Outbox!Written(w, d)
<1>3. /\ read.attempt <= posts[d] /\ (d \in Outbox!Well(w) => d \in received)
      /\ delivery[d].attempt <= posts[d] + 1
  BY <1>1, <1>2 DEF OutboxInv, Outbox!Well
<1>4. delivery[d] \in Outbox!RowType /\ posts[d] \in 0..Retries + 1
  BY <1>2 DEF OutboxInv, Outbox!OutboxTypeOK
<1>5. /\ delivery[d].status = "delivered" => d \in received
      /\ delivery[d].status = "failed" => posts[d] = Retries + 1
  BY <1>2 DEF OutboxInv, Outbox!StatusIsTrue
<1>6. read.attempt \in 0..Retries + 1 /\ delivery[d].attempt \in 0..Retries + 1
  BY <1>2, <1>4 DEF Outbox!RowType
<1> HIDE DEF read
<1>7. PICK status \in {"delivered", "retrying", "failed"} :
         /\ row = [status |-> IF status = read.status THEN delivery[d].status ELSE status,
                   attempt |-> IF d \in Outbox!Retried(w) THEN read.attempt + 1 ELSE delivery[d].attempt]
         /\ status = "delivered" => d \in Outbox!Well(w)
         /\ status = "failed" => d \notin Outbox!Well(w) /\ d \notin Outbox!Retried(w)
  BY DEF Outbox!Written, read
<1>8. d \in Outbox!Retried(w) => read.attempt <= Retries
  BY DEF Outbox!Retried, read
<1>9. d \notin Outbox!Well(w) /\ d \notin Outbox!Retried(w) => posts[d] = Retries + 1
  <2> SUFFICES ASSUME d \notin Outbox!Well(w), d \notin Outbox!Retried(w) PROVE posts[d] = Retries + 1
    OBVIOUS
  <2>1. ~(read.attempt <= Retries)
    BY DEF Outbox!Retried, read
  <2> QED
    BY <1>0, <1>3, <1>4, <1>6, <2>1
<1>10. row.attempt \in 0..Retries + 1 /\ row.attempt <= posts[d] + 1
  BY <1>0, <1>3, <1>4, <1>6, <1>7, <1>8
<1>11. row.status \in Outbox!Pending \union {"none", "gone", "delivered", "failed"}
  BY <1>4, <1>7 DEF Outbox!RowType, Outbox!Pending
<1>12. /\ row.status = "delivered" => d \in received
       /\ row.status = "failed" => posts[d] = Retries + 1
  BY <1>3, <1>5, <1>7, <1>9
<1>13. row \in Outbox!RowType
  <2>1. row = [status |-> row.status, attempt |-> row.attempt]
    BY <1>7
  <2> HIDE DEF row
  <2> QED
    BY <1>10, <1>11, <2>1 DEF Outbox!RowType
<1> QED
  BY <1>10, <1>12, <1>13

\* The commit of a batch.
LEMMA CommitKeeps ==
    ASSUME OutboxInv, NEW w \in Deliverers, Outbox!Commit(w)
    PROVE  OutboxInv'
<1>0. Retries \in Nat
  BY BackgroundAssumption DEF Outbox!OutboxAssumption
<1>1. /\ Outbox!Posted(w) /\ work[w] \in Outbox!BatchType
      /\ delivery' = [d \in Deliveries |->
            IF d \in DOMAIN work[w].read THEN Outbox!Written(w, d) ELSE delivery[d]]
      /\ work' = [work EXCEPT ![w] = Idle]
      /\ waiting' = (waiting \union Outbox!Retried(w)) \ Outbox!GivenUp(w)
      /\ UNCHANGED <<received, posts, trouble>>
  BY DEF Outbox!Commit, Outbox!Posted, OutboxInv, Outbox!OutboxTypeOK
<1>2. /\ DOMAIN work[w].read \subseteq Deliveries
      /\ Outbox!Retried(w) \subseteq Deliveries
  BY <1>1, BatchOf DEF Outbox!Retried
<1>3. ASSUME NEW d \in Deliveries
      PROVE  /\ delivery'[d] \in Outbox!RowType
             /\ delivery'[d].attempt <= posts[d] + 1
             /\ delivery'[d].status = "delivered" => d \in received
             /\ delivery'[d].status = "failed" => posts[d] = Retries + 1
  <2>1. CASE d \in DOMAIN work[w].read
    BY <1>1, <2>1, WrittenRow
  <2>2. CASE d \notin DOMAIN work[w].read
    BY <1>1, <2>2 DEF OutboxInv, Outbox!OutboxTypeOK, Outbox!StatusIsTrue
  <2> QED
    BY <2>1, <2>2
<1>4. /\ work' \in [Deliverers -> {Idle} \union Outbox!BatchType]
      /\ work'[w] = Idle /\ \A v \in Deliverers : v # w => work'[v] = work[v]
  BY <1>1 DEF OutboxInv, Outbox!OutboxTypeOK
<1>5. delivery' \in [Deliveries -> Outbox!RowType]
  BY <1>1, <1>3
<1>6. Outbox!OutboxTypeOK'
  BY <1>1, <1>2, <1>4, <1>5 DEF OutboxInv, Outbox!OutboxTypeOK
<1>7. Outbox!StatusIsTrue'
  BY <1>1, <1>3 DEF Outbox!StatusIsTrue
<1> QED
  BY <1>1, <1>3, <1>4, <1>6, <1>7 DEF OutboxInv

\* A batch is lost: its rows stay as they were.
LEMMA LoseKeeps ==
    ASSUME OutboxInv, NEW w \in Deliverers, Outbox!Lose(w), trouble' \in 0..MaxTrouble
    PROVE  OutboxInv'
<1>1. /\ work' = [work EXCEPT ![w] = Idle]
      /\ UNCHANGED <<delivery, waiting, received, posts>>
  BY DEF Outbox!Lose
<1>2. /\ posts \in [Deliveries -> 0..Retries + 1] /\ received \subseteq Deliveries
      /\ \A d \in Deliveries : posts[d] <= posts[d]
  BY BackgroundAssumption DEF OutboxInv, Outbox!OutboxTypeOK, Outbox!OutboxAssumption
<1> QED
  BY <1>1, <1>2, WorkKeeps

\* The invariant of the outbox is inductive.
LEMMA OutboxKeeps == OutboxInv /\ [Outbox!OutboxNext]_outboxVars => OutboxInv'
<1> SUFFICES ASSUME OutboxInv, [Outbox!OutboxNext]_outboxVars PROVE OutboxInv'
  OBVIOUS
<1>0. /\ Retries \in Nat /\ MaxTrouble \in Nat /\ trouble \in 0..MaxTrouble
      /\ waiting \subseteq Deliveries
      /\ delivery \in [Deliveries -> Outbox!RowType] /\ posts \in [Deliveries -> 0..Retries + 1]
      /\ Outbox!Troubled => trouble' \in 0..MaxTrouble
  BY BackgroundAssumption
     DEF Outbox!OutboxAssumption, OutboxInv, Outbox!OutboxTypeOK, Outbox!Troubled
<1>1. ASSUME NEW d \in Deliveries, Outbox!Publish(d) PROVE OutboxInv'
  <2>1. /\ Outbox!New \in Outbox!RowType /\ Outbox!New.attempt <= posts[d] + 1
        /\ Outbox!New.status \notin {"delivered", "failed"}
    BY <1>0 DEF Outbox!New, Outbox!RowType, Outbox!Pending
  <2> QED
    BY <1>0, <1>1, <2>1, RowKeeps DEF Outbox!Publish
<1>2. ASSUME NEW d \in Deliveries, Outbox!Redeliver(d) PROVE OutboxInv'
  <2> DEFINE row == [delivery[d] EXCEPT !.status = "pending"]
  <2>1. /\ row \in Outbox!RowType /\ row.attempt = delivery[d].attempt /\ row.status = "pending"
    <3>1. delivery[d] \in Outbox!RowType
      BY <1>0
    <3> QED
      BY <3>1 DEF Outbox!RowType, Outbox!Pending
  <2>2. row.attempt <= posts[d] + 1
    BY <2>1 DEF OutboxInv
  <2>3. delivery' = [delivery EXCEPT ![d] = row] /\ UNCHANGED <<work, received, posts>>
    BY <1>2, Zenon DEF Outbox!Redeliver
  <2>4. waiting' \subseteq Deliveries /\ trouble' \in 0..MaxTrouble
    BY <1>0, <1>2 DEF Outbox!Redeliver
  <2> HIDE DEF row
  <2> QED
    BY <2>1, <2>2, <2>3, <2>4, RowKeeps
<1>3. ASSUME NEW d \in Deliveries, Outbox!DeleteEndpoint(d) PROVE OutboxInv'
  <2>1. /\ Outbox!Gone \in Outbox!RowType /\ Outbox!Gone.attempt <= posts[d] + 1
        /\ Outbox!Gone.status \notin {"delivered", "failed"}
    BY <1>0 DEF Outbox!Gone, Outbox!RowType, Outbox!Pending
  <2>2. waiting' \subseteq Deliveries /\ trouble' \in 0..MaxTrouble
    BY <1>0, <1>3 DEF Outbox!DeleteEndpoint
  <2> QED
    BY <1>3, <2>1, <2>2, RowKeeps DEF Outbox!DeleteEndpoint
<1>4. ASSUME NEW d \in Deliveries, Outbox!BecomeDue(d) PROVE OutboxInv'
  BY <1>0, <1>4 DEF Outbox!BecomeDue, OutboxInv, Outbox!OutboxTypeOK, Outbox!StatusIsTrue
<1>5. ASSUME NEW w \in Deliverers, Outbox!CommitFails(w) \/ Outbox!Crash(w) PROVE OutboxInv'
  BY <1>0, <1>5, LoseKeeps DEF Outbox!CommitFails, Outbox!Crash
<1>6. CASE UNCHANGED outboxVars
  BY <1>6 DEF outboxVars, OutboxInv, Outbox!OutboxTypeOK, Outbox!StatusIsTrue
<1> QED
  BY <1>1, <1>2, <1>3, <1>4, <1>5, <1>6, ReadKeeps, PostKeeps, CommitKeeps DEF Outbox!OutboxNext

-----------------------------------------------------------------------------
(* The mail queue.                                                         *)

\* The mails the counter is about.
Unsent == {r \in Mails : request[r] = "counted" \/ Mail!Queued(r) \/ Mail!InHand(r)}

\* No mail is queued twice, nor in the hands of two workers.
OneEach ==
    /\ \A i, j \in 1..Len(queue) : queue[i] = queue[j] /\ queue[i] # Stop => i = j
    /\ \A v, w \in Workers : worker[v] = worker[w] /\ worker[v] \in Mails => v = w

\* The place of a mail goes with what its request has been told.
PlaceOf(r) ==
    /\ Mail!Queued(r) \/ Mail!InHand(r) => request[r] = "accepted" /\ sent[r] = 0
    /\ ~(Mail!Queued(r) /\ Mail!InHand(r))
    /\ request[r] \in {"new", "refused"} \union Mail!Entering => sent[r] = 0
    /\ request[r] = "accepted" => sent[r] = 1 \/ Mail!Queued(r) \/ Mail!InHand(r)
    /\ request[r] = "done" => sent[r] = 1

MailPlaces == OneEach /\ \A r \in Mails : PlaceOf(r)

\* Threads are started while the queue is open, and the one that closes it
\* takes them over; what is still to be put then is known to be late.
MailThreads ==
    /\ apagando <=> closer # "up"
    /\ closer # "up" => hilos = {}
    /\ closer = "up" => joining = {}
    /\ \A w \in Workers : w \notin hilos \union joining => worker[w] = "off"
    /\ closer = "up" /\ hilos = {} => \A r \in Mails : request[r] \in {"new", "checked"}
    /\ closer = "off" => \A r \in Mails : request[r] \in Mail!Entering \/ Mail!Queued(r) => r \in late

MailInv ==
    /\ Mail!TypeOK
    /\ MailPlaces
    /\ MailThreads
    /\ IsFiniteSet(Unsent) /\ pendientes = Cardinality(Unsent)

\* The same cardinality, by another name.
LEMMA MailCards ==
    /\ \A S : Mail!Cardinality(S) = Cardinality(S)
    /\ \A S : Mail!IsFiniteSet(S) <=> IsFiniteSet(S)
BY Zenon DEF Mail!Cardinality, Cardinality, Mail!IsFiniteSet, IsFiniteSet

\* What is known of the queue, of its workers and of what they are about.
LEMMA MailFacts ==
    ASSUME MailInv
    PROVE  /\ Tamano \in Nat \ {0} /\ IsFiniteSet(Workers) /\ Workers # {}
           /\ Stop \notin Mails /\ Mails \cap {"off", "idle", "gone"} = {}
           /\ queue \in Seq(Mails \union {Stop}) /\ Len(queue) \in Nat /\ Len(queue) <= Tamano
           /\ DOMAIN queue = 1..Len(queue)
           /\ request \in [Mails -> Mail!Entering \union {"new", "refused", "accepted", "done"}]
           /\ worker \in [Workers -> {"off", "idle", "gone"} \union Mails]
           /\ sent \in [Mails -> Nat]
BY MailCards, BackgroundAssumption DEF Mail!MailQueueAssumption, MailInv, Mail!TypeOK

\* Nobody has asked for anything.
LEMMA MailStarts == Mail!Init => MailInv
<1> SUFFICES ASSUME Mail!Init PROVE MailInv
  OBVIOUS
<1> USE MailCards, BackgroundAssumption DEF Mail!MailQueueAssumption, Mail!Init
<1>1. \A r \in Mails : ~Mail!Queued(r) /\ ~Mail!InHand(r)
  BY DEF Mail!Queued, Mail!InHand
<1>2. Cardinality(Workers) \in Nat
  BY FS_CardinalityType
<1>3. Mail!TypeOK
  <2>1. queue \in Seq(Mails \union {Stop}) /\ Len(queue) <= Tamano
    OBVIOUS
  <2>2. stops \in 0 .. Mail!Cardinality(Workers)
    BY <1>2
  <2> QED
    BY <2>1, <2>2 DEF Mail!TypeOK
<1>4. Unsent = {}
  BY <1>1 DEF Unsent
<1>5. IsFiniteSet(Unsent) /\ pendientes = Cardinality(Unsent)
  BY <1>4, FS_EmptySet
<1>6. MailPlaces
  BY <1>1 DEF MailPlaces, OneEach, PlaceOf
<1>7. MailThreads
  BY <1>1 DEF MailThreads
<1> QED
  BY <1>3, <1>5, <1>6, <1>7 DEF MailInv

\* What the invariant says of a run: Mail!Cardinality counts the same.
LEMMA MailSeen ==
    MailInv => Mail!TypeOK /\ MailAccounted
<1> SUFFICES ASSUME MailInv PROVE Mail!TypeOK /\ MailAccounted
  OBVIOUS
<1>1. Mail!PendingIsExact
  BY MailCards DEF MailInv, Unsent, Mail!PendingIsExact
<1>2. Mail!OneCopy
  <2> SUFFICES ASSUME NEW r \in Mails
               PROVE  /\ sent[r] <= 1
                      /\ sent[r] = 1 => ~Mail!Queued(r) /\ ~Mail!InHand(r)
                      /\ ~(Mail!Queued(r) /\ Mail!InHand(r))
                      /\ request[r] = "accepted" => sent[r] = 1 \/ Mail!Queued(r) \/ Mail!InHand(r)
    BY DEF Mail!OneCopy
  <2>1. sent[r] \in {0, 1}
    BY MailFacts DEF MailInv, MailPlaces, PlaceOf
  <2> QED
    BY <2>1 DEF MailInv, MailPlaces, PlaceOf
<1>3. Mail!NoOrphanThreads
  BY DEF MailInv, MailThreads, Mail!NoOrphanThreads
<1>4. Mail!OnlyLateLeft
  BY DEF MailInv, MailThreads, Mail!OnlyLateLeft
<1> QED
  BY <1>1, <1>2, <1>3, <1>4 DEF MailInv, MailAccounted

\* A queue and workers that do not move hold the same mails.
LEMMA SameHands ==
    ASSUME MailInv, UNCHANGED <<queue, worker>>
    PROVE  /\ OneEach'
           /\ \A r \in Mails : (Mail!Queued(r)' <=> Mail!Queued(r)) /\ (Mail!InHand(r)' <=> Mail!InHand(r))
BY DEF MailInv, MailPlaces, OneEach, Mail!Queued, Mail!InHand

\* A request goes on, and its mail is still nowhere.
LEMMA RequestMoves ==
    ASSUME MailInv, NEW r \in Mails, NEW s \in Mail!Entering \union {"refused", "done"},
           request[r] \in {"new", "refused"} \union Mail!Entering,
           request' = [request EXCEPT ![r] = s],
           OneEach',
           \A x \in Mails : (Mail!Queued(x)' <=> Mail!Queued(x)) /\ (Mail!InHand(x)' <=> Mail!InHand(x)),
           sent' = IF s = "done" THEN [sent EXCEPT ![r] = sent[r] + 1] ELSE sent
    PROVE  /\ request' \in [Mails -> Mail!Entering \union {"new", "refused", "accepted", "done"}]
           /\ request'[r] = s /\ \A x \in Mails : x # r => request'[x] = request[x]
           /\ sent' \in [Mails -> Nat]
           /\ MailPlaces'
           /\ ~Mail!Queued(r)
           /\ Unsent' = IF s = "counted" THEN Unsent \union {r} ELSE Unsent \ {r}
           /\ r \in Unsent <=> request[r] = "counted"
<1>1. /\ request' \in [Mails -> Mail!Entering \union {"new", "refused", "accepted", "done"}]
      /\ request'[r] = s /\ \A x \in Mails : x # r => request'[x] = request[x]
  BY MailFacts
<1>2. "accepted" \notin {"new", "refused", "done"} \union Mail!Entering
      /\ "done" \notin {"new", "refused", "accepted"} \union Mail!Entering
  BY DEF Mail!Entering
<1>3. ~Mail!Queued(r) /\ ~Mail!InHand(r) /\ sent[r] = 0
  BY <1>2 DEF MailInv, MailPlaces, PlaceOf
<1>4. /\ sent' \in [Mails -> Nat] /\ sent'[r] = (IF s = "done" THEN 1 ELSE 0)
      /\ \A x \in Mails : x # r => sent'[x] = sent[x]
  BY <1>3, MailFacts
<1>5. ASSUME NEW x \in Mails PROVE PlaceOf(x)'
  <2>1. CASE x # r
    <3>1. PlaceOf(x)
      BY DEF MailInv, MailPlaces
    <3> QED
      BY <1>1, <1>4, <2>1, <3>1 DEF PlaceOf
  <2>2. CASE x = r
    <3>1. ~Mail!Queued(r)' /\ ~Mail!InHand(r)'
      BY <1>3
    <3>2. s # "accepted" /\ (s = "done" => s \notin {"new", "refused"} \union Mail!Entering)
      BY <1>2
    <3> QED
      BY <1>1, <1>4, <2>2, <3>1, <3>2 DEF PlaceOf
  <2> QED
    BY <2>1, <2>2
<1>6. MailPlaces'
  BY <1>5 DEF MailPlaces
<1>7. \A x \in Mails : x \in Unsent' <=> IF x = r THEN s = "counted" ELSE x \in Unsent
  BY <1>1, <1>3 DEF Unsent
<1>8. Unsent \subseteq Mails /\ Unsent' \subseteq Mails
  BY DEF Unsent
<1>9. Unsent' = IF s = "counted" THEN Unsent \union {r} ELSE Unsent \ {r}
  BY <1>7, <1>8
<1>10. r \in Unsent <=> request[r] = "counted"
  BY <1>3 DEF Unsent
<1> QED
  BY <1>1, <1>3, <1>4, <1>6, <1>9, <1>10

\* encolar, up to the put.
LEMMA EncolarKeeps ==
    ASSUME MailInv, NEW r \in Mails,
           Mail!Check(r) \/ Mail!Count(r) \/ Mail!PutFull(r) \/ Mail!SendInline(r)
    PROVE  MailInv'
<1>1. PICK s \in Mail!Entering \union {"refused", "done"} :
         /\ request' = [request EXCEPT ![r] = s]
         /\ request[r] \in {"new", "refused"} \union Mail!Entering
         /\ s # "done" => sent' = sent
         /\ s = "done" => sent' = [sent EXCEPT ![r] = sent[r] + 1]
         /\ \/ request[r] = "new" /\ s = (IF apagando THEN "refused" ELSE "checked")
               /\ pendientes' = pendientes
            \/ request[r] = "started" /\ s = "counted" /\ pendientes' = pendientes + 1
            \/ request[r] = "counted" /\ s = "refused" /\ pendientes' = pendientes - 1
            \/ request[r] = "refused" /\ s = "done" /\ pendientes' = pendientes
  <2>1. CASE Mail!Check(r)
    BY <2>1 DEF Mail!Check, Mail!Entering
  <2>2. CASE Mail!Count(r)
    BY <2>2 DEF Mail!Count, Mail!Entering
  <2>3. CASE Mail!PutFull(r)
    BY <2>3 DEF Mail!PutFull, Mail!Entering
  <2>4. CASE Mail!SendInline(r)
    BY <2>4, Zenon DEF Mail!SendInline, Mail!Entering
  <2> QED
    BY <2>1, <2>2, <2>3, <2>4
<1>2. UNCHANGED <<queue, apagando, hilos, worker, closer, joining, stops, late>>
  BY DEF Mail!Check, Mail!Count, Mail!PutFull, Mail!SendInline, Mail!requestVars
<1>3. sent' = IF s = "done" THEN [sent EXCEPT ![r] = sent[r] + 1] ELSE sent
  BY <1>1
<1>4. /\ OneEach'
      /\ \A x \in Mails : (Mail!Queued(x)' <=> Mail!Queued(x)) /\ (Mail!InHand(x)' <=> Mail!InHand(x))
  BY <1>2, SameHands
<1>5. /\ request' \in [Mails -> Mail!Entering \union {"new", "refused", "accepted", "done"}]
      /\ request'[r] = s /\ \A x \in Mails : x # r => request'[x] = request[x]
      /\ sent' \in [Mails -> Nat]
      /\ MailPlaces'
      /\ ~Mail!Queued(r)
      /\ Unsent' = IF s = "counted" THEN Unsent \union {r} ELSE Unsent \ {r}
      /\ r \in Unsent <=> request[r] = "counted"
  BY <1>1, <1>3, <1>4, RequestMoves
<1>6. IsFiniteSet(Unsent') /\ pendientes' = Cardinality(Unsent') /\ pendientes' \in Nat
  <2>1. IsFiniteSet(Unsent) /\ pendientes = Cardinality(Unsent)
    BY DEF MailInv
  <2>2. /\ IsFiniteSet(Unsent \union {r}) /\ IsFiniteSet(Unsent \ {r})
        /\ r \notin Unsent => Cardinality(Unsent \union {r}) = Cardinality(Unsent) + 1
        /\ Cardinality(Unsent \ {r}) =
              IF r \in Unsent THEN Cardinality(Unsent) - 1 ELSE Cardinality(Unsent)
    BY <2>1, FS_AddElement, FS_RemoveElement
  <2>3. Cardinality(Unsent \union {r}) \in Nat /\ Cardinality(Unsent \ {r}) \in Nat
    BY <2>2, FS_CardinalityType
  <2> QED
    BY <1>1, <1>5, <2>1, <2>2, <2>3
<1>7. Mail!TypeOK'
  BY <1>2, <1>5, <1>6 DEF MailInv, Mail!TypeOK
<1>8. MailThreads'
  <2>1. MailThreads
    BY DEF MailInv
  <2>2. closer = "up" /\ hilos = {} => \A x \in Mails : request'[x] \in {"new", "checked"}
    BY <1>1, <1>5, <2>1 DEF MailThreads
  <2>3. ASSUME closer = "off", NEW x \in Mails, request'[x] \in Mail!Entering \/ Mail!Queued(x)'
        PROVE  x \in late
    <3>1. x # r => x \in late
      BY <1>4, <1>5, <2>1, <2>3 DEF MailThreads
    <3>2. x = r => request[r] \in Mail!Entering
      <4>1. "new" \notin Mail!Entering /\ "refused" \notin Mail!Entering /\ "done" \notin Mail!Entering
            /\ "started" \in Mail!Entering /\ "counted" \in Mail!Entering
        BY DEF Mail!Entering
      <4>2. apagando /\ ~Mail!Queued(r)
        BY <1>5, <2>1, <2>3 DEF MailThreads
      <4>3. x = r => s \in Mail!Entering
        BY <1>4, <1>5, <2>3, <4>2
      <4> QED
        BY <1>1, <4>1, <4>2, <4>3
    <3> QED
      BY <2>1, <2>3, <3>1, <3>2 DEF MailThreads
  <2> QED
    BY <1>2, <2>1, <2>2, <2>3 DEF MailThreads
<1> QED
  BY <1>5, <1>6, <1>7, <1>8 DEF MailInv

\* The first mail starts the threads: they were off, with nothing in hand.
LEMMA ArrancarKeeps ==
    ASSUME MailInv, NEW r \in Mails, Mail!Arrancar(r)
    PROVE  MailInv'
<1>0. /\ request[r] = "checked" /\ request' = [request EXCEPT ![r] = "started"]
      /\ UNCHANGED <<queue, apagando, pendientes, sent, closer, joining, stops, late>>
      /\ \/ /\ hilos = {} /\ ~apagando /\ hilos' = Workers
            /\ worker' = [w \in Workers |-> "idle"]
         \/ ~(hilos = {} /\ ~apagando) /\ UNCHANGED <<hilos, worker>>
  BY DEF Mail!Arrancar, Mail!requestVars
<1>1. /\ "checked" \in Mail!Entering /\ "started" \in Mail!Entering \ {"new", "refused", "done", "counted"}
      /\ "accepted" \notin Mail!Entering
  BY DEF Mail!Entering
<1>2. MailThreads /\ OneEach /\ Mail!TypeOK
  BY DEF MailInv, MailPlaces
<1>3. \A x \in Mails : Mail!Queued(x)' <=> Mail!Queued(x)
  BY <1>0 DEF Mail!Queued
<1>4. /\ OneEach'
      /\ \A x \in Mails : Mail!InHand(x)' <=> Mail!InHand(x)
      /\ worker' \in [Workers -> {"off", "idle", "gone"} \union Mails]
      /\ \A w \in Workers : w \notin hilos' \union joining => worker'[w] = "off"
  <2>1. CASE UNCHANGED <<hilos, worker>>
    BY <1>0, <1>2, <2>1, MailFacts DEF OneEach, MailThreads, Mail!InHand
  <2>2. CASE hilos = {} /\ ~apagando /\ hilos' = Workers /\ worker' = [w \in Workers |-> "idle"]
    <3>1. \A w \in Workers : worker[w] = "off" /\ worker'[w] = "idle"
      BY <1>2, <2>2 DEF MailThreads
    <3>2. \A x \in Mails : ~Mail!InHand(x) /\ ~Mail!InHand(x)'
      BY <3>1, MailFacts DEF Mail!InHand
    <3>3. OneEach'
      BY <1>0, <1>2, <3>1, MailFacts DEF OneEach
    <3> QED
      BY <2>2, <3>2, <3>3
  <2> QED
    BY <1>0, <2>1, <2>2
<1>5. /\ request' \in [Mails -> Mail!Entering \union {"new", "refused", "accepted", "done"}]
      /\ request'[r] = "started" /\ \A x \in Mails : x # r => request'[x] = request[x]
      /\ sent' \in [Mails -> Nat]
      /\ MailPlaces'
      /\ ~Mail!Queued(r)
      /\ Unsent' = Unsent \ {r}
      /\ r \notin Unsent
  <2>1. sent' = IF "started" = "done" THEN [sent EXCEPT ![r] = sent[r] + 1] ELSE sent
    BY <1>0
  <2>2. "started" \in Mail!Entering \union {"refused", "done"} /\ request[r] \in {"new", "refused"} \union Mail!Entering
    BY <1>0, <1>1
  <2> QED
    BY <1>0, <1>3, <1>4, <2>1, <2>2, RequestMoves
<1>6. Unsent' = Unsent /\ IsFiniteSet(Unsent) /\ pendientes = Cardinality(Unsent)
  BY <1>5 DEF MailInv
<1>7. hilos' \in {{}, Workers}
  BY <1>0, <1>2 DEF Mail!TypeOK
<1>8. Mail!TypeOK'
  BY <1>0, <1>2, <1>4, <1>5, <1>7 DEF Mail!TypeOK
<1>9. MailThreads'
  <2>1. closer = "up" => hilos' # {}
    BY <1>0, <1>2, MailFacts DEF MailThreads
  <2>2. closer # "up" => hilos' = {}
    BY <1>0, <1>2 DEF MailThreads
  <2>3. closer = "off" => \A x \in Mails : request'[x] \in Mail!Entering \/ Mail!Queued(x)' => x \in late
    BY <1>0, <1>1, <1>2, <1>3, <1>5 DEF MailThreads
  <2> QED
    BY <1>0, <1>2, <1>4, <2>1, <2>2, <2>3 DEF MailThreads
<1> QED
  BY <1>0, <1>5, <1>6, <1>8, <1>9 DEF MailInv

\* What putting something in the queue does to it.
LEMMA QueuePuts ==
    ASSUME MailInv, NEW e \in Mails \union {Stop}, queue' = Append(queue, e),
           Len(queue) < Tamano
    PROVE  /\ queue' \in Seq(Mails \union {Stop}) /\ Len(queue') <= Tamano
           /\ \A x \in Mails : Mail!Queued(x)' <=> Mail!Queued(x) \/ x = e
           /\ e = Stop \/ ~Mail!Queued(e) =>
                 \A i, j \in 1..Len(queue') : queue'[i] = queue'[j] /\ queue'[i] # Stop => i = j
<1>1. /\ queue' \in Seq(Mails \union {Stop}) /\ Len(queue') = Len(queue) + 1 /\ Len(queue) \in Nat
      /\ queue'[Len(queue) + 1] = e /\ \A i \in 1..Len(queue) : queue'[i] = queue[i]
  BY MailFacts, AppendOf
<1>2. Len(queue') <= Tamano
  BY <1>1, MailFacts
<1>3. DOMAIN queue = 1..Len(queue) /\ DOMAIN queue' = 1..Len(queue) + 1
  BY <1>1, MailFacts
<1>4. \A x \in Mails : Mail!Queued(x)' <=> Mail!Queued(x) \/ x = e
  BY <1>1, <1>3 DEF Mail!Queued
<1>5. ASSUME e = Stop \/ ~Mail!Queued(e), NEW i \in 1..Len(queue'), NEW j \in 1..Len(queue'),
             queue'[i] = queue'[j], queue'[i] # Stop
      PROVE  i = j
  <2>1. \A k \in 1..Len(queue') : k = Len(queue) + 1 \/ k \in 1..Len(queue)
    BY <1>1
  <2>2. e # Stop => \A k \in 1..Len(queue) : queue[k] # e
    BY <1>3, <1>5 DEF Mail!Queued
  <2>3. \A k, l \in 1..Len(queue) : queue[k] = queue[l] /\ queue[k] # Stop => k = l
    BY DEF MailInv, MailPlaces, OneEach
  <2> QED
    BY <1>1, <1>5, <2>1, <2>2, <2>3
<1> QED
  BY <1>1, <1>2, <1>4, <1>5

\* What taking the head of the queue does to it.
LEMMA QueueGives ==
    ASSUME MailInv, queue # <<>>, queue' = Tail(queue)
    PROVE  /\ Head(queue) \in Mails \union {Stop}
           /\ Head(queue) \in Mails => Mail!Queued(Head(queue))
           /\ queue' \in Seq(Mails \union {Stop}) /\ Len(queue') <= Tamano
           /\ \A x \in Mails : Mail!Queued(x)' <=> Mail!Queued(x) /\ x # Head(queue)
           /\ \A i, j \in 1..Len(queue') : queue'[i] = queue'[j] /\ queue'[i] # Stop => i = j
<1>1. /\ Head(queue) \in Mails \union {Stop} /\ Head(queue) = queue[1] /\ Len(queue) \in Nat \ {0}
      /\ queue' \in Seq(Mails \union {Stop}) /\ Len(queue') = Len(queue) - 1
      /\ \A i \in 1..(Len(queue) - 1) : queue'[i] = queue[i + 1]
  BY MailFacts, TailOf
<1>2. DOMAIN queue = 1..Len(queue) /\ DOMAIN queue' = 1..(Len(queue) - 1) /\ Len(queue') <= Tamano
  BY <1>1, MailFacts
<1>3. \A k, l \in 1..Len(queue) : queue[k] = queue[l] /\ queue[k] # Stop => k = l
  BY DEF MailInv, MailPlaces, OneEach
<1>4. \A k \in 1..(Len(queue) - 1) : k + 1 \in 1..Len(queue) /\ k + 1 # 1
  BY <1>1
<1>5. \A k \in 1..Len(queue) : k = 1 \/ \E l \in 1..(Len(queue) - 1) : k = l + 1
  <2> SUFFICES ASSUME NEW k \in 1..Len(queue), k # 1 PROVE \E l \in 1..(Len(queue) - 1) : k = l + 1
    OBVIOUS
  <2>1. k - 1 \in 1..(Len(queue) - 1) /\ k = (k - 1) + 1
    BY <1>1
  <2> QED
    BY <2>1
<1>6. ASSUME NEW x \in Mails PROVE Mail!Queued(x)' <=> Mail!Queued(x) /\ x # Head(queue)
  <2>1. x # Stop
    BY MailFacts
  <2>2. ASSUME NEW k \in 1..(Len(queue) - 1), queue'[k] = x PROVE Mail!Queued(x) /\ x # Head(queue)
    <3>1. queue[k + 1] = x /\ k + 1 \in 1..Len(queue) /\ 1 \in 1..Len(queue) /\ k + 1 # 1
      BY <1>1, <1>4, <2>2
    <3>2. x # queue[1]
      BY <1>3, <2>1, <3>1
    <3> QED
      BY <1>1, <1>2, <3>1, <3>2 DEF Mail!Queued
  <2>3. ASSUME NEW k \in 1..Len(queue), queue[k] = x, x # Head(queue) PROVE Mail!Queued(x)'
    <3>1. PICK l \in 1..(Len(queue) - 1) : k = l + 1
      BY <1>1, <1>5, <2>3
    <3> QED
      BY <1>1, <1>2, <2>3, <3>1 DEF Mail!Queued
  <2> QED
    BY <1>2, <2>2, <2>3 DEF Mail!Queued
<1>7. ASSUME NEW i \in 1..Len(queue'), NEW j \in 1..Len(queue'),
             queue'[i] = queue'[j], queue'[i] # Stop
      PROVE  i = j
  <2>1. /\ i + 1 \in 1..Len(queue) /\ j + 1 \in 1..Len(queue)
        /\ queue[i + 1] = queue[j + 1] /\ queue[i + 1] # Stop /\ i \in Nat /\ j \in Nat
    BY <1>1, <1>7
  <2>2. i + 1 = j + 1
    BY <1>3, <2>1
  <2> QED
    BY <2>1, <2>2
<1>8. Head(queue) \in Mails => Mail!Queued(Head(queue))
  BY <1>1, <1>2 DEF Mail!Queued
<1> QED
  BY <1>1, <1>2, <1>6, <1>7, <1>8

\* A step is about one mail, or about none.
LEMMA OthersStay ==
    ASSUME MailInv, NEW r, OneEach', r \in Mails => PlaceOf(r)',
           \A x \in Mails \ {r} : /\ Mail!Queued(x)' <=> Mail!Queued(x)
                                  /\ Mail!InHand(x)' <=> Mail!InHand(x)
                                  /\ request'[x] = request[x] /\ sent'[x] = sent[x]
    PROVE  /\ MailPlaces'
           /\ r \in Unsent => Unsent' = IF r \in Unsent' THEN Unsent ELSE Unsent \ {r}
           /\ r \notin Mails => Unsent' = Unsent
<1>1. \A x \in Mails \ {r} : PlaceOf(x)'
  BY DEF MailInv, MailPlaces, PlaceOf
<1>2. MailPlaces'
  BY <1>1 DEF MailPlaces
<1>3. \A x \in Mails \ {r} : x \in Unsent' <=> x \in Unsent
  BY DEF Unsent
<1>4. Unsent \subseteq Mails /\ Unsent' \subseteq Mails
  BY DEF Unsent
<1>5. r \notin Mails => Unsent' = Unsent
  BY <1>3, <1>4
<1>6. r \in Unsent => Unsent' = IF r \in Unsent' THEN Unsent ELSE Unsent \ {r}
  BY <1>3, <1>4
<1> QED
  BY <1>2, <1>5, <1>6

\* One of the mails that were counted is sent.
LEMMA OneLess ==
    ASSUME MailInv, NEW r \in Unsent
    PROVE  /\ IsFiniteSet(Unsent \ {r})
           /\ pendientes - 1 = Cardinality(Unsent \ {r}) /\ pendientes - 1 \in Nat
<1>1. IsFiniteSet(Unsent) /\ pendientes = Cardinality(Unsent)
  BY DEF MailInv
<1>2. IsFiniteSet(Unsent \ {r}) /\ Cardinality(Unsent \ {r}) = Cardinality(Unsent) - 1
  BY <1>1, FS_RemoveElement
<1>3. Cardinality(Unsent \ {r}) \in Nat
  BY <1>2, FS_CardinalityType
<1> QED
  BY <1>1, <1>2, <1>3

\* The put of encolar: what was counted is queued.
LEMMA PutKeeps ==
    ASSUME MailInv, NEW r \in Mails, Mail!Put(r)
    PROVE  MailInv'
<1>0. /\ request[r] = "counted" /\ request' = [request EXCEPT ![r] = "accepted"]
      /\ queue' = Append(queue, r) /\ Len(queue) < Tamano
      /\ UNCHANGED <<apagando, hilos, pendientes, worker, sent, closer, joining, stops, late>>
  BY DEF Mail!Put, Mail!requestVars
<1>1. "counted" \in Mail!Entering /\ "accepted" \notin Mail!Entering \union {"new", "refused", "done", "counted"}
  BY DEF Mail!Entering
<1>2. PlaceOf(r) /\ OneEach /\ MailThreads /\ Mail!TypeOK
  BY DEF MailInv, MailPlaces
<1>3. ~Mail!Queued(r) /\ ~Mail!InHand(r) /\ sent[r] = 0
  BY <1>0, <1>1, <1>2 DEF PlaceOf
<1>4. /\ queue' \in Seq(Mails \union {Stop}) /\ Len(queue') <= Tamano
      /\ \A x \in Mails : Mail!Queued(x)' <=> Mail!Queued(x) \/ x = r
      /\ \A i, j \in 1..Len(queue') : queue'[i] = queue'[j] /\ queue'[i] # Stop => i = j
  BY <1>0, <1>3, QueuePuts
<1>5. \A x \in Mails : Mail!InHand(x)' <=> Mail!InHand(x)
  BY <1>0 DEF Mail!InHand
<1>6. /\ request' \in [Mails -> Mail!Entering \union {"new", "refused", "accepted", "done"}]
      /\ request'[r] = "accepted" /\ \A x \in Mails : x # r => request'[x] = request[x]
  BY <1>0, MailFacts
<1>7. OneEach'
  BY <1>0, <1>2, <1>4 DEF OneEach
<1>8. PlaceOf(r)'
  BY <1>0, <1>1, <1>3, <1>4, <1>5, <1>6 DEF PlaceOf
<1>9. r \in Unsent /\ r \in Unsent'
  BY <1>0, <1>4 DEF Unsent
<1>10. MailPlaces' /\ Unsent' = Unsent
  BY <1>0, <1>4, <1>5, <1>6, <1>7, <1>8, <1>9, OthersStay
<1>11. Mail!TypeOK'
  BY <1>0, <1>2, <1>4, <1>6 DEF Mail!TypeOK
<1>12. MailThreads'
  <2>1. ~(closer = "up" /\ hilos = {})
    BY <1>0, <1>2 DEF MailThreads
  <2>2. closer = "off" => \A x \in Mails : request'[x] \in Mail!Entering \/ Mail!Queued(x)' => x \in late
    BY <1>0, <1>1, <1>2, <1>4, <1>6 DEF MailThreads
  <2> QED
    BY <1>0, <1>2, <2>1, <2>2 DEF MailThreads
<1> QED
  BY <1>0, <1>10, <1>11, <1>12 DEF MailInv

\* A worker takes a mail, or the sentinel that ends it.
LEMMA GetKeeps ==
    ASSUME MailInv, NEW w \in Workers, Mail!Get(w)
    PROVE  MailInv'
<1>0. /\ worker[w] = "idle" /\ queue # <<>> /\ queue' = Tail(queue)
      /\ worker' = [worker EXCEPT ![w] = IF Head(queue) = Stop THEN "gone" ELSE Head(queue)]
      /\ UNCHANGED <<apagando, hilos, pendientes, request, sent, closer, joining, stops, late>>
  BY DEF Mail!Get, Mail!requestVars
<1>a. PICK r : r = Head(queue)
  OBVIOUS
<1>1. /\ r \in Mails \union {Stop} /\ (r \in Mails => Mail!Queued(r))
      /\ queue' \in Seq(Mails \union {Stop}) /\ Len(queue') <= Tamano
      /\ \A x \in Mails : Mail!Queued(x)' <=> Mail!Queued(x) /\ x # r
      /\ \A i, j \in 1..Len(queue') : queue'[i] = queue'[j] /\ queue'[i] # Stop => i = j
  BY <1>0, <1>a, QueueGives
<1>2. worker' = [worker EXCEPT ![w] = IF r = Stop THEN "gone" ELSE r]
  BY <1>0, <1>a
<1>3. MailThreads /\ OneEach /\ Mail!TypeOK /\ (r \in Mails => PlaceOf(r))
  BY DEF MailInv, MailPlaces
<1>4. r \in Mails => ~Mail!InHand(r) /\ request[r] = "accepted" /\ sent[r] = 0
  BY <1>1, <1>3 DEF PlaceOf
<1>5. /\ worker' \in [Workers -> {"off", "idle", "gone"} \union Mails]
      /\ worker'[w] = (IF r = Stop THEN "gone" ELSE r)
      /\ \A v \in Workers : v # w => worker'[v] = worker[v]
      /\ worker[w] \notin Mails /\ "gone" \notin Mails /\ Stop \notin Mails
  BY <1>0, <1>1, <1>2, MailFacts
<1>6. \A x \in Mails : Mail!InHand(x)' <=> Mail!InHand(x) \/ x = r
  BY <1>1, <1>5 DEF Mail!InHand
<1>7. \A v \in Workers : worker[v] \in Mails => worker[v] # r
  BY <1>4 DEF Mail!InHand
<1>8. OneEach'
  <2>1. \A u, v \in Workers : worker'[u] = worker'[v] /\ worker'[u] \in Mails => u = v
    BY <1>3, <1>5, <1>7 DEF OneEach
  <2> QED
    BY <1>1, <2>1 DEF OneEach
<1>9. r \in Mails => PlaceOf(r)'
  <2>1. "accepted" \notin {"new", "refused", "done"} \union Mail!Entering
    BY DEF Mail!Entering
  <2> QED
    BY <1>0, <1>1, <1>4, <1>6, <2>1 DEF PlaceOf
<1>10. r \in Mails => r \in Unsent /\ r \in Unsent'
  BY <1>1, <1>6 DEF Unsent
<1>11. \A x \in Mails \ {r} : /\ Mail!Queued(x)' <=> Mail!Queued(x)
                              /\ Mail!InHand(x)' <=> Mail!InHand(x)
                              /\ request'[x] = request[x] /\ sent'[x] = sent[x]
  BY <1>0, <1>1, <1>6
<1>12. MailPlaces' /\ Unsent' = Unsent
  BY <1>8, <1>9, <1>10, <1>11, OthersStay
<1>13. Mail!TypeOK'
  BY <1>0, <1>1, <1>3, <1>5 DEF Mail!TypeOK
<1>14. MailThreads'
  <2>1. \A v \in Workers : v \notin hilos \union joining => worker'[v] = "off"
    BY <1>0, <1>3, <1>5 DEF MailThreads
  <2> QED
    BY <1>0, <1>1, <1>3, <2>1 DEF MailThreads
<1> QED
  BY <1>0, <1>12, <1>13, <1>14 DEF MailInv

\* A mail counted, that somebody had and nobody has any more, reached the server.
LEMMA SentOnce ==
    ASSUME MailInv, NEW r \in Mails, Mail!Queued(r) \/ Mail!InHand(r),
           sent' = [sent EXCEPT ![r] = sent[r] + 1], pendientes' = pendientes - 1, request' = request,
           OneEach', ~Mail!Queued(r)', ~Mail!InHand(r)',
           \A x \in Mails \ {r} : (Mail!Queued(x)' <=> Mail!Queued(x)) /\ (Mail!InHand(x)' <=> Mail!InHand(x))
    PROVE  /\ MailPlaces' /\ sent' \in [Mails -> Nat] /\ pendientes' \in Nat
           /\ IsFiniteSet(Unsent') /\ pendientes' = Cardinality(Unsent')
<1>1. request[r] = "accepted" /\ sent[r] = 0
  BY DEF MailInv, MailPlaces, PlaceOf
<1>2. /\ sent' \in [Mails -> Nat] /\ sent'[r] = 1
      /\ \A x \in Mails \ {r} : sent'[x] = sent[x] /\ request'[x] = request[x]
  BY <1>1, MailFacts
<1>3. "accepted" \notin {"new", "refused", "done", "counted"} \union Mail!Entering
  BY DEF Mail!Entering
<1>4. PlaceOf(r)'
  BY <1>1, <1>2, <1>3 DEF PlaceOf
<1>5. r \in Unsent /\ r \notin Unsent'
  BY <1>1, <1>3 DEF Unsent
<1>6. MailPlaces' /\ Unsent' = Unsent \ {r}
  BY <1>2, <1>4, <1>5, OthersStay
<1> QED
  BY <1>2, <1>5, <1>6, OneLess

\* A worker sends the mail it has in hand.
LEMMA ProcesarKeeps ==
    ASSUME MailInv, NEW w \in Workers, Mail!Procesar(w)
    PROVE  MailInv'
<1>0. PICK r \in Mails : r = worker[w]
  BY DEF Mail!Procesar
<1>1. /\ sent' = [sent EXCEPT ![r] = sent[r] + 1]
      /\ pendientes' = pendientes - 1
      /\ worker' = [worker EXCEPT ![w] = "idle"]
      /\ UNCHANGED <<queue, apagando, hilos, request, closer, joining, stops, late>>
  BY <1>0, Zenon DEF Mail!Procesar, Mail!requestVars
<1>2. MailThreads /\ OneEach /\ Mail!TypeOK /\ PlaceOf(r)
  BY DEF MailInv, MailPlaces
<1>3. /\ worker' \in [Workers -> {"off", "idle", "gone"} \union Mails]
      /\ worker'[w] = "idle" /\ \A v \in Workers : v # w => worker'[v] = worker[v]
      /\ "idle" \notin Mails /\ worker[w] # "off"
  BY <1>0, <1>1, MailFacts
<1>4. OneEach'
  BY <1>1, <1>2, <1>3 DEF OneEach
<1>5. \A x \in Mails : Mail!InHand(x)' <=> Mail!InHand(x) /\ x # r
  <2>1. \A v \in Workers : worker[v] = r => v = w
    BY <1>0, <1>2 DEF OneEach
  <2> QED
    BY <1>0, <1>3, <2>1 DEF Mail!InHand
<1>6. Mail!InHand(r) /\ ~Mail!Queued(r)
  BY <1>0, <1>2 DEF PlaceOf, Mail!InHand
<1>7. \A x \in Mails : Mail!Queued(x)' <=> Mail!Queued(x)
  BY <1>1 DEF Mail!Queued
<1>8. /\ MailPlaces' /\ sent' \in [Mails -> Nat] /\ pendientes' \in Nat
      /\ IsFiniteSet(Unsent') /\ pendientes' = Cardinality(Unsent')
  BY <1>1, <1>4, <1>5, <1>6, <1>7, SentOnce
<1>9. Mail!TypeOK'
  BY <1>1, <1>2, <1>3, <1>8 DEF Mail!TypeOK
<1>10. MailThreads'
  <2>1. \A v \in Workers : v \notin hilos \union joining => worker'[v] = "off"
    BY <1>2, <1>3 DEF MailThreads
  <2> QED
    BY <1>1, <1>2, <1>7, <2>1 DEF MailThreads
<1> QED
  BY <1>8, <1>9, <1>10 DEF MailInv

\* The hand drain takes one element.
LEMMA VaciarKeeps ==
    ASSUME MailInv, Mail!VaciarUno
    PROVE  MailInv'
<1>0. PICK r : r = Head(queue)
  OBVIOUS
<1>1. /\ queue # <<>> /\ queue' = Tail(queue) /\ closer = "draining"
      /\ UNCHANGED <<apagando, hilos, request, worker, closer, joining, stops, late>>
      /\ \/ r = Stop /\ UNCHANGED <<sent, pendientes>>
         \/ r # Stop /\ sent' = [sent EXCEPT ![r] = sent[r] + 1] /\ pendientes' = pendientes - 1
  BY <1>0, Zenon DEF Mail!VaciarUno
<1>2. /\ r \in Mails \union {Stop} /\ (r \in Mails => Mail!Queued(r))
      /\ queue' \in Seq(Mails \union {Stop}) /\ Len(queue') <= Tamano
      /\ \A x \in Mails : Mail!Queued(x)' <=> Mail!Queued(x) /\ x # r
      /\ \A i, j \in 1..Len(queue') : queue'[i] = queue'[j] /\ queue'[i] # Stop => i = j
  BY <1>0, <1>1, QueueGives
<1>3. MailThreads /\ OneEach /\ Mail!TypeOK /\ (r \in Mails => PlaceOf(r))
  BY DEF MailInv, MailPlaces
<1>4. \A x \in Mails : Mail!InHand(x)' <=> Mail!InHand(x)
  BY <1>1 DEF Mail!InHand
<1>5. OneEach'
  BY <1>1, <1>2, <1>3 DEF OneEach
<1>6. /\ MailPlaces' /\ sent' \in [Mails -> Nat] /\ pendientes' \in Nat
      /\ IsFiniteSet(Unsent') /\ pendientes' = Cardinality(Unsent')
  <2>1. CASE r \in Mails
    <3>1. ~Mail!InHand(r) /\ Mail!Queued(r) /\ ~Mail!Queued(r)' /\ ~Mail!InHand(r)' /\ r # Stop
      BY <1>2, <1>3, <1>4, <2>1, MailFacts DEF PlaceOf
    <3>2. /\ request' = request /\ sent' = [sent EXCEPT ![r] = sent[r] + 1] /\ pendientes' = pendientes - 1
          /\ \A x \in Mails \ {r} : (Mail!Queued(x)' <=> Mail!Queued(x)) /\ (Mail!InHand(x)' <=> Mail!InHand(x))
      BY <1>1, <1>2, <1>4, <3>1
    <3> QED
      BY <1>5, <2>1, <3>1, <3>2, SentOnce
  <2>2. CASE r \notin Mails
    <3>1. r = Stop /\ UNCHANGED <<sent, pendientes, request>>
      BY <1>1, <1>2, <2>2
    <3>2. \A x \in Mails \ {r} : /\ Mail!Queued(x)' <=> Mail!Queued(x)
                                 /\ Mail!InHand(x)' <=> Mail!InHand(x)
                                 /\ request'[x] = request[x] /\ sent'[x] = sent[x]
      BY <1>2, <1>4, <3>1
    <3>3. MailPlaces' /\ Unsent' = Unsent
      BY <1>5, <2>2, <3>2, OthersStay
    <3> QED
      BY <3>1, <3>3 DEF MailInv, Mail!TypeOK
  <2> QED
    BY <2>1, <2>2
<1>7. Mail!TypeOK'
  BY <1>1, <1>2, <1>3, <1>6 DEF Mail!TypeOK
<1>8. MailThreads'
  BY <1>1, <1>2, <1>3 DEF MailThreads
<1> QED
  BY <1>6, <1>7, <1>8 DEF MailInv

\* The steps of the one that closes, but for the hand drain: no mail moves.
LEMMA CerrarKeeps ==
    ASSUME MailInv,
           Mail!Apagar \/ Mail!Esperar \/ Mail!PutStop \/ Mail!Join \/ Mail!VaciarFin
    PROVE  MailInv'
<1>1. UNCHANGED <<pendientes, request, worker, sent>>
  BY DEF Mail!Apagar, Mail!Esperar, Mail!PutStop, Mail!Join, Mail!VaciarFin
<1>2. MailThreads /\ OneEach /\ Mail!TypeOK
  BY DEF MailInv, MailPlaces
<1>3. /\ queue' \in Seq(Mails \union {Stop}) /\ Len(queue') <= Tamano /\ OneEach'
      /\ \A x \in Mails : Mail!Queued(x)' <=> Mail!Queued(x)
  <2>1. CASE queue' = queue
    BY <1>1, <1>2, <2>1, SameHands, MailFacts
  <2>2. CASE queue' # queue
    <3>1. queue' = Append(queue, Stop) /\ Len(queue) < Tamano
      BY <2>2 DEF Mail!Apagar, Mail!Esperar, Mail!PutStop, Mail!Join, Mail!VaciarFin
    <3>2. /\ queue' \in Seq(Mails \union {Stop}) /\ Len(queue') <= Tamano
          /\ \A x \in Mails : Mail!Queued(x)' <=> Mail!Queued(x) \/ x = Stop
          /\ \A i, j \in 1..Len(queue') : queue'[i] = queue'[j] /\ queue'[i] # Stop => i = j
      BY <3>1, QueuePuts
    <3>3. OneEach'
      BY <1>1, <1>2, <3>2 DEF OneEach
    <3> QED
      BY <3>2, <3>3, MailFacts
  <2> QED
    BY <2>1, <2>2
<1>4. \A x \in Mails : Mail!InHand(x)' <=> Mail!InHand(x)
  BY <1>1 DEF Mail!InHand
<1>5. MailPlaces' /\ Unsent' = Unsent
  <2>1. \A x \in Mails : PlaceOf(x)'
    BY <1>1, <1>3, <1>4 DEF MailInv, MailPlaces, PlaceOf
  <2>2. Unsent' = Unsent
    BY <1>1, <1>3, <1>4 DEF Unsent
  <2> QED
    BY <1>3, <2>1, <2>2 DEF MailPlaces
<1>6. /\ Cardinality(Workers) \in Nat /\ Mail!Cardinality(Workers) = Cardinality(Workers)
      /\ Mail!Cardinality({}) = 0
  BY MailFacts, MailCards, FS_CardinalityType, FS_EmptySet
<1>7. CASE Mail!Apagar
  <2>1. /\ closer = "up" /\ apagando' = TRUE /\ joining' = hilos /\ hilos' = {}
        /\ closer' = IF hilos = {} THEN "off" ELSE "waiting"
        /\ late' = IF hilos = {} THEN Mail!Inside ELSE late
        /\ UNCHANGED <<queue, stops>>
    BY <1>7 DEF Mail!Apagar
  <2>2. Mail!TypeOK'
    BY <1>1, <1>2, <1>3, <2>1 DEF Mail!TypeOK, Mail!Inside
  <2>3. closer' = "off" => \A x \in Mails : request[x] \in Mail!Entering \/ Mail!Queued(x) => x \in late'
    <3> SUFFICES ASSUME hilos = {}, NEW x \in Mails PROVE request[x] \in Mail!Entering \/ Mail!Queued(x) => x \in late'
      BY <2>1
    <3>1. ~Mail!Queued(x)
      BY <1>2, <2>1 DEF MailThreads, MailInv, MailPlaces, PlaceOf
    <3> QED
      BY <2>1, <3>1 DEF Mail!Inside
  <2>4. MailThreads'
    BY <1>1, <1>2, <1>3, <2>1, <2>3 DEF MailThreads
  <2> QED
    BY <1>1, <1>5, <2>2, <2>4 DEF MailInv
<1>8. CASE Mail!Esperar \/ Mail!Join
  <2>1. /\ UNCHANGED <<queue, apagando, hilos, joining, late>>
        /\ closer \in {"waiting", "stopping"} /\ closer' \in {"stopping", "draining"}
        /\ stops' = stops \/ stops' = Mail!Cardinality(joining)
    BY <1>8 DEF Mail!Esperar, Mail!Join
  <2>2. stops' \in 0 .. Mail!Cardinality(Workers)
    <3>1. stops \in 0 .. Mail!Cardinality(Workers) /\ (joining = {} \/ joining = Workers)
      BY <1>2 DEF Mail!TypeOK
    <3>2. Mail!Cardinality(joining) \in 0 .. Mail!Cardinality(Workers)
      <4>1. CASE joining = {}
        BY <1>6, <4>1
      <4>2. CASE joining = Workers
        BY <1>6, <4>2
      <4> QED
        BY <3>1, <4>1, <4>2
    <3> QED
      BY <2>1, <3>1, <3>2
  <2>3. Mail!TypeOK'
    BY <1>1, <1>2, <2>1, <2>2 DEF Mail!TypeOK
  <2>4. MailThreads'
    BY <1>1, <1>2, <2>1 DEF MailThreads
  <2> QED
    BY <1>1, <1>5, <2>3, <2>4 DEF MailInv
<1>9. CASE Mail!PutStop
  <2>1. /\ UNCHANGED <<apagando, hilos, joining, late, closer>> /\ stops' \in 0 .. Mail!Cardinality(Workers)
    BY <1>2, <1>6, <1>9 DEF Mail!PutStop, Mail!TypeOK
  <2>2. Mail!TypeOK'
    BY <1>1, <1>2, <1>3, <2>1 DEF Mail!TypeOK
  <2>3. MailThreads'
    BY <1>1, <1>2, <1>3, <2>1 DEF MailThreads
  <2> QED
    BY <1>1, <1>5, <2>2, <2>3 DEF MailInv
<1>10. CASE Mail!VaciarFin
  <2>1. /\ UNCHANGED <<queue, apagando, hilos, joining, stops>> /\ queue = <<>>
        /\ closer = "draining" /\ closer' = "off" /\ late' = Mail!Inside
    BY <1>10 DEF Mail!VaciarFin
  <2>2. Mail!TypeOK'
    BY <1>1, <1>2, <2>1 DEF Mail!TypeOK, Mail!Inside
  <2>3. \A x \in Mails : ~Mail!Queued(x)'
    BY <2>1 DEF Mail!Queued
  <2>4. MailThreads'
    BY <1>1, <1>2, <2>1, <2>3 DEF MailThreads, Mail!Inside
  <2> QED
    BY <1>1, <1>5, <2>2, <2>4 DEF MailInv
<1> QED
  BY <1>7, <1>8, <1>9, <1>10

\* The invariant of the mail queue is inductive.
LEMMA MailKeeps == MailInv /\ [Mail!Next]_mailVars => MailInv'
<1> SUFFICES ASSUME MailInv, [Mail!Next]_mailVars PROVE MailInv'
  OBVIOUS
<1>1. ASSUME NEW r \in Mails, Mail!Encolar(r) PROVE MailInv'
  BY <1>1, EncolarKeeps, ArrancarKeeps, PutKeeps DEF Mail!Encolar
<1>2. ASSUME NEW w \in Workers, Mail!Trabajar(w) PROVE MailInv'
  BY <1>2, GetKeeps, ProcesarKeeps DEF Mail!Trabajar
<1>3. CASE Mail!Apagar \/ Mail!Cerrar
  BY <1>3, CerrarKeeps, VaciarKeeps DEF Mail!Cerrar
<1>4. CASE UNCHANGED mailVars
  <2>1. UNCHANGED <<queue, apagando, hilos, pendientes, request, worker, closer, joining, stops, sent, late>>
    BY <1>4 DEF mailVars
  <2>2. /\ OneEach'
        /\ \A r \in Mails : (Mail!Queued(r)' <=> Mail!Queued(r)) /\ (Mail!InHand(r)' <=> Mail!InHand(r))
    BY <2>1, SameHands
  <2>3. MailPlaces' /\ Unsent' = Unsent
    BY <2>1, <2>2 DEF MailInv, MailPlaces, PlaceOf, Unsent
  <2>4. MailThreads' /\ Mail!TypeOK'
    BY <2>1, <2>2 DEF MailInv, MailThreads, Mail!TypeOK
  <2> QED
    BY <2>1, <2>3, <2>4 DEF MailInv
<1> QED
  BY <1>1, <1>2, <1>3, <1>4 DEF Mail!Next

-----------------------------------------------------------------------------
(* The row locks: an order of all the rows that every plan ascends.        *)

P == INSTANCE RowLocksProofs WITH Callers <- Services \cup Offline

\* Documents first, then each variant and right after it its stock row.
Rank == [row \in Rows |-> CASE row[1] = "document" -> 0
                            [] row[1] = "variant" -> 2 * row[2] - 1
                            [] row[1] = "stock" -> 2 * row[2]]

\* The ranks of the rows are bounded.
LEMMA RanksBounded == Rank \in [Rows -> 0 .. 2 * Variants]
<1> SUFFICES ASSUME NEW row \in Rows PROVE Rank[row] \in 0 .. 2 * Variants
  BY DEF Rank
<1> USE StockLocksAssumption
<1>1. CASE row \in {"document"} \X Documents
  <2>1. row[1] = "document"
    BY <1>1
  <2> QED
    BY <2>1 DEF Rank
<1>2. CASE row \in {"variant"} \X (1 .. Variants)
  <2>1. row[1] = "variant" /\ row[2] \in 1 .. Variants
    BY <1>2
  <2>2. Rank[row] = 2 * row[2] - 1
    BY <2>1 DEF Rank
  <2> QED
    BY <2>1, <2>2
<1>3. CASE row \in {"stock"} \X (1 .. Variants)
  <2>1. row[1] = "stock" /\ row[2] \in 1 .. Variants
    BY <1>3
  <2>2. Rank[row] = 2 * row[2]
    BY <2>1 DEF Rank
  <2> QED
    BY <2>1, <2>2
<1> QED
  BY <1>1, <1>2, <1>3 DEF Rows

\* An element of a sequence over S is in S.
LEMMA Element == ASSUME NEW S, NEW s \in Seq(S), NEW i \in 1 .. Len(s) PROVE s[i] \in S
OBVIOUS

\* A sequence with one element before it.
LEMMA Prepended ==
    ASSUME NEW S, NEW e \in S, NEW s \in Seq(S)
    PROVE  /\ <<e>> \o s \in Seq(S)
           /\ Len(<<e>> \o s) = Len(s) + 1
           /\ (<<e>> \o s)[1] = e
           /\ \A k \in 1 .. Len(s) : (<<e>> \o s)[k + 1] = s[k]
OBVIOUS

\* Requests 2 i - 1 and 2 i of the lines are the variant and the stock row of
\* line i.
Line(k) == (k + 1) \div 2

Request(p, k) == <<IF k % 2 = 1 THEN "variant" ELSE "stock", Lines[p][Line(k)]>>

\* Each line of an operation asks for two rows of its plan.
LEMMA LinesOfPlan ==
    ASSUME NEW p \in Services \cup Offline
    PROVE  /\ Len(Lines[p]) \in Nat
           /\ \A k \in 1 .. 2 * Len(Lines[p]) :
                /\ Line(k) \in 1 .. Len(Lines[p])
                /\ Line(k) \in DOMAIN Lines[p]
                /\ Lines[p][Line(k)] \in 1 .. Variants
                /\ Request(p, k) \in Rows
<1>1. Lines[p] \in Seq(1 .. Variants) /\ Len(Lines[p]) \in Nat /\ DOMAIN Lines[p] = 1 .. Len(Lines[p])
  BY StockLocksAssumption
<1>2. ASSUME NEW n \in Nat, NEW k \in 1 .. 2 * n PROVE Line(k) \in 1 .. n
  BY DEF Line
<1>3. \A k \in 1 .. 2 * Len(Lines[p]) : Line(k) \in 1 .. Len(Lines[p])
  BY <1>1, <1>2
<1>4. \A k \in 1 .. 2 * Len(Lines[p]) : Lines[p][Line(k)] \in 1 .. Variants
  BY <1>1, <1>3, Element
<1>5. \A k \in 1 .. 2 * Len(Lines[p]) : Request(p, k) \in Rows
  BY <1>4 DEF Request, Rows
<1> QED
  BY <1>1, <1>3, <1>4, <1>5

\* The variant and the stock row of every line, one after the other.
LEMMA StockRequests ==
    ASSUME NEW p \in Services \cup Offline
    PROVE  /\ LockedStock(Lines[p]) = [k \in 1 .. 2 * Len(Lines[p]) |-> Request(p, k)]
           /\ LockedStock(Lines[p]) \in Seq(Rows)
           /\ Len(LockedStock(Lines[p])) = 2 * Len(Lines[p])
<1>1. LockedStock(Lines[p]) = [k \in 1 .. 2 * Len(Lines[p]) |-> Request(p, k)]
  BY DEF LockedStock, Request, Line
<1>2. 2 * Len(Lines[p]) \in Nat
  BY LinesOfPlan
<1>3. LockedStock(Lines[p]) \in [1 .. 2 * Len(Lines[p]) -> Rows]
  BY <1>1, LinesOfPlan
<1>4. ASSUME NEW n \in Nat, NEW s \in [1 .. n -> Rows] PROVE s \in Seq(Rows) /\ Len(s) = n
  OBVIOUS
<1> QED
  BY <1>1, <1>2, <1>3, <1>4

\* The requests of an operation that only uses StockService.
LEMMA ServiceRequests ==
    ASSUME NEW p \in Services
    PROVE  /\ ServicePlan(p) \in Seq(Rows)
           /\ Len(ServicePlan(p)) = 2 * Len(Lines[p]) + 1
           /\ ServicePlan(p)[1] = <<"document", Document[p]>>
           /\ <<"document", Document[p]>> \in Rows
           /\ \A k \in 1 .. 2 * Len(Lines[p]) : ServicePlan(p)[k + 1] = Request(p, k)
<1>1. <<"document", Document[p]>> \in Rows
  BY StockLocksAssumption DEF Rows
<1>2. /\ LockedStock(Lines[p]) = [k \in 1 .. 2 * Len(Lines[p]) |-> Request(p, k)]
      /\ LockedStock(Lines[p]) \in Seq(Rows)
      /\ Len(LockedStock(Lines[p])) = 2 * Len(Lines[p])
  BY StockRequests
<1> QED
  BY <1>1, <1>2, Prepended DEF ServicePlan

\* Every plan asks for rows there are, those of the offline sales too.
LEMMA PlansOfRows == P!PlansAreOrders
<1>1. ASSUME NEW p \in Offline PROVE OfflinePlan(p) \in Seq(Rows)
  <2>1. /\ Lines[p] \in Seq(1 .. Variants) /\ Len(Lines[p]) \in Nat
        /\ DOMAIN Lines[p] = 1 .. Len(Lines[p])
    BY StockLocksAssumption
  <2>2. \A i \in 1 .. Len(Lines[p]) : <<"stock", Lines[p][i]>> \in Rows
    BY <2>1, Element DEF Rows
  <2>3. [i \in 1 .. Len(Lines[p]) |-> <<"stock", Lines[p][i]>>] \in Seq(Rows)
    BY <2>1, <2>2
  <2>4. LockedStock(Lines[p]) \in Seq(Rows)
    BY StockRequests
  <2>5. \A S : \A s, t \in Seq(S) : s \o t \in Seq(S)
    OBVIOUS
  <2>6. OfflinePlan(p) = [i \in 1 .. Len(Lines[p]) |-> <<"stock", Lines[p][i]>>] \o LockedStock(Lines[p])
    BY <2>1 DEF OfflinePlan
  <2> QED
    BY <2>3, <2>4, <2>5, <2>6
<1>2. Plan \in [Services \cup Offline -> Seq(Rows)]
  BY <1>1, ServiceRequests DEF Plan
<1> QED
  BY <1>2 DEF P!PlansAreOrders

\* A line asks for its product and then for its stock row.
LEMMA RankOfRequest ==
    ASSUME NEW p \in Services, NEW k \in 1 .. 2 * Len(Lines[p])
    PROVE  Rank[Request(p, k)] = IF k % 2 = 1 THEN 2 * Lines[p][Line(k)] - 1
                                             ELSE 2 * Lines[p][Line(k)]
BY LinesOfPlan DEF Rank, Request

\* Sorted lines, the variant before its stock row, and both rows of a repeated
\* line already asked for: what an earlier request ranks.
LEMMA RequestsAscend ==
    ASSUME NEW p \in Services, NEW m \in 1 .. 2 * Len(Lines[p])
    PROVE  \/ \E k \in 1 .. (m - 1) : Request(p, k) = Request(p, m)
           \/ \A k \in 1 .. (m - 1) : Rank[Request(p, k)] < Rank[Request(p, m)]
<1> SUFFICES ASSUME \A k \in 1 .. (m - 1) : Request(p, k) # Request(p, m),
                    NEW k \in 1 .. (m - 1)
             PROVE  Rank[Request(p, k)] < Rank[Request(p, m)]
  OBVIOUS
<1>1. Len(Lines[p]) \in Nat /\ m \in Nat /\ k \in Nat /\ k < m /\ k \in 1 .. 2 * Len(Lines[p])
  BY LinesOfPlan
<1>2. Line(k) <= Line(m) /\ Line(k) \in Int /\ Line(m) \in Int
  BY <1>1 DEF Line
<1>3. /\ Lines[p][Line(k)] \in Int
      /\ Lines[p][Line(m)] \in Int
      /\ Lines[p][Line(k)] <= Lines[p][Line(m)]
  <2>1. /\ Line(k) \in DOMAIN Lines[p] /\ Line(m) \in DOMAIN Lines[p]
        /\ Lines[p][Line(k)] \in 1 .. Variants /\ Lines[p][Line(m)] \in 1 .. Variants
    BY <1>1, LinesOfPlan
  <2>2. Lines[p][Line(k)] \in Int /\ Lines[p][Line(m)] \in Int
    BY <2>1
  <2>3. CASE Line(k) < Line(m)
    BY <2>1, <2>3, LinesSorted
  <2>4. CASE Line(k) = Line(m)
    BY <2>2, <2>4
  <2> QED
    BY <1>2, <2>2, <2>3, <2>4
<1>4. /\ Rank[Request(p, k)] = IF k % 2 = 1 THEN 2 * Lines[p][Line(k)] - 1
                                            ELSE 2 * Lines[p][Line(k)]
      /\ Rank[Request(p, m)] = IF m % 2 = 1 THEN 2 * Lines[p][Line(m)] - 1
                                            ELSE 2 * Lines[p][Line(m)]
  BY <1>1, RankOfRequest
<1>5. CASE Lines[p][Line(k)] < Lines[p][Line(m)]
  BY <1>4, <1>3, <1>5
<1>6. CASE Lines[p][Line(k)] = Lines[p][Line(m)]
  <2>1. ~(k % 2 = 1 /\ m % 2 = 1) /\ ~(k % 2 # 1 /\ m % 2 # 1)
    BY <1>6 DEF Request
  <2>2. CASE k % 2 # 1 /\ m % 2 = 1
    \* The variant of k's line was asked for one request earlier.
    <3>1. k - 1 \in 1 .. (m - 1) /\ (k - 1) % 2 = 1 /\ Line(k - 1) = Line(k)
      BY <1>1, <2>2 DEF Line
    <3>2. Request(p, k - 1) = Request(p, m)
      BY <1>6, <2>2, <3>1 DEF Request
    <3> QED
      BY <3>1, <3>2
  <2>3. CASE k % 2 = 1 /\ m % 2 # 1
    BY <1>4, <1>3, <1>6, <2>3
  <2> QED
    BY <2>1, <2>2, <2>3
<1> QED
  BY <1>3, <1>5, <1>6

\* The plan of a service asks for a row again or for one of a higher rank.
LEMMA ServicesAscend ==
    ASSUME NEW p \in Services, NEW j \in 1 .. Len(ServicePlan(p))
    PROVE  \/ \E i \in 1 .. (j - 1) : ServicePlan(p)[i] = ServicePlan(p)[j]
           \/ \A i \in 1 .. (j - 1) : Rank[ServicePlan(p)[i]] < Rank[ServicePlan(p)[j]]
<1>1. Len(Lines[p]) \in Nat /\ Len(ServicePlan(p)) = 2 * Len(Lines[p]) + 1
  BY LinesOfPlan, ServiceRequests
<1>2. CASE j = 1
  BY <1>2
<1>3. CASE j # 1
  <2>1. PICK m \in 1 .. 2 * Len(Lines[p]) : j = m + 1
    <3>1. j - 1 \in 1 .. 2 * Len(Lines[p]) /\ j = (j - 1) + 1
      BY <1>1, <1>3
    <3> QED
      BY <3>1
  <2>2. ServicePlan(p)[j] = Request(p, m)
    BY <2>1, ServiceRequests
  <2>3. \A i \in 1 .. (j - 1) : i = 1 \/ \E k \in 1 .. (m - 1) : i = k + 1
    <3> SUFFICES ASSUME NEW i \in 1 .. (j - 1), i # 1 PROVE \E k \in 1 .. (m - 1) : i = k + 1
      OBVIOUS
    <3>1. i - 1 \in 1 .. (m - 1) /\ i = (i - 1) + 1
      BY <2>1
    <3> QED
      BY <3>1
  <2>4. \A k \in 1 .. (m - 1) : k \in 1 .. 2 * Len(Lines[p]) /\ k + 1 \in 1 .. (j - 1)
    BY <1>1, <2>1
  <2>5. CASE \E k \in 1 .. (m - 1) : Request(p, k) = Request(p, m)
    <3>1. PICK k \in 1 .. (m - 1) : Request(p, k) = Request(p, m)
      BY <2>5
    <3>2. ServicePlan(p)[k + 1] = Request(p, k)
      BY <2>4, ServiceRequests
    <3> QED
      BY <2>2, <2>4, <3>1, <3>2
  <2>6. CASE \A k \in 1 .. (m - 1) : Rank[Request(p, k)] < Rank[Request(p, m)]
    <3>1. Rank[ServicePlan(p)[1]] = 0
      <4>1. <<"document", Document[p]>>[1] = "document"
        OBVIOUS
      <4>2. Rank[<<"document", Document[p]>>] = 0
        BY <4>1, ServiceRequests DEF Rank
      <4> QED
        BY <4>2, ServiceRequests
    <3>2. 0 < Rank[Request(p, m)]
      <4>1. Lines[p][Line(m)] \in Int /\ 0 < Lines[p][Line(m)]
        BY LinesOfPlan, StockLocksAssumption
      <4> QED
        BY <4>1, RankOfRequest
    <3>3. ASSUME NEW i \in 1 .. (j - 1) PROVE Rank[ServicePlan(p)[i]] < Rank[ServicePlan(p)[j]]
      <4>1. CASE i = 1
        BY <2>2, <3>1, <3>2, <4>1
      <4>2. ASSUME NEW k \in 1 .. (m - 1), i = k + 1 PROVE Rank[ServicePlan(p)[i]] < Rank[ServicePlan(p)[j]]
        <5>1. ServicePlan(p)[i] = Request(p, k)
          BY <2>4, <4>2, ServiceRequests
        <5> QED
          BY <2>2, <2>6, <5>1
      <4> QED
        BY <2>3, <4>1, <4>2
    <3> QED
      BY <3>3
  <2> QED
    BY <2>5, <2>6, RequestsAscend
<1> QED
  BY <1>2, <1>3

\* What RowLocksProofs says of its transactions holds of these.
LEMMA LocksStart == Locks!Init => TypeOK
<1>1. Locks!Init => P!Init
  BY DEF Locks!Init, P!Init
<1>2. P!TypeOK => TypeOK
  BY DEF TypeOK, Locks!TypeOK, P!TypeOK, Locks!Held, P!Held
<1> QED
  BY <1>1, <1>2, PlansOfRows, P!OwnersInit

\* No step of the locks gives a row two owners.
LEMMA LocksKeep == TypeOK /\ [Locks!Next]_got => TypeOK'
<1>1. TypeOK <=> P!TypeOK
  BY DEF TypeOK, Locks!TypeOK, P!TypeOK, Locks!Held, P!Held
<1>2. TypeOK' <=> P!TypeOK'
  BY DEF TypeOK, Locks!TypeOK, P!TypeOK, Locks!Held, P!Held
<1>3. [Locks!Next]_got => [P!Next]_got
  BY DEF Locks!Next, P!Next, Locks!Lock, P!Lock, Locks!Commit, P!Commit, Locks!Asking, P!Asking,
         Locks!WaitsFor, P!WaitsFor, Locks!Wanted, P!Wanted, Locks!Held, P!Held
<1> QED
  BY <1>1, <1>2, <1>3, PlansOfRows, P!OwnersStep

\* Where all share the order of the rows, some member of a group that waits
\* waits for nobody in it.
LEMMA LocksHaveNoCircle == Offline = {} /\ TypeOK => NoWaitCycle
<1> SUFFICES ASSUME Offline = {}, TypeOK PROVE NoWaitCycle
  OBVIOUS
<1>1. P!Ascending(Rank)
  BY ServicesAscend DEF Plan, P!Ascending
<1>2. 2 * Variants \in Nat
  BY StockLocksAssumption
<1>3. P!TypeOK
  BY DEF TypeOK, Locks!TypeOK, P!TypeOK, Locks!Held, P!Held
<1>4. P!NoWaitCycle
  BY <1>1, <1>2, <1>3, RanksBounded, PlansOfRows, P!AscentBreaksCycles
<1> QED
  BY <1>4 DEF NoWaitCycle, Locks!NoWaitCycle, P!NoWaitCycle, Locks!Asking, P!Asking,
              Locks!WaitsFor, P!WaitsFor, Locks!Wanted, P!Wanted, Locks!Held, P!Held

-----------------------------------------------------------------------------
(* All the parts: one moves, the others stay as they are.                  *)

\* The invariants of the five parts.
BackgroundInv == TypeOK /\ MailInv /\ OutboxInv /\ TryInv /\ JobInv

\* However many transactions, mails, deliveries, photos and ticks there are, the
\* invariants of the parts hold throughout.
THEOREM BackgroundInvariant == BackgroundSpec => []BackgroundInv
<1>1. BackgroundInit => BackgroundInv
  BY LocksStart, MailStarts, OutboxStarts, TryOnStarts, JobsStart DEF BackgroundInit, BackgroundInv
<1>2. BackgroundInv /\ [BackgroundNext]_backgroundVars => BackgroundInv'
  <2>1. TypeOK /\ [Locks!Next]_got => TypeOK'
    BY LocksKeep
  <2>2. [BackgroundNext]_backgroundVars =>
           /\ [Locks!Next]_got /\ [Mail!Next]_mailVars /\ [Outbox!OutboxNext]_outboxVars
           /\ [TryOnNext]_tryOnVars /\ [JobRunnerNext]_jobRunnerVars
    BY Zenon DEF BackgroundNext, Locking, Mailing, Delivering, TryingOn, RunningJobs, backgroundVars
  <2> QED
    BY <2>1, <2>2, MailKeeps, OutboxKeeps, TryOnKeeps, JobsKeep DEF BackgroundInv
<1> QED
  BY <1>1, <1>2, PTL DEF BackgroundSpec

\* The types of the variables of the five parts.
THEOREM BackgroundTypes == BackgroundSpec => []TypesOK
<1>1. BackgroundInv => TypesOK
  BY MailSeen, TryOnSeen DEF BackgroundInv, OutboxInv, JobInv, TypesOK
<1> QED
  BY <1>1, BackgroundInvariant, PTL

\* Whatever the operations and their lines, those that only use StockService
\* never wait for one another in a circle.
THEOREM ServicesNeverDeadlock ==
    ASSUME Offline = {}
    PROVE  BackgroundSpec => []NoWaitCycle
<1>1. BackgroundInv => NoWaitCycle
  BY LocksHaveNoCircle DEF BackgroundInv
<1> QED
  BY <1>1, BackgroundInvariant, PTL

\* However many requests, workers and places in the queue, the counter that
\* apagar waits for is exact, no mail is sent twice, nobody is left to join and
\* what remains in the queue is late.
THEOREM MailIsAccounted == BackgroundSpec => []MailAccounted
<1>1. BackgroundInv => MailAccounted
  BY MailSeen DEF BackgroundInv
<1> QED
  BY <1>1, BackgroundInvariant, PTL

\* However the batches are cut, lost and written over one another, a delivery
\* marked delivered was accepted and one given up was posted every time.
THEOREM OutboxIsTrue == BackgroundSpec => []StatusIsTrue
<1>1. BackgroundInv => StatusIsTrue
  BY DEF BackgroundInv, OutboxInv, StatusIsTrue
<1> QED
  BY <1>1, BackgroundInvariant, PTL

\* However many calls meet on a job, what a customer asked to erase is gone and
\* an image that nobody polled for at once is made once and kept.
THEOREM PhotosAreKept == BackgroundSpec => []TryOnKept
<1>1. BackgroundInv => TryOnKept
  BY TryOnSeen DEF BackgroundInv, TryOnKept
<1> QED
  BY <1>1, BackgroundInvariant, PTL

\* However many ticks meet and connections there are, the body of a scheduled
\* job runs once at a time.
THEOREM JobsRunAlone == BackgroundSpec => []OneRunAtATime
<1>1. BackgroundInv => OneRunAtATime
  BY OneRuns DEF BackgroundInv
<1> QED
  BY <1>1, BackgroundInvariant, PTL

=============================================================================
