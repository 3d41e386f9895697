----------------------------- MODULE TryOnJobs -----------------------------
(***************************************************************************)
(* The photos a client asks of the try-on service                          *)
(* (src/src/tryon_ai_jobs): a job is created with the photo of the person, *)
(* a poll of its state generates the image, and cancelling, deleting or    *)
(* expiring the job takes the files off the disk.                          *)
(*                                                                         *)
(* Files are not transactional: they are stored and removed at once, while *)
(* the row changes at the commit.  The flush that marks a job `processing' *)
(* takes the lock of its row, so the other writers wait for the image; the *)
(* mark itself is never committed alone and nobody else reads it.          *)
(***************************************************************************)
EXTENDS Integers, FiniteSets

CONSTANTS Jobs, TryOnCalls,
          MaxImages,    \* bound of the images generated for one job
          NobodyTryOn   \* no call

VARIABLES rows,       \* what is committed: the status and image of each job
          lock,       \* the call that holds the lock of the row
          photo,      \* whether the photo of the person is on disk
          images,     \* the generated images of each job on disk
          made,       \* how many images were generated for each job
          lapsed,       \* jobs past their expires_at
          tryOns,     \* the calls in progress
          disturbed   \* ghost: jobs polled twice at once, or cut off by a crash

tryOnVars == <<rows, lock, photo, images, made, lapsed, tryOns, disturbed>>

\* Mutant: a job with its image ready is processed by the next poll.
ActivosConListos == {"queued", "processing", "ready"}

ACTIVOS == {"queued", "processing"}
Kept == {"ready", "failed"}
Erased == {"cancelled", "expired", "deleted"}
NoImage == 0

Fresh == [status |-> "none", image |-> NoImage]
Row == [status : {"none"} \union ACTIVOS \union Kept \union Erased, image : 0..MaxImages]

Steps == {"creating", "polled", "marked", "generating", "failing", "stored"} \union Erased

TryOnCallType == [job : Jobs, row : Row, step : Steps]

ASSUME TryOnAssumption ==
    /\ NobodyTryOn \notin TryOnCalls \union TryOnCallType
    /\ MaxImages \in Nat

On(j) == {c \in TryOnCalls : tryOns[c] # NobodyTryOn /\ tryOns[c].job = j}
At(c, step) == tryOns[c] # NobodyTryOn /\ tryOns[c].step = step
JobOf(c) == tryOns[c].job
Exists(j) == rows[j].status \notin {"none", "deleted"}

Move(c, step) == tryOns' = [tryOns EXCEPT ![c].step = step]
Leave(c) == tryOns' = [tryOns EXCEPT ![c] = NobodyTryOn]

-----------------------------------------------------------------------------
\* CrearTrabajo: the photo is stored, then the row committed.
StorePhoto(c, j) ==
    /\ tryOns[c] = NobodyTryOn
    /\ rows[j].status = "none" /\ On(j) = {} /\ ~photo[j]
    /\ photo' = [photo EXCEPT ![j] = TRUE]
    /\ tryOns' = [tryOns EXCEPT ![c] = [job |-> j, row |-> rows[j], step |-> "creating"]]
    /\ UNCHANGED <<rows, lock, images, made, lapsed, disturbed>>

Create(c) ==
    /\ At(c, "creating")
    /\ rows' = [rows EXCEPT ![JobOf(c)].status = "queued"]
    /\ Leave(c)
    /\ UNCHANGED <<lock, photo, images, made, lapsed, disturbed>>

\* The hours the photo may live are over.
Lapse(j) ==
    /\ Exists(j)
    /\ j \notin lapsed
    /\ lapsed' = lapsed \union {j}
    /\ UNCHANGED <<rows, lock, photo, images, made, tryOns, disturbed>>

\* ConsultarTrabajo reads the row and finds a job to process.
Poll(c, j) ==
    /\ tryOns[c] = NobodyTryOn
    /\ rows[j].status \in ACTIVOS
    /\ j \notin lapsed
    /\ tryOns' = [tryOns EXCEPT ![c] = [job |-> j, row |-> rows[j], step |-> "polled"]]
    /\ disturbed' = IF \E d \in On(j) : tryOns[d].step \in {"polled", "marked", "generating", "stored"}
                    THEN disturbed \union {j} ELSE disturbed
    /\ UNCHANGED <<rows, lock, photo, images, made, lapsed>>

\* procesar_trabajo: the flush waits for the row; a row gone ends the call.
Mark(c) ==
    /\ At(c, "polled")
    /\ lock[JobOf(c)] = NobodyTryOn
    /\ IF Exists(JobOf(c))
       THEN Move(c, "marked") /\ lock' = [lock EXCEPT ![JobOf(c)] = c]
       ELSE Leave(c) /\ UNCHANGED lock
    /\ UNCHANGED <<rows, photo, images, made, lapsed, disturbed>>

\* archivos.descargar of the photo: without it the job fails.
Download(c) ==
    /\ At(c, "marked")
    /\ Move(c, IF photo[JobOf(c)] THEN "generating" ELSE "failing")
    /\ UNCHANGED <<rows, lock, photo, images, made, lapsed, disturbed>>

\* proveedor.generar and store_image, or an error of the provider.
Generate(c) ==
    /\ At(c, "generating")
    /\ LET j == JobOf(c)
       IN  /\ made[j] < MaxImages
           /\ made' = [made EXCEPT ![j] = @ + 1]
           /\ images' = [images EXCEPT ![j] = @ \union {made[j] + 1}]
           /\ tryOns' = [tryOns EXCEPT ![c].step = "stored", ![c].row.image = made[j] + 1]
    /\ UNCHANGED <<rows, lock, photo, lapsed, disturbed>>

GenerateFails(c) ==
    /\ At(c, "generating")
    /\ Move(c, "failing")
    /\ UNCHANGED <<rows, lock, photo, images, made, lapsed, disturbed>>

\* The commit of procesar_trabajo: only the columns it assigned.
Finish(c) ==
    /\ At(c, "stored") \/ At(c, "failing")
    /\ rows' = [rows EXCEPT ![JobOf(c)] =
                  IF At(c, "stored") THEN [status |-> "ready", image |-> tryOns[c].row.image]
                                     ELSE [@ EXCEPT !.status = "failed"]]
    /\ lock' = [lock EXCEPT ![JobOf(c)] = NobodyTryOn]
    /\ Leave(c)
    /\ UNCHANGED <<photo, images, made, lapsed, disturbed>>

-----------------------------------------------------------------------------
\* borrar_archivo of the photo and of the image the call read in the row.
Erase(c, j, step) ==
    /\ tryOns[c] = NobodyTryOn
    /\ photo' = [photo EXCEPT ![j] = FALSE]
    /\ images' = [images EXCEPT ![j] = @ \ {rows[j].image}]
    /\ tryOns' = [tryOns EXCEPT ![c] = [job |-> j, row |-> rows[j], step |-> step]]
    /\ UNCHANGED <<rows, lock, made, lapsed, disturbed>>

Cancel(c, j) == rows[j].status \in ACTIVOS /\ Erase(c, j, "cancelled")
Delete(c, j) == Exists(j) /\ Erase(c, j, "deleted")
Expire(c, j) == j \in lapsed /\ rows[j].status \in ACTIVOS \union Kept \union {"cancelled"}
                           /\ Erase(c, j, "expired")

\* Their commit: waits for the row; an UPDATE of a row gone fails.
CommitErased(c) ==
    /\ \E s \in Erased : At(c, s)
    /\ lock[JobOf(c)] = NobodyTryOn
    /\ rows' = IF Exists(JobOf(c)) THEN [rows EXCEPT ![JobOf(c)].status = tryOns[c].step]
                                   ELSE rows
    /\ Leave(c)
    /\ UNCHANGED <<lock, photo, images, made, lapsed, disturbed>>

\* The process dies: its transaction is rolled back, its files stay.
Crash(c) ==
    /\ tryOns[c] # NobodyTryOn
    /\ lock' = [j \in Jobs |-> IF lock[j] = c THEN NobodyTryOn ELSE lock[j]]
    /\ disturbed' = disturbed \union {JobOf(c)}
    /\ Leave(c)
    /\ UNCHANGED <<rows, photo, images, made, lapsed>>

TryOnInit ==
    /\ rows = [j \in Jobs |-> Fresh]
    /\ lock = [j \in Jobs |-> NobodyTryOn]
    /\ photo = [j \in Jobs |-> FALSE]
    /\ images = [j \in Jobs |-> {}]
    /\ made = [j \in Jobs |-> 0]
    /\ lapsed = {}
    /\ tryOns = [c \in TryOnCalls |-> NobodyTryOn]
    /\ disturbed = {}

TryOnCall(c) ==
    \/ \E j \in Jobs : \/ StorePhoto(c, j) \/ Poll(c, j)
                       \/ Cancel(c, j) \/ Delete(c, j) \/ Expire(c, j)
    \/ Create(c) \/ Mark(c) \/ Download(c) \/ Generate(c) \/ GenerateFails(c)
    \/ Finish(c) \/ CommitErased(c) \/ Crash(c)

TryOnNext == (\E c \in TryOnCalls : TryOnCall(c)) \/ (\E j \in Jobs : Lapse(j))

TryOnSpec == TryOnInit /\ [][TryOnNext]_tryOnVars

-----------------------------------------------------------------------------
TryOnTypeOK ==
    /\ rows \in [Jobs -> Row]
    /\ lock \in [Jobs -> TryOnCalls \union {NobodyTryOn}]
    /\ photo \in [Jobs -> BOOLEAN]
    /\ images \in [Jobs -> SUBSET (1..MaxImages)]
    /\ made \in [Jobs -> 0..MaxImages]
    /\ lapsed \subseteq Jobs /\ disturbed \subseteq Jobs
    /\ tryOns \in [TryOnCalls -> {NobodyTryOn} \union TryOnCallType]

\* The photo of the person does not outlive the job: whoever cancelled, deleted
\* or let expire, with a generation under way or not, it is off the disk when
\* the row says so.
PhotoGone == \A j \in Jobs : rows[j].status \in Erased => ~photo[j]

\* A job is generated (and paid to the provider) once, and the image its row
\* names is on the disk until somebody erases it, unless two polls had read the
\* job unfinished at the same time or a process died in the middle.
GeneratedOnce ==
    \A j \in Jobs \ disturbed :
        /\ made[j] <= 1
        /\ rows[j].status = "ready" =>
              \/ rows[j].image \in images[j]
              \/ \E c \in On(j) : tryOns[c].step \in Erased

=============================================================================
