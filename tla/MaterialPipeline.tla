-------------------------- MODULE MaterialPipeline --------------------------
(***************************************************************************)
(* A material from its upload to its deletion: the requests that create,    *)
(* retry and delete it (lib/services/materials.ts), and the workers that    *)
(* run processMaterial on it, statement by statement, with the chunk rows   *)
(* that replaceChunks (lib/rag/embed.ts) writes and the stored file         *)
(* (lib/storage).                                                          *)
(*                                                                         *)
(* The material's job keeps of JobQueue what the pipeline can see: there is *)
(* no clock, so a waiting job may be claimed at any time, and a lock may    *)
(* expire when no worker holds the job (LockHeld, in JobQueue) or, if       *)
(* Overruns, at any time.                                                  *)
(***************************************************************************)
EXTENDS Integers, FiniteSets

CONSTANTS
    Materials,        \* material ids
    Workers,          \* worker processes
    Requests,         \* API requests that may be under way at once
    NoMaterial,       \* "no material": not a member of Materials
    Concepts,         \* names the concept extraction may return
    DraftCounts,      \* how many chunks a document may be cut into
    BatchSize,        \* EMBED_BATCH_SIZE
    MaxAttempts,      \* JOB_MAX_ATTEMPTS
    MaxRetries,       \* bound on retry requests
    MaxWorkerFaults,  \* bound on crashes and database errors of the workers
    MaxRequestFaults, \* bound on requests that die between two steps
    Overruns,         \* may a run outlive the lock timeout?
    InFlightRetries   \* may a retry take effect while a worker runs the job?

ASSUME PipelineAssumption ==
    /\ NoMaterial \notin Materials
    /\ DraftCounts \subseteq Nat
    /\ BatchSize \in Nat \ {0}
    /\ MaxAttempts \in Nat \ {0}
    /\ MaxRetries \in Nat
    /\ MaxWorkerFaults \in Nat
    /\ MaxRequestFaults \in Nat
    /\ Overruns \in BOOLEAN
    /\ InFlightRetries \in BOOLEAN

VARIABLES
    material,  \* Material rows: status, and chunkCount of the last MATERIAL_READY event
    file,      \* is the uploaded document in storage?
    chunks,    \* Chunk rows: ord, the run whose ids they have, is there an embedding?
    linked,    \* MaterialConcept rows
    job,       \* the material's MATERIAL_PROCESS job
    worker,    \* where each worker is in its run, and what it has computed
    request,   \* where each API request is
    retries,   \* retries so far
    faults     \* faults so far, of the workers and of the requests

rows == <<material, file, chunks, linked, job>>
vars == <<material, file, chunks, linked, job, worker, request, retries, faults>>

-----------------------------------------------------------------------------
(* Types *)

Ords == UNION {1..n : n \in DraftCounts}

MaterialStatus == {"NONE", "QUEUED", "PROCESSING", "READY", "FAILED", "GONE"}

\* A job row has an id of its own: a row created after a deletion is another job.
\* "NONE": there is no row (id rows of the material have come and gone).
JobStatus == {"NONE", "PENDING", "RUNNING", "COMPLETED", "FAILED", "DEAD"}
MaxRows == MaxRetries + 1
\* As AttemptsBounded and ImplementsLifecycle, in JobQueue.
Attempts == 0..(IF Overruns \/ InFlightRetries THEN MaxAttempts + Cardinality(Workers) - 1
                                               ELSE MaxAttempts)
Job == [id : 0..MaxRows, status : JobStatus, attempts : Attempts]

Chunk == [ord : Ords, run : Workers, embedded : BOOLEAN]

\* The statement a run is about to make, by the name of its function.
InTry == {"get", "deleteChunks", "createChunks", "embed", "extract", "ready"}
RunStep == {"find", "mark", "caught", "complete", "fail"} \cup InTry

Run == [at : RunStep \cup {"idle"}, material : Materials \cup {NoMaterial},
        id : 0..MaxRows, attempts : Attempts, drafts : DraftCounts \cup {0}, done : Ords \cup {0}]

RequestStep == {"idle", "create", "enqueue", "mark", "requeue", "adminRequeue", "deleteRows"}
Request == [at : RequestStep, material : Materials \cup {NoMaterial}]

Idle == [at |-> "idle", material |-> NoMaterial, id |-> 0, attempts |-> 0,
         drafts |-> 0, done |-> 0]
Closed == [at |-> "idle", material |-> NoMaterial]

Exists(m) == material[m].status \notin {"NONE", "GONE"}
HasJob(m) == job[m].status # "NONE"
HasRow(w) == HasJob(worker[w].material) /\ job[worker[w].material].id = worker[w].id
Waits(m) == job[m].status \in {"PENDING", "FAILED"}
InProcess(m) == \E w \in Workers : worker[w].material = m
Held(m) == \E w \in Workers : worker[w].material = m /\ worker[w].id = job[m].id
Requested(m) == \E r \in Requests : request[r].material = m

SetStatus(m, status) == material' = [material EXCEPT ![m].status = status]
SetJob(m, status) == job' = [job EXCEPT ![m].status = status]

-----------------------------------------------------------------------------
Init ==
    /\ material = [m \in Materials |-> [status |-> "NONE", announced |-> 0]]
    /\ file = [m \in Materials |-> FALSE]
    /\ chunks = [m \in Materials |-> {}]
    /\ linked = [m \in Materials |-> {}]
    /\ job = [m \in Materials |-> [id |-> 0, status |-> "NONE", attempts |-> 0]]
    /\ worker = [w \in Workers |-> Idle]
    /\ request = [r \in Requests |-> Closed]
    /\ retries = 0
    /\ faults = [worker |-> 0, request |-> 0]

-----------------------------------------------------------------------------
(* Requests.  A request is a sequence of statements; it opens on a material,
   and each step says at which statement it goes on. *)

Open(r, m, at) ==
    /\ request[r] = Closed
    /\ request' = [request EXCEPT ![r] = [at |-> at, material |-> m]]

GoOn(r, at) == request' = [request EXCEPT ![r].at = at]
Close(r) == request' = [request EXCEPT ![r] = Closed]
At(r, at) == request[r].at = at

\* createMaterial: the file is stored under a fresh id ...
Upload(r, m) ==
    /\ material[m].status = "NONE" /\ ~file[m]
    /\ Open(r, m, "create")
    /\ file' = [file EXCEPT ![m] = TRUE]
    /\ UNCHANGED <<material, chunks, linked, job, worker, retries, faults>>

\* ... then the row is created ...
CreateMaterial(r) ==
    /\ At(r, "create")
    /\ SetStatus(request[r].material, "QUEUED")
    /\ GoOn(r, "enqueue")
    /\ UNCHANGED <<file, chunks, linked, job, worker, retries, faults>>

\* ... then the job.  retryMaterial ends here too when it found no job to reset.
Enqueue(r) ==
    LET m == request[r].material IN
    /\ At(r, "enqueue")
    /\ job' = [job EXCEPT ![m] =
          IF HasJob(m) THEN @ ELSE [id |-> @.id + 1, status |-> "PENDING", attempts |-> 0]]
    /\ Close(r)
    /\ UNCHANGED <<material, file, chunks, linked, worker, retries, faults>>

\* The window in which a retry may take effect, unless InFlightRetries.
Undisturbed(m) == InFlightRetries \/ ~InProcess(m)

\* retryMaterial: the material is there.  The page offers the retry of a material it
\* shows as FAILED, but the service looks at no status: it may be any by now ...
Retry(r, m) ==
    /\ retries < MaxRetries
    /\ Exists(m)
    /\ Open(r, m, "mark")
    /\ retries' = retries + 1
    /\ UNCHANGED <<rows, worker, faults>>

\* ... it is QUEUED again, if it is still there (P2025 otherwise) ...
RetryMarks(r) ==
    LET m == request[r].material IN
    /\ At(r, "mark")
    /\ Undisturbed(m)
    /\ \/ Exists(m) /\ SetStatus(m, "QUEUED") /\ GoOn(r, "requeue")
       \/ ~Exists(m) /\ UNCHANGED material /\ Close(r)
    /\ UNCHANGED <<file, chunks, linked, job, worker, retries, faults>>

\* ... and its job is reset, whatever the job is doing; retryJob of the admin
\* page resets it without touching the material.
Requeue(r) ==
    LET m == request[r].material IN
    /\ At(r, "requeue") \/ At(r, "adminRequeue")
    /\ Undisturbed(m)
    /\ \/ /\ HasJob(m)
          /\ job' = [job EXCEPT ![m].status = "PENDING", ![m].attempts = 0]
          /\ Close(r)
       \/ ~HasJob(m) /\ At(r, "requeue") /\ UNCHANGED job /\ GoOn(r, "enqueue")
       \/ ~HasJob(m) /\ At(r, "adminRequeue") /\ UNCHANGED job /\ Close(r)
    /\ UNCHANGED <<material, file, chunks, linked, worker, retries, faults>>

AdminRetry(r, m) ==
    /\ retries < MaxRetries
    /\ job[m].status \in {"FAILED", "DEAD"}
    /\ Open(r, m, "adminRequeue")
    /\ retries' = retries + 1
    /\ UNCHANGED <<rows, worker, faults>>

\* deleteMaterial: the stored file first ...
DeleteFile(r, m) ==
    /\ Exists(m)
    /\ Open(r, m, "deleteRows")
    /\ file' = [file EXCEPT ![m] = FALSE]
    /\ UNCHANGED <<material, chunks, linked, job, worker, retries, faults>>

\* The row goes, and with it its chunks and its concept links (onDelete: Cascade).
RowsGo(m) ==
    /\ SetStatus(m, "GONE")
    /\ chunks' = [chunks EXCEPT ![m] = {}]
    /\ linked' = [linked EXCEPT ![m] = {}]

\* ... then the row and the job, in one transaction.
DeleteRows(r) ==
    LET m == request[r].material IN
    /\ At(r, "deleteRows")
    /\ \/ Exists(m) /\ RowsGo(m) /\ job' = [job EXCEPT ![m].status = "NONE", ![m].attempts = 0]
       \/ ~Exists(m) /\ UNCHANGED <<material, chunks, linked, job>>
    /\ Close(r)
    /\ UNCHANGED <<file, worker, retries, faults>>

\* deleteProject and deleteSpace: the rows go by cascade, the job and the file stay.
DeleteProject(m) ==
    /\ Exists(m)
    /\ RowsGo(m)
    /\ UNCHANGED <<file, job, worker, request, retries, faults>>

RequestStepOf(r) ==
    CreateMaterial(r) \/ Enqueue(r) \/ RetryMarks(r) \/ Requeue(r) \/ DeleteRows(r)

-----------------------------------------------------------------------------
(* Workers *)

Proceed(w, at) == worker' = [worker EXCEPT ![w].at = at]
On(w, at) == worker[w].at = at

\* claimNextJob
Claim(w) ==
    /\ worker[w] = Idle
    /\ \E m \in Materials :
          /\ Waits(m)
          /\ job' = [job EXCEPT ![m].status = "RUNNING", ![m].attempts = @ + 1]
          /\ worker' = [worker EXCEPT ![w] =
                [Idle EXCEPT !.at = "find", !.material = m,
                             !.id = job[m].id, !.attempts = job[m].attempts + 1]]
    /\ UNCHANGED <<material, file, chunks, linked, request, retries, faults>>

\* processMaterial: a material that is gone fails the job ...
Find(w) ==
    /\ On(w, "find")
    /\ Proceed(w, IF Exists(worker[w].material) THEN "mark" ELSE "fail")
    /\ UNCHANGED <<rows, request, retries, faults>>

\* ... one that is there is marked, unless it has gone meanwhile.
Mark(w) ==
    LET m == worker[w].material IN
    /\ On(w, "mark")
    /\ \/ Exists(m) /\ SetStatus(m, "PROCESSING") /\ Proceed(w, "get")
       \/ ~Exists(m) /\ UNCHANGED material /\ Proceed(w, "fail")
    /\ UNCHANGED <<file, chunks, linked, job, request, retries, faults>>

\* The document is read, parsed, completed by OCR and cut into drafts.  It may
\* also prove unreadable; it does when the file is not in storage.
GetDocument(w) ==
    /\ On(w, "get")
    /\ \/ /\ file[worker[w].material]
          /\ \E n \in DraftCounts :
                worker' = [worker EXCEPT ![w].at = "deleteChunks", ![w].drafts = n]
       \/ Proceed(w, "caught")
    /\ UNCHANGED <<rows, request, retries, faults>>

\* Mutant: the chunks of the previous run are left in place.
DeleteNoChunks(w) ==
    /\ On(w, "deleteChunks")
    /\ Proceed(w, IF worker[w].drafts = 0 THEN "extract" ELSE "createChunks")
    /\ UNCHANGED <<rows, request, retries, faults>>

\* replaceChunks: the old chunks go ...
DeleteChunks(w) ==
    /\ On(w, "deleteChunks")
    /\ chunks' = [chunks EXCEPT ![worker[w].material] = {}]
    /\ Proceed(w, IF worker[w].drafts = 0 THEN "extract" ELSE "createChunks")
    /\ UNCHANGED <<material, file, linked, job, request, retries, faults>>

\* ... the new ones come, but for the ords that are taken (skipDuplicates) ...
CreateChunks(w) ==
    LET m == worker[w].material
        taken == {c.ord : c \in chunks[m]}
    IN
    /\ On(w, "createChunks")
    /\ \/ /\ Exists(m)
          /\ chunks' = [chunks EXCEPT ![m] = @ \cup
                [ord : (1..worker[w].drafts) \ taken, run : {w}, embedded : {FALSE}]]
          /\ Proceed(w, "embed")
       \/ ~Exists(m) /\ UNCHANGED chunks /\ Proceed(w, "caught")
    /\ UNCHANGED <<material, file, linked, job, request, retries, faults>>

\* Mutant: the loop ends one batch early.
EmbedAllButLast(w) ==
    LET m == worker[w].material
        last == worker[w].done + BatchSize
        Embedded(c) == [c EXCEPT !.embedded = @ \/ (c.run = w /\ c.ord <= last)]
    IN
    /\ On(w, "embed")
    /\ \/ /\ chunks' = [chunks EXCEPT ![m] = {Embedded(c) : c \in @}]
          /\ worker' = [worker EXCEPT
                ![w].at = IF last + BatchSize >= worker[w].drafts THEN "extract" ELSE "embed",
                ![w].done = IF last > worker[w].drafts THEN worker[w].drafts ELSE last]
       \/ UNCHANGED chunks /\ Proceed(w, "caught")
    /\ UNCHANGED <<material, file, linked, job, request, retries, faults>>

\* ... and a batch of them gets its embeddings, by id; the provider may fail.
EmbedBatch(w) ==
    LET m == worker[w].material
        last == worker[w].done + BatchSize
        Embedded(c) == [c EXCEPT !.embedded = @ \/ (c.run = w /\ c.ord <= last)]
    IN
    /\ On(w, "embed")
    /\ \/ /\ chunks' = [chunks EXCEPT ![m] = {Embedded(c) : c \in @}]
          /\ worker' = [worker EXCEPT
                ![w].at = IF last >= worker[w].drafts THEN "extract" ELSE "embed",
                ![w].done = IF last > worker[w].drafts THEN worker[w].drafts ELSE last]
       \/ UNCHANGED chunks /\ Proceed(w, "caught")
    /\ UNCHANGED <<material, file, linked, job, request, retries, faults>>

\* extractAndPersistConcepts: the provider may fail, and a link needs its material.
ExtractConcepts(w) ==
    LET m == worker[w].material IN
    /\ On(w, "extract")
    /\ \/ \E found \in SUBSET Concepts :
             /\ found # {} => Exists(m)
             /\ linked' = [linked EXCEPT ![m] = @ \cup found]
             /\ Proceed(w, "ready")
       \/ UNCHANGED linked /\ Proceed(w, "caught")
    /\ UNCHANGED <<material, file, chunks, job, request, retries, faults>>

\* READY, and the MATERIAL_READY event with its chunkCount, in one transaction.
MarkReady(w) ==
    LET m == worker[w].material IN
    /\ On(w, "ready")
    /\ \/ /\ Exists(m)
          /\ material' = [material EXCEPT ![m] =
                [status |-> "READY", announced |-> worker[w].drafts]]
          /\ Proceed(w, "complete")
       \/ ~Exists(m) /\ UNCHANGED material /\ Proceed(w, "caught")
    /\ UNCHANGED <<file, chunks, linked, job, request, retries, faults>>

\* Mutant: the error is recorded on the material but not thrown again.
MarkFailedSwallowing(w) ==
    LET m == worker[w].material IN
    /\ On(w, "caught")
    /\ \/ Exists(m) /\ SetStatus(m, "FAILED") /\ Proceed(w, "complete")
       \/ ~Exists(m) /\ UNCHANGED material /\ Proceed(w, "fail")
    /\ UNCHANGED <<file, chunks, linked, job, request, retries, faults>>

\* The catch block: FAILED and its event, then the error goes on to the job.
MarkFailed(w) ==
    LET m == worker[w].material IN
    /\ On(w, "caught")
    /\ \/ Exists(m) /\ SetStatus(m, "FAILED")
       \/ ~Exists(m) /\ UNCHANGED material
    /\ Proceed(w, "fail")
    /\ UNCHANGED <<file, chunks, linked, job, request, retries, faults>>

\* completeJob, by id alone; it throws if the row is gone.
CompleteJob(w) ==
    LET m == worker[w].material IN
    /\ On(w, "complete")
    /\ \/ HasRow(w) /\ SetJob(m, "COMPLETED") /\ worker' = [worker EXCEPT ![w] = Idle]
       \/ ~HasRow(w) /\ UNCHANGED job /\ Proceed(w, "fail")
    /\ UNCHANGED <<material, file, chunks, linked, request, retries, faults>>

\* Mutant: one attempt too many.
OutcomeLate(attempts) == IF attempts > MaxAttempts THEN "DEAD" ELSE "FAILED"

Outcome(attempts) == IF attempts >= MaxAttempts THEN "DEAD" ELSE "FAILED"

\* failJob, by id alone, from the attempts of the worker's copy of the row.
FailJob(w) ==
    LET m == worker[w].material IN
    /\ On(w, "fail")
    /\ \/ HasRow(w) /\ SetJob(m, Outcome(worker[w].attempts))
       \/ ~HasRow(w) /\ UNCHANGED job
    /\ worker' = [worker EXCEPT ![w] = Idle]
    /\ UNCHANGED <<material, file, chunks, linked, request, retries, faults>>

WorkerStep(w) ==
    \/ Claim(w) \/ Find(w) \/ Mark(w) \/ GetDocument(w)
    \/ DeleteChunks(w) \/ CreateChunks(w) \/ EmbedBatch(w)
    \/ ExtractConcepts(w) \/ MarkReady(w) \/ MarkFailed(w)
    \/ CompleteJob(w) \/ FailJob(w)

\* Mutant: a lost job with no attempt left stays as it is.
ReclaimWithAttemptsLeft(m) ==
    /\ job[m].status = "RUNNING" /\ job[m].attempts < MaxAttempts
    /\ Overruns \/ ~Held(m)
    /\ SetJob(m, Outcome(job[m].attempts))
    /\ UNCHANGED <<material, file, chunks, linked, worker, request, retries, faults>>

\* reclaimStaleJobs
Reclaim(m) ==
    /\ job[m].status = "RUNNING"
    /\ Overruns \/ ~Held(m)
    /\ SetJob(m, Outcome(job[m].attempts))
    /\ UNCHANGED <<material, file, chunks, linked, worker, request, retries, faults>>

-----------------------------------------------------------------------------
(* Faults *)

WorkerFault ==
    /\ faults.worker < MaxWorkerFaults
    /\ faults' = [faults EXCEPT !.worker = @ + 1]

\* The worker process dies, and is started again.
WorkerCrash(w) ==
    /\ WorkerFault
    /\ worker[w] # Idle
    /\ worker' = [worker EXCEPT ![w] = Idle]
    /\ UNCHANGED <<rows, request, retries>>

\* A statement of the run does not reach the database: inside the try block the
\* error is caught, elsewhere it goes on to failJob; if failJob itself cannot
\* be recorded, the loop goes on.
WorkerDatabaseError(w) ==
    /\ WorkerFault
    /\ \/ worker[w].at \in InTry /\ Proceed(w, "caught")
       \/ worker[w].at \in {"find", "mark", "caught", "complete"} /\ Proceed(w, "fail")
       \/ On(w, "fail") /\ worker' = [worker EXCEPT ![w] = Idle]
    /\ UNCHANGED <<rows, request, retries>>

\* A request ends half way: its process dies, or its next statement fails.
RequestDies(r) ==
    /\ faults.request < MaxRequestFaults
    /\ faults' = [faults EXCEPT !.request = @ + 1]
    /\ request[r] # Closed
    /\ Close(r)
    /\ UNCHANGED <<rows, worker, retries>>

-----------------------------------------------------------------------------
Next ==
    \/ \E m \in Materials : Reclaim(m) \/ DeleteProject(m)
    \/ \E r \in Requests :
          \/ \E m \in Materials :
                Upload(r, m) \/ Retry(r, m) \/ AdminRetry(r, m) \/ DeleteFile(r, m)
          \/ RequestStepOf(r)
          \/ RequestDies(r)
    \/ \E w \in Workers : WorkerStep(w) \/ WorkerCrash(w) \/ WorkerDatabaseError(w)

Spec == Init /\ [][Next]_vars

\* Workers and requests under way go on, and stale locks are reclaimed in the
\* end.  Nobody is obliged to upload, retry or delete.
Fairness ==
    /\ \A w \in Workers : WF_vars(WorkerStep(w))
    /\ \A r \in Requests : WF_vars(RequestStepOf(r))
    /\ \A m \in Materials : WF_vars(Reclaim(m))

FairSpec == Spec /\ Fairness

-----------------------------------------------------------------------------
(* Properties *)

\* Every row, run and request has the fields of its type.
TypeOK ==
    /\ material \in [Materials -> [status : MaterialStatus, announced : DraftCounts \cup {0}]]
    /\ file \in [Materials -> BOOLEAN]
    /\ chunks \in [Materials -> SUBSET Chunk]
    /\ linked \in [Materials -> SUBSET Concepts]
    /\ job \in [Materials -> Job]
    /\ worker \in [Workers -> Run]
    /\ request \in [Requests -> Request]
    /\ retries \in 0..MaxRetries
    /\ faults \in [worker : 0..MaxWorkerFaults, request : 0..MaxRequestFaults]

\* A READY material can be searched: it has the chunks its MATERIAL_READY event
\* announced, every one with its embedding (an un-embedded chunk is invisible
\* to retrieval), even after crashes and repeated runs; and every material has its
\* document, but while a deletion is between its two steps, or died there.
ReadyIsComplete ==
    /\ TypeOK
    /\ \A m \in Materials : material[m].status = "READY" =>
          /\ {c.ord : c \in chunks[m]} = 1..material[m].announced
          /\ \A c \in chunks[m] : c.embedded
    /\ \A m \in Materials : Exists(m) =>
          \/ file[m] \/ faults.request > 0
          \/ \E r \in Requests : request[r] = [at |-> "deleteRows", material |-> m]

\* The chunks of a material all come from one run of replaceChunks: "a partially
\* failed run leaves the material with no chunks rather than a mixture of old
\* and new" (lib/rag/embed.ts).
OneChunkSet ==
    \A m \in Materials : \A c, d \in chunks[m] :
        c.run = d.run /\ (c.ord = d.ord => c = d)

\* A COMPLETED job stands for a READY material, unless a retry is under way or
\* died half way: no run leaves behind a material it claims to have processed.
CompletedMeansReady ==
    \A m \in Materials : job[m].status = "COMPLETED" =>
        material[m].status \in {"READY", "GONE"} \/ Requested(m) \/ faults.request > 0

\* Row i of material m, as the callers of the queue see it.
Phase(m, i) ==
    IF i > job[m].id THEN "absent"
    ELSE IF i < job[m].id \/ job[m].status = "NONE" THEN "gone"
    ELSE CASE job[m].status \in {"PENDING", "FAILED"} -> "waiting"
           [] job[m].status = "RUNNING" -> "working"
           [] job[m].status = "COMPLETED" -> "done"
           [] job[m].status = "DEAD" -> "dead"

JobRows == Materials \X (1..MaxRows)
Life ==
    [r \in JobRows |->
        [phase |-> Phase(r[1], r[2]),
         tries |-> IF job[r[1]].id = r[2] THEN job[r[1]].attempts ELSE 0]]

Lifecycle == INSTANCE JobLifecycle WITH Jobs <- JobRows, life <- Life

\* With timely runs and no retry in flight, the job protocol inside the pipeline
\* is the one JobQueue provides.
JobsAsPromised == Lifecycle!Spec

\* No live job leaves its material waiting for ever: what remains QUEUED or
\* PROCESSING has a job that is dead-lettered (its worker died on the last attempt:
\* nothing tells the material), was completed by an overtaken run, or was never
\* enqueued.  And a job that outlives its material (a retry that lost against the
\* deletion, a deleted project) does not run for ever.
JobsEnd == \A m \in Materials :
    /\ material[m].status \in {"QUEUED", "PROCESSING"} ~>
          \/ material[m].status \in {"READY", "FAILED", "GONE"}
          \/ job[m].status \in {"NONE", "COMPLETED", "DEAD"}
    /\ material[m].status = "GONE" ~> job[m].status \notin {"PENDING", "RUNNING", "FAILED"}
=============================================================================
