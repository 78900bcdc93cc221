----------------------- MODULE MaterialPipelineProofs -----------------------
(* Theorems about MaterialPipeline, for every value of its constants: with     *)
(* timely runs and no retry in flight, as in the run that checks them.         *)
EXTENDS MaterialPipeline, FiniteSetTheorems, TLAPS

\* Every step is one of the actions, or leaves everything as it is.
LEMMA StepCases ==
    ASSUME [Next]_vars
    PROVE  \/ \E m \in Materials : Reclaim(m)
           \/ \E m \in Materials : DeleteProject(m)
           \/ \E r \in Requests, m \in Materials : Upload(r, m)
           \/ \E r \in Requests, m \in Materials : Retry(r, m)
           \/ \E r \in Requests, m \in Materials : AdminRetry(r, m)
           \/ \E r \in Requests, m \in Materials : DeleteFile(r, m)
           \/ \E r \in Requests : CreateMaterial(r)
           \/ \E r \in Requests : Enqueue(r)
           \/ \E r \in Requests : RetryMarks(r)
           \/ \E r \in Requests : Requeue(r)
           \/ \E r \in Requests : DeleteRows(r)
           \/ \E r \in Requests : RequestDies(r)
           \/ \E w \in Workers : Claim(w)
           \/ \E w \in Workers : Find(w)
           \/ \E w \in Workers : Mark(w)
           \/ \E w \in Workers : GetDocument(w)
           \/ \E w \in Workers : DeleteChunks(w)
           \/ \E w \in Workers : CreateChunks(w)
           \/ \E w \in Workers : EmbedBatch(w)
           \/ \E w \in Workers : ExtractConcepts(w)
           \/ \E w \in Workers : MarkReady(w)
           \/ \E w \in Workers : MarkFailed(w)
           \/ \E w \in Workers : CompleteJob(w)
           \/ \E w \in Workers : FailJob(w)
           \/ \E w \in Workers : WorkerCrash(w)
           \/ \E w \in Workers : WorkerDatabaseError(w)
           \/ UNCHANGED vars
  BY Zenon DEF Next, RequestStepOf, WorkerStep

Timely == ~Overruns /\ ~InFlightRetries

-----------------------------------------------------------------------------
(* The parts of the inductive invariant *)

\* The requests that may still create a job row for m.
Creating == {"create", "enqueue", "mark", "requeue"}
Pending(m) == {r \in Requests : request[r].material = m /\ request[r].at \in Creating}

\* Every job row of m goes back to its upload, or to a retry.
Origins(m) == (IF file[m] \/ material[m].status # "NONE" THEN 1 ELSE 0) + retries

RowInv == \A m \in Materials :
    /\ Waits(m) => job[m].attempts < MaxAttempts
    /\ IsFiniteSet(Pending(m)) /\ job[m].id + Cardinality(Pending(m)) <= Origins(m)
    /\ HasJob(m) => job[m].id >= 1
    /\ Exists(m) => job[m].id <= 1 /\ (job[m].id = 1 => HasJob(m))
    /\ material[m].status = "NONE" => job[m].id = 0

\* Only the request that uploaded a material finds it without a row.
RequestInv ==
    /\ \A r \in Requests : request[r].at = "idle" <=> request[r].material = NoMaterial
    /\ \A r \in Requests : request[r].at # "idle" =>
          (request[r].at = "create" <=> material[request[r].material].status = "NONE")
    /\ \A r \in Requests : request[r].at = "create" => file[request[r].material]
    /\ \A r, s \in Requests :
          request[r].at = "create" /\ request[s].at = "create"
              /\ request[r].material = request[s].material => r = s

\* A job row has at most one run, and while it has one it is RUNNING.
RunInv ==
    /\ \A w \in Workers : worker[w].at = "idle" <=> worker[w].material = NoMaterial
    /\ \A w \in Workers : worker[w].at # "idle" =>
          /\ worker[w].id \in 1..job[worker[w].material].id
          /\ HasRow(w) => /\ job[worker[w].material].status = "RUNNING"
                          /\ job[worker[w].material].attempts = worker[w].attempts
    /\ \A v, w \in Workers :
          worker[v].at # "idle" /\ worker[v].material = worker[w].material
              /\ worker[v].id = worker[w].id => v = w

TypeInv == TypeOK /\ RowInv /\ RequestInv /\ RunInv

\* What a run of replaceChunks on an existing material has made of its chunks.
Whole(m, n) == {c.ord : c \in chunks[m]} = 1..n
Embeds(w, m) ==
    /\ worker[w].at \in InTry \cup {"caught"} => material[m].status = "PROCESSING"
    /\ worker[w].at = "createChunks" => chunks[m] = {}
    /\ worker[w].at \in {"embed", "extract", "ready"} =>
          Whole(m, worker[w].drafts) /\ \A c \in chunks[m] : c.run = w
    /\ worker[w].at = "embed" => \A c \in chunks[m] : c.ord <= worker[w].done => c.embedded
    /\ worker[w].at \in {"extract", "ready"} => \A c \in chunks[m] : c.embedded
    /\ worker[w].at = "complete" => material[m].status = "READY"

\* The chunks of a material, whatever its status and its runs.
ChunksOf(m) ==
    /\ \A c, d \in chunks[m] : c.run = d.run /\ (c.ord = d.ord => c = d)
    /\ ~Exists(m) => chunks[m] = {}
    /\ Exists(m) => \A w \in Workers : worker[w].material = m => Embeds(w, m)
    /\ material[m].status = "READY" =>
          Whole(m, material[m].announced) /\ \A c \in chunks[m] : c.embedded

\* How far a run has come with the batches.
Progress(w) ==
    /\ worker[w].at \in {"find", "mark", "get", "deleteChunks", "createChunks"} => worker[w].done = 0
    /\ worker[w].at \in {"createChunks", "embed"} => worker[w].drafts >= 1
    /\ worker[w].at = "embed" => worker[w].done <= worker[w].drafts

ChunkInv == (\A m \in Materials : ChunksOf(m)) /\ \A w \in Workers : Progress(w)

\* A material without its document is about to be deleted, or was.
Documented(m) ==
    Exists(m) =>
        \/ file[m] \/ faults.request > 0
        \/ \E r \in Requests : request[r] = [at |-> "deleteRows", material |-> m]

\* A COMPLETED job is one whose material is READY, or about to be requeued.
Settled(m) ==
    job[m].status = "COMPLETED" =>
        \/ material[m].status \in {"READY", "GONE"} \/ faults.request > 0
        \/ \E r \in Requests : request[r] = [at |-> "requeue", material |-> m]

DocInv == \A m \in Materials : Documented(m) /\ Settled(m)

IInv == TypeInv /\ ChunkInv /\ DocInv

-----------------------------------------------------------------------------
(* Requests *)

RequestOthers(r) == \A s \in Requests \ {r} : request'[s] = request[s]
WorkerOthers(w) == \A v \in Workers \ {w} : worker'[v] = worker[v]

LEMMA RequestChanges ==
    ASSUME request \in [Requests -> Request], NEW r \in Requests, NEW b \in Request,
           request' = [request EXCEPT ![r] = b]
    PROVE  request' \in [Requests -> Request] /\ request'[r] = b /\ RequestOthers(r)
  BY DEF RequestOthers

LEMMA ClosedType == Closed \in Request /\ Closed.at = "idle" /\ Closed.material = NoMaterial
  BY DEF Closed, Request, RequestStep

LEMMA OpenFacts ==
    ASSUME TypeInv, NEW r \in Requests, NEW m \in Materials, NEW at \in RequestStep, Open(r, m, at)
    PROVE  /\ request[r].at = "idle" /\ request[r].material = NoMaterial
           /\ request' \in [Requests -> Request] /\ RequestOthers(r)
           /\ request'[r] = [at |-> at, material |-> m]
<1>1. [at |-> at, material |-> m] \in Request
  BY DEF Request
<1>2. QED
  BY <1>1, RequestChanges, ClosedType DEF Open, TypeInv, TypeOK

LEMMA CloseFacts ==
    ASSUME TypeInv, NEW r \in Requests, Close(r)
    PROVE  /\ request' \in [Requests -> Request] /\ RequestOthers(r)
           /\ request'[r].at = "idle" /\ request'[r].material = NoMaterial
  BY RequestChanges, ClosedType DEF Close, TypeInv, TypeOK

\* A request that is under way.
LEMMA UnderWay ==
    ASSUME TypeInv, NEW r \in Requests, request[r].at # "idle"
    PROVE  request[r] \in Request /\ request[r].material \in Materials
  BY DEF TypeInv, TypeOK, RequestInv, Request

LEMMA GoOnFacts ==
    ASSUME TypeInv, NEW r \in Requests, request[r].at # "idle", NEW at \in RequestStep, GoOn(r, at)
    PROVE  /\ request' \in [Requests -> Request] /\ RequestOthers(r)
           /\ request'[r] = [at |-> at, material |-> request[r].material]
<1>1. PICK b : b = [request[r] EXCEPT !.at = at]
  OBVIOUS
<1>2. b \in Request /\ b = [at |-> at, material |-> request[r].material]
  BY <1>1, UnderWay DEF Request
<1>3. request' = [request EXCEPT ![r] = b]
  BY <1>1 DEF GoOn, TypeInv, TypeOK
<1>4. QED
  BY <1>2, <1>3, RequestChanges DEF TypeInv, TypeOK

\* A request that creates a row, or gives up, is one less.
LEMMA PendingLess ==
    ASSUME RowInv, NEW r \in Requests, RequestOthers(r), request'[r].at \notin Creating,
           NEW m \in Materials
    PROVE  /\ IsFiniteSet(Pending(m)') /\ Cardinality(Pending(m)') <= Cardinality(Pending(m))
           /\ Cardinality(Pending(m)') \in Nat /\ Cardinality(Pending(m)) \in Nat
           /\ r \in Pending(m) => Cardinality(Pending(m)') + 1 <= Cardinality(Pending(m))
<1>1. IsFiniteSet(Pending(m)) /\ Pending(m) \ {r} \subseteq Pending(m)
  BY DEF RowInv
<1>2. Pending(m)' \subseteq Pending(m) \ {r}
  BY DEF Pending, RequestOthers
<1>3. /\ IsFiniteSet(Pending(m) \ {r})
      /\ Cardinality(Pending(m) \ {r}) <= Cardinality(Pending(m))
  BY <1>1, FS_Subset
<1>4. /\ IsFiniteSet(Pending(m)')
      /\ Cardinality(Pending(m)') <= Cardinality(Pending(m) \ {r})
  BY <1>2, <1>3, FS_Subset
<1>5. /\ Cardinality(Pending(m)) \in Nat /\ Cardinality(Pending(m)') \in Nat
      /\ Cardinality(Pending(m) \ {r}) \in Nat
  BY <1>1, <1>3, <1>4, FS_CardinalityType
<1>6. r \in Pending(m) => Cardinality(Pending(m) \ {r}) = Cardinality(Pending(m)) - 1
  BY <1>1, FS_RemoveElement
<1>7. QED
  BY <1>3, <1>4, <1>5, <1>6

LEMMA PendingMore ==
    ASSUME RowInv, NEW r \in Requests, RequestOthers(r), NEW k \in Materials,
           request'[r].material = k, request'[r].at \in Creating, request[r].at \notin Creating,
           NEW m \in Materials
    PROVE  /\ IsFiniteSet(Pending(m)') /\ Cardinality(Pending(m)) \in Nat
           /\ Cardinality(Pending(m)') = Cardinality(Pending(m)) + (IF m = k THEN 1 ELSE 0)
<1>1. IsFiniteSet(Pending(m)) /\ Cardinality(Pending(m)) \in Nat
  BY FS_CardinalityType DEF RowInv
<1>2. r \notin Pending(m)
  BY DEF Pending
<1>3. CASE m = k
  <2>1. Pending(m)' = Pending(m) \cup {r}
    BY <1>3 DEF Pending, RequestOthers
  <2>2. QED
    BY <1>1, <1>2, <1>3, <2>1, FS_AddElement
<1>4. CASE m # k
  <2>1. Pending(m)' = Pending(m)
    BY <1>4 DEF Pending, RequestOthers
  <2>2. QED
    BY <1>1, <1>4, <2>1
<1>5. QED
  BY <1>3, <1>4

LEMMA PendingKept ==
    ASSUME RowInv, NEW r \in Requests, RequestOthers(r),
           request'[r].material = request[r].material,
           request'[r].at \in Creating <=> request[r].at \in Creating, NEW m \in Materials
    PROVE  Pending(m)' = Pending(m)
  BY DEF Pending, RequestOthers

-----------------------------------------------------------------------------
(* Workers *)

LEMMA WorkerChanges ==
    ASSUME worker \in [Workers -> Run], NEW w \in Workers, NEW b \in Run,
           worker' = [worker EXCEPT ![w] = b]
    PROVE  worker' \in [Workers -> Run] /\ worker'[w] = b /\ WorkerOthers(w)
  BY DEF WorkerOthers

LEMMA SmallAttempts == Timely => Attempts = 0..MaxAttempts
  BY DEF Timely, Attempts

LEMMA IdleType ==
    Timely => Idle \in Run /\ Idle.at = "idle" /\ Idle.material = NoMaterial
<1> SUFFICES ASSUME Timely PROVE Idle \in Run /\ Idle.at = "idle" /\ Idle.material = NoMaterial
  OBVIOUS
<1>1. 0 \in Attempts /\ 0 \in 0..MaxRows
  BY SmallAttempts, PipelineAssumption DEF MaxRows
<1>2. QED
  BY <1>1 DEF Idle, Run

\* A worker that runs a job.
LEMMA Running ==
    ASSUME TypeInv, NEW w \in Workers, worker[w].at # "idle"
    PROVE  /\ worker[w] \in Run /\ worker[w].material \in Materials
           /\ worker[w].id \in 1..job[worker[w].material].id
           /\ worker[w].drafts \in DraftCounts \cup {0} /\ worker[w].drafts \in Nat
           /\ worker[w].done \in Ords \cup {0} /\ worker[w].done \in Nat
<1>1. worker[w] \in Run /\ worker[w].material \in Materials /\ worker[w].id \in 1..job[worker[w].material].id
  BY DEF TypeInv, TypeOK, RunInv, Run
<1>2. worker[w].drafts \in DraftCounts \cup {0} /\ worker[w].done \in Ords \cup {0}
  BY <1>1 DEF Run
<1>3. Ords \subseteq Nat
  BY PipelineAssumption DEF Ords
<1>4. DraftCounts \subseteq Nat
  BY PipelineAssumption
<1>5. worker[w].drafts \in Nat /\ worker[w].done \in Nat
  <2>1. 0 \in Nat
    OBVIOUS
  <2>2. worker[w].drafts \in Nat
    BY <1>2, <1>4, <2>1, Zenon
  <2>3. worker[w].done \in Nat
    BY <1>2, <1>3, <2>1, Zenon
  <2>4. QED
    BY <2>2, <2>3
<1>6. QED
  BY <1>1, <1>2, <1>5

\* A run goes on: only its place, its drafts and its progress change.
GoesOn(w, b) ==
    /\ worker' \in [Workers -> Run] /\ WorkerOthers(w) /\ worker'[w] = b
    /\ b.at # "idle" /\ b.material = worker[w].material
    /\ b.id = worker[w].id /\ b.attempts = worker[w].attempts

LEMMA ProceedFacts ==
    ASSUME TypeInv, NEW w \in Workers, worker[w].at # "idle", NEW at \in RunStep, Proceed(w, at)
    PROVE  /\ GoesOn(w, worker'[w])
           /\ worker'[w].at = at /\ worker'[w].drafts = worker[w].drafts
           /\ worker'[w].done = worker[w].done
<1>1. PICK b : b = [worker[w] EXCEPT !.at = at]
  OBVIOUS
<1>2. /\ b \in Run /\ b.at = at /\ b.material = worker[w].material /\ b.id = worker[w].id
      /\ b.attempts = worker[w].attempts /\ b.drafts = worker[w].drafts /\ b.done = worker[w].done
  BY <1>1, Running DEF Run
<1>3. worker' = [worker EXCEPT ![w] = b]
  BY <1>1 DEF Proceed, TypeInv, TypeOK
<1>4. worker' \in [Workers -> Run] /\ worker'[w] = b /\ WorkerOthers(w)
  BY <1>2, <1>3, WorkerChanges DEF TypeInv, TypeOK
<1>5. b.at # "idle"
  BY <1>2 DEF RunStep, InTry
<1>6. QED
  BY <1>2, <1>4, <1>5 DEF GoesOn

LEMMA EndFacts ==
    ASSUME Timely, TypeInv, NEW w \in Workers, worker' = [worker EXCEPT ![w] = Idle]
    PROVE  /\ worker' \in [Workers -> Run] /\ WorkerOthers(w) /\ worker'[w] = Idle
           /\ worker'[w].at = "idle" /\ worker'[w].material = NoMaterial
  BY IdleType, WorkerChanges DEF TypeInv, TypeOK

LEMMA ClaimFacts ==
    ASSUME Timely, TypeInv, NEW w \in Workers, Claim(w)
    PROVE  \E m \in Materials :
              /\ Waits(m) /\ worker[w].at = "idle"
              /\ job' \in [Materials -> Job] /\ \A k \in Materials \ {m} : job'[k] = job[k]
              /\ job'[m].id = job[m].id /\ job'[m].status = "RUNNING"
              /\ job'[m].attempts = job[m].attempts + 1
              /\ worker' \in [Workers -> Run] /\ WorkerOthers(w)
              /\ worker'[w].at = "find" /\ worker'[w].material = m
              /\ worker'[w].id = job[m].id /\ worker'[w].attempts = job[m].attempts + 1
              /\ worker'[w].done = 0
<1>1. PICK m \in Materials :
          /\ Waits(m)
          /\ job' = [job EXCEPT ![m].status = "RUNNING", ![m].attempts = @ + 1]
          /\ worker' = [worker EXCEPT ![w] =
                [Idle EXCEPT !.at = "find", !.material = m,
                             !.id = job[m].id, !.attempts = job[m].attempts + 1]]
  BY DEF Claim
<1>2. PICK n \in Nat : n = job[m].attempts
  BY SmallAttempts DEF TypeInv, TypeOK, Job
<1>3. n + 1 \in Attempts /\ job[m] \in Job
  BY <1>1, <1>2, SmallAttempts, PipelineAssumption DEF TypeInv, TypeOK, RowInv
<1>4. PICK row : row = [job[m] EXCEPT !.status = "RUNNING", !.attempts = n + 1]
  OBVIOUS
<1>5. row \in Job /\ row.id = job[m].id /\ row.status = "RUNNING" /\ row.attempts = n + 1
  BY <1>3, <1>4 DEF Job, JobStatus
<1>6. job' = [job EXCEPT ![m] = row]
  BY <1>1, <1>2, <1>4 DEF TypeInv, TypeOK
<1>7. /\ job' \in [Materials -> Job] /\ \A k \in Materials \ {m} : job'[k] = job[k]
      /\ job'[m] = row
  BY <1>5, <1>6 DEF TypeInv, TypeOK
<1>8. PICK b : b = [Idle EXCEPT !.at = "find", !.material = m, !.id = job[m].id, !.attempts = n + 1]
  OBVIOUS
<1>9. b \in Run /\ b.at = "find" /\ b.material = m /\ b.id = job[m].id /\ b.attempts = n + 1 /\ b.done = 0
  BY <1>3, <1>8, IdleType DEF Idle, Run, RunStep, Job
<1>10. worker' \in [Workers -> Run] /\ worker'[w] = b /\ WorkerOthers(w)
  <2>1. worker' = [worker EXCEPT ![w] = b]
    BY <1>1, <1>2, <1>8
  <2>2. QED
    BY <1>9, <2>1, WorkerChanges DEF TypeInv, TypeOK
<1>11. worker[w].at = "idle"
  BY IdleType DEF Claim
<1>12. QED
  BY <1>1, <1>2, <1>5, <1>7, <1>9, <1>10, <1>11

\* A run goes on or ends, and if its row is still there, nothing happened to it.
RunKept(v) ==
    \/ worker'[v].at = "idle" /\ worker'[v].material = NoMaterial
    \/ /\ worker[v].at # "idle" /\ worker'[v].at # "idle"
       /\ worker'[v].material = worker[v].material
       /\ worker'[v].id = worker[v].id /\ worker'[v].attempts = worker[v].attempts
       /\ job'[worker[v].material].id \in Nat
       /\ job'[worker[v].material].id >= job[worker[v].material].id
       /\ HasRow(v)' => job'[worker[v].material] = job[worker[v].material]

LEMMA RunsKept ==
    ASSUME TypeInv, \A v \in Workers : RunKept(v)
    PROVE  RunInv'
<1>1. NoMaterial \notin Materials
  BY PipelineAssumption
<1>2. \A v \in Workers : worker'[v].at # "idle" =>
          /\ worker[v].at # "idle" /\ worker'[v].at # "idle"
          /\ worker'[v].material = worker[v].material
          /\ worker'[v].id = worker[v].id /\ worker'[v].attempts = worker[v].attempts
          /\ job'[worker[v].material].id \in Nat
          /\ job'[worker[v].material].id >= job[worker[v].material].id
          /\ HasRow(v)' => job'[worker[v].material] = job[worker[v].material]
  BY DEF RunKept
<1>3. \A v \in Workers : worker[v].at # "idle" =>
          worker[v].material \in Materials /\ worker[v].id \in 1..job[worker[v].material].id
  BY Running
<1>4. \A m \in Materials : job[m].id \in Nat
  BY DEF TypeInv, TypeOK, Job
<1>5. \A v \in Workers : worker'[v].at = "idle" <=> worker'[v].material = NoMaterial
  BY <1>1, <1>2, <1>3 DEF RunKept
<1>6. ASSUME NEW v \in Workers, worker'[v].at # "idle"
      PROVE  /\ worker'[v].id \in 1..job'[worker'[v].material].id
             /\ HasRow(v)' => /\ job'[worker'[v].material].status = "RUNNING"
                              /\ job'[worker'[v].material].attempts = worker'[v].attempts
  <2>1. worker'[v].id \in 1..job'[worker'[v].material].id
    BY <1>2, <1>3, <1>4, <1>6
  <2>2. ASSUME HasRow(v)'
        PROVE  /\ job'[worker'[v].material].status = "RUNNING"
               /\ job'[worker'[v].material].attempts = worker'[v].attempts
    <3>1. /\ job'[worker[v].material] = job[worker[v].material]
          /\ worker'[v].material = worker[v].material
          /\ worker'[v].id = worker[v].id /\ worker'[v].attempts = worker[v].attempts
      BY <1>2, <1>6, <2>2
    <3>2. HasRow(v)
      BY <2>2, <3>1 DEF HasRow, HasJob
    <3>3. QED
      BY <1>2, <1>6, <3>1, <3>2 DEF TypeInv, RunInv
  <2>3. QED
    BY <2>1, <2>2
<1>7. \A v, w \in Workers :
          worker'[v].at # "idle" /\ worker'[v].material = worker'[w].material
              /\ worker'[v].id = worker'[w].id => v = w
  <2>1. \A v, w \in Workers : worker'[v].at # "idle" /\ worker'[v].material = worker'[w].material =>
            worker'[w].at # "idle"
    BY <1>5
  <2>2. QED
    BY <1>2, <2>1 DEF TypeInv, RunInv
<1>8. QED
  BY <1>5, <1>6, <1>7 DEF RunInv

\* No job changes, and at most one run goes on or ends.
LEMMA RunsKeptQuietly ==
    ASSUME TypeInv, NEW w \in Workers, WorkerOthers(w), UNCHANGED job,
           \/ worker'[w].at = "idle" /\ worker'[w].material = NoMaterial
           \/ worker[w].at # "idle" /\ GoesOn(w, worker'[w])
    PROVE  RunInv'
<1>1. \A m \in Materials : job[m].id \in Nat
  BY DEF TypeInv, TypeOK, Job
<1>2. \A v \in Workers : worker[v].at # "idle" => worker[v].material \in Materials
  BY Running
<1>3. RunKept(w)
  BY <1>1, <1>2 DEF RunKept, GoesOn
<1>4. \A v \in Workers \ {w} : RunKept(v)
  BY <1>1, <1>2 DEF RunKept, WorkerOthers, TypeInv, RunInv
<1>5. QED
  BY <1>3, <1>4, RunsKept

\* A run ends, and with it the row it was a run of may change.
LEMMA RunsEnd ==
    ASSUME TypeInv, NEW w \in Workers, worker[w].at # "idle", WorkerOthers(w),
           worker'[w].at = "idle", worker'[w].material = NoMaterial,
           \A m \in Materials : job'[m] = job[m] \/
               (m = worker[w].material /\ HasRow(w) /\ job'[m].id = job[m].id)
    PROVE  RunInv'
<1>1. \A m \in Materials : job[m].id \in Nat
  BY DEF TypeInv, TypeOK, Job
<1>2. \A v \in Workers : worker[v].at # "idle" => worker[v].material \in Materials
  BY Running
<1>3. ASSUME NEW v \in Workers \ {w}, worker[v].at # "idle" PROVE RunKept(v)
  <2>1. worker'[v] = worker[v] /\ worker[v].material \in Materials
    BY <1>2, <1>3 DEF WorkerOthers
  <2>2. CASE job'[worker[v].material] = job[worker[v].material]
    BY <1>1, <1>3, <2>1, <2>2 DEF RunKept
  <2>3. CASE /\ worker[v].material = worker[w].material /\ HasRow(w)
             /\ job'[worker[v].material].id = job[worker[v].material].id
    <3>1. worker[v].id # worker[w].id
      BY <1>3, <2>3 DEF TypeInv, RunInv
    <3>2. ~HasRow(v)'
      BY <2>1, <2>3, <3>1 DEF HasRow, HasJob
    <3>3. QED
      BY <1>1, <1>3, <2>1, <2>3, <3>2 DEF RunKept
  <2>4. QED
    BY <2>1, <2>2, <2>3
<1>4. \A v \in Workers : worker[v].at = "idle" /\ v # w => RunKept(v)
  BY DEF RunKept, WorkerOthers, TypeInv, RunInv
<1>5. RunKept(w)
  BY DEF RunKept
<1>6. QED
  BY <1>3, <1>4, <1>5, RunsKept

\* No worker moves, and a row that has a run is left alone.
LEMMA RunsLeft ==
    ASSUME TypeInv, UNCHANGED worker,
           \A m \in Materials : job'[m] = job[m] \/
               (/\ job'[m].id \in Nat /\ job'[m].id >= job[m].id
                /\ \A v \in Workers : worker[v].material = m =>
                       worker[v].id # job'[m].id \/ job'[m].status = "NONE")
    PROVE  RunInv'
<1>1. \A m \in Materials : job[m].id \in Nat
  BY DEF TypeInv, TypeOK, Job
<1>2. \A v \in Workers : worker[v].at # "idle" => worker[v].material \in Materials
  BY Running
<1>3. ASSUME NEW v \in Workers PROVE RunKept(v)
  <2>1. CASE worker[v].at = "idle"
    BY <2>1 DEF RunKept, TypeInv, RunInv
  <2>2. CASE worker[v].at # "idle" /\ job'[worker[v].material] = job[worker[v].material]
    BY <1>1, <1>2, <2>2 DEF RunKept
  <2>3. CASE worker[v].at # "idle" /\ job'[worker[v].material] # job[worker[v].material]
    <3>1. ~HasRow(v)'
      BY <1>2, <2>3 DEF HasRow, HasJob
    <3>2. QED
      BY <1>2, <2>3, <3>1 DEF RunKept
  <2>4. QED
    BY <2>1, <2>2, <2>3
<1>4. QED
  BY <1>3, RunsKept

LEMMA RunsClaimed ==
    ASSUME Timely, TypeInv, NEW w \in Workers, Claim(w)
    PROVE  RunInv'
<1>1. PICK m \in Materials :
        /\ Waits(m) /\ worker[w].at = "idle"
        /\ \A k \in Materials \ {m} : job'[k] = job[k]
        /\ job'[m].id = job[m].id /\ job'[m].status = "RUNNING"
        /\ job'[m].attempts = job[m].attempts + 1
        /\ WorkerOthers(w)
        /\ worker'[w].at = "find" /\ worker'[w].material = m
        /\ worker'[w].id = job[m].id /\ worker'[w].attempts = job[m].attempts + 1
  BY ClaimFacts
<1>2. job[m].id \in Nat /\ job[m].id >= 1 /\ HasJob(m) /\ job[m].status # "RUNNING"
  BY <1>1 DEF TypeInv, TypeOK, Job, RowInv, Waits, HasJob
<1>3. \A v \in Workers \ {w} : worker'[v] = worker[v]
  BY <1>1 DEF WorkerOthers
<1>4. \A v \in Workers \ {w} : worker[v].at # "idle" /\ worker[v].material = m => worker[v].id # job[m].id
  BY <1>2 DEF TypeInv, RunInv, HasRow
<1>5. NoMaterial \notin Materials
  BY PipelineAssumption
<1>6. \A v \in Workers : worker'[v].at = "idle" <=> worker'[v].material = NoMaterial
  BY <1>1, <1>3, <1>5 DEF TypeInv, RunInv
<1>7. ASSUME NEW v \in Workers, worker'[v].at # "idle"
      PROVE  /\ worker'[v].id \in 1..job'[worker'[v].material].id
             /\ HasRow(v)' => /\ job'[worker'[v].material].status = "RUNNING"
                              /\ job'[worker'[v].material].attempts = worker'[v].attempts
  <2>1. CASE v = w
    BY <1>1, <1>2, <2>1
  <2>2. CASE v # w
    <3>1. /\ worker'[v] = worker[v] /\ worker[v].at # "idle" /\ worker[v].material \in Materials
          /\ worker[v].id \in 1..job[worker[v].material].id
      BY <1>3, <1>7, <2>2, Running
    <3>2. job'[worker[v].material].id = job[worker[v].material].id
      BY <1>1, <3>1
    <3>3. HasRow(v)' => HasRow(v) /\ job'[worker[v].material] = job[worker[v].material]
      <4>1. worker[v].material = m => ~HasRow(v)'
        BY <1>1, <1>4, <2>2, <3>1 DEF HasRow
      <4>2. worker[v].material # m => job'[worker[v].material] = job[worker[v].material]
        BY <1>1, <3>1
      <4>3. QED
        BY <3>1, <4>1, <4>2 DEF HasRow, HasJob
    <3>4. QED
      BY <3>1, <3>2, <3>3 DEF TypeInv, RunInv
  <2>3. QED
    BY <2>1, <2>2
<1>8. \A u, v \in Workers :
          worker'[u].at # "idle" /\ worker'[u].material = worker'[v].material
              /\ worker'[u].id = worker'[v].id => u = v
  <2>1. \A u, v \in Workers \ {w} :
          worker'[u].at # "idle" /\ worker'[u].material = worker'[v].material
              /\ worker'[u].id = worker'[v].id => u = v
    BY <1>3 DEF TypeInv, RunInv
  <2>2. \A v \in Workers \ {w} : ~(worker'[v].material = m /\ worker'[v].id = job[m].id)
    BY <1>3, <1>4, <1>5 DEF TypeInv, RunInv
  <2>3. QED
    BY <1>1, <2>1, <2>2
<1>9. QED
  BY <1>6, <1>7, <1>8 DEF RunInv

-----------------------------------------------------------------------------
(* Rows *)

JobOthers(m) == \A k \in Materials \ {m} : job'[k] = job[k]
MaterialOthers(m) == \A k \in Materials \ {m} : material'[k] = material[k]

LEMMA SetStatusFacts ==
    ASSUME TypeInv, NEW m \in Materials, NEW status \in MaterialStatus, SetStatus(m, status)
    PROVE  /\ material' \in [Materials -> [status : MaterialStatus, announced : DraftCounts \cup {0}]]
           /\ MaterialOthers(m) /\ material'[m].status = status
           /\ material'[m].announced = material[m].announced
<1>1. PICK row : row = [material[m] EXCEPT !.status = status]
  OBVIOUS
<1>2. material' = [material EXCEPT ![m] = row]
  BY <1>1 DEF SetStatus, TypeInv, TypeOK
<1>3. /\ row \in [status : MaterialStatus, announced : DraftCounts \cup {0}]
      /\ row.status = status /\ row.announced = material[m].announced
  BY <1>1 DEF TypeInv, TypeOK
<1>4. QED
  BY <1>2, <1>3 DEF TypeInv, TypeOK, MaterialOthers

LEMMA JobRowFacts ==
    ASSUME TypeInv, NEW m \in Materials, NEW row \in Job, job' = [job EXCEPT ![m] = row]
    PROVE  job' \in [Materials -> Job] /\ JobOthers(m) /\ job'[m] = row
  BY DEF TypeInv, TypeOK, JobOthers

LEMMA SetJobFacts ==
    ASSUME TypeInv, NEW m \in Materials, NEW status \in JobStatus, SetJob(m, status)
    PROVE  /\ job' \in [Materials -> Job] /\ JobOthers(m)
           /\ job'[m].id = job[m].id /\ job'[m].status = status
           /\ job'[m].attempts = job[m].attempts
<1>1. PICK row : row = [job[m] EXCEPT !.status = status]
  OBVIOUS
<1>2. job' = [job EXCEPT ![m] = row]
  BY <1>1 DEF SetJob, TypeInv, TypeOK
<1>3. /\ row \in Job /\ row.id = job[m].id /\ row.status = status
      /\ row.attempts = job[m].attempts
  BY <1>1 DEF TypeInv, TypeOK, Job
<1>4. QED
  BY <1>2, <1>3, JobRowFacts

\* The queue counts the attempts from the start again.
LEMMA ResetJobFacts ==
    ASSUME Timely, TypeInv, NEW m \in Materials, NEW status \in JobStatus,
           job' = [job EXCEPT ![m].status = status, ![m].attempts = 0]
    PROVE  /\ job' \in [Materials -> Job] /\ JobOthers(m)
           /\ job'[m].id = job[m].id /\ job'[m].status = status /\ job'[m].attempts = 0
<1>1. PICK row : row = [job[m] EXCEPT !.status = status, !.attempts = 0]
  OBVIOUS
<1>2. job' = [job EXCEPT ![m] = row]
  BY <1>1 DEF TypeInv, TypeOK
<1>3. 0 \in Attempts
  BY SmallAttempts, PipelineAssumption
<1>4. row \in Job /\ row.id = job[m].id /\ row.status = status /\ row.attempts = 0
  BY <1>1, <1>3 DEF TypeInv, TypeOK, Job
<1>5. QED
  BY <1>2, <1>4, JobRowFacts

\* A failed attempt leaves a job with an attempt left, or dead.
LEMMA OutcomeFacts ==
    ASSUME NEW n \in Nat
    PROVE  /\ Outcome(n) \in JobStatus /\ Outcome(n) \in {"DEAD", "FAILED"}
           /\ Outcome(n) = "FAILED" => n < MaxAttempts
           /\ Outcome(n) = "DEAD" => n >= MaxAttempts
  BY PipelineAssumption DEF Outcome, JobStatus

\* No request moves, no row comes or goes.
LEMMA RowsKept ==
    ASSUME TypeInv, UNCHANGED <<file, request, retries>>,
           \A m \in Materials :
               /\ material'[m].status = material[m].status \/ (Exists(m) /\ Exists(m)')
               /\ job'[m].id = job[m].id /\ (HasJob(m)' <=> HasJob(m))
               /\ Waits(m)' => job'[m].attempts < MaxAttempts
    PROVE  RowInv' /\ RequestInv'
<1>1. \A m \in Materials : /\ material'[m].status = "NONE" <=> material[m].status = "NONE"
                           /\ Exists(m)' <=> Exists(m)
  BY DEF Exists
<1>2. RequestInv'
  <2>1. \A r \in Requests : request[r].at # "idle" => request[r].material \in Materials
    BY UnderWay
  <2>2. QED
    BY <1>1, <2>1 DEF TypeInv, RequestInv
<1>3. \A m \in Materials : Pending(m)' = Pending(m) /\ Origins(m)' = Origins(m)
  BY <1>1 DEF Pending, Origins
<1>4. \A m \in Materials : (Exists(m) => (job[m].id = 1 => HasJob(m)))'
  BY <1>1 DEF TypeInv, RowInv
<1>5. RowInv'
  <2>1. ASSUME NEW m \in Materials
        PROVE  /\ (Waits(m) => job[m].attempts < MaxAttempts)'
               /\ (IsFiniteSet(Pending(m)) /\ job[m].id + Cardinality(Pending(m)) <= Origins(m))'
               /\ (HasJob(m) => job[m].id >= 1)'
               /\ (Exists(m) => job[m].id <= 1 /\ (job[m].id = 1 => HasJob(m)))'
               /\ (material[m].status = "NONE" => job[m].id = 0)'
    BY <1>1, <1>3, <1>4 DEF TypeInv, RowInv
  <2>2. QED
    BY <2>1 DEF RowInv
<1>6. QED
  BY <1>2, <1>5

\* A request goes on or ends on a material that has, or had, a row.
LEMMA RequestsKept ==
    ASSUME TypeInv, NEW r \in Requests, RequestOthers(r),
           \A m \in Materials : /\ material'[m].status = "NONE" <=> material[m].status = "NONE"
                                /\ material[m].status = "NONE" => file'[m] = file[m],
           \/ request'[r].at = "idle" /\ request'[r].material = NoMaterial
           \/ /\ request'[r].at \notin {"idle", "create"} /\ request'[r].material \in Materials
              /\ material'[request'[r].material].status # "NONE"
    PROVE  RequestInv'
<1>1. NoMaterial \notin Materials
  BY PipelineAssumption
<1>2. \A s \in Requests : request[s].at # "idle" => request[s].material \in Materials
  BY UnderWay
<1>3. \A s \in Requests \ {r} : request'[s] = request[s]
  BY DEF RequestOthers
<1>4. \A s \in Requests : request'[s].at = "idle" <=> request'[s].material = NoMaterial
  BY <1>1, <1>3 DEF TypeInv, RequestInv
<1>5. \A s \in Requests : request'[s].at # "idle" =>
          (request'[s].at = "create" <=> material'[request'[s].material].status = "NONE")
  BY <1>2, <1>3 DEF TypeInv, RequestInv
<1>6. \A s \in Requests : request'[s].at = "create" => s # r /\ file'[request'[s].material]
  BY <1>2, <1>3 DEF TypeInv, RequestInv
<1>7. \A s, t \in Requests :
          request'[s].at = "create" /\ request'[t].at = "create"
              /\ request'[s].material = request'[t].material => s = t
  BY <1>3, <1>6 DEF TypeInv, RequestInv
<1>8. QED
  BY <1>4, <1>5, <1>6, <1>7 DEF RequestInv

-----------------------------------------------------------------------------
(* Every step keeps TypeInv: the requests *)

LEMMA UploadTypeInv ==
    ASSUME Timely, TypeInv, NEW r \in Requests, NEW m \in Materials, Upload(r, m)
    PROVE  TypeInv'
<1>1. /\ request[r].at = "idle" /\ request' \in [Requests -> Request] /\ RequestOthers(r)
      /\ request'[r].at = "create" /\ request'[r].material = m
  <2>1. Open(r, m, "create") /\ "create" \in RequestStep
    BY DEF Upload, RequestStep
  <2>2. /\ request[r].at = "idle" /\ request' \in [Requests -> Request] /\ RequestOthers(r)
        /\ request'[r] = [at |-> "create", material |-> m]
    BY <2>1, OpenFacts, Zenon
  <2>3. QED
    BY <2>2
<1>2. /\ material[m].status = "NONE" /\ ~file[m]
      /\ file' \in [Materials -> BOOLEAN] /\ file'[m]
      /\ \A k \in Materials \ {m} : file'[k] = file[k]
      /\ UNCHANGED <<material, chunks, linked, job, worker, retries, faults>>
  BY DEF Upload, TypeInv, TypeOK
<1>3. TypeOK'
  BY <1>1, <1>2 DEF TypeInv, TypeOK
<1>4. RunInv'
  BY <1>2, RunsLeft
<1>5. NoMaterial \notin Materials
  BY PipelineAssumption
<1>6. \A s \in Requests : request[s].at = "create" => request[s].material # m
  BY <1>2 DEF TypeInv, RequestInv
<1>7. RequestInv'
  <2>1. \A s \in Requests \ {r} : request'[s] = request[s]
    BY <1>1 DEF RequestOthers
  <2>2. \A s \in Requests : request'[s].at = "idle" <=> request'[s].material = NoMaterial
    BY <1>1, <1>5, <2>1 DEF TypeInv, RequestInv
  <2>3. \A s \in Requests : request'[s].at # "idle" =>
            (request'[s].at = "create" <=> material'[request'[s].material].status = "NONE")
    BY <1>1, <1>2, <2>1 DEF TypeInv, RequestInv
  <2>4. \A s \in Requests : request'[s].at = "create" => file'[request'[s].material]
    <3>1. \A s \in Requests \ {r} : request'[s].at = "create" =>
              request[s].material \in Materials \ {m} /\ file[request[s].material]
      BY <1>6, <2>1, UnderWay DEF TypeInv, RequestInv
    <3>2. QED
      BY <1>1, <1>2, <2>1, <3>1
  <2>5. \A s, t \in Requests :
            request'[s].at = "create" /\ request'[t].at = "create"
                /\ request'[s].material = request'[t].material => s = t
    BY <1>1, <1>6, <2>1 DEF TypeInv, RequestInv
  <2>6. QED
    BY <2>2, <2>3, <2>4, <2>5 DEF RequestInv
<1>8. RowInv'
  <2>1. request'[r].at \in Creating /\ request[r].at \notin Creating
    BY <1>1 DEF Creating
  <2>2. \A k \in Materials :
            /\ IsFiniteSet(Pending(k)') /\ Cardinality(Pending(k)) \in Nat
            /\ Cardinality(Pending(k)') = Cardinality(Pending(k)) + (IF k = m THEN 1 ELSE 0)
    BY <1>1, <2>1, PendingMore DEF TypeInv
  <2>3. \A k \in Materials : Origins(k)' = Origins(k) + (IF k = m THEN 1 ELSE 0) /\ Origins(k) \in Nat
    BY <1>2 DEF Origins, TypeInv, TypeOK
  <2>4. \A k \in Materials : /\ job'[k] = job[k] /\ material'[k] = material[k] /\ job[k].id \in Nat
    BY <1>2 DEF TypeInv, TypeOK, Job
  <2>5. \A k \in Materials : job[k].id + Cardinality(Pending(k)) <= Origins(k)
    BY DEF TypeInv, RowInv
  <2>6. \A k \in Materials : job'[k].id + Cardinality(Pending(k)') <= Origins(k)'
    BY <2>2, <2>3, <2>4, <2>5
  <2>7. QED
    BY <2>2, <2>4, <2>6 DEF TypeInv, RowInv, Waits, HasJob, Exists
<1>9. QED
  BY <1>3, <1>4, <1>7, <1>8 DEF TypeInv

\* The rows, when neither the jobs' ids nor the number of requests grows.
LEMMA RowsFrom ==
    ASSUME TypeInv,
           \A m \in Materials :
               /\ IsFiniteSet(Pending(m)') /\ Cardinality(Pending(m)') \in Nat
               /\ Cardinality(Pending(m)') <= Cardinality(Pending(m))
               /\ Cardinality(Pending(m)) \in Nat
               /\ Origins(m)' >= Origins(m) /\ Origins(m)' \in Nat
               /\ job'[m].id = job[m].id
               /\ HasJob(m)' => HasJob(m)
               /\ Waits(m)' => job'[m].attempts < MaxAttempts
               /\ Exists(m)' => (Exists(m) \/ job[m].id = 0) /\ (HasJob(m) => HasJob(m)')
               /\ material'[m].status = "NONE" => material[m].status = "NONE"
    PROVE  RowInv'
<1>1. \A m \in Materials : /\ job[m].id \in Nat /\ Origins(m) \in Nat
                           /\ job[m].id + Cardinality(Pending(m)) <= Origins(m)
  BY DEF TypeInv, TypeOK, RowInv, Job, Origins
<1>2. \A m \in Materials : job'[m].id + Cardinality(Pending(m)') <= Origins(m)'
  BY <1>1
<1>3. \A m \in Materials : /\ HasJob(m)' => job'[m].id >= 1
                           /\ material'[m].status = "NONE" => job'[m].id = 0
  BY DEF TypeInv, RowInv
<1>4. ASSUME NEW m \in Materials, Exists(m)' PROVE job'[m].id <= 1 /\ (job'[m].id = 1 => HasJob(m)')
  BY <1>4 DEF TypeInv, RowInv
<1>5. ASSUME NEW m \in Materials
      PROVE  /\ (Waits(m) => job[m].attempts < MaxAttempts)'
             /\ (IsFiniteSet(Pending(m)) /\ job[m].id + Cardinality(Pending(m)) <= Origins(m))'
             /\ (HasJob(m) => job[m].id >= 1)'
             /\ (Exists(m) => job[m].id <= 1 /\ (job[m].id = 1 => HasJob(m)))'
             /\ (material[m].status = "NONE" => job[m].id = 0)'
  <2>1. (Waits(m) => job[m].attempts < MaxAttempts)'
    OBVIOUS
  <2>2. (IsFiniteSet(Pending(m)) /\ job[m].id + Cardinality(Pending(m)) <= Origins(m))'
    BY <1>2
  <2>3. (HasJob(m) => job[m].id >= 1)'
    BY <1>3
  <2>4. (Exists(m) => job[m].id <= 1 /\ (job[m].id = 1 => HasJob(m)))'
    BY <1>4
  <2>5. (material[m].status = "NONE" => job[m].id = 0)'
    BY <1>3
  <2>6. QED
    BY <2>1, <2>2, <2>3, <2>4, <2>5
<1>6. QED
  BY <1>5 DEF RowInv

LEMMA CreateMaterialTypeInv ==
    ASSUME Timely, TypeInv, NEW r \in Requests, CreateMaterial(r)
    PROVE  TypeInv'
<1>1. PICK m \in Materials : m = request[r].material
  BY UnderWay DEF CreateMaterial, At
<1>2. request[r].at = "create" /\ request[r].at # "idle"
  BY DEF CreateMaterial, At
<1>3. material[m].status = "NONE" /\ file[m] /\ job[m].id = 0
  BY <1>1, <1>2 DEF TypeInv, RequestInv, RowInv
<1>4. /\ request' \in [Requests -> Request] /\ RequestOthers(r)
      /\ request'[r].at = "enqueue" /\ request'[r].material = m
  <2>1. GoOn(r, "enqueue") /\ "enqueue" \in RequestStep
    BY DEF CreateMaterial, RequestStep
  <2>2. QED
    <3>1. request' \in [Requests -> Request] /\ RequestOthers(r)
          /\ request'[r] = [at |-> "enqueue", material |-> request[r].material]
      BY <1>2, <2>1, GoOnFacts, Zenon
    <3>2. QED
      BY <1>1, <3>1
<1>5. /\ material' \in [Materials -> [status : MaterialStatus, announced : DraftCounts \cup {0}]]
      /\ MaterialOthers(m) /\ material'[m].status = "QUEUED"
  <2>1. SetStatus(m, "QUEUED") /\ "QUEUED" \in MaterialStatus
    BY <1>1 DEF CreateMaterial, MaterialStatus
  <2>2. QED
    BY <2>1, SetStatusFacts
<1>6. UNCHANGED <<file, chunks, linked, job, worker, retries, faults>>
  BY DEF CreateMaterial
<1>7. TypeOK'
  BY <1>4, <1>5, <1>6 DEF TypeInv, TypeOK
<1>8. RunInv'
  BY <1>6, RunsLeft
<1>9. NoMaterial \notin Materials
  BY PipelineAssumption
<1>10. \A s \in Requests \ {r} : request'[s] = request[s] /\ request[s].material # m
  BY <1>1, <1>2, <1>3, <1>4, <1>9 DEF TypeInv, RequestInv, RequestOthers
<1>11. \A s \in Requests \ {r} : request[s].at # "idle" =>
           request[s].material \in Materials /\ material'[request[s].material] = material[request[s].material]
  BY <1>5, <1>10, UnderWay DEF MaterialOthers
<1>12. RequestInv'
  <2>1. \A s \in Requests : request'[s].at = "idle" <=> request'[s].material = NoMaterial
    BY <1>4, <1>9, <1>10 DEF TypeInv, RequestInv
  <2>2. \A s \in Requests : request'[s].at # "idle" =>
            (request'[s].at = "create" <=> material'[request'[s].material].status = "NONE")
    BY <1>4, <1>5, <1>10, <1>11 DEF TypeInv, RequestInv
  <2>3. \A s \in Requests : request'[s].at = "create" => file'[request'[s].material]
    BY <1>4, <1>6, <1>10 DEF TypeInv, RequestInv
  <2>4. \A s, t \in Requests :
            request'[s].at = "create" /\ request'[t].at = "create"
                /\ request'[s].material = request'[t].material => s = t
    BY <1>4, <1>10 DEF TypeInv, RequestInv
  <2>5. QED
    BY <2>1, <2>2, <2>3, <2>4 DEF RequestInv
<1>13. RowInv'
  <2>1. request'[r].at \in Creating /\ request[r].at \in Creating
    BY <1>2, <1>4 DEF Creating
  <2>2. \A k \in Materials : Pending(k)' = Pending(k)
    BY <1>1, <1>4, <2>1, PendingKept DEF TypeInv
  <2>3. \A k \in Materials : IsFiniteSet(Pending(k)) /\ Cardinality(Pending(k)) \in Nat
    BY FS_CardinalityType DEF TypeInv, RowInv
  <2>4. \A k \in Materials : Origins(k)' = Origins(k) /\ Origins(k) \in Nat
    BY <1>3, <1>5, <1>6 DEF Origins, MaterialOthers, TypeInv, TypeOK
  <2>5. \A k \in Materials : job'[k] = job[k] /\ (Waits(k)' => job'[k].attempts < MaxAttempts)
                            /\ (HasJob(k)' <=> HasJob(k))
    BY <1>6 DEF TypeInv, RowInv, Waits, HasJob
  <2>6. \A k \in Materials : /\ Exists(k)' => Exists(k) \/ job[k].id = 0
                             /\ material'[k].status = "NONE" => material[k].status = "NONE"
    BY <1>3, <1>5 DEF Exists, MaterialOthers
  <2>7. \A k \in Materials : Origins(k)' >= Origins(k) /\ Cardinality(Pending(k)') <= Cardinality(Pending(k))
    BY <2>2, <2>3, <2>4
  <2>8. QED
    BY <2>2, <2>3, <2>4, <2>5, <2>6, <2>7, RowsFrom
<1>14. QED
  BY <1>7, <1>8, <1>12, <1>13 DEF TypeInv

LEMMA RetryTypeInv ==
    ASSUME Timely, TypeInv, NEW r \in Requests, NEW m \in Materials, Retry(r, m)
    PROVE  TypeInv'
<1>1. /\ request[r].at = "idle" /\ request' \in [Requests -> Request] /\ RequestOthers(r)
      /\ request'[r].at = "mark" /\ request'[r].material = m
  <2>1. Open(r, m, "mark") /\ "mark" \in RequestStep
    BY DEF Retry, RequestStep
  <2>2. /\ request[r].at = "idle" /\ request' \in [Requests -> Request] /\ RequestOthers(r)
        /\ request'[r] = [at |-> "mark", material |-> m]
    BY <2>1, OpenFacts, Zenon
  <2>3. QED
    BY <2>2
<1>2. /\ material[m].status # "NONE" /\ retries < MaxRetries /\ retries' = retries + 1
      /\ UNCHANGED <<material, file, chunks, linked, job, worker, faults>>
  BY DEF Retry, Exists, rows
<1>3. TypeOK'
  BY <1>1, <1>2, PipelineAssumption DEF TypeInv, TypeOK
<1>4. RunInv'
  BY <1>2, RunsLeft
<1>5. RequestInv'
  BY <1>1, <1>2, RequestsKept
<1>6. RowInv'
  <2>1. request'[r].at \in Creating /\ request[r].at \notin Creating
    BY <1>1 DEF Creating
  <2>2. \A k \in Materials :
            /\ IsFiniteSet(Pending(k)') /\ Cardinality(Pending(k)) \in Nat
            /\ Cardinality(Pending(k)') = Cardinality(Pending(k)) + (IF k = m THEN 1 ELSE 0)
    BY <1>1, <2>1, PendingMore DEF TypeInv
  <2>3. \A k \in Materials : Origins(k)' = Origins(k) + 1 /\ Origins(k) \in Nat
    BY <1>2 DEF Origins, TypeInv, TypeOK
  <2>4. \A k \in Materials : /\ job'[k] = job[k] /\ material'[k] = material[k] /\ job[k].id \in Nat
    BY <1>2 DEF TypeInv, TypeOK, Job
  <2>5. \A k \in Materials : job[k].id + Cardinality(Pending(k)) <= Origins(k)
    BY DEF TypeInv, RowInv
  <2>6. \A k \in Materials : job'[k].id + Cardinality(Pending(k)') <= Origins(k)'
    BY <2>2, <2>3, <2>4, <2>5
  <2>7. QED
    BY <2>2, <2>4, <2>6 DEF TypeInv, RowInv, Waits, HasJob, Exists
<1>7. QED
  BY <1>3, <1>4, <1>5, <1>6 DEF TypeInv

\* Facts about the rows of a step that leaves them alone.
LEMMA PendingFew ==
    ASSUME TypeInv, NEW r \in Requests, RequestOthers(r),
           \/ request'[r].at \notin Creating
           \/ request[r].at \in Creating /\ request'[r].at \in Creating
              /\ request'[r].material = request[r].material,
           NEW m \in Materials
    PROVE  /\ IsFiniteSet(Pending(m)') /\ Cardinality(Pending(m)') \in Nat
           /\ Cardinality(Pending(m)') <= Cardinality(Pending(m))
           /\ Cardinality(Pending(m)) \in Nat
<1>1. IsFiniteSet(Pending(m)) /\ Cardinality(Pending(m)) \in Nat
  BY FS_CardinalityType DEF TypeInv, RowInv
<1>2. CASE request'[r].at \notin Creating
  BY <1>2, PendingLess DEF TypeInv
<1>3. CASE request[r].at \in Creating /\ request'[r].at \in Creating
           /\ request'[r].material = request[r].material
  <2>1. Pending(m)' = Pending(m)
    BY <1>3, PendingKept DEF TypeInv
  <2>2. QED
    BY <1>1, <2>1
<1>4. QED
  BY <1>2, <1>3

LEMMA OriginsGrow ==
    ASSUME TypeOK, NEW m \in Materials, retries' = retries \/ retries' = retries + 1,
           material'[m].status = "NONE" <=> material[m].status = "NONE",
           material[m].status = "NONE" => file'[m] = file[m]
    PROVE  Origins(m)' >= Origins(m) /\ Origins(m)' \in Nat
<1>1. retries \in Nat
  BY DEF TypeOK
<1>2. PICK n \in {0, 1} : n = IF file[m] \/ material[m].status # "NONE" THEN 1 ELSE 0
  OBVIOUS
<1>3. n = IF file'[m] \/ material'[m].status # "NONE" THEN 1 ELSE 0
  BY <1>2
<1>4. Origins(m) = n + retries /\ Origins(m)' = n + retries'
  BY <1>2, <1>3, Zenon DEF Origins
<1>5. QED
  BY <1>1, <1>4

\* What a request step leaves of the rows, when the statuses keep to their classes.
LEMMA RowsOfRequest ==
    ASSUME TypeInv, NEW r \in Requests, RequestOthers(r),
           retries' = retries \/ retries' = retries + 1,
           \/ request'[r].at \notin Creating
           \/ request[r].at \in Creating /\ request'[r].at \in Creating
              /\ request'[r].material = request[r].material,
           \A m \in Materials :
               /\ material'[m].status = "NONE" <=> material[m].status = "NONE"
               /\ material[m].status = "NONE" => file'[m] = file[m]
               /\ job'[m].id = job[m].id
               /\ HasJob(m)' => HasJob(m)
               /\ Waits(m)' => job'[m].attempts < MaxAttempts
               /\ Exists(m)' => Exists(m) /\ (HasJob(m) => HasJob(m)')
    PROVE  RowInv'
<1>1. \A m \in Materials :
          /\ IsFiniteSet(Pending(m)') /\ Cardinality(Pending(m)') \in Nat
          /\ Cardinality(Pending(m)') <= Cardinality(Pending(m))
          /\ Cardinality(Pending(m)) \in Nat
  BY PendingFew
<1>2. \A m \in Materials : Origins(m)' >= Origins(m) /\ Origins(m)' \in Nat
  BY OriginsGrow DEF TypeInv
<1>3. QED
  BY <1>1, <1>2, RowsFrom

LEMMA EnqueueTypeInv ==
    ASSUME Timely, TypeInv, NEW r \in Requests, Enqueue(r)
    PROVE  TypeInv'
<1>1. PICK m \in Materials : m = request[r].material
  BY UnderWay DEF Enqueue, At
<1>2. request[r].at = "enqueue"
  BY DEF Enqueue, At
<1>3. /\ request' \in [Requests -> Request] /\ RequestOthers(r)
      /\ request'[r].at = "idle" /\ request'[r].material = NoMaterial
  BY CloseFacts DEF Enqueue
<1>4. UNCHANGED <<material, file, chunks, linked, worker, retries, faults>>
  BY DEF Enqueue
<1>5. material[m].status # "NONE"
  BY <1>1, <1>2 DEF TypeInv, RequestInv
<1>6. request'[r].at \notin Creating /\ r \in Pending(m)
  BY <1>1, <1>2, <1>3 DEF Creating, Pending
<1>7. \A k \in Materials :
          /\ IsFiniteSet(Pending(k)') /\ Cardinality(Pending(k)') \in Nat
          /\ Cardinality(Pending(k)') <= Cardinality(Pending(k))
          /\ Cardinality(Pending(k)) \in Nat
  BY <1>3, <1>6, PendingLess DEF TypeInv
<1>8. Cardinality(Pending(m)') + 1 <= Cardinality(Pending(m))
  BY <1>3, <1>6, PendingLess DEF TypeInv
<1>9. \A k \in Materials : Origins(k)' = Origins(k) /\ Origins(k) \in Nat /\ Origins(k) <= MaxRows
  BY <1>4, PipelineAssumption DEF Origins, MaxRows, TypeInv, TypeOK
<1>10. \A k \in Materials : job[k].id \in Nat /\ job[k].id + Cardinality(Pending(k)) <= Origins(k)
  BY DEF TypeInv, TypeOK, RowInv, Job
<1>11. RequestInv'
  BY <1>3, <1>4, RequestsKept
<1>12. CASE HasJob(m)
  <2>1. job' = job
    BY <1>1, <1>12 DEF Enqueue, TypeInv, TypeOK
  <2>2. TypeOK'
    BY <1>3, <1>4, <2>1 DEF TypeInv, TypeOK
  <2>3. RunInv'
    BY <1>4, <2>1, RunsLeft
  <2>4. \A k \in Materials : Waits(k)' => job'[k].attempts < MaxAttempts
    BY <2>1 DEF TypeInv, RowInv, Waits
  <2>5. RowInv'
    <3>1. retries' = retries
      BY <1>4 DEF TypeInv, TypeOK
    <3>2. \A k \in Materials :
               /\ material'[k].status = "NONE" <=> material[k].status = "NONE"
               /\ material[k].status = "NONE" => file'[k] = file[k]
               /\ job'[k].id = job[k].id
               /\ HasJob(k)' => HasJob(k)
               /\ Waits(k)' => job'[k].attempts < MaxAttempts
               /\ Exists(k)' => Exists(k) /\ (HasJob(k) => HasJob(k)')
      BY <1>4, <2>1, <2>4 DEF HasJob, Exists
    <3>3. QED
      BY <1>3, <1>6, <3>1, <3>2, RowsOfRequest
  <2>6. QED
    BY <1>11, <2>2, <2>3, <2>5 DEF TypeInv
<1>13. CASE ~HasJob(m)
  <2>1. PICK i \in Nat : i = job[m].id
    BY <1>10
  <2>2. i + 1 \in 0..MaxRows
    BY <1>7, <1>8, <1>9, <1>10, <2>1, PipelineAssumption DEF MaxRows
  <2>3. PICK row : row = [id |-> i + 1, status |-> "PENDING", attempts |-> 0]
    OBVIOUS
  <2>4. 0 \in Attempts
    BY SmallAttempts, PipelineAssumption
  <2>5. row \in Job /\ row.id = i + 1 /\ row.status = "PENDING" /\ row.attempts = 0
    BY <2>2, <2>3, <2>4 DEF Job, JobStatus
  <2>6. job' = [job EXCEPT ![m] = row]
    BY <1>1, <1>13, <2>1, <2>3 DEF Enqueue, TypeInv, TypeOK
  <2>7. job' \in [Materials -> Job] /\ JobOthers(m) /\ job'[m] = row
    BY <2>5, <2>6, JobRowFacts
  <2>8. TypeOK'
    BY <1>3, <1>4, <2>7 DEF TypeInv, TypeOK
  <2>9. RunInv'
    <3>1. \A v \in Workers : worker[v].material = m => worker[v].id <= job[m].id /\ worker[v].id \in Nat
      <4>1. \A v \in Workers : worker[v].material = m => worker[v].at # "idle"
        BY PipelineAssumption DEF TypeInv, RunInv
      <4>2. QED
        BY <1>10, <4>1, Running
    <3>2. \A v \in Workers : worker[v].material = m => worker[v].id # job'[m].id
      BY <2>1, <2>5, <2>7, <3>1
    <3>3. job'[m].id \in Nat /\ job'[m].id >= job[m].id
      BY <2>1, <2>5, <2>7
    <3>4. \A k \in Materials \ {m} : job'[k] = job[k]
      BY <2>7 DEF JobOthers
    <3>5. \A k \in Materials : job'[k] = job[k] \/
               (/\ job'[k].id \in Nat /\ job'[k].id >= job[k].id
                /\ \A v \in Workers : worker[v].material = k =>
                       worker[v].id # job'[k].id \/ job'[k].status = "NONE")
      BY <3>2, <3>3, <3>4
    <3>6. QED
      BY <1>4, <3>5, RunsLeft
  <2>10. RowInv'
    <3>1. \A k \in Materials : job'[k].id + Cardinality(Pending(k)') <= Origins(k)'
      <4>1. job'[m].id + Cardinality(Pending(m)') <= Origins(m)'
        BY <1>7, <1>8, <1>9, <1>10, <2>1, <2>5, <2>7
      <4>2. \A k \in Materials \ {m} : job'[k].id + Cardinality(Pending(k)') <= Origins(k)'
        BY <1>7, <1>9, <1>10, <2>7 DEF JobOthers
      <4>3. QED
        BY <4>1, <4>2
    <3>2. ASSUME NEW k \in Materials
          PROVE  /\ (Waits(k) => job[k].attempts < MaxAttempts)'
                 /\ (HasJob(k) => job[k].id >= 1)'
                 /\ (Exists(k) => job[k].id <= 1 /\ (job[k].id = 1 => HasJob(k)))'
                 /\ (material[k].status = "NONE" => job[k].id = 0)'
      <4>1. CASE k = m
        <5>1. HasJob(m)'
          BY <2>5, <2>7 DEF HasJob
        <5>2. Exists(m) => i = 0
          BY <1>10, <1>13, <2>1 DEF TypeInv, RowInv
        <5>3. job'[m].id = i + 1 /\ job'[m].attempts < MaxAttempts
          BY <2>5, <2>7, PipelineAssumption
        <5>4. (Exists(m)' => Exists(m)) /\ material'[m].status # "NONE"
          BY <1>4, <1>5 DEF Exists
        <5>5. QED
          BY <2>1, <4>1, <5>1, <5>2, <5>3, <5>4
      <4>2. CASE k # m
        <5>1. job'[k] = job[k] /\ material'[k] = material[k]
          BY <1>4, <2>7, <4>2 DEF JobOthers
        <5>2. QED
          BY <5>1 DEF TypeInv, RowInv, Waits, HasJob, Exists
      <4>3. QED
        BY <4>1, <4>2
    <3>3. QED
      BY <1>7, <3>1, <3>2 DEF RowInv
  <2>11. QED
    BY <1>11, <2>8, <2>9, <2>10 DEF TypeInv
<1>14. QED
  BY <1>12, <1>13

LEMMA RetryMarksTypeInv ==
    ASSUME Timely, TypeInv, NEW r \in Requests, RetryMarks(r)
    PROVE  TypeInv'
<1>1. PICK m \in Materials : m = request[r].material
  BY UnderWay DEF RetryMarks, At
<1>2. request[r].at = "mark" /\ UNCHANGED <<file, chunks, linked, job, worker, retries, faults>>
  BY DEF RetryMarks, At
<1>3. material[m].status # "NONE"
  BY <1>1, <1>2 DEF TypeInv, RequestInv
<1>4. RunInv'
  BY <1>2, RunsLeft
<1>5. \A k \in Materials : Waits(k)' => job'[k].attempts < MaxAttempts
  BY <1>2 DEF TypeInv, RowInv, Waits
<1>6. retries' = retries \/ retries' = retries + 1
  BY <1>2 DEF TypeInv, TypeOK
<1>7. CASE Exists(m) /\ SetStatus(m, "QUEUED") /\ GoOn(r, "requeue")
  <2>1. /\ material' \in [Materials -> [status : MaterialStatus, announced : DraftCounts \cup {0}]]
        /\ MaterialOthers(m) /\ material'[m].status = "QUEUED"
    BY <1>7, SetStatusFacts DEF MaterialStatus
  <2>2. /\ request' \in [Requests -> Request] /\ RequestOthers(r)
        /\ request'[r] = [at |-> "requeue", material |-> request[r].material]
    <3>1. GoOn(r, "requeue") /\ "requeue" \in RequestStep /\ request[r].at # "idle"
      BY <1>2, <1>7 DEF RequestStep
    <3>2. QED
      BY <3>1, GoOnFacts, Zenon
  <2>3. request'[r].at = "requeue" /\ request'[r].material = m
    BY <1>1, <2>2
  <2>4. TypeOK'
    BY <1>2, <2>1, <2>2 DEF TypeInv, TypeOK
  <2>5. \A k \in Materials :
            /\ material'[k].status = "NONE" <=> material[k].status = "NONE"
            /\ Exists(k)' => Exists(k)
    BY <1>3, <1>7, <2>1 DEF MaterialOthers, Exists
  <2>6. RequestInv'
    BY <1>2, <2>1, <2>2, <2>3, <2>5, RequestsKept
  <2>7. \A k \in Materials :
            /\ job'[k].id = job[k].id /\ file'[k] = file[k]
            /\ HasJob(k)' <=> HasJob(k)
    BY <1>2 DEF HasJob
  <2>8. /\ request[r].at \in Creating /\ request'[r].at \in Creating
        /\ request'[r].material = request[r].material
    BY <1>1, <1>2, <2>3 DEF Creating
  <2>9. RowInv'
    BY <1>5, <1>6, <2>2, <2>5, <2>7, <2>8, RowsOfRequest
  <2>10. QED
    BY <1>4, <2>4, <2>6, <2>9 DEF TypeInv
<1>8. CASE UNCHANGED material /\ Close(r)
  <2>1. /\ request' \in [Requests -> Request] /\ RequestOthers(r)
        /\ request'[r].at = "idle" /\ request'[r].material = NoMaterial
    BY <1>8, CloseFacts
  <2>2. TypeOK'
    BY <1>2, <1>8, <2>1 DEF TypeInv, TypeOK
  <2>3. RequestInv'
    BY <1>2, <1>8, <2>1, RequestsKept
  <2>4. \A k \in Materials :
            /\ material'[k].status = "NONE" <=> material[k].status = "NONE"
            /\ job'[k].id = job[k].id /\ file'[k] = file[k]
            /\ HasJob(k)' <=> HasJob(k)
            /\ Exists(k)' => Exists(k)
    BY <1>2, <1>8 DEF HasJob, Exists
  <2>5. request'[r].at \notin Creating
    BY <2>1 DEF Creating
  <2>6. RowInv'
    BY <1>5, <1>6, <2>1, <2>4, <2>5, RowsOfRequest
  <2>7. QED
    BY <1>4, <2>2, <2>3, <2>6 DEF TypeInv
<1>9. QED
  BY <1>1, <1>7, <1>8 DEF RetryMarks

LEMMA RequeueTypeInv ==
    ASSUME Timely, TypeInv, NEW r \in Requests, Requeue(r)
    PROVE  TypeInv'
<1>1. PICK m \in Materials : m = request[r].material
  BY UnderWay DEF Requeue, At
<1>2. /\ request[r].at \in {"requeue", "adminRequeue"}
      /\ UNCHANGED <<material, file, chunks, linked, worker, retries, faults>>
  BY DEF Requeue, At
<1>3. material[m].status # "NONE"
  BY <1>1, <1>2 DEF TypeInv, RequestInv
<1>4. ~InProcess(m)
  BY <1>1 DEF Requeue, Undisturbed, Timely
<1>5. retries' = retries \/ retries' = retries + 1
  BY <1>2 DEF TypeInv, TypeOK
<1>6. CASE HasJob(m) /\ job' = [job EXCEPT ![m].status = "PENDING", ![m].attempts = 0] /\ Close(r)
  <2>1. /\ job' \in [Materials -> Job] /\ JobOthers(m)
        /\ job'[m].id = job[m].id /\ job'[m].status = "PENDING" /\ job'[m].attempts = 0
    BY <1>6, ResetJobFacts DEF JobStatus
  <2>2. /\ request' \in [Requests -> Request] /\ RequestOthers(r)
        /\ request'[r].at = "idle" /\ request'[r].material = NoMaterial
    BY <1>6, CloseFacts
  <2>3. TypeOK'
    BY <1>2, <2>1, <2>2 DEF TypeInv, TypeOK
  <2>4. RequestInv'
    BY <1>2, <2>2, RequestsKept
  <2>5. RunInv'
    <3>1. job'[m].id \in Nat /\ job'[m].id >= job[m].id
      BY <2>1 DEF TypeInv, TypeOK, Job
    <3>2. \A k \in Materials : job'[k] = job[k] \/
               (/\ job'[k].id \in Nat /\ job'[k].id >= job[k].id
                /\ \A v \in Workers : worker[v].material = k =>
                       worker[v].id # job'[k].id \/ job'[k].status = "NONE")
      BY <1>4, <2>1, <3>1 DEF JobOthers, InProcess
    <3>3. QED
      BY <1>2, <3>2, RunsLeft
  <2>6. \A k \in Materials : Waits(k)' => job'[k].attempts < MaxAttempts
    BY <2>1, PipelineAssumption DEF JobOthers, Waits, TypeInv, RowInv
  <2>7. \A k \in Materials :
            /\ material'[k].status = "NONE" <=> material[k].status = "NONE"
            /\ job'[k].id = job[k].id /\ file'[k] = file[k]
            /\ HasJob(k)' <=> HasJob(k)
            /\ Exists(k)' => Exists(k)
    BY <1>2, <1>6, <2>1 DEF JobOthers, HasJob, Exists
  <2>8. request'[r].at \notin Creating
    BY <2>2 DEF Creating
  <2>9. RowInv'
    BY <1>5, <2>2, <2>6, <2>7, <2>8, RowsOfRequest
  <2>10. QED
    BY <2>3, <2>4, <2>5, <2>9 DEF TypeInv
<1>7. ASSUME UNCHANGED job,
             request' \in [Requests -> Request], RequestOthers(r),
             \/ request'[r].at = "idle" /\ request'[r].material = NoMaterial
             \/ /\ request[r].at = "requeue" /\ request'[r].at = "enqueue"
                /\ request'[r].material = m
      PROVE  TypeInv'
  <2>1. TypeOK'
    BY <1>2, <1>7 DEF TypeInv, TypeOK
  <2>2. RequestInv'
    BY <1>2, <1>3, <1>7, RequestsKept
  <2>3. RunInv'
    BY <1>2, <1>7, RunsLeft
  <2>4. \A k \in Materials :
            /\ material'[k].status = "NONE" <=> material[k].status = "NONE"
            /\ job'[k].id = job[k].id /\ file'[k] = file[k]
            /\ HasJob(k)' <=> HasJob(k)
            /\ Exists(k)' => Exists(k)
            /\ Waits(k)' => job'[k].attempts < MaxAttempts
    BY <1>2, <1>7 DEF HasJob, Exists, Waits, TypeInv, RowInv
  <2>5. \/ request'[r].at \notin Creating
        \/ request[r].at \in Creating /\ request'[r].at \in Creating
           /\ request'[r].material = request[r].material
    BY <1>1, <1>7 DEF Creating
  <2>6. RowInv'
    BY <1>5, <1>7, <2>4, <2>5, RowsOfRequest
  <2>7. QED
    BY <2>1, <2>2, <2>3, <2>6 DEF TypeInv
<1>8. CASE At(r, "requeue") /\ UNCHANGED job /\ GoOn(r, "enqueue")
  <2>1. GoOn(r, "enqueue") /\ "enqueue" \in RequestStep /\ request[r].at # "idle"
    BY <1>2, <1>8 DEF RequestStep
  <2>2. /\ request' \in [Requests -> Request] /\ RequestOthers(r)
        /\ request'[r] = [at |-> "enqueue", material |-> request[r].material]
    BY <2>1, GoOnFacts, Zenon
  <2>3. request'[r].at = "enqueue" /\ request'[r].material = m /\ request[r].at = "requeue"
    BY <1>1, <1>8, <2>2 DEF At
  <2>4. QED
    BY <1>7, <1>8, <2>2, <2>3
<1>9. CASE UNCHANGED job /\ Close(r)
  BY <1>7, <1>9, CloseFacts
<1>10. QED
  BY <1>1, <1>6, <1>8, <1>9 DEF Requeue

LEMMA AdminRetryTypeInv ==
    ASSUME Timely, TypeInv, NEW r \in Requests, NEW m \in Materials, AdminRetry(r, m)
    PROVE  TypeInv'
<1>1. Open(r, m, "adminRequeue") /\ "adminRequeue" \in RequestStep
  BY DEF AdminRetry, RequestStep
<1>2. /\ request' \in [Requests -> Request] /\ RequestOthers(r)
      /\ request'[r] = [at |-> "adminRequeue", material |-> m]
  BY <1>1, OpenFacts, Zenon
<1>3. request'[r].at = "adminRequeue" /\ request'[r].material = m
  BY <1>2
<1>4. /\ job[m].status \in {"FAILED", "DEAD"} /\ retries < MaxRetries /\ retries' = retries + 1
      /\ UNCHANGED <<material, file, chunks, linked, job, worker, faults>>
  BY DEF AdminRetry, rows
<1>5. material[m].status # "NONE"
  BY <1>4 DEF TypeInv, RowInv, HasJob
<1>6. TypeOK'
  BY <1>2, <1>4, PipelineAssumption DEF TypeInv, TypeOK
<1>7. RequestInv'
  BY <1>2, <1>3, <1>4, <1>5, RequestsKept
<1>8. RunInv'
  BY <1>4, RunsLeft
<1>9. \A k \in Materials :
          /\ material'[k].status = "NONE" <=> material[k].status = "NONE"
          /\ job'[k].id = job[k].id /\ file'[k] = file[k]
          /\ HasJob(k)' <=> HasJob(k)
          /\ Exists(k)' => Exists(k)
          /\ Waits(k)' => job'[k].attempts < MaxAttempts
  BY <1>4 DEF HasJob, Exists, Waits, TypeInv, RowInv
<1>10. request'[r].at \notin Creating /\ (retries' = retries \/ retries' = retries + 1)
  BY <1>3, <1>4 DEF Creating, TypeInv, TypeOK
<1>11. RowInv'
  BY <1>2, <1>9, <1>10, RowsOfRequest
<1>12. QED
  BY <1>6, <1>7, <1>8, <1>11 DEF TypeInv

LEMMA DeleteFileTypeInv ==
    ASSUME Timely, TypeInv, NEW r \in Requests, NEW m \in Materials, DeleteFile(r, m)
    PROVE  TypeInv'
<1>1. Open(r, m, "deleteRows") /\ "deleteRows" \in RequestStep
  BY DEF DeleteFile, RequestStep
<1>2. /\ request' \in [Requests -> Request] /\ RequestOthers(r)
      /\ request'[r] = [at |-> "deleteRows", material |-> m]
  BY <1>1, OpenFacts, Zenon
<1>3. request'[r].at = "deleteRows" /\ request'[r].material = m
  BY <1>2
<1>4. /\ material[m].status # "NONE" /\ file' \in [Materials -> BOOLEAN]
      /\ \A k \in Materials \ {m} : file'[k] = file[k]
      /\ UNCHANGED <<material, chunks, linked, job, worker, retries, faults>>
  BY DEF DeleteFile, Exists, TypeInv, TypeOK
<1>5. TypeOK'
  BY <1>2, <1>4 DEF TypeInv, TypeOK
<1>6. \A k \in Materials :
          /\ material'[k].status = "NONE" <=> material[k].status = "NONE"
          /\ material[k].status = "NONE" => file'[k] = file[k]
          /\ job'[k].id = job[k].id
          /\ HasJob(k)' <=> HasJob(k)
          /\ Exists(k)' => Exists(k)
          /\ Waits(k)' => job'[k].attempts < MaxAttempts
  BY <1>4 DEF HasJob, Exists, Waits, TypeInv, RowInv
<1>7. RequestInv'
  BY <1>2, <1>3, <1>4, <1>6, RequestsKept
<1>8. RunInv'
  BY <1>4, RunsLeft
<1>9. request'[r].at \notin Creating /\ (retries' = retries \/ retries' = retries + 1)
  BY <1>3, <1>4 DEF Creating, TypeInv, TypeOK
<1>10. RowInv'
  BY <1>2, <1>6, <1>9, RowsOfRequest
<1>11. QED
  BY <1>5, <1>7, <1>8, <1>10 DEF TypeInv

LEMMA RequestDiesTypeInv ==
    ASSUME Timely, TypeInv, NEW r \in Requests, RequestDies(r)
    PROVE  TypeInv'
<1>1. /\ request' \in [Requests -> Request] /\ RequestOthers(r)
      /\ request'[r].at = "idle" /\ request'[r].material = NoMaterial
  BY CloseFacts DEF RequestDies
<1>2. /\ faults' \in [worker : 0..MaxWorkerFaults, request : 0..MaxRequestFaults]
      /\ UNCHANGED <<material, file, chunks, linked, job, worker, retries>>
  <2>1. PICK n \in Nat : n = faults.request
    BY DEF TypeInv, TypeOK
  <2>2. n + 1 \in 0..MaxRequestFaults /\ faults' = [faults EXCEPT !.request = n + 1]
    BY <2>1, PipelineAssumption DEF RequestDies, TypeInv, TypeOK
  <2>3. QED
    BY <2>2 DEF RequestDies, rows, TypeInv, TypeOK
<1>3. TypeOK'
  BY <1>1, <1>2 DEF TypeInv, TypeOK
<1>4. \A k \in Materials :
          /\ material'[k].status = "NONE" <=> material[k].status = "NONE"
          /\ job'[k].id = job[k].id /\ file'[k] = file[k]
          /\ HasJob(k)' <=> HasJob(k)
          /\ Exists(k)' => Exists(k)
          /\ Waits(k)' => job'[k].attempts < MaxAttempts
  BY <1>2 DEF HasJob, Exists, Waits, TypeInv, RowInv
<1>5. RequestInv'
  BY <1>1, <1>2, RequestsKept
<1>6. RunInv'
  BY <1>2, RunsLeft
<1>7. request'[r].at \notin Creating /\ (retries' = retries \/ retries' = retries + 1)
  BY <1>1, <1>2 DEF Creating, TypeInv, TypeOK
<1>8. RowInv'
  BY <1>1, <1>4, <1>7, RowsOfRequest
<1>9. QED
  BY <1>3, <1>5, <1>6, <1>8 DEF TypeInv

\* A material's row goes, with its chunks and links.
LEMMA RowsGoFacts ==
    ASSUME TypeInv, NEW m \in Materials, Exists(m), RowsGo(m)
    PROVE  /\ material' \in [Materials -> [status : MaterialStatus, announced : DraftCounts \cup {0}]]
           /\ MaterialOthers(m) /\ material'[m].status = "GONE"
           /\ chunks'[m] = {} /\ linked'[m] = {}
           /\ chunks' \in [Materials -> SUBSET Chunk] /\ linked' \in [Materials -> SUBSET Concepts]
           /\ \A k \in Materials \ {m} : chunks'[k] = chunks[k]
           /\ \A k \in Materials :
                 /\ material'[k].status = "NONE" <=> material[k].status = "NONE"
                 /\ Exists(k)' => Exists(k) /\ k # m
<1>1. /\ material' \in [Materials -> [status : MaterialStatus, announced : DraftCounts \cup {0}]]
      /\ MaterialOthers(m) /\ material'[m].status = "GONE"
  BY SetStatusFacts DEF RowsGo, MaterialStatus
<1>2. chunks' = [chunks EXCEPT ![m] = {}] /\ linked' = [linked EXCEPT ![m] = {}]
  BY DEF RowsGo
<1>3. /\ \A k \in Materials \ {m} : chunks'[k] = chunks[k] /\ linked'[k] = linked[k]
      /\ chunks'[m] = {} /\ linked'[m] = {}
  BY <1>2 DEF TypeInv, TypeOK
<1>4. chunks' \in [Materials -> SUBSET Chunk] /\ linked' \in [Materials -> SUBSET Concepts]
  BY <1>2 DEF TypeInv, TypeOK
<1>5. \A k \in Materials :
          /\ material'[k].status = "NONE" <=> material[k].status = "NONE"
          /\ Exists(k)' => Exists(k) /\ k # m
  BY <1>1 DEF MaterialOthers, Exists
<1>6. QED
  BY <1>1, <1>3, <1>4, <1>5

LEMMA DeleteRowsTypeInv ==
    ASSUME Timely, TypeInv, NEW r \in Requests, DeleteRows(r)
    PROVE  TypeInv'
<1>1. PICK m \in Materials : m = request[r].material
  BY UnderWay DEF DeleteRows, At
<1>2. /\ request' \in [Requests -> Request] /\ RequestOthers(r)
      /\ request'[r].at = "idle" /\ request'[r].material = NoMaterial
  BY CloseFacts DEF DeleteRows
<1>3. UNCHANGED <<file, worker, retries, faults>>
  BY DEF DeleteRows
<1>4. request'[r].at \notin Creating /\ (retries' = retries \/ retries' = retries + 1)
  BY <1>2, <1>3 DEF Creating, TypeInv, TypeOK
<1>5. CASE Exists(m) /\ RowsGo(m) /\ job' = [job EXCEPT ![m].status = "NONE", ![m].attempts = 0]
  <2>1. /\ job' \in [Materials -> Job] /\ JobOthers(m)
        /\ job'[m].id = job[m].id /\ job'[m].status = "NONE" /\ job'[m].attempts = 0
    BY <1>5, ResetJobFacts DEF JobStatus
  <2>2. TypeOK'
    BY <1>2, <1>3, <1>5, <2>1, RowsGoFacts DEF TypeInv, TypeOK
  <2>3. \A k \in Materials :
            /\ material'[k].status = "NONE" <=> material[k].status = "NONE"
            /\ Exists(k)' => Exists(k) /\ k # m
    BY <1>5, RowsGoFacts
  <2>4. \A k \in Materials :
            /\ job'[k].id = job[k].id /\ file'[k] = file[k]
            /\ HasJob(k)' => HasJob(k)
            /\ k # m => (HasJob(k)' <=> HasJob(k))
            /\ Waits(k)' => job'[k].attempts < MaxAttempts
    BY <1>3, <2>1 DEF JobOthers, HasJob, Waits, TypeInv, RowInv
  <2>5. RequestInv'
    BY <1>2, <2>3, <2>4, RequestsKept
  <2>6. RowInv'
    BY <1>2, <1>4, <2>3, <2>4, RowsOfRequest
  <2>7. RunInv'
    <3>1. job'[m].id \in Nat /\ job'[m].id >= job[m].id
      BY <2>1 DEF TypeInv, TypeOK, Job
    <3>2. \A k \in Materials : job'[k] = job[k] \/
               (/\ job'[k].id \in Nat /\ job'[k].id >= job[k].id
                /\ \A v \in Workers : worker[v].material = k =>
                       worker[v].id # job'[k].id \/ job'[k].status = "NONE")
      BY <2>1, <3>1 DEF JobOthers
    <3>3. QED
      BY <1>3, <3>2, RunsLeft
  <2>8. QED
    BY <2>2, <2>5, <2>6, <2>7 DEF TypeInv
<1>6. CASE UNCHANGED <<material, chunks, linked, job>>
  <2>1. TypeOK'
    BY <1>2, <1>3, <1>6 DEF TypeInv, TypeOK
  <2>2. \A k \in Materials :
            /\ material'[k].status = "NONE" <=> material[k].status = "NONE"
            /\ job'[k].id = job[k].id /\ file'[k] = file[k]
            /\ HasJob(k)' <=> HasJob(k)
            /\ Exists(k)' => Exists(k)
            /\ Waits(k)' => job'[k].attempts < MaxAttempts
    BY <1>3, <1>6 DEF HasJob, Exists, Waits, TypeInv, RowInv
  <2>3. RequestInv'
    BY <1>2, <2>2, RequestsKept
  <2>4. RowInv'
    BY <1>2, <1>4, <2>2, RowsOfRequest
  <2>5. RunInv'
    BY <1>3, <1>6, RunsLeft
  <2>6. QED
    BY <2>1, <2>3, <2>4, <2>5 DEF TypeInv
<1>7. QED
  BY <1>1, <1>5, <1>6 DEF DeleteRows

LEMMA DeleteProjectTypeInv ==
    ASSUME Timely, TypeInv, NEW m \in Materials, DeleteProject(m)
    PROVE  TypeInv'
<1>1. /\ Exists(m) /\ RowsGo(m)
      /\ UNCHANGED <<file, job, worker, request, retries, faults>>
  BY DEF DeleteProject
<1>2. TypeOK'
  BY <1>1, RowsGoFacts DEF TypeInv, TypeOK
<1>3. \A k \in Materials :
          /\ material'[k].status = "NONE" <=> material[k].status = "NONE"
          /\ Exists(k)' => Exists(k)
  BY <1>1, RowsGoFacts
<1>4. RequestInv'
  <2>1. \A s \in Requests : request[s].at # "idle" => request[s].material \in Materials
    BY UnderWay
  <2>2. QED
    BY <1>1, <1>3, <2>1 DEF TypeInv, RequestInv
<1>5. RowInv'
  <2>1. \A k \in Materials : Pending(k)' = Pending(k) /\ Origins(k)' = Origins(k)
    BY <1>1, <1>3 DEF Pending, Origins
  <2>2. ASSUME NEW k \in Materials
        PROVE  /\ (Waits(k) => job[k].attempts < MaxAttempts)'
               /\ (IsFiniteSet(Pending(k)) /\ job[k].id + Cardinality(Pending(k)) <= Origins(k))'
               /\ (HasJob(k) => job[k].id >= 1)'
               /\ (Exists(k) => job[k].id <= 1 /\ (job[k].id = 1 => HasJob(k)))'
               /\ (material[k].status = "NONE" => job[k].id = 0)'
    BY <1>1, <1>3, <2>1 DEF TypeInv, RowInv, Waits, HasJob
  <2>3. QED
    BY <2>2 DEF RowInv
<1>6. RunInv'
  BY <1>1, RunsLeft
<1>7. QED
  BY <1>2, <1>4, <1>5, <1>6 DEF TypeInv

-----------------------------------------------------------------------------
(* Every step keeps TypeInv: the workers *)

LEMMA ReclaimTypeInv ==
    ASSUME Timely, TypeInv, NEW m \in Materials, Reclaim(m)
    PROVE  TypeInv'
<1>1. /\ job[m].status = "RUNNING" /\ ~Held(m) /\ SetJob(m, Outcome(job[m].attempts))
      /\ UNCHANGED <<material, file, chunks, linked, worker, request, retries, faults>>
  BY DEF Reclaim, Timely
<1>2. PICK n \in Nat : n = job[m].attempts
  BY SmallAttempts DEF TypeInv, TypeOK, Job
<1>3. /\ Outcome(n) \in JobStatus /\ Outcome(n) \in {"DEAD", "FAILED"}
      /\ Outcome(n) = "FAILED" => n < MaxAttempts
  BY OutcomeFacts
<1>4. /\ job' \in [Materials -> Job] /\ JobOthers(m)
      /\ job'[m].id = job[m].id /\ job'[m].status = Outcome(n) /\ job'[m].attempts = n
  <2>1. SetJob(m, Outcome(n))
    BY <1>1, <1>2
  <2>2. QED
    BY <1>2, <1>3, <2>1, SetJobFacts
<1>5. TypeOK'
  BY <1>1, <1>4 DEF TypeInv, TypeOK
<1>6. \A k \in Materials :
          /\ material'[k].status = material[k].status \/ (Exists(k) /\ Exists(k)')
          /\ job'[k].id = job[k].id /\ (HasJob(k)' <=> HasJob(k))
          /\ Waits(k)' => job'[k].attempts < MaxAttempts
  BY <1>1, <1>3, <1>4 DEF JobOthers, HasJob, Waits, TypeInv, RowInv
<1>7. RowInv' /\ RequestInv'
  BY <1>1, <1>6, RowsKept
<1>8. RunInv'
  <2>1. job'[m].id \in Nat /\ job'[m].id >= job[m].id
    BY <1>4 DEF TypeInv, TypeOK, Job
  <2>2. \A k \in Materials : job'[k] = job[k] \/
             (/\ job'[k].id \in Nat /\ job'[k].id >= job[k].id
              /\ \A v \in Workers : worker[v].material = k =>
                     worker[v].id # job'[k].id \/ job'[k].status = "NONE")
    BY <1>1, <1>4, <2>1 DEF JobOthers, Held
  <2>3. QED
    BY <1>1, <2>2, RunsLeft
<1>9. QED
  BY <1>5, <1>7, <1>8 DEF TypeInv

LEMMA ClaimTypeInv ==
    ASSUME Timely, TypeInv, NEW w \in Workers, Claim(w)
    PROVE  TypeInv'
<1>1. UNCHANGED <<material, file, chunks, linked, request, retries, faults>>
  BY DEF Claim
<1>2. PICK m \in Materials :
          /\ Waits(m)
          /\ job' \in [Materials -> Job] /\ \A k \in Materials \ {m} : job'[k] = job[k]
          /\ job'[m].id = job[m].id /\ job'[m].status = "RUNNING"
          /\ worker' \in [Workers -> Run]
  BY ClaimFacts
<1>3. TypeOK'
  BY <1>1, <1>2 DEF TypeInv, TypeOK
<1>4. \A k \in Materials :
          /\ material'[k].status = material[k].status \/ (Exists(k) /\ Exists(k)')
          /\ job'[k].id = job[k].id /\ (HasJob(k)' <=> HasJob(k))
          /\ Waits(k)' => job'[k].attempts < MaxAttempts
  BY <1>1, <1>2 DEF HasJob, Waits, TypeInv, RowInv
<1>5. RowInv' /\ RequestInv'
  BY <1>1, <1>4, RowsKept
<1>6. RunInv'
  BY RunsClaimed
<1>7. QED
  BY <1>3, <1>5, <1>6 DEF TypeInv

\* A step of a run that leaves the jobs alone.
LEMMA QuietTypeInv ==
    ASSUME Timely, TypeInv, NEW w \in Workers,
           worker' \in [Workers -> Run], WorkerOthers(w),
           \/ worker'[w].at = "idle" /\ worker'[w].material = NoMaterial
           \/ worker[w].at # "idle" /\ GoesOn(w, worker'[w]),
           material' \in [Materials -> [status : MaterialStatus, announced : DraftCounts \cup {0}]],
           chunks' \in [Materials -> SUBSET Chunk], linked' \in [Materials -> SUBSET Concepts],
           faults' \in [worker : 0..MaxWorkerFaults, request : 0..MaxRequestFaults],
           UNCHANGED <<file, job, request, retries>>,
           \A k \in Materials :
               material'[k].status = material[k].status \/ (Exists(k) /\ Exists(k)')
    PROVE  TypeInv'
<1>1. TypeOK'
  BY DEF TypeInv, TypeOK
<1>2. \A k \in Materials :
          /\ material'[k].status = material[k].status \/ (Exists(k) /\ Exists(k)')
          /\ job'[k].id = job[k].id /\ (HasJob(k)' <=> HasJob(k))
          /\ Waits(k)' => job'[k].attempts < MaxAttempts
  BY DEF HasJob, Waits, TypeInv, RowInv
<1>3. RowInv' /\ RequestInv'
  BY <1>2, RowsKept
<1>4. RunInv'
  BY RunsKeptQuietly
<1>5. QED
  BY <1>1, <1>3, <1>4 DEF TypeInv

LEMMA CrashFacts ==
    ASSUME TypeInv, WorkerFault
    PROVE  /\ faults' \in [worker : 0..MaxWorkerFaults, request : 0..MaxRequestFaults]
           /\ faults'.request = faults.request
<1>1. PICK n \in Nat : n = faults.worker
  BY DEF TypeInv, TypeOK
<1>2. n + 1 \in 0..MaxWorkerFaults /\ faults' = [faults EXCEPT !.worker = n + 1]
  BY <1>1, PipelineAssumption DEF WorkerFault, TypeInv, TypeOK
<1>3. QED
  BY <1>2 DEF TypeInv, TypeOK

LEMMA FindTypeInv ==
    ASSUME Timely, TypeInv, NEW w \in Workers, Find(w)
    PROVE  TypeInv'
<1>1. /\ worker[w].at # "idle" /\ UNCHANGED <<material, file, chunks, linked, job, request, retries, faults>>
      /\ Proceed(w, "mark") \/ Proceed(w, "fail")
  BY DEF Find, On, rows
<1>2. worker' \in [Workers -> Run] /\ WorkerOthers(w) /\ GoesOn(w, worker'[w])
  BY <1>1, ProceedFacts DEF RunStep, GoesOn
<1>3. QED
  BY <1>1, <1>2, QuietTypeInv DEF TypeInv, TypeOK

\* A run sets the status of a material that is there, or finds none.
LEMMA StatusTypeInv ==
    ASSUME Timely, TypeInv, NEW w \in Workers, worker[w].at # "idle",
           worker' \in [Workers -> Run], WorkerOthers(w), GoesOn(w, worker'[w]),
           NEW m \in Materials, NEW status \in MaterialStatus \ {"NONE", "GONE"},
           (Exists(m) /\ SetStatus(m, status)) \/ UNCHANGED material,
           UNCHANGED <<file, chunks, linked, job, request, retries, faults>>
    PROVE  TypeInv'
<1>1. CASE Exists(m) /\ SetStatus(m, status)
  <2>1. /\ material' \in [Materials -> [status : MaterialStatus, announced : DraftCounts \cup {0}]]
        /\ MaterialOthers(m) /\ material'[m].status = status
    BY <1>1, SetStatusFacts
  <2>2. \A k \in Materials :
               material'[k].status = material[k].status \/ (Exists(k) /\ Exists(k)')
    BY <1>1, <2>1 DEF MaterialOthers, Exists
  <2>3. QED
    BY <2>1, <2>2, QuietTypeInv DEF TypeInv, TypeOK
<1>2. CASE UNCHANGED material
  BY <1>2, QuietTypeInv DEF TypeInv, TypeOK
<1>3. QED
  BY <1>1, <1>2

LEMMA MarkTypeInv ==
    ASSUME Timely, TypeInv, NEW w \in Workers, Mark(w)
    PROVE  TypeInv'
<1>1. /\ worker[w].at # "idle" /\ UNCHANGED <<file, chunks, linked, job, request, retries, faults>>
      /\ Proceed(w, "get") \/ Proceed(w, "fail")
      /\ (Exists(worker[w].material) /\ SetStatus(worker[w].material, "PROCESSING")) \/ UNCHANGED material
  BY DEF Mark, On
<1>2. worker' \in [Workers -> Run] /\ WorkerOthers(w) /\ GoesOn(w, worker'[w])
  BY <1>1, ProceedFacts DEF RunStep, InTry, GoesOn
<1>3. worker[w].material \in Materials
  BY <1>1, Running
<1>4. QED
  BY <1>1, <1>2, <1>3, StatusTypeInv DEF MaterialStatus

LEMMA MarkFailedTypeInv ==
    ASSUME Timely, TypeInv, NEW w \in Workers, MarkFailed(w)
    PROVE  TypeInv'
<1>1. /\ worker[w].at # "idle" /\ UNCHANGED <<file, chunks, linked, job, request, retries, faults>>
      /\ Proceed(w, "fail")
      /\ (Exists(worker[w].material) /\ SetStatus(worker[w].material, "FAILED")) \/ UNCHANGED material
  BY DEF MarkFailed, On
<1>2. worker' \in [Workers -> Run] /\ WorkerOthers(w) /\ GoesOn(w, worker'[w])
  BY <1>1, ProceedFacts DEF RunStep, GoesOn
<1>3. worker[w].material \in Materials
  BY <1>1, Running
<1>4. QED
  BY <1>1, <1>2, <1>3, StatusTypeInv DEF MaterialStatus

\* A document cut into n chunks.
LEMMA GetFacts ==
    ASSUME TypeInv, NEW w \in Workers, worker[w].at # "idle", NEW n \in DraftCounts,
           worker' = [worker EXCEPT ![w].at = "deleteChunks", ![w].drafts = n]
    PROVE  /\ GoesOn(w, worker'[w])
           /\ worker'[w].at = "deleteChunks" /\ worker'[w].drafts = n
           /\ worker'[w].done = worker[w].done
<1>1. PICK b : b = [worker[w] EXCEPT !.at = "deleteChunks", !.drafts = n]
  OBVIOUS
<1>2. /\ b \in Run /\ b.at = "deleteChunks" /\ b.material = worker[w].material /\ b.id = worker[w].id
      /\ b.attempts = worker[w].attempts /\ b.drafts = n /\ b.done = worker[w].done
  BY <1>1, Running DEF Run, RunStep, InTry
<1>3. worker' = [worker EXCEPT ![w] = b]
  BY <1>1 DEF TypeInv, TypeOK
<1>4. worker' \in [Workers -> Run] /\ worker'[w] = b /\ WorkerOthers(w)
  BY <1>2, <1>3, WorkerChanges DEF TypeInv, TypeOK
<1>5. QED
  BY <1>2, <1>4 DEF GoesOn

LEMMA GetDocumentTypeInv ==
    ASSUME Timely, TypeInv, NEW w \in Workers, GetDocument(w)
    PROVE  TypeInv'
<1>1. worker[w].at # "idle" /\ UNCHANGED <<material, file, chunks, linked, job, request, retries, faults>>
  BY DEF GetDocument, On, rows
<1>2. GoesOn(w, worker'[w])
  <2>1. CASE Proceed(w, "caught")
    BY <1>1, <2>1, ProceedFacts DEF RunStep
  <2>2. CASE \E n \in DraftCounts : worker' = [worker EXCEPT ![w].at = "deleteChunks", ![w].drafts = n]
    BY <1>1, <2>2, GetFacts
  <2>3. QED
    BY <2>1, <2>2 DEF GetDocument
<1>3. worker' \in [Workers -> Run] /\ WorkerOthers(w)
  BY <1>2 DEF GoesOn
<1>4. QED
  BY <1>1, <1>2, <1>3, QuietTypeInv DEF TypeInv, TypeOK

LEMMA DeleteChunksTypeInv ==
    ASSUME Timely, TypeInv, NEW w \in Workers, DeleteChunks(w)
    PROVE  TypeInv'
<1>1. /\ worker[w].at # "idle" /\ UNCHANGED <<material, file, linked, job, request, retries, faults>>
      /\ Proceed(w, "extract") \/ Proceed(w, "createChunks")
      /\ chunks' = [chunks EXCEPT ![worker[w].material] = {}]
  BY DEF DeleteChunks, On
<1>2. worker' \in [Workers -> Run] /\ WorkerOthers(w) /\ GoesOn(w, worker'[w])
  BY <1>1, ProceedFacts DEF RunStep, InTry, GoesOn
<1>3. chunks' \in [Materials -> SUBSET Chunk]
  BY <1>1 DEF TypeInv, TypeOK
<1>4. QED
  BY <1>1, <1>2, <1>3, QuietTypeInv DEF TypeInv, TypeOK

\* The chunks a run creates.
New(w, m) == [ord : (1..worker[w].drafts) \ {c.ord : c \in chunks[m]}, run : {w}, embedded : {FALSE}]

LEMMA NewFacts ==
    ASSUME TypeInv, NEW w \in Workers, worker[w].at # "idle", NEW m \in Materials
    PROVE  /\ New(w, m) \subseteq Chunk
           /\ \A c \in New(w, m) : c.run = w
           /\ chunks[m] = {} => {c.ord : c \in New(w, m)} = 1..worker[w].drafts
           /\ \A c, d \in New(w, m) : c.ord = d.ord => c = d
           /\ worker[w].done = 0 => \A c \in New(w, m) : ~(c.ord <= worker[w].done)
<1>1. 1..worker[w].drafts \subseteq Ords
  <2>1. worker[w].drafts \in DraftCounts \cup {0}
    BY Running
  <2>2. CASE worker[w].drafts \in DraftCounts
    BY <2>2 DEF Ords
  <2>3. CASE worker[w].drafts = 0
    BY <2>3
  <2>4. QED
    BY <2>1, <2>2, <2>3
<1>2. New(w, m) \subseteq Chunk
  BY <1>1 DEF New, Chunk
<1>3. \A c \in New(w, m) : c.run = w /\ c.ord \in 1..worker[w].drafts
  BY DEF New
<1>4. \A c, d \in New(w, m) : c.ord = d.ord => c = d
  <2>1. \A c, d \in Chunk : c.ord = d.ord /\ c.run = d.run /\ c.embedded = d.embedded => c = d
    BY DEF Chunk
  <2>2. \A c \in New(w, m) : c \in Chunk /\ c.run = w /\ c.embedded = FALSE
    BY <1>2 DEF New
  <2>3. QED
    BY <2>1, <2>2
<1>5. ASSUME chunks[m] = {} PROVE {c.ord : c \in New(w, m)} = 1..worker[w].drafts
  <2>1. \A i \in 1..worker[w].drafts : [ord |-> i, run |-> w, embedded |-> FALSE] \in New(w, m)
    BY <1>5 DEF New
  <2>2. \A i \in 1..worker[w].drafts : \E c \in New(w, m) : c.ord = i
    BY <2>1
  <2>3. QED
    BY <1>3, <2>2
<1>6. worker[w].done = 0 => \A c \in New(w, m) : ~(c.ord <= worker[w].done)
  BY <1>3, Running
<1>7. QED
  BY <1>2, <1>3, <1>4, <1>5, <1>6

LEMMA CreateChunksTypeInv ==
    ASSUME Timely, TypeInv, NEW w \in Workers, CreateChunks(w)
    PROVE  TypeInv'
<1>1. /\ worker[w].at # "idle" /\ UNCHANGED <<material, file, linked, job, request, retries, faults>>
      /\ Proceed(w, "embed") \/ Proceed(w, "caught")
  BY DEF CreateChunks, On
<1>2. PICK m \in Materials : m = worker[w].material
  BY <1>1, Running
<1>3. chunks' = [chunks EXCEPT ![m] = @ \cup New(w, m)] \/ UNCHANGED chunks
  BY <1>2 DEF CreateChunks, New
<1>4. worker' \in [Workers -> Run] /\ WorkerOthers(w) /\ GoesOn(w, worker'[w])
  BY <1>1, ProceedFacts DEF RunStep, InTry, GoesOn
<1>5. New(w, m) \subseteq Chunk
  BY <1>1, NewFacts
<1>6. chunks' \in [Materials -> SUBSET Chunk]
  BY <1>3, <1>5 DEF TypeInv, TypeOK
<1>7. QED
  BY <1>1, <1>4, <1>6, QuietTypeInv DEF TypeInv, TypeOK

\* What a batch makes of a chunk.
Embedding(w, c) ==
    [c EXCEPT !.embedded = c.embedded \/ (c.run = w /\ c.ord <= worker[w].done + BatchSize)]

LEMMA EmbeddingFacts ==
    ASSUME NEW w \in Workers, NEW c \in Chunk
    PROVE  /\ Embedding(w, c) \in Chunk
           /\ Embedding(w, c).ord = c.ord /\ Embedding(w, c).run = c.run
           /\ Embedding(w, c).embedded <=> c.embedded \/ (c.run = w /\ c.ord <= worker[w].done + BatchSize)
<1>1. PICK e \in BOOLEAN : e = (c.embedded \/ (c.run = w /\ c.ord <= worker[w].done + BatchSize))
  OBVIOUS
<1>2. Embedding(w, c) = [c EXCEPT !.embedded = e]
  BY <1>1 DEF Embedding, Chunk
<1>3. QED
  BY <1>1, <1>2 DEF Chunk

\* EmbedBatch in these terms.
LEMMA EmbedCases ==
    ASSUME TypeInv, NEW w \in Workers, EmbedBatch(w)
    PROVE  /\ worker[w].at = "embed" /\ worker[w].material \in Materials
           /\ UNCHANGED <<material, file, linked, job, request, retries, faults>>
           /\ \/ UNCHANGED chunks /\ Proceed(w, "caught")
              \/ LET m == worker[w].material
                     last == worker[w].done + BatchSize IN
                 /\ GoesOn(w, worker'[w]) /\ worker'[w].drafts = worker[w].drafts
                 /\ worker'[w].at = IF last >= worker[w].drafts THEN "extract" ELSE "embed"
                 /\ worker'[w].done = IF last > worker[w].drafts THEN worker[w].drafts ELSE last
                 /\ chunks' \in [Materials -> SUBSET Chunk]
                 /\ \A k \in Materials \ {m} : chunks'[k] = chunks[k]
                 /\ chunks'[m] = {Embedding(w, c) : c \in chunks[m]}
<1>1. /\ worker[w].at = "embed" /\ worker[w].at # "idle"
      /\ UNCHANGED <<material, file, linked, job, request, retries, faults>>
  BY DEF EmbedBatch, On
<1>2. PICK m \in Materials : m = worker[w].material
  BY <1>1, Running
<1>3. PICK last \in Nat : last = worker[w].done + BatchSize
  BY <1>1, Running, PipelineAssumption
<1>4. CASE UNCHANGED chunks /\ Proceed(w, "caught")
  BY <1>1, <1>2, <1>4
<1>5. PICK at : at = IF last >= worker[w].drafts THEN "extract" ELSE "embed"
  OBVIOUS
<1>6. PICK done : done = IF last > worker[w].drafts THEN worker[w].drafts ELSE last
  OBVIOUS
<1>7. PICK batch : batch = {Embedding(w, c) : c \in chunks[m]}
  OBVIOUS
<1>8. CASE chunks' = [chunks EXCEPT ![m] = batch] /\ worker' = [worker EXCEPT ![w].at = at, ![w].done = done]
  <2>1. at \in RunStep /\ at # "idle"
    BY <1>5 DEF RunStep, InTry
  <2>2. done \in Ords \cup {0}
    <3>1. worker[w].drafts \in DraftCounts \cup {0} /\ worker[w].drafts \in Nat
      BY <1>1, Running
    <3>2. last \in Nat /\ done \in 0..worker[w].drafts
      BY <1>3, <1>6, <3>1
    <3>3. CASE worker[w].drafts \in DraftCounts
      <4>1. done = 0 \/ done \in 1..worker[w].drafts
        BY <3>1, <3>2
      <4>2. QED
        BY <3>3, <4>1 DEF Ords
    <3>4. CASE worker[w].drafts = 0
      BY <3>2, <3>4
    <3>5. QED
      BY <3>1, <3>3, <3>4
  <2>3. PICK b : b = [worker[w] EXCEPT !.at = at, !.done = done]
    OBVIOUS
  <2>4. /\ b \in Run /\ b.at = at /\ b.material = worker[w].material /\ b.id = worker[w].id
        /\ b.attempts = worker[w].attempts /\ b.drafts = worker[w].drafts /\ b.done = done
    BY <1>1, <2>1, <2>2, <2>3, Running DEF Run
  <2>5. worker' = [worker EXCEPT ![w] = b]
    BY <1>8, <2>3 DEF TypeInv, TypeOK
  <2>6. worker' \in [Workers -> Run] /\ worker'[w] = b /\ WorkerOthers(w)
    BY <2>4, <2>5, WorkerChanges DEF TypeInv, TypeOK
  <2>7. batch \in SUBSET Chunk
    <3>1. chunks[m] \subseteq Chunk
      BY DEF TypeInv, TypeOK
    <3>2. QED
      BY <1>7, <3>1, EmbeddingFacts
  <2>8. /\ chunks' \in [Materials -> SUBSET Chunk] /\ chunks'[m] = batch
         /\ \A k \in Materials \ {m} : chunks'[k] = chunks[k]
    BY <1>8, <2>7 DEF TypeInv, TypeOK
  <2>9. QED
    BY <1>1, <1>2, <1>3, <1>5, <1>6, <1>7, <2>1, <2>4, <2>6, <2>8 DEF GoesOn
<1>9. QED
  <2>1. \/ chunks' = [chunks EXCEPT ![m] = batch] /\ worker' = [worker EXCEPT ![w].at = at, ![w].done = done]
        \/ UNCHANGED chunks /\ Proceed(w, "caught")
    BY <1>2, <1>3, <1>5, <1>6, <1>7 DEF EmbedBatch, Embedding, TypeInv, TypeOK
  <2>2. QED
    BY <1>4, <1>8, <2>1

LEMMA EmbedBatchTypeInv ==
    ASSUME Timely, TypeInv, NEW w \in Workers, EmbedBatch(w)
    PROVE  TypeInv'
<1>1. /\ worker[w].at # "idle" /\ GoesOn(w, worker'[w]) /\ chunks' \in [Materials -> SUBSET Chunk]
      /\ UNCHANGED <<material, file, linked, job, request, retries, faults>>
  BY EmbedCases, ProceedFacts DEF RunStep, TypeInv, TypeOK
<1>2. worker' \in [Workers -> Run] /\ WorkerOthers(w)
  BY <1>1 DEF GoesOn
<1>3. QED
  BY <1>1, <1>2, QuietTypeInv DEF TypeInv, TypeOK

LEMMA ExtractConceptsTypeInv ==
    ASSUME Timely, TypeInv, NEW w \in Workers, ExtractConcepts(w)
    PROVE  TypeInv'
<1>1. /\ worker[w].at # "idle" /\ UNCHANGED <<material, file, chunks, job, request, retries, faults>>
      /\ Proceed(w, "ready") \/ Proceed(w, "caught")
  BY DEF ExtractConcepts, On
<1>2. worker' \in [Workers -> Run] /\ WorkerOthers(w) /\ GoesOn(w, worker'[w])
  BY <1>1, ProceedFacts DEF RunStep, InTry, GoesOn
<1>3. linked' \in [Materials -> SUBSET Concepts]
  <2>1. CASE UNCHANGED linked
    BY <2>1 DEF TypeInv, TypeOK
  <2>2. CASE \E found \in SUBSET Concepts : linked' = [linked EXCEPT ![worker[w].material] = @ \cup found]
    <3>1. PICK found \in SUBSET Concepts : linked' = [linked EXCEPT ![worker[w].material] = @ \cup found]
      BY <2>2
    <3>2. worker[w].material \in Materials /\ linked[worker[w].material] \cup found \in SUBSET Concepts
      BY <1>1, Running DEF TypeInv, TypeOK
    <3>3. QED
      BY <3>1, <3>2 DEF TypeInv, TypeOK
  <2>3. QED
    BY <2>1, <2>2 DEF ExtractConcepts
<1>4. QED
  BY <1>1, <1>2, <1>3, QuietTypeInv DEF TypeInv, TypeOK

\* MarkReady in facts.
LEMMA ReadyFacts ==
    ASSUME TypeInv, NEW w \in Workers, MarkReady(w)
    PROVE  /\ worker[w].at = "ready" /\ worker[w].material \in Materials
           /\ UNCHANGED <<file, chunks, linked, job, request, retries, faults>>
           /\ \/ UNCHANGED material /\ ~Exists(worker[w].material) /\ Proceed(w, "caught")
              \/ /\ Exists(worker[w].material) /\ Proceed(w, "complete")
                 /\ material' \in [Materials -> [status : MaterialStatus, announced : DraftCounts \cup {0}]]
                 /\ MaterialOthers(worker[w].material)
                 /\ material'[worker[w].material].status = "READY"
                 /\ material'[worker[w].material].announced = worker[w].drafts
<1>1. /\ worker[w].at = "ready" /\ worker[w].at # "idle"
      /\ UNCHANGED <<file, chunks, linked, job, request, retries, faults>>
  BY DEF MarkReady, On
<1>2. PICK m \in Materials : m = worker[w].material
  BY <1>1, Running
<1>3. PICK row : row = [status |-> "READY", announced |-> worker[w].drafts]
  OBVIOUS
<1>4. row \in [status : MaterialStatus, announced : DraftCounts \cup {0}]
  BY <1>1, <1>3, Running DEF MaterialStatus
<1>5. CASE UNCHANGED material /\ ~Exists(m) /\ Proceed(w, "caught")
  BY <1>1, <1>2, <1>5
<1>6. CASE Exists(m) /\ material' = [material EXCEPT ![m] = row] /\ Proceed(w, "complete")
  <2>1. /\ material' \in [Materials -> [status : MaterialStatus, announced : DraftCounts \cup {0}]]
        /\ MaterialOthers(m) /\ material'[m] = row
    BY <1>4, <1>6 DEF TypeInv, TypeOK, MaterialOthers
  <2>2. QED
    BY <1>1, <1>2, <1>3, <1>6, <2>1
<1>7. QED
  BY <1>2, <1>3, <1>5, <1>6 DEF MarkReady

LEMMA MarkReadyTypeInv ==
    ASSUME Timely, TypeInv, NEW w \in Workers, MarkReady(w)
    PROVE  TypeInv'
<1>1. worker[w].at # "idle" /\ UNCHANGED <<file, chunks, linked, job, request, retries, faults>>
  BY ReadyFacts
<1>2. worker' \in [Workers -> Run] /\ WorkerOthers(w) /\ GoesOn(w, worker'[w])
  BY <1>1, ReadyFacts, ProceedFacts DEF RunStep, InTry, GoesOn
<1>3. /\ material' \in [Materials -> [status : MaterialStatus, announced : DraftCounts \cup {0}]]
      /\ \A k \in Materials :
            material'[k].status = material[k].status \/ (Exists(k) /\ Exists(k)')
  BY ReadyFacts DEF MaterialOthers, Exists, TypeInv, TypeOK
<1>4. QED
  BY <1>1, <1>2, <1>3, QuietTypeInv DEF TypeInv, TypeOK

\* A run ends and records how on its row.
LEMMA RecordedTypeInv ==
    ASSUME Timely, TypeInv, NEW w \in Workers, worker[w].at # "idle", HasRow(w),
           worker' = [worker EXCEPT ![w] = Idle],
           NEW status \in JobStatus \ {"NONE", "PENDING"},
           status = "FAILED" => worker[w].attempts < MaxAttempts,
           SetJob(worker[w].material, status),
           UNCHANGED <<material, file, chunks, linked, request, retries, faults>>
    PROVE  TypeInv'
<1>1. PICK m \in Materials : m = worker[w].material
  BY Running
<1>2. /\ job' \in [Materials -> Job] /\ JobOthers(m)
      /\ job'[m].id = job[m].id /\ job'[m].status = status /\ job'[m].attempts = job[m].attempts
  BY <1>1, SetJobFacts
<1>3. /\ worker' \in [Workers -> Run] /\ WorkerOthers(w)
      /\ worker'[w].at = "idle" /\ worker'[w].material = NoMaterial
  BY EndFacts
<1>4. job[m].attempts = worker[w].attempts /\ HasJob(m)
  BY <1>1 DEF TypeInv, RunInv, HasRow
<1>5. TypeOK'
  BY <1>2, <1>3 DEF TypeInv, TypeOK
<1>6. \A k \in Materials :
          /\ material'[k].status = material[k].status \/ (Exists(k) /\ Exists(k)')
          /\ job'[k].id = job[k].id /\ (HasJob(k)' <=> HasJob(k))
          /\ Waits(k)' => job'[k].attempts < MaxAttempts
  BY <1>2, <1>4 DEF JobOthers, HasJob, Waits, TypeInv, RowInv
<1>7. RowInv' /\ RequestInv'
  BY <1>6, RowsKept
<1>8. \A k \in Materials : job'[k] = job[k] \/
          (k = worker[w].material /\ HasRow(w) /\ job'[k].id = job[k].id)
  BY <1>1, <1>2 DEF JobOthers
<1>9. RunInv'
  BY <1>3, <1>8, RunsEnd
<1>10. QED
  BY <1>5, <1>7, <1>9 DEF TypeInv

\* A run ends and records nothing.
LEMMA DroppedTypeInv ==
    ASSUME Timely, TypeInv, NEW w \in Workers, worker' = [worker EXCEPT ![w] = Idle],
           UNCHANGED <<rows, request, retries>>,
           faults' \in [worker : 0..MaxWorkerFaults, request : 0..MaxRequestFaults]
    PROVE  TypeInv'
<1>1. /\ worker' \in [Workers -> Run] /\ WorkerOthers(w)
      /\ worker'[w].at = "idle" /\ worker'[w].material = NoMaterial
  BY EndFacts
<1>2. QED
  BY <1>1, QuietTypeInv DEF TypeInv, TypeOK, rows

LEMMA CompleteJobTypeInv ==
    ASSUME Timely, TypeInv, NEW w \in Workers, CompleteJob(w)
    PROVE  TypeInv'
<1>1. worker[w].at # "idle" /\ UNCHANGED <<material, file, chunks, linked, request, retries, faults>>
  BY DEF CompleteJob, On
<1>2. CASE HasRow(w) /\ SetJob(worker[w].material, "COMPLETED") /\ worker' = [worker EXCEPT ![w] = Idle]
  <2>1. "COMPLETED" \in JobStatus \ {"NONE", "PENDING"}
    BY DEF JobStatus
  <2>2. QED
    BY <1>1, <1>2, <2>1, RecordedTypeInv
<1>3. CASE UNCHANGED job /\ Proceed(w, "fail")
  <2>1. worker' \in [Workers -> Run] /\ WorkerOthers(w) /\ GoesOn(w, worker'[w])
    BY <1>1, <1>3, ProceedFacts DEF RunStep, GoesOn
  <2>2. QED
    BY <1>1, <1>3, <2>1, QuietTypeInv DEF TypeInv, TypeOK
<1>4. QED
  BY <1>2, <1>3 DEF CompleteJob

LEMMA FailJobTypeInv ==
    ASSUME Timely, TypeInv, NEW w \in Workers, FailJob(w)
    PROVE  TypeInv'
<1>1. /\ worker[w].at # "idle" /\ UNCHANGED <<material, file, chunks, linked, request, retries, faults>>
      /\ worker' = [worker EXCEPT ![w] = Idle]
  BY DEF FailJob, On
<1>2. CASE HasRow(w) /\ SetJob(worker[w].material, Outcome(worker[w].attempts))
  <2>1. PICK n \in Nat : n = worker[w].attempts
    BY <1>1, Running, SmallAttempts DEF Run
  <2>2. /\ Outcome(n) \in JobStatus \ {"NONE", "PENDING"}
        /\ Outcome(n) = "FAILED" => worker[w].attempts < MaxAttempts
    BY <2>1, OutcomeFacts
  <2>3. SetJob(worker[w].material, Outcome(n))
    BY <1>2, <2>1
  <2>4. QED
    BY <1>1, <1>2, <2>2, <2>3, RecordedTypeInv
<1>3. CASE UNCHANGED job
  BY <1>1, <1>3, DroppedTypeInv DEF rows, TypeInv, TypeOK
<1>4. QED
  BY <1>2, <1>3 DEF FailJob

LEMMA WorkerCrashTypeInv ==
    ASSUME Timely, TypeInv, NEW w \in Workers, WorkerCrash(w)
    PROVE  TypeInv'
  BY CrashFacts, DroppedTypeInv DEF WorkerCrash

LEMMA WorkerDatabaseErrorTypeInv ==
    ASSUME Timely, TypeInv, NEW w \in Workers, WorkerDatabaseError(w)
    PROVE  TypeInv'
<1>1. /\ worker[w].at # "idle" /\ WorkerFault /\ UNCHANGED <<rows, request, retries>>
  BY DEF WorkerDatabaseError, InTry, On
<1>2. faults' \in [worker : 0..MaxWorkerFaults, request : 0..MaxRequestFaults]
  BY <1>1, CrashFacts
<1>3. CASE Proceed(w, "caught") \/ Proceed(w, "fail")
  <2>1. worker' \in [Workers -> Run] /\ WorkerOthers(w) /\ GoesOn(w, worker'[w])
    BY <1>1, <1>3, ProceedFacts DEF RunStep, GoesOn
  <2>2. QED
    BY <1>1, <1>2, <2>1, QuietTypeInv DEF TypeInv, TypeOK, rows
<1>4. CASE worker' = [worker EXCEPT ![w] = Idle]
  BY <1>1, <1>2, <1>4, DroppedTypeInv
<1>5. QED
  BY <1>3, <1>4 DEF WorkerDatabaseError

LEMMA TypeInvStep ==
    ASSUME Timely, TypeInv, [Next]_vars
    PROVE  TypeInv'
<1>1. CASE UNCHANGED vars
  <2>1. TypeOK'
    BY <1>1 DEF vars, TypeInv, TypeOK
  <2>2. RunInv'
    BY <1>1, RunsLeft DEF vars
  <2>3. \A k \in Materials :
            /\ material'[k].status = material[k].status \/ (Exists(k) /\ Exists(k)')
            /\ job'[k].id = job[k].id /\ (HasJob(k)' <=> HasJob(k))
            /\ Waits(k)' => job'[k].attempts < MaxAttempts
    BY <1>1 DEF vars, HasJob, Waits, TypeInv, RowInv
  <2>4. RowInv' /\ RequestInv'
    BY <1>1, <2>3, RowsKept DEF vars
  <2>5. QED
    BY <2>1, <2>2, <2>4 DEF TypeInv
<1>2. CASE \E r \in Requests : \/ \E m \in Materials : Upload(r, m) \/ Retry(r, m)
                                  \/ AdminRetry(r, m) \/ DeleteFile(r, m)
                               \/ CreateMaterial(r) \/ Enqueue(r) \/ RetryMarks(r)
                               \/ Requeue(r) \/ DeleteRows(r) \/ RequestDies(r)
  BY <1>2, UploadTypeInv, RetryTypeInv, AdminRetryTypeInv, DeleteFileTypeInv, CreateMaterialTypeInv,
     EnqueueTypeInv, RetryMarksTypeInv, RequeueTypeInv, DeleteRowsTypeInv, RequestDiesTypeInv, Zenon
<1>3. CASE \E m \in Materials : Reclaim(m) \/ DeleteProject(m)
  BY <1>3, ReclaimTypeInv, DeleteProjectTypeInv
<1>4. CASE \E w \in Workers :
              \/ Claim(w) \/ Find(w) \/ Mark(w) \/ GetDocument(w) \/ DeleteChunks(w)
              \/ CreateChunks(w) \/ EmbedBatch(w) \/ ExtractConcepts(w) \/ MarkReady(w)
              \/ MarkFailed(w) \/ CompleteJob(w) \/ FailJob(w) \/ WorkerCrash(w)
              \/ WorkerDatabaseError(w)
  BY <1>4, ClaimTypeInv, FindTypeInv, MarkTypeInv, GetDocumentTypeInv, DeleteChunksTypeInv,
     CreateChunksTypeInv, EmbedBatchTypeInv, ExtractConceptsTypeInv, MarkReadyTypeInv,
     MarkFailedTypeInv, CompleteJobTypeInv, FailJobTypeInv, WorkerCrashTypeInv,
     WorkerDatabaseErrorTypeInv, Zenon
<1>5. QED
  BY <1>1, <1>2, <1>3, <1>4, StepCases, Zenon

LEMMA TypeInvInit == Timely => (Init => TypeInv)
<1> SUFFICES ASSUME Timely, Init PROVE TypeInv
  OBVIOUS
<1>1. TypeOK
  BY SmallAttempts, IdleType, ClosedType, PipelineAssumption
     DEF Init, TypeOK, MaterialStatus, Job, JobStatus, MaxRows
<1>2. \A m \in Materials : Pending(m) = {} /\ Origins(m) = 0
  BY ClosedType, PipelineAssumption DEF Init, Pending, Origins
<1>3. RowInv
  <2>1. ASSUME NEW m \in Materials
        PROVE  /\ ~Waits(m) /\ ~HasJob(m) /\ ~Exists(m) /\ job[m].id = 0
               /\ IsFiniteSet(Pending(m)) /\ job[m].id + Cardinality(Pending(m)) <= Origins(m)
    <3>1. job[m] = [id |-> 0, status |-> "NONE", attempts |-> 0] /\ material[m].status = "NONE"
      BY DEF Init
    <3>2. IsFiniteSet({}) /\ Cardinality({}) = 0
      BY FS_EmptySet
    <3>3. QED
      BY <1>2, <3>1, <3>2 DEF Waits, HasJob, Exists
  <2>2. QED
    BY <2>1 DEF RowInv
<1>4. RequestInv
  BY ClosedType DEF Init, RequestInv
<1>5. RunInv
  BY IdleType DEF Init, RunInv
<1>6. QED
  BY <1>1, <1>3, <1>4, <1>5 DEF TypeInv

-----------------------------------------------------------------------------
(* Every step keeps ChunkInv *)

\* A material that is there has one job row, and at most one run.
LEMMA OneRun ==
    ASSUME TypeInv, NEW m \in Materials, NEW w \in Workers, worker[w].material = m
    PROVE  /\ material[m].status # "NONE"
           /\ Exists(m) => /\ job[m].status = "RUNNING"
                           /\ HasRow(w) /\ \A v \in Workers : worker[v].material = m => v = w
<1>1. NoMaterial \notin Materials
  BY PipelineAssumption
<1>2. \A v \in Workers : worker[v].material = m => worker[v].at # "idle" /\ worker[v].id \in 1..job[m].id
  BY <1>1 DEF TypeInv, RunInv
<1>3. PICK i \in Nat : i = job[m].id
  BY DEF TypeInv, TypeOK, Job
<1>4. i >= 1 /\ material[m].status # "NONE"
  BY <1>2, <1>3 DEF TypeInv, RowInv
<1>5. ASSUME Exists(m)
      PROVE  /\ job[m].status = "RUNNING"
             /\ HasRow(w) /\ \A v \in Workers : worker[v].material = m => v = w
  <2>1. i = 1 /\ HasJob(m)
    BY <1>3, <1>4, <1>5 DEF TypeInv, RowInv
  <2>2. \A v \in Workers : worker[v].material = m => worker[v].id = 1
    BY <1>2, <1>3, <2>1
  <2>3. HasRow(w)
    BY <1>3, <2>1, <2>2 DEF HasRow
  <2>4. job[m].status = "RUNNING"
    BY <1>2, <2>3 DEF TypeInv, RunInv
  <2>5. \A v \in Workers : worker[v].material = m => v = w
    BY <1>2, <2>2 DEF TypeInv, RunInv
  <2>6. QED
    BY <2>3, <2>4, <2>5
<1>6. QED
  BY <1>4, <1>5

\* The rows and the chunks of a material are left alone, and its runs say nothing
\* new about them.
LEMMA Untouched ==
    ASSUME ChunkInv, NEW m \in Materials, material'[m] = material[m], chunks'[m] = chunks[m],
           \A v \in Workers : worker'[v].material = m =>
               \/ worker'[v] = worker[v]
               \/ worker'[v].at \in {"find", "mark", "fail"}
               \/ /\ worker[v].material = m
                  /\ worker'[v].at \in {"caught", "deleteChunks"} /\ worker[v].at \in InTry
               \/ /\ worker[v].material = m
                  /\ worker'[v].at = "ready" /\ worker[v].at = "extract"
                  /\ worker'[v].drafts = worker[v].drafts
    PROVE  ChunksOf(m)'
<1>1. ChunksOf(m)
  BY DEF ChunkInv
<1>2. ASSUME Exists(m)', NEW v \in Workers, worker'[v].material = m PROVE Embeds(v, m)'
  <2>1. Exists(m)
    BY <1>2 DEF Exists
  <2>2. worker[v].material = m => Embeds(v, m)
    BY <1>1, <2>1 DEF ChunksOf
  <2>3. CASE worker'[v] = worker[v]
    BY <1>2, <2>2, <2>3 DEF Embeds, Whole
  <2>4. CASE worker'[v].at \in {"find", "mark", "fail"}
    BY <2>4 DEF Embeds, InTry
  <2>5. CASE /\ worker[v].material = m
             /\ worker'[v].at \in {"caught", "deleteChunks"} /\ worker[v].at \in InTry
    BY <2>2, <2>5 DEF Embeds, InTry
  <2>6. CASE /\ worker[v].material = m
             /\ worker'[v].at = "ready" /\ worker[v].at = "extract"
             /\ worker'[v].drafts = worker[v].drafts
    BY <2>2, <2>6 DEF Embeds, InTry, Whole
  <2>7. QED
    BY <1>2, <2>3, <2>4, <2>5, <2>6
<1>3. QED
  BY <1>1, <1>2 DEF ChunksOf, Exists, Whole

\* No run on a material: its chunks are those of its status.
LEMMA Unrun ==
    ASSUME ChunkInv, NEW m \in Materials, \A v \in Workers : worker'[v].material # m,
           \/ chunks'[m] = {} /\ material'[m].status # "READY"
           \/ chunks'[m] = chunks[m] /\ Exists(m)' /\ material'[m].status # "READY"
    PROVE  ChunksOf(m)'
  BY DEF ChunkInv, ChunksOf

LEMMA ProgressKept ==
    ASSUME ChunkInv, NEW w \in Workers, WorkerOthers(w), Progress(w)'
    PROVE  \A v \in Workers : Progress(v)'
<1>1. ASSUME NEW v \in Workers \ {w} PROVE Progress(v)'
  BY DEF ChunkInv, Progress, WorkerOthers
<1>2. QED
  BY <1>1

\* Steps of requests, and of the queue: no worker moves.
LEMMA QuietChunkInv ==
    ASSUME ChunkInv, UNCHANGED <<material, chunks, worker>>
    PROVE  ChunkInv'
<1>1. \A m \in Materials : ChunksOf(m)'
  BY Untouched
<1>2. \A v \in Workers : Progress(v)'
  BY DEF ChunkInv, Progress
<1>3. QED
  BY <1>1, <1>2 DEF ChunkInv

\* A step that changes the row, or the chunks, of one material without a run.
LEMMA RowChunkInv ==
    ASSUME ChunkInv, UNCHANGED worker, NEW m \in Materials, MaterialOthers(m),
           \A k \in Materials \ {m} : chunks'[k] = chunks[k], ChunksOf(m)'
    PROVE  ChunkInv'
<1>1. \A k \in Materials \ {m} : ChunksOf(k)'
  BY Untouched DEF MaterialOthers
<1>2. \A v \in Workers : Progress(v)'
  BY DEF ChunkInv, Progress
<1>3. QED
  BY <1>1, <1>2 DEF ChunkInv

LEMMA CreateMaterialChunkInv ==
    ASSUME TypeInv, ChunkInv, NEW r \in Requests, CreateMaterial(r)
    PROVE  ChunkInv'
<1>1. PICK m \in Materials : m = request[r].material
  BY UnderWay DEF CreateMaterial, At
<1>2. material[m].status = "NONE"
  BY <1>1 DEF CreateMaterial, At, TypeInv, RequestInv
<1>3. MaterialOthers(m) /\ material'[m].status = "QUEUED" /\ UNCHANGED <<chunks, worker>>
  <2>1. SetStatus(m, "QUEUED") /\ "QUEUED" \in MaterialStatus
    BY <1>1 DEF CreateMaterial, MaterialStatus
  <2>2. QED
    BY <2>1, SetStatusFacts DEF CreateMaterial
<1>4. chunks'[m] = {}
  BY <1>2, <1>3 DEF ChunkInv, ChunksOf, Exists
<1>5. ChunksOf(m)'
  BY <1>2, <1>3, <1>4, OneRun, Unrun
<1>6. QED
  BY <1>3, <1>5, RowChunkInv

LEMMA RetryMarksChunkInv ==
    ASSUME Timely, TypeInv, ChunkInv, NEW r \in Requests, RetryMarks(r)
    PROVE  ChunkInv'
<1>1. PICK m \in Materials : m = request[r].material
  BY UnderWay DEF RetryMarks, At
<1>2. ~InProcess(m) /\ UNCHANGED <<chunks, worker>>
  BY <1>1 DEF RetryMarks, Undisturbed, Timely
<1>3. CASE Exists(m) /\ SetStatus(m, "QUEUED")
  <2>1. MaterialOthers(m) /\ material'[m].status = "QUEUED"
    BY <1>3, SetStatusFacts DEF MaterialStatus
  <2>2. ChunksOf(m)'
    BY <1>2, <2>1, Unrun DEF InProcess, Exists
  <2>3. QED
    BY <1>2, <2>1, <2>2, RowChunkInv
<1>4. CASE UNCHANGED material
  BY <1>2, <1>4, QuietChunkInv
<1>5. QED
  BY <1>1, <1>3, <1>4 DEF RetryMarks

LEMMA GoneChunkInv ==
    ASSUME TypeInv, ChunkInv, NEW m \in Materials, Exists(m), RowsGo(m), UNCHANGED worker
    PROVE  ChunkInv'
<1>1. /\ MaterialOthers(m) /\ material'[m].status = "GONE" /\ chunks'[m] = {}
      /\ \A k \in Materials \ {m} : chunks'[k] = chunks[k]
  BY RowsGoFacts
<1>2. ChunksOf(m)'
  BY <1>1 DEF ChunksOf, Exists
<1>3. QED
  BY <1>1, <1>2, RowChunkInv

LEMMA RequestChunkInv ==
    ASSUME Timely, TypeInv, ChunkInv, NEW r \in Requests,
           \/ \E m \in Materials : Upload(r, m) \/ Retry(r, m) \/ AdminRetry(r, m) \/ DeleteFile(r, m)
           \/ CreateMaterial(r) \/ Enqueue(r) \/ RetryMarks(r)
           \/ Requeue(r) \/ DeleteRows(r) \/ RequestDies(r)
    PROVE  ChunkInv'
<1>1. CASE \/ \E m \in Materials : Upload(r, m) \/ Retry(r, m) \/ AdminRetry(r, m) \/ DeleteFile(r, m)
           \/ Enqueue(r) \/ Requeue(r) \/ RequestDies(r)
  <2>1. UNCHANGED <<material, chunks, worker>>
    BY <1>1 DEF Upload, Retry, AdminRetry, DeleteFile, Enqueue, Requeue, RequestDies, rows
  <2>2. QED
    BY <2>1, QuietChunkInv
<1>2. CASE DeleteRows(r)
  <2>1. PICK m \in Materials : m = request[r].material
    BY <1>2, UnderWay DEF DeleteRows, At
  <2>2. UNCHANGED worker /\ ((Exists(m) /\ RowsGo(m)) \/ UNCHANGED <<material, chunks>>)
    BY <1>2, <2>1 DEF DeleteRows
  <2>3. QED
    BY <2>2, GoneChunkInv, QuietChunkInv
<1>3. QED
  BY <1>1, <1>2, CreateMaterialChunkInv, RetryMarksChunkInv

\* A step of a run that changes neither the rows nor the chunks.
LEMMA RunChunkInv ==
    ASSUME ChunkInv, NEW w \in Workers, WorkerOthers(w), UNCHANGED <<material, chunks>>, Progress(w)',
           \/ worker'[w].material = NoMaterial
           \/ worker'[w].at \in {"find", "mark", "fail"}
           \/ /\ worker'[w].material = worker[w].material
              /\ worker'[w].at \in {"caught", "deleteChunks"} /\ worker[w].at \in InTry
           \/ /\ worker'[w].material = worker[w].material
              /\ worker'[w].at = "ready" /\ worker[w].at = "extract"
              /\ worker'[w].drafts = worker[w].drafts
    PROVE  ChunkInv'
<1>1. NoMaterial \notin Materials
  BY PipelineAssumption
<1>2. ASSUME NEW m \in Materials PROVE ChunksOf(m)'
  <2>1. \A v \in Workers \ {w} : worker'[v] = worker[v]
    BY DEF WorkerOthers
  <2>2. \A v \in Workers : worker'[v].material = m =>
               \/ worker'[v] = worker[v]
               \/ worker'[v].at \in {"find", "mark", "fail"}
               \/ /\ worker[v].material = m
                  /\ worker'[v].at \in {"caught", "deleteChunks"} /\ worker[v].at \in InTry
               \/ /\ worker[v].material = m
                  /\ worker'[v].at = "ready" /\ worker[v].at = "extract"
                  /\ worker'[v].drafts = worker[v].drafts
    BY <1>1, <2>1
  <2>3. QED
    BY <2>2, Untouched
<1>3. \A v \in Workers : Progress(v)'
  BY ProgressKept
<1>4. QED
  BY <1>2, <1>3 DEF ChunkInv

\* A run ends.
LEMMA EndChunkInv ==
    ASSUME Timely, TypeInv, ChunkInv, NEW w \in Workers, worker' = [worker EXCEPT ![w] = Idle],
           UNCHANGED <<material, chunks>>
    PROVE  ChunkInv'
<1>1. WorkerOthers(w) /\ worker'[w].at = "idle" /\ worker'[w].material = NoMaterial
  BY EndFacts
<1>2. Progress(w)'
  BY <1>1 DEF Progress
<1>3. QED
  BY <1>1, <1>2, RunChunkInv

\* A run goes on with the error.
LEMMA ErrorChunkInv ==
    ASSUME TypeInv, ChunkInv, NEW w \in Workers, worker[w].at # "idle",
           UNCHANGED <<material, chunks>>,
           \/ worker[w].at \in InTry /\ Proceed(w, "caught")
           \/ Proceed(w, "fail")
    PROVE  ChunkInv'
<1>1. /\ WorkerOthers(w) /\ worker'[w].material = worker[w].material
      /\ worker'[w].at = "fail" \/ (worker'[w].at = "caught" /\ worker[w].at \in InTry)
  BY ProceedFacts DEF GoesOn, RunStep
<1>2. Progress(w)'
  BY <1>1 DEF Progress
<1>3. QED
  BY <1>1, <1>2, RunChunkInv

LEMMA ClaimChunkInv ==
    ASSUME Timely, TypeInv, ChunkInv, NEW w \in Workers, Claim(w)
    PROVE  ChunkInv'
<1>1. WorkerOthers(w) /\ worker'[w].at = "find" /\ worker'[w].done = 0 /\ UNCHANGED <<material, chunks>>
  BY ClaimFacts DEF Claim
<1>2. Progress(w)'
  BY <1>1 DEF Progress
<1>3. QED
  BY <1>1, <1>2, RunChunkInv

LEMMA FindChunkInv ==
    ASSUME TypeInv, ChunkInv, NEW w \in Workers, Find(w)
    PROVE  ChunkInv'
<1>1. /\ worker[w].at = "find" /\ UNCHANGED <<material, chunks>>
      /\ Proceed(w, "mark") \/ Proceed(w, "fail")
  BY DEF Find, On, rows
<1>2. worker[w].done = 0
  BY <1>1 DEF ChunkInv, Progress
<1>3. /\ WorkerOthers(w) /\ worker'[w].done = 0 /\ worker'[w].at \in {"mark", "fail"}
  BY <1>1, <1>2, ProceedFacts DEF GoesOn, RunStep
<1>4. Progress(w)'
  BY <1>3 DEF Progress
<1>5. QED
  BY <1>1, <1>3, <1>4, RunChunkInv

LEMMA GetDocumentChunkInv ==
    ASSUME TypeInv, ChunkInv, NEW w \in Workers, GetDocument(w)
    PROVE  ChunkInv'
<1>1. worker[w].at = "get" /\ UNCHANGED <<material, chunks>>
  BY DEF GetDocument, On, rows
<1>2. worker[w].at # "idle" /\ worker[w].at \in InTry /\ worker[w].done = 0
  BY <1>1 DEF InTry, ChunkInv, Progress
<1>3. CASE Proceed(w, "caught")
  BY <1>1, <1>2, <1>3, ErrorChunkInv
<1>4. CASE \E n \in DraftCounts : worker' = [worker EXCEPT ![w].at = "deleteChunks", ![w].drafts = n]
  <2>1. /\ WorkerOthers(w) /\ worker'[w].material = worker[w].material
        /\ worker'[w].at = "deleteChunks" /\ worker'[w].done = 0
    BY <1>2, <1>4, GetFacts DEF GoesOn
  <2>2. Progress(w)'
    BY <2>1 DEF Progress
  <2>3. QED
    BY <1>1, <1>2, <2>1, <2>2, RunChunkInv
<1>5. QED
  BY <1>3, <1>4 DEF GetDocument

LEMMA ExtractConceptsChunkInv ==
    ASSUME TypeInv, ChunkInv, NEW w \in Workers, ExtractConcepts(w)
    PROVE  ChunkInv'
<1>1. worker[w].at = "extract" /\ UNCHANGED <<material, chunks>>
  BY DEF ExtractConcepts, On
<1>2. worker[w].at # "idle" /\ worker[w].at \in InTry
  BY <1>1 DEF InTry
<1>3. CASE Proceed(w, "caught")
  BY <1>1, <1>2, <1>3, ErrorChunkInv
<1>4. CASE Proceed(w, "ready")
  <2>1. /\ WorkerOthers(w) /\ worker'[w].material = worker[w].material
        /\ worker'[w].at = "ready" /\ worker'[w].drafts = worker[w].drafts
    BY <1>2, <1>4, ProceedFacts DEF GoesOn, RunStep, InTry
  <2>2. Progress(w)'
    BY <2>1 DEF Progress
  <2>3. QED
    BY <1>1, <2>1, <2>2, RunChunkInv
<1>5. QED
  BY <1>3, <1>4 DEF ExtractConcepts

LEMMA OutcomeChunkInv ==
    ASSUME Timely, TypeInv, ChunkInv, NEW w \in Workers,
           CompleteJob(w) \/ FailJob(w) \/ WorkerCrash(w) \/ WorkerDatabaseError(w)
    PROVE  ChunkInv'
<1>1. UNCHANGED <<material, chunks>>
  BY DEF CompleteJob, FailJob, WorkerCrash, WorkerDatabaseError, rows
<1>2. \/ worker' = [worker EXCEPT ![w] = Idle]
      \/ /\ worker[w].at # "idle"
         /\ (worker[w].at \in InTry /\ Proceed(w, "caught")) \/ Proceed(w, "fail")
  BY DEF CompleteJob, FailJob, WorkerCrash, WorkerDatabaseError, On, InTry
<1>3. QED
  BY <1>1, <1>2, EndChunkInv, ErrorChunkInv

\* A run changes the row or the chunks of its own material, if that is still there.
LEMMA OwnChunkInv ==
    ASSUME TypeInv, ChunkInv, NEW w \in Workers, WorkerOthers(w), NEW m \in Materials,
           worker[w].material = m, worker'[w].material = m,
           MaterialOthers(m), \A k \in Materials \ {m} : chunks'[k] = chunks[k],
           Exists(m), Exists(m)', Embeds(w, m)', Progress(w)',
           \A c, d \in chunks'[m] : c.run = d.run /\ (c.ord = d.ord => c = d),
           material'[m].status = "READY" =>
               Whole(m, material[m].announced)' /\ \A c \in chunks'[m] : c.embedded
    PROVE  ChunkInv'
<1>1. ASSUME NEW k \in Materials \ {m} PROVE ChunksOf(k)'
  <2>1. \A v \in Workers : worker'[v].material = k => worker'[v] = worker[v]
    BY DEF WorkerOthers
  <2>2. material'[k] = material[k] /\ chunks'[k] = chunks[k]
    BY DEF MaterialOthers
  <2>3. QED
    BY <2>1, <2>2, Untouched
<1>2. ChunksOf(m)'
  <2>1. \A v \in Workers : worker'[v].material = m => v = w
    BY OneRun DEF WorkerOthers
  <2>2. \A v \in Workers : worker'[v].material = m => Embeds(v, m)'
    BY <2>1
  <2>3. QED
    BY <2>2 DEF ChunksOf
<1>3. \A v \in Workers : Progress(v)'
  BY ProgressKept
<1>4. QED
  BY <1>1, <1>2, <1>3 DEF ChunkInv

\* A run goes on with a material that is gone: there are no chunks to change.
LEMMA GoneRunChunkInv ==
    ASSUME TypeInv, ChunkInv, NEW w \in Workers, WorkerOthers(w), NEW m \in Materials,
           worker'[w].material = m, UNCHANGED material, ~Exists(m), chunks'[m] = {},
           \A k \in Materials \ {m} : chunks'[k] = chunks[k], Progress(w)'
    PROVE  ChunkInv'
<1>1. ASSUME NEW k \in Materials \ {m} PROVE ChunksOf(k)'
  <2>1. \A v \in Workers : worker'[v].material = k => worker'[v] = worker[v]
    BY DEF WorkerOthers
  <2>2. QED
    BY <2>1, Untouched
<1>2. ChunksOf(m)'
  BY DEF ChunksOf, Exists
<1>3. \A v \in Workers : Progress(v)'
  BY ProgressKept
<1>4. QED
  BY <1>1, <1>2, <1>3 DEF ChunkInv

LEMMA MarkChunkInv ==
    ASSUME TypeInv, ChunkInv, NEW w \in Workers, Mark(w)
    PROVE  ChunkInv'
<1>1. worker[w].at = "mark" /\ worker[w].at # "idle" /\ UNCHANGED chunks /\ worker[w].done = 0
  BY DEF Mark, On, ChunkInv, Progress
<1>2. PICK m \in Materials : m = worker[w].material
  BY <1>1, Running
<1>3. CASE Exists(m) /\ SetStatus(m, "PROCESSING") /\ Proceed(w, "get")
  <2>1. MaterialOthers(m) /\ material'[m].status = "PROCESSING"
    BY <1>3, SetStatusFacts DEF MaterialStatus
  <2>2. /\ WorkerOthers(w) /\ worker'[w].material = m
        /\ worker'[w].at = "get" /\ worker'[w].done = 0
    BY <1>1, <1>2, <1>3, ProceedFacts DEF GoesOn, RunStep, InTry
  <2>3. Progress(w)' /\ Exists(m)' /\ Embeds(w, m)'
    BY <2>1, <2>2 DEF Progress, Exists, Embeds, InTry
  <2>4. \A c, d \in chunks'[m] : c.run = d.run /\ (c.ord = d.ord => c = d)
    BY <1>1 DEF ChunkInv, ChunksOf
  <2>5. QED
    BY <1>1, <1>2, <1>3, <2>1, <2>2, <2>3, <2>4, OwnChunkInv
<1>4. CASE UNCHANGED material /\ Proceed(w, "fail")
  BY <1>1, <1>4, ErrorChunkInv
<1>5. QED
  BY <1>2, <1>3, <1>4 DEF Mark

LEMMA MarkFailedChunkInv ==
    ASSUME TypeInv, ChunkInv, NEW w \in Workers, MarkFailed(w)
    PROVE  ChunkInv'
<1>1. worker[w].at = "caught" /\ worker[w].at # "idle" /\ UNCHANGED chunks /\ Proceed(w, "fail")
  BY DEF MarkFailed, On
<1>2. PICK m \in Materials : m = worker[w].material
  BY <1>1, Running
<1>3. CASE Exists(m) /\ SetStatus(m, "FAILED")
  <2>1. MaterialOthers(m) /\ material'[m].status = "FAILED"
    BY <1>3, SetStatusFacts DEF MaterialStatus
  <2>2. WorkerOthers(w) /\ worker'[w].material = m /\ worker'[w].at = "fail"
    BY <1>1, <1>2, ProceedFacts DEF GoesOn, RunStep
  <2>3. Progress(w)' /\ Exists(m)' /\ Embeds(w, m)'
    BY <2>1, <2>2 DEF Progress, Exists, Embeds, InTry
  <2>4. \A c, d \in chunks'[m] : c.run = d.run /\ (c.ord = d.ord => c = d)
    BY <1>1 DEF ChunkInv, ChunksOf
  <2>5. QED
    BY <1>1, <1>2, <1>3, <2>1, <2>2, <2>3, <2>4, OwnChunkInv
<1>4. CASE UNCHANGED material
  BY <1>1, <1>4, ErrorChunkInv
<1>5. QED
  BY <1>2, <1>3, <1>4 DEF MarkFailed

LEMMA MarkReadyChunkInv ==
    ASSUME TypeInv, ChunkInv, NEW w \in Workers, MarkReady(w)
    PROVE  ChunkInv'
<1>1. worker[w].at = "ready" /\ worker[w].at # "idle" /\ worker[w].at \in InTry /\ UNCHANGED chunks
  BY ReadyFacts DEF InTry
<1>2. PICK m \in Materials : m = worker[w].material
  BY <1>1, Running
<1>3. CASE UNCHANGED material /\ Proceed(w, "caught")
  BY <1>1, <1>3, ErrorChunkInv
<1>4. CASE /\ Exists(m) /\ Proceed(w, "complete") /\ MaterialOthers(m)
           /\ material'[m].status = "READY" /\ material'[m].announced = worker[w].drafts
  <2>1. WorkerOthers(w) /\ worker'[w].material = m /\ worker'[w].at = "complete"
    BY <1>1, <1>2, <1>4, ProceedFacts DEF GoesOn, RunStep
  <2>2. Progress(w)' /\ Exists(m)' /\ Embeds(w, m)'
    BY <1>4, <2>1 DEF Progress, Exists, Embeds, InTry
  <2>3. \A c, d \in chunks'[m] : c.run = d.run /\ (c.ord = d.ord => c = d)
    BY <1>1 DEF ChunkInv, ChunksOf
  <2>4. Embeds(w, m)
    BY <1>2, <1>4 DEF ChunkInv, ChunksOf
  <2>5. Whole(m, material[m].announced)' /\ \A c \in chunks'[m] : c.embedded
    BY <1>1, <1>4, <2>4 DEF Embeds, Whole
  <2>6. QED
    BY <1>1, <1>2, <1>4, <2>1, <2>2, <2>3, <2>5, OwnChunkInv
<1>5. QED
  BY <1>2, <1>3, <1>4, ReadyFacts

LEMMA DeleteChunksChunkInv ==
    ASSUME TypeInv, ChunkInv, NEW w \in Workers, DeleteChunks(w)
    PROVE  ChunkInv'
<1>1. worker[w].at = "deleteChunks" /\ worker[w].at # "idle" /\ UNCHANGED material /\ worker[w].done = 0
  BY DEF DeleteChunks, On, ChunkInv, Progress
<1>2. PICK m \in Materials : m = worker[w].material
  BY <1>1, Running
<1>3. chunks' = [chunks EXCEPT ![m] = {}]
  BY <1>2 DEF DeleteChunks
<1>4. chunks'[m] = {} /\ \A k \in Materials \ {m} : chunks'[k] = chunks[k]
  BY <1>3 DEF TypeInv, TypeOK
<1>5. PICK n \in Nat : n = worker[w].drafts
  BY <1>1, Running
<1>6. /\ WorkerOthers(w) /\ worker'[w].material = m /\ worker'[w].drafts = n /\ worker'[w].done = 0
      /\ \/ worker'[w].at = "extract" /\ n = 0
         \/ worker'[w].at = "createChunks" /\ n >= 1
  <2>1. CASE n = 0
    <3>1. Proceed(w, "extract")
      BY <1>5, <2>1 DEF DeleteChunks
    <3>2. QED
      BY <1>1, <1>2, <1>5, <2>1, <3>1, ProceedFacts DEF GoesOn, RunStep, InTry
  <2>2. CASE n # 0
    <3>1. Proceed(w, "createChunks")
      BY <1>5, <2>2 DEF DeleteChunks
    <3>2. QED
      BY <1>1, <1>2, <1>5, <2>2, <3>1, ProceedFacts DEF GoesOn, RunStep, InTry
  <2>3. QED
    BY <2>1, <2>2
<1>7. Progress(w)'
  BY <1>6 DEF Progress
<1>8. CASE ~Exists(m)
  BY <1>1, <1>4, <1>6, <1>7, <1>8, GoneRunChunkInv
<1>9. CASE Exists(m)
  <2>1. Embeds(w, m)
    BY <1>2, <1>9 DEF ChunkInv, ChunksOf
  <2>2. material'[m].status = "PROCESSING" /\ Exists(m)'
    BY <1>1, <2>1 DEF Embeds, InTry, Exists
  <2>3. {c.ord : c \in {}} = 1..0
    OBVIOUS
  <2>4. Embeds(w, m)'
    BY <1>4, <1>6, <2>2, <2>3 DEF Embeds, Whole
  <2>5. MaterialOthers(m) /\ material'[m].status # "READY"
    BY <1>1, <2>2 DEF MaterialOthers
  <2>6. QED
    BY <1>2, <1>4, <1>6, <1>7, <1>9, <2>2, <2>4, <2>5, OwnChunkInv
<1>10. QED
  BY <1>8, <1>9

LEMMA CreateChunksChunkInv ==
    ASSUME TypeInv, ChunkInv, NEW w \in Workers, CreateChunks(w)
    PROVE  ChunkInv'
<1>1. /\ worker[w].at = "createChunks" /\ worker[w].at # "idle" /\ worker[w].at \in InTry
      /\ UNCHANGED material /\ worker[w].done = 0 /\ worker[w].drafts >= 1
  BY DEF CreateChunks, On, ChunkInv, Progress, InTry
<1>2. PICK m \in Materials : m = worker[w].material
  BY <1>1, Running
<1>3. CASE UNCHANGED chunks /\ Proceed(w, "caught")
  BY <1>1, <1>3, ErrorChunkInv
<1>4. CASE Exists(m) /\ chunks' = [chunks EXCEPT ![m] = @ \cup New(w, m)] /\ Proceed(w, "embed")
  <2>1. Embeds(w, m)
    BY <1>2, <1>4 DEF ChunkInv, ChunksOf
  <2>2. chunks[m] = {} /\ material[m].status = "PROCESSING"
    BY <1>1, <2>1 DEF Embeds
  <2>3. chunks'[m] = New(w, m) /\ \A k \in Materials \ {m} : chunks'[k] = chunks[k]
    BY <1>4, <2>2 DEF TypeInv, TypeOK
  <2>4. /\ WorkerOthers(w) /\ worker'[w].material = m /\ worker'[w].at = "embed"
        /\ worker'[w].drafts = worker[w].drafts /\ worker'[w].done = worker[w].done
    BY <1>1, <1>2, <1>4, ProceedFacts DEF GoesOn, RunStep, InTry
  <2>5. worker[w].drafts \in Nat
    BY <1>1, Running
  <2>6. Progress(w)'
    BY <1>1, <2>4, <2>5 DEF Progress
  <2>7. /\ \A c \in New(w, m) : c.run = w
        /\ {c.ord : c \in New(w, m)} = 1..worker[w].drafts
        /\ \A c, d \in New(w, m) : c.ord = d.ord => c = d
        /\ \A c \in New(w, m) : ~(c.ord <= worker[w].done)
    BY <1>1, <2>2, NewFacts
  <2>8. Embeds(w, m)'
    BY <1>1, <2>2, <2>3, <2>4, <2>7 DEF Embeds, Whole, InTry
  <2>9. \A c, d \in chunks'[m] : c.run = d.run /\ (c.ord = d.ord => c = d)
    BY <2>3, <2>7
  <2>10. MaterialOthers(m) /\ material'[m].status # "READY" /\ Exists(m)'
    BY <1>1, <1>4, <2>2 DEF MaterialOthers, Exists
  <2>11. QED
    BY <1>2, <1>4, <2>3, <2>4, <2>6, <2>8, <2>9, <2>10, OwnChunkInv
<1>5. QED
  BY <1>2, <1>3, <1>4 DEF CreateChunks, New

LEMMA EmbedBatchChunkInv ==
    ASSUME TypeInv, ChunkInv, NEW w \in Workers, EmbedBatch(w)
    PROVE  ChunkInv'
<1>1. /\ worker[w].at = "embed" /\ worker[w].at # "idle" /\ worker[w].at \in InTry
      /\ UNCHANGED material /\ worker[w].drafts >= 1 /\ worker[w].done <= worker[w].drafts
  BY EmbedCases DEF ChunkInv, Progress, InTry
<1>2. PICK m \in Materials : m = worker[w].material
  BY <1>1, Running
<1>3. PICK n \in Nat : n = worker[w].drafts
  BY <1>1, Running
<1>4. PICK last \in Nat : last = worker[w].done + BatchSize
  BY <1>1, Running, PipelineAssumption
<1>5. CASE UNCHANGED chunks /\ Proceed(w, "caught")
  BY <1>1, <1>5, ErrorChunkInv
<1>6. CASE /\ GoesOn(w, worker'[w]) /\ worker'[w].drafts = n
           /\ worker'[w].at = IF last >= n THEN "extract" ELSE "embed"
           /\ worker'[w].done = IF last > n THEN n ELSE last
           /\ \A k \in Materials \ {m} : chunks'[k] = chunks[k]
           /\ chunks'[m] = {Embedding(w, c) : c \in chunks[m]}
  <2>1. WorkerOthers(w) /\ worker'[w].material = m
    BY <1>2, <1>6 DEF GoesOn
  <2>2. Progress(w)'
    BY <1>1, <1>3, <1>6 DEF Progress
  <2>3. CASE ~Exists(m)
    <3>1. chunks[m] = {}
      BY <2>3 DEF ChunkInv, ChunksOf
    <3>2. chunks'[m] = {}
      BY <1>6, <3>1
    <3>3. QED
      BY <1>1, <1>6, <2>1, <2>2, <2>3, <3>2, GoneRunChunkInv
  <2>4. CASE Exists(m)
    <3>1. Embeds(w, m) /\ \A c, d \in chunks[m] : c.run = d.run /\ (c.ord = d.ord => c = d)
      BY <1>2, <2>4 DEF ChunkInv, ChunksOf
    <3>2. /\ material[m].status = "PROCESSING" /\ {c.ord : c \in chunks[m]} = 1..n
          /\ \A c \in chunks[m] : c.run = w /\ (c.ord <= worker[w].done => c.embedded)
      BY <1>1, <1>3, <3>1 DEF Embeds, Whole
    <3>3. \A c \in chunks[m] : c \in Chunk /\ c.ord \in 1..n
      BY <3>2 DEF TypeInv, TypeOK
    <3>4. \A c \in chunks[m] :
              /\ Embedding(w, c).ord = c.ord /\ Embedding(w, c).run = w
              /\ c.ord <= last => Embedding(w, c).embedded
      BY <1>4, <3>2, <3>3, EmbeddingFacts
    <3>5. {c.ord : c \in chunks'[m]} = 1..n
      <4>1. \A c \in chunks'[m] : c.ord \in 1..n
        BY <1>6, <3>3, <3>4
      <4>2. \A i \in 1..n : \E c \in chunks[m] : c.ord = i
        BY <3>2
      <4>3. \A i \in 1..n : \E c \in chunks'[m] : c.ord = i
        BY <1>6, <3>4, <4>2
      <4>4. QED
        BY <4>1, <4>3
    <3>6. \A c \in chunks'[m] : c.run = w /\ (c.ord <= last => c.embedded) /\ c.ord \in 1..n
      BY <1>6, <3>3, <3>4
    <3>7. \A c, d \in chunks'[m] : c.run = d.run /\ (c.ord = d.ord => c = d)
      BY <1>6, <3>1, <3>4
    <3>8. Embeds(w, m)'
      <4>1. CASE last >= n
        <5>1. worker'[w].at = "extract" /\ \A c \in chunks'[m] : c.embedded
          BY <1>6, <3>6, <4>1
        <5>2. QED
          BY <1>1, <1>6, <3>2, <3>5, <3>6, <5>1 DEF Embeds, Whole
      <4>2. CASE last < n
        <5>1. worker'[w].at = "embed" /\ worker'[w].done = last
          BY <1>6, <4>2
        <5>2. QED
          BY <1>1, <1>6, <3>2, <3>5, <3>6, <5>1 DEF Embeds, Whole
      <4>3. QED
        BY <4>1, <4>2
    <3>9. MaterialOthers(m) /\ material'[m].status # "READY" /\ Exists(m)'
      BY <1>1, <2>4, <3>2 DEF MaterialOthers, Exists
    <3>10. QED
      BY <1>2, <1>6, <2>1, <2>2, <2>4, <3>7, <3>8, <3>9, OwnChunkInv
  <2>5. QED
    BY <2>3, <2>4
<1>7. QED
  BY <1>2, <1>3, <1>4, <1>5, <1>6, EmbedCases

LEMMA ChunkInvStep ==
    ASSUME Timely, TypeInv, ChunkInv, [Next]_vars
    PROVE  ChunkInv'
<1>1. CASE UNCHANGED vars
  BY <1>1, QuietChunkInv DEF vars
<1>2. CASE \E r \in Requests : \/ \E m \in Materials : Upload(r, m) \/ Retry(r, m)
                                  \/ AdminRetry(r, m) \/ DeleteFile(r, m)
                               \/ CreateMaterial(r) \/ Enqueue(r) \/ RetryMarks(r)
                               \/ Requeue(r) \/ DeleteRows(r) \/ RequestDies(r)
  BY <1>2, RequestChunkInv, Zenon
<1>3. CASE \E m \in Materials : Reclaim(m)
  BY <1>3, QuietChunkInv DEF Reclaim
<1>4. CASE \E m \in Materials : DeleteProject(m)
  BY <1>4, GoneChunkInv DEF DeleteProject
<1>5. CASE \E w \in Workers :
              \/ Claim(w) \/ Find(w) \/ Mark(w) \/ GetDocument(w) \/ DeleteChunks(w)
              \/ CreateChunks(w) \/ EmbedBatch(w) \/ ExtractConcepts(w) \/ MarkReady(w)
              \/ MarkFailed(w) \/ CompleteJob(w) \/ FailJob(w) \/ WorkerCrash(w)
              \/ WorkerDatabaseError(w)
  BY <1>5, ClaimChunkInv, FindChunkInv, MarkChunkInv, GetDocumentChunkInv, DeleteChunksChunkInv,
     CreateChunksChunkInv, EmbedBatchChunkInv, ExtractConceptsChunkInv, MarkReadyChunkInv,
     MarkFailedChunkInv, OutcomeChunkInv, Zenon
<1>6. QED
  BY <1>1, <1>2, <1>3, <1>4, <1>5, StepCases, Zenon

LEMMA ChunkInvInit == Init => ChunkInv
<1> SUFFICES ASSUME Init PROVE ChunkInv
  OBVIOUS
<1>1. \A m \in Materials : ChunksOf(m)
  BY DEF Init, ChunksOf, Exists
<1>2. \A w \in Workers : Progress(w)
  BY DEF Init, Progress, Idle
<1>3. QED
  BY <1>1, <1>2 DEF ChunkInv

-----------------------------------------------------------------------------
(* Every material has its document, and every COMPLETED job its READY material *)

LEMMA DocumentKept ==
    ASSUME NEW m \in Materials, Documented(m),
           Exists(m)' => Exists(m) \/ file'[m], file[m] => file'[m],
           faults.request > 0 => faults'.request > 0,
           \A r \in Requests : request[r] = [at |-> "deleteRows", material |-> m] => request'[r] = request[r]
    PROVE  Documented(m)'
  BY DEF Documented

LEMMA SettledKept ==
    ASSUME NEW m \in Materials, Settled(m),
           job'[m].status = "COMPLETED" => job[m].status = "COMPLETED",
           job'[m].status = "COMPLETED" /\ material[m].status \in {"READY", "GONE"} =>
               material'[m].status \in {"READY", "GONE"},
           faults.request > 0 => faults'.request > 0,
           \A r \in Requests : request[r] = [at |-> "requeue", material |-> m] =>
               request'[r] = request[r] \/ job'[m].status # "COMPLETED"
    PROVE  Settled(m)'
  BY DEF Settled

\* A request that goes on, or ends, where it decided neither.
LEMMA RequestLeaves ==
    ASSUME NEW r \in Requests, RequestOthers(r), request[r].at \notin {"requeue", "deleteRows"}
    PROVE  \A s \in Requests, m \in Materials :
              /\ request[s] = [at |-> "deleteRows", material |-> m] => request'[s] = request[s]
              /\ request[s] = [at |-> "requeue", material |-> m] => request'[s] = request[s]
<1>1. \A s \in Requests, m \in Materials :
          /\ request[s] = [at |-> "deleteRows", material |-> m] => s # r
          /\ request[s] = [at |-> "requeue", material |-> m] => s # r
  OBVIOUS
<1>2. QED
  BY <1>1 DEF RequestOthers

\* Steps that leave the materials, the documents and what requests have decided.
LEMMA WorkerDocInv ==
    ASSUME TypeInv, DocInv, UNCHANGED <<file, request>>, faults'.request = faults.request,
           \A m \in Materials :
               /\ Exists(m)' => Exists(m)
               /\ job'[m].status = "COMPLETED" => job[m].status = "COMPLETED" \/
                      material'[m].status \in {"READY", "GONE"}
               /\ job[m].status = "COMPLETED" /\ material[m].status \in {"READY", "GONE"} =>
                      material'[m].status \in {"READY", "GONE"}
    PROVE  DocInv'
<1>1. ASSUME NEW m \in Materials PROVE Documented(m)' /\ Settled(m)'
  <2>1. Documented(m)'
    BY DocumentKept DEF DocInv
  <2>2. Settled(m)'
    BY DEF DocInv, Settled
  <2>3. QED
    BY <2>1, <2>2
<1>2. QED
  BY <1>1 DEF DocInv

\* The row of a material with a run is not COMPLETED.
LEMMA InRun ==
    ASSUME TypeInv, NEW w \in Workers, worker[w].at # "idle", Exists(worker[w].material)
    PROVE  worker[w].material \in Materials /\ job[worker[w].material].status # "COMPLETED"
  BY Running, OneRun

LEMMA RunDocInv ==
    ASSUME Timely, TypeInv, ChunkInv, DocInv, NEW w \in Workers,
           \/ Claim(w) \/ Find(w) \/ Mark(w) \/ GetDocument(w) \/ DeleteChunks(w)
           \/ CreateChunks(w) \/ EmbedBatch(w) \/ ExtractConcepts(w) \/ MarkReady(w)
           \/ MarkFailed(w) \/ CompleteJob(w) \/ FailJob(w) \/ WorkerCrash(w)
           \/ WorkerDatabaseError(w)
    PROVE  DocInv'
<1>1. CASE \/ Find(w) \/ GetDocument(w) \/ DeleteChunks(w) \/ CreateChunks(w)
           \/ EmbedBatch(w) \/ ExtractConcepts(w)
  <2>1. UNCHANGED <<material, file, job, request, faults>>
    BY <1>1 DEF Find, GetDocument, DeleteChunks, CreateChunks, EmbedBatch, ExtractConcepts, rows
  <2>2. QED
    BY <2>1, WorkerDocInv DEF Exists
<1>2. CASE WorkerCrash(w) \/ WorkerDatabaseError(w)
  <2>1. UNCHANGED <<material, file, job, request>> /\ faults'.request = faults.request
    BY <1>2, CrashFacts DEF WorkerCrash, WorkerDatabaseError, rows
  <2>2. QED
    BY <2>1, WorkerDocInv DEF Exists
<1>3. CASE Claim(w)
  <2>1. UNCHANGED <<material, file, request, faults>>
    BY <1>3 DEF Claim
  <2>2. \A m \in Materials : job'[m].status = "COMPLETED" => job[m].status = "COMPLETED"
    <3>1. PICK m \in Materials : /\ \A k \in Materials \ {m} : job'[k] = job[k]
                                 /\ job'[m].status = "RUNNING"
      BY <1>3, ClaimFacts
    <3>2. QED
      BY <3>1
  <2>3. QED
    BY <2>1, <2>2, WorkerDocInv DEF Exists
<1>4. CASE Mark(w) \/ MarkFailed(w) \/ MarkReady(w)
  <2>1. worker[w].at # "idle" /\ UNCHANGED <<file, job, request, faults>>
    BY <1>4 DEF Mark, MarkFailed, MarkReady, On
  <2>2. PICK m \in Materials : m = worker[w].material
    BY <2>1, Running
  <2>3. UNCHANGED material \/ (Exists(m) /\ MaterialOthers(m))
    <3>1. CASE UNCHANGED material
      BY <3>1
    <3>2. CASE Exists(m) /\ (SetStatus(m, "PROCESSING") \/ SetStatus(m, "FAILED"))
      BY <3>2, SetStatusFacts DEF MaterialStatus
    <3>3. CASE MarkReady(w)
      BY <2>2, <3>3, ReadyFacts
    <3>4. QED
      BY <1>4, <2>2, <3>1, <3>2, <3>3 DEF Mark, MarkFailed
  <2>4. CASE UNCHANGED material
    BY <2>1, <2>4, WorkerDocInv DEF Exists
  <2>5. CASE Exists(m) /\ MaterialOthers(m)
    <3>1. job[m].status # "COMPLETED"
      BY <2>1, <2>2, <2>5, InRun
    <3>2. QED
      BY <2>1, <2>5, <3>1, WorkerDocInv DEF MaterialOthers, Exists
  <2>6. QED
    BY <2>3, <2>4, <2>5
<1>5. CASE CompleteJob(w) \/ FailJob(w)
  <2>1. worker[w].at # "idle" /\ UNCHANGED <<material, file, request, faults>>
    BY <1>5 DEF CompleteJob, FailJob, On
  <2>2. PICK m \in Materials : m = worker[w].material
    BY <2>1, Running
  <2>3. CASE UNCHANGED job
    BY <2>1, <2>3, WorkerDocInv DEF Exists
  <2>4. CASE FailJob(w) /\ SetJob(m, Outcome(worker[w].attempts))
    <3>1. PICK n \in Nat : n = worker[w].attempts
      BY <2>1, Running, SmallAttempts DEF Run
    <3>2. JobOthers(m) /\ job'[m].status # "COMPLETED"
      BY <2>4, <3>1, OutcomeFacts, SetJobFacts
    <3>3. QED
      BY <2>1, <3>2, WorkerDocInv DEF JobOthers, Exists
  <2>5. CASE CompleteJob(w) /\ SetJob(m, "COMPLETED")
    <3>1. JobOthers(m)
      BY <2>5, SetJobFacts DEF JobStatus
    <3>2. worker[w].at = "complete" /\ material[m].status # "NONE"
      BY <2>2, <2>5, OneRun DEF CompleteJob, On
    <3>3. Exists(m) => material[m].status = "READY"
      BY <2>2, <3>2 DEF ChunkInv, ChunksOf, Embeds
    <3>4. material[m].status \in {"READY", "GONE"}
      BY <3>2, <3>3 DEF Exists
    <3>5. QED
      BY <2>1, <3>1, <3>4, WorkerDocInv DEF JobOthers, Exists
  <2>6. QED
    BY <1>5, <2>2, <2>3, <2>4, <2>5 DEF CompleteJob, FailJob
<1>6. QED
  BY <1>1, <1>2, <1>3, <1>4, <1>5

LEMMA ReclaimDocInv ==
    ASSUME TypeInv, DocInv, NEW m \in Materials, Reclaim(m), Timely
    PROVE  DocInv'
<1>1. UNCHANGED <<material, file, request, faults>>
  BY DEF Reclaim
<1>2. PICK n \in Nat : n = job[m].attempts
  BY SmallAttempts DEF TypeInv, TypeOK, Job
<1>3. SetJob(m, Outcome(n))
  BY <1>2 DEF Reclaim
<1>4. JobOthers(m) /\ job'[m].status # "COMPLETED"
  BY <1>3, OutcomeFacts, SetJobFacts
<1>5. QED
  BY <1>1, <1>4, WorkerDocInv DEF JobOthers, Exists

LEMMA GoneDocInv ==
    ASSUME TypeInv, DocInv, NEW m \in Materials, Exists(m), RowsGo(m),
           UNCHANGED <<file, faults>>,
           \A k \in Materials \ {m} : job'[k] = job[k],
           \A s \in Requests, k \in Materials \ {m} :
               /\ request[s] = [at |-> "deleteRows", material |-> k] => request'[s] = request[s]
               /\ request[s] = [at |-> "requeue", material |-> k] => request'[s] = request[s]
    PROVE  DocInv'
<1>1. MaterialOthers(m) /\ material'[m].status = "GONE"
  BY RowsGoFacts
<1>2. ASSUME NEW k \in Materials PROVE Documented(k)' /\ Settled(k)'
  <2>1. CASE k = m
    BY <1>1, <2>1 DEF Documented, Settled, Exists
  <2>2. CASE k # m
    <3>1. material'[k] = material[k] /\ job'[k] = job[k]
      BY <1>1, <2>2 DEF MaterialOthers
    <3>2. Documented(k)'
      BY <2>2, <3>1, DocumentKept DEF DocInv, Exists
    <3>3. Settled(k)'
      BY <2>2, <3>1, SettledKept DEF DocInv
    <3>4. QED
      BY <3>2, <3>3
  <2>3. QED
    BY <2>1, <2>2
<1>3. QED
  BY <1>2 DEF DocInv

\* A request that leaves the faults alone and takes nothing back.
LEMMA RequestDocInv ==
    ASSUME TypeInv, DocInv, NEW r \in Requests, RequestOthers(r), UNCHANGED faults,
           request[r].at \notin {"requeue", "deleteRows"},
           \A m \in Materials :
               /\ Exists(m)' => Exists(m) \/ file'[m]
               /\ \/ file[m] => file'[m]
                  \/ request'[r] = [at |-> "deleteRows", material |-> m]
               /\ job'[m].status = "COMPLETED" => job[m].status = "COMPLETED"
               /\ \/ job[m].status = "COMPLETED" /\ material[m].status \in {"READY", "GONE"} =>
                         material'[m].status \in {"READY", "GONE"}
                  \/ request'[r] = [at |-> "requeue", material |-> m]
    PROVE  DocInv'
<1>1. \A s \in Requests, m \in Materials :
          /\ request[s] = [at |-> "deleteRows", material |-> m] => request'[s] = request[s]
          /\ request[s] = [at |-> "requeue", material |-> m] => request'[s] = request[s]
  BY RequestLeaves
<1>2. ASSUME NEW m \in Materials PROVE Documented(m)' /\ Settled(m)'
  <2>1. Documented(m)'
    <3>1. CASE file[m] => file'[m]
      BY <1>1, <3>1, DocumentKept DEF DocInv
    <3>2. CASE request'[r] = [at |-> "deleteRows", material |-> m]
      BY <3>2 DEF Documented
    <3>3. QED
      BY <3>1, <3>2
  <2>2. Settled(m)'
    <3>1. CASE job[m].status = "COMPLETED" /\ material[m].status \in {"READY", "GONE"} =>
                   material'[m].status \in {"READY", "GONE"}
      BY <1>1, <3>1, SettledKept DEF DocInv
    <3>2. CASE request'[r] = [at |-> "requeue", material |-> m]
      BY <3>2 DEF Settled
    <3>3. QED
      BY <3>1, <3>2
  <2>3. QED
    BY <2>1, <2>2
<1>3. QED
  BY <1>2 DEF DocInv

LEMMA OpenDocInv ==
    ASSUME TypeInv, DocInv, NEW r \in Requests, NEW m \in Materials,
           Upload(r, m) \/ Retry(r, m) \/ AdminRetry(r, m) \/ DeleteFile(r, m)
    PROVE  DocInv'
<1>1. UNCHANGED <<material, job, faults>>
  BY DEF Upload, Retry, AdminRetry, DeleteFile, rows
<1>2. PICK at \in RequestStep : Open(r, m, at) /\ (DeleteFile(r, m) => at = "deleteRows")
  BY DEF Upload, Retry, AdminRetry, DeleteFile, RequestStep
<1>3. /\ request[r].at = "idle" /\ RequestOthers(r)
      /\ request'[r] = [at |-> at, material |-> m]
  BY <1>2, OpenFacts, Zenon
<1>4. \A k \in Materials : (file[k] => file'[k]) \/ (k = m /\ DeleteFile(r, m))
  BY DEF Upload, Retry, AdminRetry, DeleteFile, rows, TypeInv, TypeOK
<1>5. \A k \in Materials : \/ file[k] => file'[k]
                           \/ request'[r] = [at |-> "deleteRows", material |-> k]
  BY <1>2, <1>3, <1>4
<1>6. QED
  BY <1>1, <1>3, <1>5, RequestDocInv DEF Exists

LEMMA CreateMaterialDocInv ==
    ASSUME TypeInv, DocInv, NEW r \in Requests, CreateMaterial(r)
    PROVE  DocInv'
<1>1. PICK m \in Materials : m = request[r].material
  BY UnderWay DEF CreateMaterial, At
<1>2. /\ request[r].at = "create" /\ request[r].at # "idle"
      /\ UNCHANGED <<file, job, faults>>
  BY DEF CreateMaterial, At
<1>3. file[m] /\ material[m].status = "NONE" /\ job[m].status # "COMPLETED"
  BY <1>1, <1>2 DEF TypeInv, RequestInv, RowInv, HasJob
<1>4. RequestOthers(r)
  BY <1>2, GoOnFacts DEF CreateMaterial, RequestStep
<1>5. MaterialOthers(m)
  BY <1>1, SetStatusFacts DEF CreateMaterial, MaterialStatus
<1>6. QED
  BY <1>2, <1>3, <1>4, <1>5, RequestDocInv DEF MaterialOthers, Exists

LEMMA EnqueueDocInv ==
    ASSUME TypeInv, DocInv, NEW r \in Requests, Enqueue(r)
    PROVE  DocInv'
<1>1. PICK m \in Materials : m = request[r].material
  BY UnderWay DEF Enqueue, At
<1>2. /\ request[r].at = "enqueue" /\ UNCHANGED <<material, file, faults>>
  BY DEF Enqueue, At
<1>3. RequestOthers(r)
  BY CloseFacts DEF Enqueue
<1>4. \A k \in Materials : job'[k].status = "COMPLETED" => job[k].status = "COMPLETED"
  <2>1. CASE HasJob(m)
    BY <1>1, <2>1 DEF Enqueue, TypeInv, TypeOK
  <2>2. CASE ~HasJob(m)
    <3>1. PICK row : row = [id |-> job[m].id + 1, status |-> "PENDING", attempts |-> 0]
      OBVIOUS
    <3>2. job' = [job EXCEPT ![m] = row] /\ row.status = "PENDING"
      BY <1>1, <2>2, <3>1 DEF Enqueue, TypeInv, TypeOK
    <3>3. QED
      BY <3>2 DEF TypeInv, TypeOK
  <2>3. QED
    BY <2>1, <2>2
<1>5. QED
  BY <1>2, <1>3, <1>4, RequestDocInv DEF Exists

LEMMA RetryMarksDocInv ==
    ASSUME TypeInv, DocInv, NEW r \in Requests, RetryMarks(r)
    PROVE  DocInv'
<1>1. PICK m \in Materials : m = request[r].material
  BY UnderWay DEF RetryMarks, At
<1>2. /\ request[r].at = "mark" /\ request[r].at # "idle" /\ UNCHANGED <<file, job, faults>>
  BY DEF RetryMarks, At
<1>3. CASE Exists(m) /\ SetStatus(m, "QUEUED") /\ GoOn(r, "requeue")
  <2>1. GoOn(r, "requeue") /\ "requeue" \in RequestStep
    BY <1>3 DEF RequestStep
  <2>2. RequestOthers(r) /\ request'[r] = [at |-> "requeue", material |-> request[r].material]
    BY <1>2, <2>1, GoOnFacts, Zenon
  <2>3. MaterialOthers(m)
    BY <1>3, SetStatusFacts DEF MaterialStatus
  <2>4. QED
    BY <1>1, <1>2, <1>3, <2>2, <2>3, RequestDocInv DEF MaterialOthers, Exists
<1>4. CASE UNCHANGED material /\ Close(r)
  BY <1>2, <1>4, CloseFacts, RequestDocInv DEF Exists
<1>5. QED
  BY <1>1, <1>3, <1>4 DEF RetryMarks

LEMMA RequeueDocInv ==
    ASSUME Timely, TypeInv, DocInv, NEW r \in Requests, Requeue(r)
    PROVE  DocInv'
<1>1. PICK m \in Materials : m = request[r].material
  BY UnderWay DEF Requeue, At
<1>2. /\ request[r].at \in {"requeue", "adminRequeue"} /\ request[r].at # "idle"
      /\ UNCHANGED <<material, file, faults>>
  BY DEF Requeue, At
<1>3. RequestOthers(r)
  BY <1>2, CloseFacts, GoOnFacts DEF Requeue, RequestStep
<1>4. JobOthers(m) /\ job'[m].status # "COMPLETED"
  <2>1. CASE job' = [job EXCEPT ![m].status = "PENDING", ![m].attempts = 0]
    BY <2>1, ResetJobFacts DEF JobStatus
  <2>2. CASE UNCHANGED job /\ ~HasJob(m)
    BY <2>2 DEF JobOthers, HasJob
  <2>3. QED
    BY <1>1, <2>1, <2>2 DEF Requeue
<1>5. \A s \in Requests, k \in Materials :
          /\ request[s] = [at |-> "deleteRows", material |-> k] => request'[s] = request[s]
          /\ request[s] = [at |-> "requeue", material |-> k] => request'[s] = request[s] \/ k = m
  <2>1. \A k \in Materials : /\ request[r] # [at |-> "deleteRows", material |-> k]
                             /\ request[r] = [at |-> "requeue", material |-> k] => k = m
    BY <1>1, <1>2
  <2>2. QED
    BY <1>3, <2>1 DEF RequestOthers
<1>6. ASSUME NEW k \in Materials PROVE Documented(k)' /\ Settled(k)'
  <2>1. Documented(k)'
    BY <1>2, <1>5, DocumentKept DEF DocInv, Exists
  <2>2. job'[k].status = "COMPLETED" => job[k].status = "COMPLETED" /\ k # m
    BY <1>4 DEF JobOthers
  <2>3. Settled(k)'
    BY <1>2, <1>5, <2>2, SettledKept DEF DocInv
  <2>4. QED
    BY <2>1, <2>3
<1>7. QED
  BY <1>6 DEF DocInv

LEMMA DeleteRowsDocInv ==
    ASSUME Timely, TypeInv, DocInv, NEW r \in Requests, DeleteRows(r)
    PROVE  DocInv'
<1>1. PICK m \in Materials : m = request[r].material
  BY UnderWay DEF DeleteRows, At
<1>2. request[r].at = "deleteRows" /\ UNCHANGED <<file, faults>>
  BY DEF DeleteRows, At
<1>3. RequestOthers(r)
  BY CloseFacts DEF DeleteRows
<1>4. \A s \in Requests, k \in Materials :
          /\ request[s] = [at |-> "deleteRows", material |-> k] => request'[s] = request[s] \/ k = m
          /\ request[s] = [at |-> "requeue", material |-> k] => request'[s] = request[s]
  <2>1. \A k \in Materials : /\ request[r] # [at |-> "requeue", material |-> k]
                             /\ request[r] = [at |-> "deleteRows", material |-> k] => k = m
    BY <1>1, <1>2
  <2>2. QED
    BY <1>3, <2>1 DEF RequestOthers
<1>5. CASE Exists(m) /\ RowsGo(m) /\ job' = [job EXCEPT ![m].status = "NONE", ![m].attempts = 0]
  <2>1. JobOthers(m)
    BY <1>5, ResetJobFacts DEF JobStatus
  <2>2. QED
    BY <1>2, <1>4, <1>5, <2>1, GoneDocInv DEF JobOthers
<1>6. CASE ~Exists(m) /\ UNCHANGED <<material, job>>
  <2>1. ASSUME NEW k \in Materials PROVE Documented(k)' /\ Settled(k)'
    <3>1. Settled(k)'
      BY <1>2, <1>4, <1>6, SettledKept DEF DocInv
    <3>2. CASE k = m
      BY <1>6, <3>1, <3>2 DEF Documented, Exists
    <3>3. CASE k # m
      BY <1>2, <1>4, <1>6, <3>1, <3>3, DocumentKept DEF DocInv, Exists
    <3>4. QED
      BY <3>2, <3>3
  <2>2. QED
    BY <2>1 DEF DocInv
<1>7. QED
  BY <1>1, <1>5, <1>6 DEF DeleteRows

LEMMA RequestDiesDocInv ==
    ASSUME TypeInv, NEW r \in Requests, RequestDies(r)
    PROVE  DocInv'
<1>1. PICK n \in Nat : n = faults.request
  BY DEF TypeInv, TypeOK
<1>2. faults' = [faults EXCEPT !.request = n + 1]
  BY <1>1 DEF RequestDies, TypeInv, TypeOK
<1>3. faults'.request > 0
  BY <1>2 DEF TypeInv, TypeOK
<1>4. QED
  BY <1>3 DEF DocInv, Documented, Settled

LEMMA DocInvStep ==
    ASSUME Timely, TypeInv, ChunkInv, DocInv, [Next]_vars
    PROVE  DocInv'
<1>1. CASE UNCHANGED vars
  BY <1>1, WorkerDocInv DEF vars, Exists
<1>2. CASE \E r \in Requests : \/ \E m \in Materials : Upload(r, m) \/ Retry(r, m)
                                  \/ AdminRetry(r, m) \/ DeleteFile(r, m)
                               \/ CreateMaterial(r) \/ Enqueue(r) \/ RetryMarks(r)
                               \/ Requeue(r) \/ DeleteRows(r) \/ RequestDies(r)
  BY <1>2, OpenDocInv, CreateMaterialDocInv, EnqueueDocInv, RetryMarksDocInv, RequeueDocInv,
     DeleteRowsDocInv, RequestDiesDocInv, Zenon
<1>3. CASE \E m \in Materials : Reclaim(m)
  BY <1>3, ReclaimDocInv
<1>4. CASE \E m \in Materials : DeleteProject(m)
  BY <1>4, GoneDocInv DEF DeleteProject
<1>5. CASE \E w \in Workers :
              \/ Claim(w) \/ Find(w) \/ Mark(w) \/ GetDocument(w) \/ DeleteChunks(w)
              \/ CreateChunks(w) \/ EmbedBatch(w) \/ ExtractConcepts(w) \/ MarkReady(w)
              \/ MarkFailed(w) \/ CompleteJob(w) \/ FailJob(w) \/ WorkerCrash(w)
              \/ WorkerDatabaseError(w)
  BY <1>5, RunDocInv, Zenon
<1>6. QED
  BY <1>1, <1>2, <1>3, <1>4, <1>5, StepCases, Zenon

LEMMA DocInvInit == Init => DocInv
  BY DEF Init, DocInv, Documented, Settled, Exists

-----------------------------------------------------------------------------
(* Theorems *)

LEMMA IInvInit == Timely => (Init => IInv)
  BY TypeInvInit, ChunkInvInit, DocInvInit DEF IInv

LEMMA IInvStep == Timely => (IInv /\ [Next]_vars => IInv')
  BY TypeInvStep, ChunkInvStep, DocInvStep DEF IInv

\* The inductive invariant: the rows a request can still create are counted, a
\* job row has one run, and a run knows what it has made of the chunks.
THEOREM IInvCorrect == Timely => (Spec => []IInv)
<1> SUFFICES ASSUME Timely PROVE Spec => []IInv
  OBVIOUS
<1>1. Init => IInv
  BY IInvInit
<1>2. IInv /\ [Next]_vars => IInv'
  BY IInvStep
<1>3. QED
  BY <1>1, <1>2, PTL DEF Spec

\* A READY material has the chunks its event announced, each with its
\* embedding, and a material that is there has its document unless a deletion is
\* under way or died (processMaterial, replaceChunks, deleteMaterial).
THEOREM ReadyIsCompleteCorrect == Timely => (Spec => []ReadyIsComplete)
<1> SUFFICES ASSUME Timely PROVE Spec => []ReadyIsComplete
  OBVIOUS
<1>1. IInv => ReadyIsComplete
  BY Zenon DEF IInv, TypeInv, ChunkInv, ChunksOf, Whole, DocInv, Documented, ReadyIsComplete
<1>2. QED
  BY <1>1, IInvCorrect, PTL

\* The chunks of a material come from one run of replaceChunks, one per ord.
THEOREM OneChunkSetCorrect == Timely => (Spec => []OneChunkSet)
<1> SUFFICES ASSUME Timely PROVE Spec => []OneChunkSet
  OBVIOUS
<1>1. IInv => OneChunkSet
  BY DEF IInv, ChunkInv, ChunksOf, OneChunkSet
<1>2. QED
  BY <1>1, IInvCorrect, PTL

\* A COMPLETED job stands for a READY material, unless a retry is under way or
\* died half way (completeJob after processMaterial, retryMaterial).
THEOREM CompletedMeansReadyCorrect == Timely => (Spec => []CompletedMeansReady)
<1> SUFFICES ASSUME Timely PROVE Spec => []CompletedMeansReady
  OBVIOUS
<1>1. IInv => CompletedMeansReady
  <2> SUFFICES ASSUME IInv, NEW m \in Materials, job[m].status = "COMPLETED"
               PROVE  material[m].status \in {"READY", "GONE"} \/ Requested(m) \/ faults.request > 0
    BY DEF CompletedMeansReady
  <2>1. Settled(m)
    BY DEF IInv, DocInv
  <2>2. QED
    BY <2>1 DEF Settled, Requested
<1>2. QED
  BY <1>1, IInvCorrect, PTL

-----------------------------------------------------------------------------
(* The jobs of the pipeline keep the protocol of JobLifecycle *)

\* A row that is gone counts no attempts.
GoneCounted == \A m \in Materials : job[m].status = "NONE" => job[m].attempts = 0

\* How one step changes the job of a material: not at all, or by a claim, a
\* report of success or failure, a reset, its removal, or a new row.
JobChange(m) ==
    \/ job'[m] = job[m]
    \/ /\ job'[m].id = job[m].id
       /\ \/ Waits(m) /\ job'[m].status = "RUNNING" /\ job'[m].attempts = job[m].attempts + 1
          \/ /\ job[m].status = "RUNNING" /\ job'[m].attempts = job[m].attempts
             /\ \/ job'[m].status = "COMPLETED"
                \/ job'[m].status = "FAILED" /\ job[m].attempts < MaxAttempts
                \/ job'[m].status = "DEAD" /\ job[m].attempts >= MaxAttempts
          \/ HasJob(m) /\ job'[m].status = "PENDING" /\ job'[m].attempts = 0
          \/ job'[m].status = "NONE" /\ job'[m].attempts = 0
    \/ /\ ~HasJob(m) /\ job'[m].id = job[m].id + 1
       /\ job'[m].status = "PENDING" /\ job'[m].attempts = 0

\* Only the job of m changes.
LEMMA OneJobChanges ==
    ASSUME NEW m \in Materials, JobOthers(m), JobChange(m)
    PROVE  \A k \in Materials : JobChange(k)
  BY DEF JobOthers, JobChange

LEMMA NoJobChanges ==
    ASSUME UNCHANGED job
    PROVE  \A k \in Materials : JobChange(k)
  BY DEF JobChange

\* A lost or failed run.
LEMMA OutcomeJobChange ==
    ASSUME TypeInv, NEW m \in Materials, NEW n \in Nat, n = job[m].attempts,
           job[m].status = "RUNNING", SetJob(m, Outcome(n))
    PROVE  \A k \in Materials : JobChange(k)
<1>1. /\ Outcome(n) \in JobStatus /\ Outcome(n) \in {"DEAD", "FAILED"}
      /\ Outcome(n) = "FAILED" => n < MaxAttempts
      /\ Outcome(n) = "DEAD" => n >= MaxAttempts
  BY OutcomeFacts
<1>2. /\ JobOthers(m) /\ job'[m].id = job[m].id /\ job'[m].status = Outcome(n)
      /\ job'[m].attempts = job[m].attempts
  BY <1>1, SetJobFacts
<1>3. JobChange(m)
  BY <1>1, <1>2 DEF JobChange
<1>4. QED
  BY <1>2, <1>3, OneJobChanges

\* completeJob and failJob name the row by its id alone, and still find it as
\* the claim left it.
LEMMA RunJobChange ==
    ASSUME Timely, TypeInv, NEW w \in Workers, CompleteJob(w) \/ FailJob(w)
    PROVE  \A k \in Materials : JobChange(k)
<1>1. worker[w].at # "idle"
  BY DEF CompleteJob, FailJob, On
<1>2. PICK m \in Materials : m = worker[w].material
  BY <1>1, Running
<1>3. CASE UNCHANGED job
  BY <1>3, NoJobChanges
<1>4. PICK n \in Nat : n = worker[w].attempts
  BY <1>1, Running, SmallAttempts DEF Run
<1>5. HasRow(w) => job[m].status = "RUNNING" /\ job[m].attempts = n
  BY <1>1, <1>2, <1>4 DEF TypeInv, RunInv
<1>6. CASE HasRow(w) /\ SetJob(m, "COMPLETED")
  <2>1. /\ JobOthers(m) /\ job'[m].id = job[m].id /\ job'[m].status = "COMPLETED"
        /\ job'[m].attempts = job[m].attempts
    BY <1>6, SetJobFacts DEF JobStatus
  <2>2. JobChange(m)
    BY <1>5, <1>6, <2>1 DEF JobChange
  <2>3. QED
    BY <2>1, <2>2, OneJobChanges
<1>7. CASE HasRow(w) /\ SetJob(m, Outcome(n))
  BY <1>5, <1>7, OutcomeJobChange
<1>8. QED
  BY <1>2, <1>3, <1>4, <1>6, <1>7 DEF CompleteJob, FailJob

LEMMA ReclaimJobChange ==
    ASSUME Timely, TypeInv, NEW m \in Materials, Reclaim(m)
    PROVE  \A k \in Materials : JobChange(k)
<1>1. PICK n \in Nat : n = job[m].attempts
  BY SmallAttempts DEF TypeInv, TypeOK, Job
<1>2. job[m].status = "RUNNING" /\ SetJob(m, Outcome(n))
  BY <1>1 DEF Reclaim
<1>3. QED
  BY <1>1, <1>2, OutcomeJobChange

LEMMA ClaimJobChange ==
    ASSUME Timely, TypeInv, NEW w \in Workers, Claim(w)
    PROVE  \A k \in Materials : JobChange(k)
<1>1. PICK m \in Materials :
          /\ Waits(m) /\ \A k \in Materials \ {m} : job'[k] = job[k]
          /\ job'[m].id = job[m].id /\ job'[m].status = "RUNNING"
          /\ job'[m].attempts = job[m].attempts + 1
  BY ClaimFacts
<1>2. QED
  BY <1>1, OneJobChanges DEF JobChange, JobOthers

LEMMA RequestJobChange ==
    ASSUME Timely, TypeInv, NEW r \in Requests, Enqueue(r) \/ Requeue(r) \/ DeleteRows(r)
    PROVE  \A k \in Materials : JobChange(k)
<1>1. PICK m \in Materials : m = request[r].material
  BY UnderWay DEF Enqueue, Requeue, DeleteRows, At
<1>2. CASE UNCHANGED job
  BY <1>2, NoJobChanges
<1>3. CASE Enqueue(r)
  <2>1. job' = [job EXCEPT ![m] =
            IF HasJob(m) THEN job[m] ELSE [id |-> job[m].id + 1, status |-> "PENDING", attempts |-> 0]]
    BY <1>1, <1>3 DEF Enqueue
  <2>2. CASE HasJob(m)
    BY <1>2, <2>1, <2>2 DEF TypeInv, TypeOK
  <2>3. CASE ~HasJob(m)
    <3>1. PICK row : row = [id |-> job[m].id + 1, status |-> "PENDING", attempts |-> 0]
      OBVIOUS
    <3>2. JobOthers(m) /\ job'[m] = row
      BY <2>1, <2>3, <3>1 DEF TypeInv, TypeOK, JobOthers
    <3>3. QED
      BY <2>3, <3>1, <3>2, OneJobChanges DEF JobChange
  <2>4. QED
    BY <2>2, <2>3
<1>4. CASE HasJob(m) /\ job' = [job EXCEPT ![m].status = "PENDING", ![m].attempts = 0]
  BY <1>4, ResetJobFacts, OneJobChanges DEF JobStatus, JobChange
<1>5. CASE job' = [job EXCEPT ![m].status = "NONE", ![m].attempts = 0]
  BY <1>5, ResetJobFacts, OneJobChanges DEF JobStatus, JobChange
<1>6. QED
  BY <1>1, <1>2, <1>3, <1>4, <1>5 DEF Requeue, DeleteRows

LEMMA JobsChange ==
    ASSUME Timely, TypeInv, [Next]_vars
    PROVE  \A k \in Materials : JobChange(k)
<1>1. CASE \E m \in Materials : Reclaim(m)
  BY <1>1, ReclaimJobChange
<1>2. CASE \E w \in Workers : Claim(w)
  BY <1>2, ClaimJobChange
<1>3. CASE \E r \in Requests : Enqueue(r) \/ Requeue(r) \/ DeleteRows(r)
  BY <1>3, RequestJobChange
<1>4. CASE \E w \in Workers : CompleteJob(w) \/ FailJob(w)
  BY <1>4, RunJobChange
<1>5. CASE UNCHANGED job
  BY <1>5, NoJobChanges
<1>6. CASE \E m \in Materials : DeleteProject(m)
  BY <1>5, <1>6 DEF DeleteProject
<1>7. CASE \E r \in Requests, m \in Materials :
              Upload(r, m) \/ Retry(r, m) \/ AdminRetry(r, m) \/ DeleteFile(r, m)
  BY <1>5, <1>7 DEF Upload, Retry, AdminRetry, DeleteFile, rows
<1>8. CASE \E r \in Requests : CreateMaterial(r) \/ RetryMarks(r) \/ RequestDies(r)
  BY <1>5, <1>8 DEF CreateMaterial, RetryMarks, RequestDies, rows
<1>9. CASE \E w \in Workers :
              \/ Find(w) \/ Mark(w) \/ GetDocument(w) \/ DeleteChunks(w) \/ CreateChunks(w)
              \/ EmbedBatch(w) \/ ExtractConcepts(w) \/ MarkReady(w) \/ MarkFailed(w)
              \/ WorkerCrash(w) \/ WorkerDatabaseError(w)
  BY <1>5, <1>9 DEF Find, Mark, GetDocument, DeleteChunks, CreateChunks, EmbedBatch,
     ExtractConcepts, MarkReady, MarkFailed, WorkerCrash, WorkerDatabaseError, rows
<1>10. CASE UNCHANGED vars
  BY <1>5, <1>10 DEF vars
<1>11. QED
  BY ONLY [Next]_vars, StepCases, <1>1, <1>2, <1>3, <1>4, <1>6, <1>7, <1>8, <1>9, <1>10, Zenon

LEMMA GoneCountedStep ==
    ASSUME Timely, TypeInv, GoneCounted, [Next]_vars
    PROVE  GoneCounted'
<1>1. \A k \in Materials : JobChange(k)
  BY JobsChange
<1>2. QED
  BY <1>1 DEF JobChange, GoneCounted

\* What the callers of the queue see of row i of a material.
LifeOf(m, i) ==
    [phase |-> Phase(m, i), tries |-> IF job[m].id = i THEN job[m].attempts ELSE 0]

LEMMA LifeIs ==
    ASSUME NEW r \in JobRows
    PROVE  /\ Life[r] = LifeOf(r[1], r[2]) /\ Life'[r] = LifeOf(r[1], r[2])'
           /\ r[1] \in Materials /\ r[2] \in 1..MaxRows
  BY DEF Life, LifeOf, JobRows

\* What happens to a row is a step of its job, or of none.
LEMMA RowIsStep ==
    ASSUME Timely, TypeInv, GoneCounted, NEW m \in Materials, JobChange(m),
           NEW i \in 1..MaxRows, NEW r \in JobRows,
           Life[r] = LifeOf(m, i), Life'[r] = LifeOf(m, i)'
    PROVE  Lifecycle!JobStep(r) \/ Life'[r] = Life[r]
<1>1. PICK id \in Nat : id = job[m].id
  BY DEF TypeInv, TypeOK, Job
<1>2. PICK n \in Nat : n = job[m].attempts /\ n <= MaxAttempts
  BY SmallAttempts, PipelineAssumption DEF TypeInv, TypeOK, Job
<1>3. /\ Waits(m) => n < MaxAttempts
      /\ job[m].status = "NONE" => n = 0
      /\ job[m].status \in JobStatus
      /\ MaxAttempts \in Nat /\ i \in Nat
  BY <1>2, PipelineAssumption DEF TypeInv, TypeOK, RowInv, GoneCounted, Job, MaxRows
<1>4. CASE job'[m] = job[m]
  BY <1>4 DEF LifeOf, Phase
<1>5. CASE i # id /\ job'[m].id = id
  BY <1>1, <1>3, <1>5 DEF LifeOf, Phase
<1> DEFINE before == Life[r]  after == Life'[r]
<1> USE DEF Lifecycle!JobStep, Lifecycle!Become
<1>6. CASE i = id /\ job'[m].id = id
  <2>1. /\ before.phase = (CASE job[m].status \in {"PENDING", "FAILED"} -> "waiting"
                             [] job[m].status = "RUNNING" -> "working"
                             [] job[m].status = "COMPLETED" -> "done"
                             [] job[m].status = "DEAD" -> "dead"
                             [] job[m].status = "NONE" -> "gone")
        /\ before.tries = n
    BY <1>1, <1>2, <1>3, <1>6 DEF LifeOf, Phase, JobStatus
  <2>2. CASE Waits(m) /\ job'[m].status = "RUNNING" /\ job'[m].attempts = n + 1
    <3>1. after = [phase |-> "working", tries |-> n + 1]
      BY <1>1, <1>6, <2>2 DEF LifeOf, Phase
    <3>2. QED
      BY <1>3, <2>1, <2>2, <3>1 DEF Waits, Lifecycle!Start
  <2>3. CASE job[m].status = "RUNNING" /\ job'[m].attempts = n /\ job'[m].status = "COMPLETED"
    <3>1. after = [phase |-> "done", tries |-> n]
      BY <1>1, <1>6, <2>3 DEF LifeOf, Phase
    <3>2. QED
      BY <2>1, <2>3, <3>1 DEF Lifecycle!Succeed
  <2>4. CASE /\ job[m].status = "RUNNING" /\ job'[m].attempts = n /\ job'[m].status = "FAILED"
             /\ n < MaxAttempts
    <3>1. after = [phase |-> "waiting", tries |-> n]
      BY <1>1, <1>6, <2>4 DEF LifeOf, Phase
    <3>2. QED
      BY <2>1, <2>4, <3>1 DEF Lifecycle!TryAgain
  <2>5. CASE /\ job[m].status = "RUNNING" /\ job'[m].attempts = n /\ job'[m].status = "DEAD"
             /\ n >= MaxAttempts
    <3>1. after = [phase |-> "dead", tries |-> n] /\ n = MaxAttempts
      BY <1>1, <1>2, <1>3, <1>6, <2>5 DEF LifeOf, Phase
    <3>2. QED
      BY <2>1, <2>5, <3>1 DEF Lifecycle!GiveUp
  <2>6. CASE HasJob(m) /\ job'[m].status = "PENDING" /\ job'[m].attempts = 0
    <3>1. after = [phase |-> "waiting", tries |-> 0]
      BY <1>1, <1>6, <2>6 DEF LifeOf, Phase
    <3>2. QED
      BY <1>3, <2>1, <2>6, <3>1 DEF HasJob, JobStatus, Lifecycle!Resubmit
  <2>7. CASE job'[m].status = "NONE" /\ job'[m].attempts = 0
    <3>1. after = [phase |-> "gone", tries |-> 0]
      BY <1>1, <1>6, <2>7 DEF LifeOf, Phase
    <3>2. QED
      BY <1>3, <2>1, <2>7, <3>1 DEF JobStatus, Lifecycle!Remove
  <2>8. QED
    BY <1>1, <1>2, <1>4, <1>6, <2>2, <2>3, <2>4, <2>5, <2>6, <2>7 DEF JobChange
<1>7. CASE /\ ~HasJob(m) /\ job'[m].id = id + 1
           /\ job'[m].status = "PENDING" /\ job'[m].attempts = 0
  <2>1. CASE i = id + 1
    <3>1. before.phase = "absent" /\ after = [phase |-> "waiting", tries |-> 0]
      BY <1>1, <1>7, <2>1 DEF LifeOf, Phase
    <3>2. QED
      BY <3>1 DEF Lifecycle!Submit
  <2>2. CASE i > id + 1
    BY <1>1, <1>3, <1>7, <2>2 DEF LifeOf, Phase
  <2>3. CASE i <= id
    <3>1. after = [phase |-> "gone", tries |-> 0]
      BY <1>1, <1>3, <1>7, <2>3 DEF LifeOf, Phase
    <3>2. before = [phase |-> "gone", tries |-> 0]
      BY <1>1, <1>2, <1>3, <1>7, <2>3 DEF LifeOf, Phase, HasJob
    <3>3. QED
      BY <3>1, <3>2
  <2>4. QED
    BY <1>3, <2>1, <2>2, <2>3
<1>8. QED
  BY <1>1, <1>4, <1>5, <1>6, <1>7 DEF JobChange

LEMMA LifecycleStep ==
    Timely => (IInv /\ GoneCounted /\ [Next]_vars => GoneCounted' /\ [Lifecycle!Next]_Life)
<1> SUFFICES ASSUME Timely, TypeInv, GoneCounted, [Next]_vars
             PROVE  GoneCounted' /\ Lifecycle!Next
  BY DEF IInv
<1>1. \A m \in Materials : JobChange(m)
  BY JobsChange
<1>2. ASSUME NEW r \in JobRows PROVE Lifecycle!JobStep(r) \/ Life'[r] = Life[r]
  BY <1>1, LifeIs, RowIsStep
<1>3. QED
  BY <1>2, GoneCountedStep DEF Lifecycle!Next

LEMMA LifecycleInit == Init => GoneCounted /\ Lifecycle!Init
<1> SUFFICES ASSUME Init PROVE GoneCounted /\ Lifecycle!Init
  OBVIOUS
<1>1. \A m \in Materials : job[m] = [id |-> 0, status |-> "NONE", attempts |-> 0]
  BY DEF Init
<1>2. ASSUME NEW r \in JobRows PROVE Life[r] = [phase |-> "absent", tries |-> 0]
  <2>1. job[r[1]].id = 0 /\ r[2] > 0 /\ job[r[1]].id # r[2] /\ Life[r] = LifeOf(r[1], r[2])
    BY <1>1, LifeIs, PipelineAssumption DEF MaxRows
  <2>2. Phase(r[1], r[2]) = "absent"
    BY <2>1 DEF Phase
  <2>3. QED
    BY <2>1, <2>2 DEF LifeOf
<1>3. Life = [r \in JobRows |-> [phase |-> "absent", tries |-> 0]]
  BY <1>2 DEF Life
<1>4. QED
  BY <1>1, <1>3 DEF GoneCounted, Lifecycle!Init

\* The jobs of the pipeline keep the protocol of the queue: a row is tried at
\* most MaxAttempts times, is given up only when all were used, and changes
\* after that only by a reset or its removal; a new row is a new job.
THEOREM JobsAsPromisedCorrect == Timely => (Spec => JobsAsPromised)
<1> SUFFICES ASSUME Timely PROVE Spec => JobsAsPromised
  OBVIOUS
<1>1. Init => GoneCounted /\ Lifecycle!Init
  BY LifecycleInit
<1>2. IInv /\ GoneCounted /\ [Next]_vars => GoneCounted' /\ [Lifecycle!Next]_Life
  BY LifecycleStep
<1>3. Spec => []IInv
  BY IInvCorrect
<1>4. QED
  BY <1>1, <1>2, <1>3, PTL DEF Spec, JobsAsPromised, Lifecycle!Spec
=============================================================================
