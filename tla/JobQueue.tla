------------------------------ MODULE JobQueue ------------------------------
(***************************************************************************)
(* The durable job queue: the rows of the "Job" table                      *)
(* (lib/jobs/queue.ts), the worker processes that claim and run them       *)
(* (lib/jobs/worker.ts, scripts/worker.ts), and the two callers that put   *)
(* an existing job back on the queue: retryMaterial                        *)
(* (lib/services/materials.ts) and the administrator's retryJob            *)
(* (lib/services/admin.ts).                                                *)
(*                                                                         *)
(* Every SQL statement is one atomic step; everything a process does       *)
(* between two statements is a point where other processes may run, or     *)
(* where it may crash.  Times are kept relative to the present: a row that *)
(* waits holds the time until its runAt, a row that runs the age of its    *)
(* lockedAt, so Tick can go on for ever in a finite number of states.      *)
(***************************************************************************)
EXTENDS Integers, FiniteSets

CONSTANTS
    Jobs,            \* job rows, one for each idempotency key
    Workers,         \* worker processes
    NoJob,           \* "no job": not a member of Jobs
    MaxAttempts,     \* Job.maxAttempts (JOB_MAX_ATTEMPTS)
    LockTimeout,     \* JOB_LOCK_TIMEOUT_MS, in ticks
    BackoffBase,     \* JOB_BACKOFF_BASE_MS, in ticks
    MaxDelay,        \* bound: no backoff delay is longer
    Horizon,         \* bound: overdue times beyond it are not told apart
    MaxFaults,       \* bound on crashes and database failures
    MaxRequeues,     \* bound on explicit retries
    Overruns,        \* may a run outlive the lock timeout?
    InFlightRetries, \* may a job be requeued while a worker still runs it?
    LostReplies      \* may a statement take effect and its reply be lost?

\* failJob's delay before jitter: the base doubled for each attempt made.
Exponential(attempts) ==
    BackoffBase * 2 ^ (IF attempts > 0 THEN attempts - 1 ELSE 0)

ASSUME QueueAssumption ==
    /\ NoJob \notin Jobs
    /\ IsFiniteSet(Workers)
    /\ MaxAttempts \in Nat \ {0}
    /\ LockTimeout \in Nat
    /\ BackoffBase \in Nat
    /\ MaxDelay \in Nat
    /\ Horizon \in Nat
    /\ MaxFaults \in Nat
    /\ MaxRequeues \in Nat
    /\ Overruns \in BOOLEAN
    /\ InFlightRetries \in BOOLEAN
    /\ LostReplies \in BOOLEAN

\* No backoff delay is cut off by the bound MaxDelay.
ASSUME DelayAssumption ==
    \A a \in 1..(MaxAttempts - 1) : Exponential(a) + BackoffBase <= MaxDelay

VARIABLES
    job,       \* the Job table
    worker,    \* each worker process: where it is, and its copy of the job row
    admin,     \* the job an administrator's retry has read but not yet requeued
    cycle,     \* history: what became of each job since it was enqueued or last put back
    faults,    \* crashes and database failures so far
    requeues   \* explicit retries so far

vars == <<job, worker, admin, cycle, faults, requeues>>

-----------------------------------------------------------------------------
(* Types *)

\* JobStatus, with NONE (not enqueued yet) and GONE (the row was deleted).
Status == {"NONE", "PENDING", "RUNNING", "COMPLETED", "FAILED", "DEAD", "GONE"}

Row == [status : Status, attempts : Nat,
        wait : (-Horizon)..MaxDelay, age : 0..(LockTimeout + 1)]

\* "top": loop head; "polling": about to claim; "running": in the handler;
\* "completing", "failing": about to report; "down": the process is dead.
Busy == {"running", "completing", "failing"}
Free == {"top", "polling", "down"}
Slot ==
    {slot \in [pc : Busy \cup Free, job : Jobs \cup {NoJob}, attempts : Nat,
                held : 0..(LockTimeout + 1), since : 0..(LockTimeout + 1)] :
        slot.pc \in Busy <=> slot.job # NoJob}

MakeRow(status, attempts, wait, age) ==
    [status |-> status, attempts |-> attempts, wait |-> wait, age |-> age]

NoRow == MakeRow("NONE", 0, 0, 0)
Deleted == MakeRow("GONE", 0, 0, 0)

\* A process that holds no job: lastReclaim is `since` ticks ago.
Unoccupied(pc, since) ==
    [pc |-> pc, job |-> NoJob, attempts |-> 0, held |-> 0, since |-> since]

Waits(row) == row.status \in {"PENDING", "FAILED"}
Exists(j) == job[j].status \notin {"NONE", "GONE"}
Settled(j) == job[j].status \in {"COMPLETED", "DEAD", "GONE"}
InFlight(w, j) == worker[w].pc \in Busy /\ worker[w].job = j

\* The claims of the job since it was put back, the processes that were running it
\* then, and whether the report of one of these has settled it.
Cycle == [tries : Nat, rivals : SUBSET Workers, overtaken : BOOLEAN]
NewCycle(rivals) == [tries |-> 0, rivals |-> rivals, overtaken |-> FALSE]

\* Mutant: the status is not part of the claim's WHERE clause.
DueWhateverTheStatus == {j \in Jobs : Exists(j) /\ job[j].wait <= 0}

Due == {j \in Jobs : Waits(job[j]) /\ job[j].wait <= 0}

\* Mutants: a lock is stale one tick early; a job with no attempt left is skipped.
StaleOneTickEarly(j) == job[j].status = "RUNNING" /\ job[j].age >= LockTimeout
StaleWithAttemptsLeft(j) ==
    job[j].status = "RUNNING" /\ job[j].age > LockTimeout /\ job[j].attempts < MaxAttempts

Stale(j) == job[j].status = "RUNNING" /\ job[j].age > LockTimeout

-----------------------------------------------------------------------------
(* What each statement of queue.ts writes in the row it selects *)

Enqueued == MakeRow("PENDING", 0, 0, 0)

\* Mutant: one attempt too many.
ExhaustedLate(attempts) == attempts > MaxAttempts

Exhausted(attempts) == attempts >= MaxAttempts

Claimed(row) == MakeRow("RUNNING", row.attempts + 1, 0, 0)

\* Mutant: a lost job always gets another attempt.
ReclaimedUnconditionally(row) == MakeRow("FAILED", row.attempts, 0, 0)

Reclaimed(row) ==
    MakeRow(IF Exhausted(row.attempts) THEN "DEAD" ELSE "FAILED", row.attempts, 0, 0)

\* Mutant: the caller does not ask for resetAttempts.
RequeuedKeepingAttempts(row) == MakeRow("PENDING", row.attempts, 0, 0)

\* Both callers pass resetAttempts.
Requeued(row) == MakeRow("PENDING", 0, 0, 0)

Ended(row, status, delay) == MakeRow(status, row.attempts, delay, 0)

\* base * 2^(attempts-1), plus a jitter of at most base.
Backoff(attempts) ==
    {d \in 0..MaxDelay : d >= Exponential(attempts) /\ d <= Exponential(attempts) + BackoffBase}

-----------------------------------------------------------------------------
Init ==
    /\ job = [j \in Jobs |-> NoRow]
    /\ worker = [w \in Workers |-> Unoccupied("top", LockTimeout + 1)]
    /\ admin = NoJob
    /\ cycle = [j \in Jobs |-> NewCycle({})]
    /\ faults = 0
    /\ requeues = 0

(* The producers *)

\* enqueueJob for a new key.  For a key that exists it changes nothing (P2002).
EnqueueJob(j) ==
    /\ job[j].status = "NONE"
    /\ job' = [job EXCEPT ![j] = Enqueued]
    /\ UNCHANGED <<worker, admin, cycle, faults, requeues>>

\* requeueJob: an update by key with no condition on the row's status.
RequeueJob(j) ==
    /\ requeues < MaxRequeues
    /\ requeues' = requeues + 1
    /\ job' = [job EXCEPT ![j] = Requeued(@)]
    /\ cycle' = [cycle EXCEPT ![j] = NewCycle({w \in Workers : InFlight(w, j)})]
    /\ UNCHANGED <<worker, faults>>

\* retryMaterial requeues the material's job without looking at it.
RetryMaterial(j) ==
    /\ Exists(j)
    /\ RequeueJob(j)
    /\ UNCHANGED admin

\* retryJob reads the status in one statement ...
AdminReads(j) ==
    /\ admin = NoJob
    /\ job[j].status \in {"FAILED", "DEAD"}
    /\ admin' = j
    /\ UNCHANGED <<job, worker, cycle, faults, requeues>>

\* ... and requeues the job, whatever it has become, in another.
AdminRequeues ==
    /\ admin # NoJob
    /\ admin' = NoJob
    /\ \/ Exists(admin) /\ RequeueJob(admin)
       \/ ~Exists(admin) /\ UNCHANGED <<job, worker, cycle, faults, requeues>>

\* deleteMaterial removes the job row with the material.
DeleteJob(j) ==
    /\ Exists(j)
    /\ job' = [job EXCEPT ![j] = Deleted]
    /\ cycle' = [cycle EXCEPT ![j] = NewCycle({})]
    /\ UNCHANGED <<worker, admin, faults, requeues>>

-----------------------------------------------------------------------------
(* One iteration of runWorkerLoop *)

ReclaimDue(w) == worker[w].since > LockTimeout

\* reclaimStaleJobs, when lastReclaim is a lock timeout ago.
ReclaimStaleJobs(w) ==
    /\ worker[w].pc = "top"
    /\ ReclaimDue(w)
    /\ job' = [j \in Jobs |-> IF Stale(j) THEN Reclaimed(job[j]) ELSE job[j]]
    /\ worker' = [worker EXCEPT ![w] = Unoccupied("polling", 0)]
    /\ UNCHANGED <<admin, cycle, faults, requeues>>

SkipReclaim(w) ==
    /\ worker[w].pc = "top"
    /\ ~ReclaimDue(w)
    /\ worker' = [worker EXCEPT ![w].pc = "polling"]
    /\ UNCHANGED <<job, admin, cycle, faults, requeues>>

\* The UPDATE of claimNextJob, for the due row with the earliest runAt.
ClaimRow(w, j) ==
    /\ j \in Due
    /\ \A k \in Due : job[j].wait <= job[k].wait
    /\ job' = [job EXCEPT ![j] = Claimed(@)]
    /\ cycle' = [k \in Jobs |->
          [tries |-> cycle[k].tries + (IF k = j THEN 1 ELSE 0),
           rivals |-> cycle[k].rivals \ {w},
           overtaken |-> k # j /\ cycle[k].overtaken]]

\* claimNextJob returns the row; the handler starts with that copy of it.
ClaimNextJob(w) ==
    /\ worker[w].pc = "polling"
    /\ \E j \in Jobs :
          /\ ClaimRow(w, j)
          /\ worker' = [worker EXCEPT ![w] =
                [pc |-> "running", job |-> j, attempts |-> job[j].attempts + 1,
                 held |-> 0, since |-> @.since]]
    /\ UNCHANGED <<admin, faults, requeues>>

\* Nothing to claim: the loop sleeps for JOB_POLL_MS and starts again.
NothingDue(w) ==
    /\ worker[w].pc = "polling"
    /\ Due = {}
    /\ worker' = [worker EXCEPT ![w].pc = "top"]
    /\ UNCHANGED <<job, admin, cycle, faults, requeues>>

\* The handler resolves, or it throws (as getHandler does for an unknown type).
HandlerEnds(w) ==
    /\ worker[w].pc = "running"
    /\ \E pc \in {"completing", "failing"} :
          worker' = [worker EXCEPT ![w].pc = pc]
    /\ UNCHANGED <<job, admin, cycle, faults, requeues>>

\* Process w has settled job j; a run from before the last retry has overtaken it.
Settles(w, j) == cycle' = [cycle EXCEPT ![j].overtaken = @ \/ w \in cycle[j].rivals]

\* completeJob: an update by id alone.  If the row is gone it throws (P2025),
\* and the catch block goes on to failJob.
CompleteJob(w) ==
    LET j == worker[w].job IN
    /\ worker[w].pc = "completing"
    /\ \/ /\ Exists(j)
          /\ job' = [job EXCEPT ![j] = Ended(@, "COMPLETED", 0)]
          /\ Settles(w, j)
          /\ worker' = [worker EXCEPT ![w] = Unoccupied("top", @.since)]
       \/ /\ ~Exists(j)
          /\ worker' = [worker EXCEPT ![w].pc = "failing"]
          /\ UNCHANGED <<job, cycle>>
    /\ UNCHANGED <<admin, faults, requeues>>

\* failJob: an update by id alone, which decides between DEAD and FAILED from
\* the worker's copy of the row.  If the row is gone it throws, and the loop
\* logs the error and goes on.
FailJob(w) ==
    LET j == worker[w].job IN
    /\ worker[w].pc = "failing"
    /\ \/ /\ Exists(j)
          /\ Exhausted(worker[w].attempts)
          /\ job' = [job EXCEPT ![j] = Ended(@, "DEAD", 0)]
          /\ Settles(w, j)
       \/ /\ Exists(j)
          /\ ~Exhausted(worker[w].attempts)
          /\ \E delay \in Backoff(worker[w].attempts) :
                job' = [job EXCEPT ![j] = Ended(@, "FAILED", delay)]
          /\ UNCHANGED cycle
       \/ ~Exists(j) /\ UNCHANGED <<job, cycle>>
    /\ worker' = [worker EXCEPT ![w] = Unoccupied("top", @.since)]
    /\ UNCHANGED <<admin, faults, requeues>>

\* The supervisor starts the process again; its lastReclaim is 0.
Restart(w) ==
    /\ worker[w].pc = "down"
    /\ worker' = [worker EXCEPT ![w] = Unoccupied("top", LockTimeout + 1)]
    /\ UNCHANGED <<job, admin, cycle, faults, requeues>>

WorkerStep(w) ==
    \/ ReclaimStaleJobs(w) \/ SkipReclaim(w)
    \/ ClaimNextJob(w) \/ NothingDue(w)
    \/ HandlerEnds(w) \/ CompleteJob(w) \/ FailJob(w)
    \/ Restart(w)

-----------------------------------------------------------------------------
(* Faults *)

Fault == faults < MaxFaults /\ faults' = faults + 1

\* The process dies, at whatever point it is.  (SIGTERM between two jobs ends
\* the loop at "top": the same step.)
Crash(w) ==
    /\ Fault
    /\ worker[w].pc # "down"
    /\ worker' = [worker EXCEPT ![w] = Unoccupied("down", LockTimeout + 1)]
    /\ UNCHANGED <<job, admin, cycle, requeues>>

\* The database cannot be reached: the statement has no effect.  Out of
\* completeJob the error leads to failJob; out of failJob and claimNextJob it
\* ends the iteration.
DatabaseError(w) ==
    /\ Fault
    /\ \/ /\ worker[w].pc \in {"polling", "failing"}
          /\ worker' = [worker EXCEPT ![w] = Unoccupied("top", @.since)]
       \/ /\ worker[w].pc = "completing"
          /\ worker' = [worker EXCEPT ![w].pc = "failing"]
    /\ UNCHANGED <<job, admin, cycle, requeues>>

\* The connection closes after the claim took effect (P1017): the row runs, and
\* no worker knows of it.
ClaimReplyLost(w) ==
    /\ LostReplies
    /\ Fault
    /\ worker[w].pc = "polling"
    /\ \E j \in Jobs : ClaimRow(w, j)
    /\ worker' = [worker EXCEPT ![w].pc = "top"]
    /\ UNCHANGED <<admin, requeues>>

\* The connection closes after completeJob took effect: the job is COMPLETED,
\* and the catch block still calls failJob.
CompleteReplyLost(w) ==
    /\ LostReplies
    /\ Fault
    /\ worker[w].pc = "completing"
    /\ Exists(worker[w].job)
    /\ job' = [job EXCEPT ![worker[w].job] = Ended(@, "COMPLETED", 0)]
    /\ Settles(w, worker[w].job)
    /\ worker' = [worker EXCEPT ![w].pc = "failing"]
    /\ UNCHANGED <<admin, requeues>>

-----------------------------------------------------------------------------
(* Time *)

Sooner(row) ==
    MakeRow(row.status, row.attempts,
        IF Waits(row) /\ row.wait > -Horizon THEN row.wait - 1 ELSE row.wait,
        IF row.status = "RUNNING" /\ row.age <= LockTimeout THEN row.age + 1 ELSE row.age)

Older(slot) ==
    [pc |-> slot.pc, job |-> slot.job, attempts |-> slot.attempts,
     held |-> IF slot.pc \in Busy /\ slot.held <= LockTimeout THEN slot.held + 1 ELSE slot.held,
     since |-> IF slot.since <= LockTimeout THEN slot.since + 1 ELSE slot.since]

\* Unless Overruns, every run reports (or dies) within the lock timeout.
Tick ==
    /\ Overruns \/ \A w \in Workers : worker[w].pc \in Busy => worker[w].held < LockTimeout
    /\ job' = [j \in Jobs |-> Sooner(job[j])]
    /\ worker' = [w \in Workers |-> Older(worker[w])]
    /\ UNCHANGED <<admin, cycle, faults, requeues>>

-----------------------------------------------------------------------------
\* The assumption about callers: unless InFlightRetries, nobody puts a job back while
\* a worker runs it.  (requeueJob itself would.)
NotInFlight(j) == InFlightRetries \/ \A w \in Workers : ~InFlight(w, j)

Next ==
    \/ \E j \in Jobs :
          \/ EnqueueJob(j) \/ AdminReads(j) \/ DeleteJob(j)
          \/ NotInFlight(j) /\ RetryMaterial(j)
    \/ NotInFlight(admin) /\ AdminRequeues
    \/ \E w \in Workers :
          \/ WorkerStep(w)
          \/ Crash(w) \/ DatabaseError(w) \/ ClaimReplyLost(w) \/ CompleteReplyLost(w)
    \/ Tick

Spec == Init /\ [][Next]_vars

\* Workers keep running their loop (a supervisor restarts a dead one), handlers
\* end, and time passes.  Nobody is obliged to enqueue, retry or delete.
Fairness == (\A w \in Workers : WF_vars(WorkerStep(w))) /\ WF_vars(Tick)

FairSpec == Spec /\ Fairness

-----------------------------------------------------------------------------
(* Properties *)

\* Every row and every process has the fields of its type, within the bounds,
\* and a process is busy exactly when it has a job.
TypeOK ==
    /\ job \in [Jobs -> Row]
    /\ worker \in [Workers -> Slot]
    /\ admin \in Jobs \cup {NoJob}
    /\ cycle \in [Jobs -> Cycle]
    /\ faults \in 0..MaxFaults
    /\ requeues \in 0..MaxRequeues

\* No job is in the hands of two processes at once ("no job is handed to two of
\* them", README.md).  What the lock, the lock timeout and the reclaim are for:
\* it needs claimNextJob, reclaimStaleJobs and every requeue to agree.
OneHolder ==
    \A v, w \in Workers, j \in Jobs : InFlight(v, j) /\ InFlight(w, j) => v = w

\* When a process reports, completeJob and failJob find the row as its own claim
\* left it: still RUNNING, in the same attempt.  Neither statement checks.
ReportMatchesClaim ==
    \A w \in Workers, j \in Jobs :
        InFlight(w, j) =>
            \/ job[j].status = "GONE"
            \/ job[j].status = "RUNNING" /\ job[j].attempts = worker[w].attempts

\* Why OneHolder and ReportMatchesClaim hold: the row a process works on cannot
\* be claimed or reclaimed, its lock being as old as the run, and the run
\* younger than the timeout.
LockHeld ==
    \A w \in Workers, j \in Jobs :
        InFlight(w, j) =>
            /\ worker[w].held <= LockTimeout
            /\ \/ job[j].status = "GONE"
               \/ LostReplies /\ job[j].status = "COMPLETED"
               \/ /\ job[j].status = "RUNNING"
                  /\ job[j].age = worker[w].held
                  /\ job[j].attempts = worker[w].attempts

\* A job is settled only by runs claimed since it was enqueued or last put back, and
\* dead only after all the attempts that a retry is promised (resetAttempts), through
\* overruns, reclaims, crashes and lost replies, and whatever a caller has read of its
\* status.  A run that was already under way when it was put back may settle it first:
\* requeueJob looks at no status, and a report names the row by its id alone.
RetryRuns ==
    \A j \in Jobs : Exists(j) /\ Settled(j) /\ ~cycle[j].overtaken =>
        \/ job[j].status = "COMPLETED" /\ cycle[j].tries > 0
        \/ job[j].status = "DEAD" /\ cycle[j].tries >= MaxAttempts

\* The number of times a job is claimed between two requeues is bounded even
\* when runs outlive their lock, jobs are requeued in flight and replies are
\* lost: each other process can bring a job back at most once, with a report
\* from an earlier attempt.
AttemptsBounded ==
    /\ TypeOK
    /\ \A j \in Jobs : job[j].attempts <= MaxAttempts + Cardinality(Workers) - 1

\* Every job that was enqueued is completed, dead-lettered or deleted in the
\* end, whatever processes crash on the way, and again after each retry.
EveryJobSettles == \A j \in Jobs : job[j].status # "NONE" ~> Settled(j)

\* The queue as its callers see it.
Phase(status) ==
    CASE status = "NONE" -> "absent"
      [] status \in {"PENDING", "FAILED"} -> "waiting"
      [] status = "RUNNING" -> "working"
      [] status = "COMPLETED" -> "done"
      [] status = "DEAD" -> "dead"
      [] status = "GONE" -> "gone"

Life == [j \in Jobs |-> [phase |-> Phase(job[j].status), tries |-> job[j].attempts]]

Lifecycle == INSTANCE JobLifecycle WITH life <- Life

\* The queue implements JobLifecycle: a job is tried at most MaxAttempts times
\* and given up only then, and a settled job changes only by a requeue.
ImplementsLifecycle == Lifecycle!Spec
=============================================================================
