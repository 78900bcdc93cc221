------------------------------- MODULE Fixture -------------------------------
(***************************************************************************)
(* scripts/eval.ts, which makes its project when it is missing, processes   *)
(* the material in its own process, gives the learner a history, enqueues   *)
(* the evaluation and works through the queue itself.  It can be stopped    *)
(* anywhere, started again or twice at once, and the project's worker may   *)
(* be running.  What processing and evaluating do is in MaterialPipeline    *)
(* and EvalRun.                                                             *)
(***************************************************************************)
EXTENDS Integers, Sequences, FiniteSets

CONSTANTS
    Runs,        \* the times the script is started, numbered in that order
    MaxFailures  \* bound on failing statements, and on runs that are stopped

ASSUME FixtureAssumption == Runs \subseteq Nat \ {0} /\ MaxFailures \in Nat

VARIABLES
    enough,     \* the fixture's material gives the two concepts a history is about
    user,       \* the learner is there
    spaces,     \* how many spaces have the fixture's name
    projects,   \* its projects, each with its space, in the order of creation
    documents,  \* the Material rows: project and status
    tasks,      \* the jobs, in the order of their creation
    script,     \* what each run of the script is doing
    failures,   \* failing statements so far
    mishaps     \* history: what kept a run from having the fixture to itself

fixtureVars == <<enough, user, spaces, projects, documents, tasks, script, failures, mishaps>>

NotStarted == [at |-> "notStarted", space |-> 0, project |-> 0, material |-> 0, task |-> 0]
Over == {"ended", "stopped"}
Alive(r) == script[r].at \notin Over \cup {"notStarted"}

Worker == 0
Nobody == -1

\* Run r, now at `step`, and what it has got there.
Now(r, step) == script' = [script EXCEPT ![r].at = step]
Leave(r, how) == script' = [script EXCEPT ![r] = [NotStarted EXCEPT !.at = how]]
WithSpace(r, step, s) == script' = [script EXCEPT ![r].at = step, ![r].space = s]
WithProject(r, step, p) == script' = [script EXCEPT ![r].at = step, ![r].project = p]
WithMaterial(r, step, m) == script' = [script EXCEPT ![r].at = step, ![r].material = m]
WithTask(r, step, k) == script' = [script EXCEPT ![r].at = step, ![r].task = k]

-----------------------------------------------------------------------------
(* ensureFixture *)

Start(r) ==
    /\ script[r].at = "notStarted"
    /\ \A s \in Runs : s < r => script[s].at # "notStarted"
    /\ Now(r, IF user THEN "findSpace" ELSE "createUser")
    /\ \A s \in Runs : Alive(s) => "worker" \notin mishaps   \* bound, as at ClaimTask
    /\ mishaps' = mishaps \cup (IF \E s \in Runs : Alive(s) THEN {"overlap"} ELSE {})
    /\ UNCHANGED <<user, spaces, projects, documents, tasks, failures>>

\* The address is unique: the loser of two creations ends.
CreateUser(r) ==
    /\ script[r].at = "createUser"
    /\ user' = TRUE
    /\ IF user THEN Leave(r, "ended") ELSE Now(r, "findSpace")
    /\ UNCHANGED <<spaces, projects, documents, tasks, failures, mishaps>>

\* findFirst by name; no order is asked for, and nothing makes the names unique.
FindSpace(r) ==
    /\ script[r].at = "findSpace"
    /\ \/ spaces = 0 /\ Now(r, "createSpace")
       \/ \E s \in 1..spaces : WithSpace(r, "findProject", s)
    /\ UNCHANGED <<user, spaces, projects, documents, tasks, failures, mishaps>>

CreateSpace(r) ==
    /\ script[r].at = "createSpace"
    /\ spaces' = spaces + 1
    /\ WithSpace(r, "findProject", spaces + 1)
    /\ UNCHANGED <<user, projects, documents, tasks, failures, mishaps>>

\* The same for the project in that space.
ProjectsOf(s) == {p \in DOMAIN projects : projects[p].space = s}

FindProject(r) ==
    /\ script[r].at = "findProject"
    /\ \/ ProjectsOf(script[r].space) = {} /\ Now(r, "createProject")
       \/ \E p \in ProjectsOf(script[r].space) : WithProject(r, "countReady", p)
    /\ UNCHANGED <<user, spaces, projects, documents, tasks, failures, mishaps>>

CreateProject(r) ==
    /\ script[r].at = "createProject"
    /\ projects' = Append(projects, [space |-> script[r].space, evidence |-> 0, counted |-> 0])
    /\ WithProject(r, "countReady", Len(projects'))
    /\ UNCHANGED <<user, spaces, documents, tasks, failures, mishaps>>

\* The project's documents that can be used.
ThereAndReady(p) == {m \in DOMAIN documents : documents[m].project = p /\ documents[m].status = "READY"}

\* Mutant: a material in any state will do.
CountMaterials(r) ==
    /\ script[r].at = "countReady"
    /\ Now(r, IF \E m \in DOMAIN documents : documents[m].project = script[r].project
              THEN "countEvidence" ELSE "createMaterial")
    /\ UNCHANGED <<user, spaces, projects, documents, tasks, failures, mishaps>>

CountReady(r) ==
    /\ script[r].at = "countReady"
    /\ Now(r, IF ThereAndReady(script[r].project) = {} THEN "createMaterial" ELSE "countEvidence")
    /\ UNCHANGED <<user, spaces, projects, documents, tasks, failures, mishaps>>

\* `turn` orders the jobs by their runAt; `backoff` says that this may still lie ahead;
\* `tried` is who had the job last.
Enqueued(kind, about, attempts) ==
    Append(tasks, [kind |-> kind, about |-> about, status |-> "PENDING", left |-> attempts,
                   turn |-> 2 * Len(tasks), backoff |-> FALSE, holder |-> Nobody, tried |-> Nobody])

\* createMaterial, whose row and whose job are two statements.
CreateFixtureMaterial(r) ==
    /\ script[r].at = "createMaterial"
    /\ documents' = Append(documents, [project |-> script[r].project, status |-> "QUEUED"])
    /\ WithMaterial(r, "enqueueMaterial", Len(documents'))
    /\ UNCHANGED <<user, spaces, projects, tasks, failures, mishaps>>

EnqueueFixtureMaterial(r) ==
    /\ script[r].at = "enqueueMaterial"
    /\ tasks' = Enqueued("material", script[r].material, 3)
    /\ WithTask(r, "process", Len(tasks'))
    /\ UNCHANGED <<user, spaces, projects, documents, failures, mishaps>>

\* processMaterial, called by the script itself, with no job: its beginning and its end.
BeginInline(r) ==
    /\ script[r].at = "process"
    /\ documents' = [documents EXCEPT ![script[r].material].status = "PROCESSING"]
    /\ Now(r, "processing")
    /\ UNCHANGED <<user, spaces, projects, tasks, failures, mishaps>>

EndInline(r) ==
    /\ script[r].at = "processing"
    /\ \/ /\ documents' = [documents EXCEPT ![script[r].material].status = "READY"]
          /\ Now(r, "deleteJob")
          /\ UNCHANGED failures
       \/ /\ failures < MaxFailures /\ failures' = failures + 1
          /\ documents' = [documents EXCEPT ![script[r].material].status = "FAILED"]
          /\ Leave(r, "ended")
    /\ UNCHANGED <<user, spaces, projects, tasks, mishaps>>

\* "The fixture is processed inline, so its queued job is redundant."
DeleteRedundantJob(r) ==
    /\ script[r].at = "deleteJob"
    /\ tasks' = [tasks EXCEPT ![script[r].task].status = "deleted"]
    /\ WithTask(r, "countEvidence", 0)
    /\ UNCHANGED <<user, spaces, projects, documents, failures, mishaps>>

-----------------------------------------------------------------------------
(* seedLearnerProfile *)

\* Nothing is done for a learner who has evidence, or if the material gave too few concepts.
CountEvidence(r) ==
    /\ script[r].at = "countEvidence"
    /\ Now(r, IF projects[script[r].project].evidence > 0 \/ ~enough
              THEN "enqueueEvaluation" ELSE "seed")
    /\ UNCHANGED <<user, spaces, projects, documents, tasks, failures, mishaps>>

\* One statement for all four rows.
SeedEvidence(r) ==
    /\ script[r].at = "seed"
    /\ projects' = [projects EXCEPT ![script[r].project].evidence = @ + 1]
    /\ Now(r, "refreshMastery")
    /\ UNCHANGED <<user, spaces, documents, tasks, failures, mishaps>>

\* refreshProjectMastery: what the mastery of the concepts takes into account.
RefreshMastery(r) ==
    /\ script[r].at = "refreshMastery"
    /\ projects' = [projects EXCEPT ![script[r].project].counted = projects[script[r].project].evidence]
    /\ Now(r, "enqueueEvaluation")
    /\ UNCHANGED <<user, spaces, documents, tasks, failures, mishaps>>

-----------------------------------------------------------------------------
(* main *)

EnqueueEvaluation(r) ==
    /\ script[r].at = "enqueueEvaluation"
    /\ tasks' = Enqueued("evaluation", script[r].project, 1)
    /\ WithTask(r, "reclaim", Len(tasks'))
    /\ UNCHANGED <<user, spaces, projects, documents, failures, mishaps>>

\* Who works through the queue: a run that drains it, and the worker, if it is up.
Hands == {r \in Runs : script[r].at = "drain"} \cup {Worker}
HeldBy(hand) == {k \in DOMAIN tasks : tasks[k].status = "RUNNING" /\ tasks[k].holder = hand}

Waiting == {k \in DOMAIN tasks : tasks[k].status \in {"PENDING", "FAILED"}}
Due == {k \in Waiting : ~tasks[k].backoff}

\* What completeJob leaves.
Finished(task) == [task EXCEPT !.status = IF @ = "deleted" THEN @ ELSE "COMPLETED", !.holder = Nobody]

\* What failJob and reclaimStaleJobs leave, to be taken after all the jobs there are.
Unfinished(task, backoff) ==
    [task EXCEPT !.status = IF @ = "deleted" THEN @ ELSE IF task.left > 0 THEN "FAILED" ELSE "DEAD",
                 !.turn = 2 * Len(tasks) + 1, !.backoff = backoff, !.holder = Nobody]

\* reclaimStaleJobs, of some jobs of runs that were stopped: the locks may be older than
\* the timeout or not.
Stranded ==
    {k \in DOMAIN tasks : /\ tasks[k].status = "RUNNING" /\ tasks[k].holder \in Runs
                          /\ script[tasks[k].holder].at = "stopped"}
Reclaim(stale) ==
    tasks' = [k \in DOMAIN tasks |-> IF k \in stale THEN Unfinished(tasks[k], FALSE) ELSE tasks[k]]

\* drainQueue reclaims once, before it claims; the worker does from time to time.
ReclaimFirst(r) ==
    /\ script[r].at = "reclaim"
    /\ \E stale \in SUBSET Stranded : Reclaim(stale)
    /\ Now(r, "drain")
    /\ UNCHANGED <<user, spaces, projects, documents, failures, mishaps>>

WorkerReclaims ==
    /\ "overlap" \notin mishaps   \* bound, as at ClaimTask
    /\ \E stale \in SUBSET Stranded : Reclaim(stale)
    /\ mishaps' = mishaps \cup {"worker"}
    /\ UNCHANGED <<user, spaces, projects, documents, script, failures>>

\* claimNextJob, in the order of runAt, and the beginning of the handler.  Bound: runs
\* that overlap have no worker beside them.
ClaimTask(hand, k) ==
    /\ HeldBy(hand) = {}
    /\ k \in Waiting
    /\ \A j \in Due : tasks[j].turn >= tasks[k].turn
    /\ hand = Worker => "overlap" \notin mishaps
    /\ tasks' = [tasks EXCEPT ![k].status = "RUNNING", ![k].holder = hand, ![k].tried = hand,
                              ![k].left = @ - 1]
    /\ documents' = IF tasks[k].kind = "material"
                    THEN [documents EXCEPT ![tasks[k].about].status = "PROCESSING"]
                    ELSE documents
    /\ mishaps' = mishaps \cup (IF hand = Worker THEN {"worker"} ELSE {})
    /\ UNCHANGED <<user, spaces, projects, script, failures>>

\* completeJob or failJob, which leaves a job with attempts for later.  The row may have
\* been deleted: then nothing is recorded.
EndTask(hand, k) ==
    /\ tasks[k].holder = hand /\ tasks[k].status \in {"RUNNING", "deleted"}
    /\ \E well \in BOOLEAN :
          /\ well \/ failures < MaxFailures
          /\ failures' = failures + (IF well THEN 0 ELSE 1)
          /\ tasks' = [tasks EXCEPT ![k] = IF well THEN Finished(tasks[k]) ELSE Unfinished(tasks[k], TRUE)]
          /\ documents' = IF tasks[k].kind = "material"
                          THEN [documents EXCEPT ![tasks[k].about].status = IF well THEN "READY" ELSE "FAILED"]
                          ELSE documents
    /\ UNCHANGED <<user, spaces, projects, script, mishaps>>

\* drainQueue returns when nothing is due, without waiting for what failed; then the job
\* is looked up once.
ReportRun(r) ==
    /\ script[r].at = "drain" /\ HeldBy(r) = {} /\ Due = {}
    /\ Leave(r, "ended")
    /\ mishaps' = IF tasks[script[r].task].status = "RUNNING" THEN mishaps \cup {"givenUpEarly"} ELSE mishaps
    /\ UNCHANGED <<user, spaces, projects, documents, tasks, failures>>

\* The process is stopped.
StopRun(r) ==
    /\ Alive(r) /\ failures < MaxFailures
    /\ failures' = failures + 1
    /\ Leave(r, "stopped")
    /\ mishaps' = mishaps \cup (IF script[r].at = "refreshMastery" THEN {"notRefreshed"} ELSE {})
    /\ UNCHANGED <<user, spaces, projects, documents, tasks>>

-----------------------------------------------------------------------------
FixtureInit ==
    /\ enough \in BOOLEAN
    /\ user = FALSE /\ spaces = 0 /\ projects = <<>> /\ documents = <<>> /\ tasks = <<>>
    /\ script = [r \in Runs |-> NotStarted]
    /\ failures = 0 /\ mishaps = {}

FixtureNext ==
    /\ UNCHANGED enough
    /\ \/ \E r \in Runs :
             \/ Start(r) \/ CreateUser(r) \/ FindSpace(r) \/ CreateSpace(r)
             \/ FindProject(r) \/ CreateProject(r)
             \/ CountReady(r) \/ CreateFixtureMaterial(r) \/ EnqueueFixtureMaterial(r)
             \/ BeginInline(r) \/ EndInline(r) \/ DeleteRedundantJob(r)
             \/ CountEvidence(r) \/ SeedEvidence(r) \/ RefreshMastery(r)
             \/ EnqueueEvaluation(r) \/ ReclaimFirst(r) \/ ReportRun(r) \/ StopRun(r)
       \/ \E hand \in Hands, k \in DOMAIN tasks : ClaimTask(hand, k) \/ EndTask(hand, k)
       \/ WorkerReclaims

-----------------------------------------------------------------------------
(* Properties *)

\* Nobody but one run of the script at a time has worked on the fixture.
Calm == mishaps \cap {"worker", "overlap"} = {}

\* An evaluation runs on a project with a READY material, whatever failed or was stopped
\* before; unless another process was at work, or the drain of the same run has first
\* taken the job of a material that an interrupted run left behind, and failed at it.
MaterialThere ==
    \A r \in Runs : \A k \in HeldBy(r) :
        Calm /\ script[r].at = "drain" /\ tasks[k].kind = "evaluation" =>
            \/ ThereAndReady(tasks[k].about) # {}
            \/ \E j \in DOMAIN tasks : /\ tasks[j].kind = "material" /\ tasks[j].tried = r
                                       /\ tasks[j].status \in {"FAILED", "DEAD"}

\* "Idempotent fixture": one space, one project and one history, also when the script is
\* started again after a failure; only two that run at once can make more.
OneFixture ==
    "overlap" \notin mishaps =>
        /\ spaces <= 1 /\ Len(projects) <= 1
        /\ \A p \in DOMAIN projects : projects[p].evidence <= 1

\* "The same inputs every run": of two READY materials, one has a job that a run left
\* behind which was interrupted before it deleted it; a later drain processes that too.
SameInputs ==
    Calm => \A m, n \in DOMAIN documents :
        m # n /\ documents[m].status = "READY" /\ documents[n].status = "READY" =>
            \E k \in DOMAIN tasks : /\ tasks[k].kind = "material" /\ tasks[k].about \in {m, n}
                                    /\ tasks[k].status # "deleted"

\* The evaluated learner's mastery is that of the history given, unless a run was stopped
\* between the two: the next one finds the evidence and does not refresh.
HistoryCounted ==
    \A r \in Runs : script[r].at = "drain" =>
        \/ projects[script[r].project].counted = projects[script[r].project].evidence
        \/ mishaps \cap {"notRefreshed", "overlap"} # {}

\* The script says that an evaluation did not complete while it is still running only if
\* somebody else has it.
GivenUpRightly == "givenUpEarly" \in mishaps => mishaps \cap {"worker", "overlap"} # {}

\* What the script evaluates is the fixture it describes.
FixtureSound == MaterialThere /\ OneFixture /\ SameInputs /\ HistoryCounted /\ GivenUpRightly
=============================================================================
