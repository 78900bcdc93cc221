------------------------------ MODULE Guidance ------------------------------
(***************************************************************************)
(* What the system tells the learner to do next: the jobs that replace a    *)
(* project's open recommendations (lib/services/recommendations.ts) and     *)
(* rebuild its curated learning context (lib/services/learning-context.ts), *)
(* while quizzes add evidence, the learner asks for new recommendations,    *)
(* and the project may be deleted.                                          *)
(*                                                                          *)
(* A job body is a chain of statements with a model call in the middle, and *)
(* several workers run several of them at once.  A set of recommendations   *)
(* is one record that remembers what it was made from: the quizzes whose    *)
(* evidence it has seen.  Evidence and rows are otherwise not told apart.   *)
(***************************************************************************)
EXTENDS Integers, FiniteSets

CONSTANTS
    Quizzes,       \* the quizzes of one project
    Workers,       \* worker processes
    NoJob,         \* "no job"
    MaxAttempts,   \* Job.maxAttempts
    MaxMinute,     \* bound: minutes in which the learner asks for a refresh
    MaxTurns,      \* MAX_SUMMARY_TURNS: no more messages are told apart
    MaxFaults      \* bound on crashes, failed statements and runs that outlive their lock

ASSUME GuidanceAssumption ==
    /\ MaxAttempts \in Nat \ {0}
    /\ MaxMinute \in Nat
    /\ MaxTurns \in Nat
    /\ MaxFaults \in Nat

Minutes == 0..MaxMinute

\* The idempotency keys: RECOMMENDATION_JOB_IDS and CONTEXT_JOB_IDS.
ForQuiz(kind, z) == <<kind, z>>
Manual(m) == <<"manual", m>>
Jobs == ({"recommend", "context"} \X Quizzes) \cup ({"manual"} \X Minutes)
ASSUME JobAssumption == NoJob \notin Jobs
Refreshes(j) == j[1] = "context"

\* What either kind of job reads side by side: the growth of the concepts, and the
\* answers, in which a refresh looks for repeated mistakes and a generation counts
\* quizzes and averages scores.  The slice of the context that a generation reads
\* as well only colours its prompt: it may be older, as its refresh comes later.
Reads == {"growth", "answers"}

VARIABLES
    project,    \* "live", "deleting" (its row is locked), "deleted", or "kept"
                \* (a deletion was rolled back; bound: it is not tried again)
    concepts,   \* has the project any concept?
    evidence,   \* the quizzes whose evidence is stored
    minute,     \* the current minute
    job,        \* the jobs, by idempotency key
    open,       \* the sets of OPEN recommendations
    context,    \* the LearningContext row
    worker,     \* each worker and the job body it runs
    faults      \* faults so far

learner == <<concepts, evidence, minute>>
vars == <<project, learner, job, open, context, worker, faults>>

-----------------------------------------------------------------------------
(* Types *)

Sources == SUBSET Quizzes
\* A run that overran and fails puts the job back on the queue, once for each
\* attempt but the last.
Attempts == 0..(2 * MaxAttempts - 1)
JobStatus == {"NONE", "WAITING", "RUNNING", "COMPLETED", "DEAD"}

\* sources: the quizzes that both its growth and its scores count.
\* beaten: another run stored its result between this one's reads and its own.
\* alone: no other transaction was replacing the set at the same time.
RecommendationSet ==
    [run : Jobs \X Attempts, sources : Sources, beaten : BOOLEAN, alone : BOOLEAN]
Context == [growth : Sources, mistakes : Sources, summary : 0..MaxTurns, beaten : BOOLEAN]
Replacing == {"delete", "create", "commit"}
Worker ==
    [at : {"idle", "read", "upsert", "report", "fail"} \cup Replacing,
     job : Jobs \cup {NoJob}, attempts : Attempts,
     todo : SUBSET Reads,
     known : BOOLEAN, growth : Sources, answers : Sources, turns : 0..MaxTurns,
     seen : SUBSET (Jobs \X Attempts), beaten : BOOLEAN, alone : BOOLEAN]

Idle ==
    [at |-> "idle", job |-> NoJob, attempts |-> 0, todo |-> {}, known |-> FALSE, growth |-> {}, answers |-> {},
     turns |-> 0, seen |-> {}, beaten |-> FALSE, alone |-> TRUE]

Run(w) == <<worker[w].job, worker[w].attempts>>
On(w, at) == worker[w].at = at
Goto(w, at) == worker' = [worker EXCEPT ![w].at = at]

\* The job body is over: "report" if it returned, "fail" if it threw.
Over(w, at) ==
    [Idle EXCEPT !.at = at, !.job = worker[w].job, !.attempts = worker[w].attempts]
End(w, at) == worker' = [worker EXCEPT ![w] = Over(w, at)]

Init ==
    /\ project = "live"
    /\ concepts = FALSE
    /\ evidence = {}
    /\ minute = 0
    /\ job = [j \in Jobs |-> [status |-> "NONE", attempts |-> 0]]
    /\ open = {}
    /\ context = [growth |-> {}, mistakes |-> {}, summary |-> 0, beaten |-> FALSE]
    /\ worker = [w \in Workers |-> Idle]
    /\ faults = 0

-----------------------------------------------------------------------------
(* What the learner and the rest of the system do *)

Live == project \in {"live", "kept"}

\* A material was processed: the project has concepts.
ExtractConcepts ==
    /\ Live /\ ~concepts
    /\ concepts' = TRUE
    /\ UNCHANGED <<project, evidence, minute, job, open, context, worker, faults>>

\* The answers of a quiz are stored with their evidence.
AnswerQuiz(z) ==
    /\ Live /\ concepts /\ z \notin evidence
    /\ evidence' = evidence \cup {z}
    /\ UNCHANGED <<project, concepts, minute, job, open, context, worker, faults>>

\* enqueueJob: a key that exists already, whatever became of its job, is left alone.
Enqueue(j) ==
    job' = [job EXCEPT ![j] =
        IF @.status = "NONE" THEN [status |-> "WAITING", attempts |-> 0] ELSE @]

\* QUIZ_EVALUATE, once the answers are stored: its recommendations first, then
\* its context (a retried evaluation enqueues both again, to no effect).
EvaluateQuiz(z) ==
    /\ Live /\ z \in evidence
    /\ \/ Enqueue(ForQuiz("recommend", z))
       \/ /\ job[ForQuiz("recommend", z)].status # "NONE"
          /\ Enqueue(ForQuiz("context", z))
    /\ UNCHANGED <<project, learner, open, context, worker, faults>>

\* requestRecommendations, with a key for the current minute.
RequestRecommendations ==
    /\ Live
    /\ Enqueue(Manual(minute))
    /\ UNCHANGED <<project, learner, open, context, worker, faults>>

\* Minutes in which nobody asks are not counted.
NextMinute ==
    /\ Live /\ minute < MaxMinute
    /\ job[Manual(minute)].status # "NONE"
    /\ minute' = minute + 1
    /\ UNCHANGED <<project, concepts, evidence, job, open, context, worker, faults>>

\* deleteProject locks the project's row, unless a transaction has just
\* inserted a row that refers to it ...
DeleteProject ==
    /\ project = "live"
    /\ \A w \in Workers : ~On(w, "commit")
    /\ project' = "deleting"
    /\ UNCHANGED <<learner, job, open, context, worker, faults>>

\* The rows of the open set that a transaction has deleted, and holds.
Held(w) == IF worker[w].at \in {"create", "commit"} THEN worker[w].seen ELSE {}

\* ... and the deletion cascades, once nobody holds one of the rows.
CascadeDelete ==
    /\ project = "deleting"
    /\ \A w \in Workers : {s \in open : s.run \in Held(w)} = {}
    /\ project' = "deleted"
    /\ open' = {}
    /\ context' = [growth |-> {}, mistakes |-> {}, summary |-> 0, beaten |-> FALSE]
    /\ UNCHANGED <<learner, job, worker, faults>>

-----------------------------------------------------------------------------
(* The job bodies *)

\* The claim, and the lookup of the project: one that is gone leaves nothing to do.
Claim(w) ==
    /\ worker[w] = Idle
    /\ \E j \in Jobs :
          /\ job[j].status = "WAITING"
          /\ job' = [job EXCEPT ![j] = [status |-> "RUNNING", attempts |-> @.attempts + 1]]
          /\ worker' = [worker EXCEPT ![w] =
                [Idle EXCEPT !.job = j, !.attempts = job[j].attempts + 1,
                             !.at = IF project = "deleted" THEN "report" ELSE "read",
                             !.todo = IF project = "deleted" THEN {} ELSE Reads]]
    /\ UNCHANGED <<project, learner, open, context, faults>>

\* Mutant: growth is read from the stored context.
GrowthFromContext == context.growth

\* getGrowthForProject classifies the evidence itself, not Concept.mastery.
Growth == evidence

\* Promise.all: the reads end in any order.
Read(w) ==
    /\ On(w, "read")
    /\ \/ /\ "growth" \in worker[w].todo
          /\ worker' = [worker EXCEPT ![w].todo = @ \ {"growth"},
                                      ![w].growth = Growth, ![w].known = concepts]
       \/ /\ "answers" \in worker[w].todo
          /\ worker' = [worker EXCEPT ![w].todo = @ \ {"answers"}, ![w].answers = evidence]
    /\ UNCHANGED <<project, learner, job, open, context, faults>>

ReadAll(w) == On(w, "read") /\ worker[w].todo = {}

\* There is nothing to recommend in a project without concepts.
NothingToRecommend(w) ==
    /\ ReadAll(w) /\ ~Refreshes(worker[w].job) /\ ~worker[w].known
    /\ End(w, "report")
    /\ UNCHANGED <<project, learner, job, open, context, faults>>

\* The model has answered, and the transaction starts: deleteMany sees the rows
\* that are OPEN now.
BeginReplace(w) ==
    LET others == {v \in Workers \ {w} : worker[v].at \in Replacing} IN
    /\ ReadAll(w) /\ ~Refreshes(worker[w].job) /\ worker[w].known
    /\ worker' = [v \in Workers |->
          IF v = w
          THEN [worker[v] EXCEPT !.at = "delete", !.seen = {s.run : s \in open},
                                 !.alone = others = {}]
          ELSE IF v \in others THEN [worker[v] EXCEPT !.alone = FALSE] ELSE worker[v]]
    /\ UNCHANGED <<project, learner, job, open, context, faults>>

\* The newest conversation may hold any number of messages; if it holds none there
\* is nothing to summarise, otherwise the model has written a summary.
Summarise(w) ==
    /\ ReadAll(w) /\ Refreshes(worker[w].job)
    /\ \E turns \in 0..MaxTurns :
          worker' = [worker EXCEPT ![w].at = "upsert", ![w].turns = turns]
    /\ UNCHANGED <<project, learner, job, open, context, faults>>

\* The model call throws.
ModelFails(w) ==
    /\ ReadAll(w)
    /\ Refreshes(worker[w].job) => MaxTurns > 0
    /\ ~Refreshes(worker[w].job) => worker[w].known
    /\ End(w, "fail")
    /\ UNCHANGED <<project, learner, job, open, context, faults>>

\* It waits for a transaction that is deleting the same rows; what that one
\* inserts meanwhile it does not see.
DeleteOpen(w) ==
    /\ On(w, "delete")
    /\ \A v \in Workers \ {w} : Held(v) \cap worker[w].seen = {}
    /\ worker' = [worker EXCEPT ![w].at = "create", ![w].seen = @ \cap {s.run : s \in open}]
    /\ UNCHANGED <<project, learner, job, open, context, faults>>

\* Each new row refers to the project: if it is being deleted the statement
\* waits, and if it is gone the transaction fails.
CreateRecommendations(w) ==
    /\ On(w, "create")
    /\ project # "deleting"
    /\ IF Live THEN Goto(w, "commit") ELSE End(w, "fail")
    /\ UNCHANGED <<project, learner, job, open, context, faults>>

HasRead(v) ==
    /\ worker[v].at \notin {"idle", "report", "fail"}
    /\ worker[v].todo # Reads

\* w stores its result: the runs of its kind that have read already are beaten.
Beaten(w, refreshes) ==
    [v \in Workers |->
        IF v # w /\ HasRead(v) /\ Refreshes(worker[v].job) = refreshes
        THEN [worker[v] EXCEPT !.beaten = TRUE]
        ELSE IF v = w THEN Over(w, "report") ELSE worker[v]]

\* Mutant: the old set is kept.
CommitAddition(w) ==
    /\ On(w, "commit")
    /\ open' = open \cup {[run |-> Run(w), sources |-> worker[w].growth \cap worker[w].answers,
                           beaten |-> worker[w].beaten, alone |-> worker[w].alone]}
    /\ worker' = Beaten(w, FALSE)
    /\ UNCHANGED <<project, learner, job, context, faults>>

Commit(w) ==
    /\ On(w, "commit")
    /\ open' = {s \in open : s.run \notin worker[w].seen}
            \cup {[run |-> Run(w), sources |-> worker[w].growth \cap worker[w].answers,
                   beaten |-> worker[w].beaten, alone |-> worker[w].alone]}
    /\ worker' = Beaten(w, FALSE)
    /\ UNCHANGED <<project, learner, job, context, faults>>

\* Mutant: without a conversation the summary is stored as empty.
SummaryOrNothing(w) == worker[w].turns

\* tutorSummary is left out of the update when there was nothing to summarise.
Summary(w) == IF worker[w].turns > 0 THEN worker[w].turns ELSE context.summary

\* The upsert of the refresh.
UpsertContext(w) ==
    /\ On(w, "upsert")
    /\ \/ /\ Live
          /\ context' = [growth |-> worker[w].growth, mistakes |-> worker[w].answers,
                         summary |-> Summary(w), beaten |-> worker[w].beaten]
          /\ worker' = Beaten(w, TRUE)
       \/ /\ project = "deleted"
          /\ End(w, "fail")
          /\ UNCHANGED context
    /\ UNCHANGED <<project, learner, job, open, faults>>

Outcome(attempts) == IF attempts >= MaxAttempts THEN "DEAD" ELSE "WAITING"

\* completeJob, or failJob: an update by id alone.
Report(w) ==
    LET j == worker[w].job IN
    /\ On(w, "report") \/ On(w, "fail")
    /\ job' = [job EXCEPT ![j].status = IF On(w, "report") THEN "COMPLETED" ELSE Outcome(worker[w].attempts)]
    /\ worker' = [worker EXCEPT ![w] = Idle]
    /\ UNCHANGED <<project, learner, open, context, faults>>

\* A generation that holds the rows the deletion waits for, and waits for the
\* row the deletion holds: PostgreSQL rolls one of them back.
Deadlocked(w) == project = "deleting" /\ On(w, "create") /\ {s \in open : s.run \in Held(w)} # {}

BreakDeadlock(w) ==
    /\ Deadlocked(w)
    /\ \/ End(w, "fail") /\ UNCHANGED project
       \/ project' = "kept" /\ UNCHANGED worker
    /\ UNCHANGED <<learner, job, open, context, faults>>

WorkerStep(w) ==
    \/ Claim(w) \/ Read(w) \/ NothingToRecommend(w) \/ Summarise(w) \/ ModelFails(w)
    \/ BeginReplace(w) \/ DeleteOpen(w) \/ CreateRecommendations(w) \/ Commit(w)
    \/ UpsertContext(w) \/ Report(w)

\* Mutant: only jobs with attempts left are looked for.
ReclaimWithAttemptsLeft(j) ==
    /\ job[j].status = "RUNNING"
    /\ job[j].attempts < MaxAttempts
    /\ \A w \in Workers : worker[w].job # j
    /\ job' = [job EXCEPT ![j].status = "WAITING"]
    /\ UNCHANGED <<project, learner, open, context, worker, faults>>

\* The lock of a run whose worker died expires.
Reclaim(j) ==
    /\ job[j].status = "RUNNING"
    /\ \A w \in Workers : worker[w].job # j
    /\ job' = [job EXCEPT ![j].status = Outcome(job[j].attempts)]
    /\ UNCHANGED <<project, learner, open, context, worker, faults>>

Fault == faults < MaxFaults /\ faults' = faults + 1

\* A run outlives its lock: the job is tried again while it goes on.
Overrun(j) ==
    /\ Fault
    /\ job[j].status = "RUNNING"
    /\ \E w \in Workers : worker[w].job = j
    /\ job' = [job EXCEPT ![j].status = Outcome(job[j].attempts)]
    /\ UNCHANGED <<project, learner, open, context, worker>>

\* The worker dies; or a statement of the job body fails, which rolls an open
\* transaction back.
Fails(w) ==
    /\ Fault
    /\ \/ worker[w] # Idle /\ worker' = [worker EXCEPT ![w] = Idle]
       \/ worker[w].at \notin {"idle", "report", "fail"} /\ End(w, "fail")
    /\ UNCHANGED <<project, learner, job, open, context>>

-----------------------------------------------------------------------------
Next ==
    \/ ExtractConcepts
    \/ RequestRecommendations \/ NextMinute
    \/ DeleteProject \/ CascadeDelete
    \/ \E z \in Quizzes : AnswerQuiz(z) \/ EvaluateQuiz(z)
    \/ \E w \in Workers : WorkerStep(w) \/ BreakDeadlock(w) \/ Fails(w)
    \/ \E j \in Jobs : Reclaim(j) \/ Overrun(j)

Spec == Init /\ [][Next]_vars

\* Workers go on, locks expire, deadlocks are detected, and a deletion that was
\* begun is carried out.  A worker that waits for a row waits for a transaction
\* that ends, and never for the same row twice, so weak fairness is enough.
\* Nobody is obliged to answer, ask, or delete.
Fairness ==
    /\ \A w \in Workers : WF_vars(WorkerStep(w) \/ BreakDeadlock(w))
    /\ \A j \in Jobs : WF_vars(Reclaim(j))
    /\ WF_vars(CascadeDelete)

FairSpec == Spec /\ Fairness

-----------------------------------------------------------------------------
(* Properties *)

\* Every row and every worker has the fields of its type.
TypeOK ==
    /\ project \in {"live", "deleting", "deleted", "kept"}
    /\ concepts \in BOOLEAN
    /\ evidence \in Sources
    /\ minute \in Minutes
    /\ job \in [Jobs -> [status : JobStatus, attempts : Attempts]]
    /\ open \subseteq RecommendationSet
    /\ context \in Context
    /\ worker \in [Workers -> Worker]
    /\ faults \in 0..MaxFaults

\* "The open set is replaced on each run, which keeps a retried job from
\* accumulating duplicates": two sets are open at once only if the transactions
\* that stored them overlapped.
OneOpenSet == TypeOK /\ \A s, t \in open : s # t => ~s.alone /\ ~t.alone

\* Once a job of a quiz is COMPLETED, after any crash and retry, what it left is
\* made with the evidence of the quiz: the open recommendations, of the growth and
\* the scores, and the context, of the growth and the mistakes, which are read
\* apart.  Only a run that read
\* before another one stored its result can bring an older one back.
GuidanceFollowsEvidence ==
    \A z \in Quizzes :
        /\ Live /\ job[ForQuiz("recommend", z)].status = "COMPLETED" =>
              \E s \in open : z \in s.sources \/ s.beaten
        /\ Live /\ job[ForQuiz("context", z)].status = "COMPLETED" =>
              z \in context.growth \cap context.mistakes \/ context.beaten

\* "tutorSummary keeps its previous value when there is no conversation to
\* summarise - an empty summary would be a silent loss of context": whatever
\* refreshes overlap, and whichever conversation is the newest.
SummaryNeverLost == [][context.summary > 0 => context'.summary > 0 \/ project' = "deleted"]_vars

\* Every generation and refresh that was asked for is completed or
\* dead-lettered, also when the project is deleted under it.
GuidanceEnds ==
    \A j \in Jobs : job[j].status = "WAITING" ~> job[j].status \in {"COMPLETED", "DEAD"}
=============================================================================
