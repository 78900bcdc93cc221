# A TLA+ specification of ai-study-companion

AI Study Companion is a web application in which learners upload course material, ask a
tutor about it, take quizzes and follow an estimate of their mastery. Its web processes
and its worker processes share one PostgreSQL database and one file store, and talk to
each other only through them, most of all through the `Job` table. What is hard to test
in it is what happens between two statements of one process: another process runs, the
process dies, the statement fails, a lock expires, or a page gives up on an answer that
is still being made. This directory models the program in TLA+, checks the models with
TLC and proves the safety properties of the modules that carry its state with TLAPS, for
every value of their constants. `PROJECT.json` lists the components, the runs, the mutants, the source lines each
definition models, the hazards and the theorems.

## 1. The system

| Component | State | Operations | Interacts with |
| --- | --- | --- | --- |
| Job queue (`lib/jobs/queue.ts`) | `Job` rows: status, attempts, runAt, lockedAt | enqueue, claim, complete, fail, reclaim, requeue | everything that runs out of band |
| Workers (`lib/jobs/worker.ts`, `scripts/worker.ts`) | the claimed row, `lastReclaim` | one loop: reclaim, claim, handler, report, sleep | the queue; several processes |
| Material pipeline (`lib/services/materials.ts`, `lib/rag/embed.ts`) | `Material`, `Chunk`, `MaterialConcept` | upload, retry, delete; `processMaterial` | queue, storage, AI layer |
| Documents (`lib/documents/`, `lib/storage/`) | the stored file | parse, recognise, chunk; put, get, delete | pipeline |
| Retrieval (`lib/rag/`) | none | rank, fit into a prompt, cite | tutor, quizzes |
| Concepts (`ai/features/extract-concepts.ts`, `services/materials.ts`) | `Concept` names | extract, resolve a model's names | pipeline, quizzes, guidance |
| Quizzes (`lib/services/quizzes.ts`) | `Quiz`, `QuizQuestion`, `QuizAnswer`, `ConceptEvidence` | start, answer, complete, evaluate | queue, mastery, AI layer |
| Mastery, growth, plans (`lib/services/mastery.ts`, `growth.ts`, `lib/learning/`) | `Concept.mastery` | recompute from evidence; trends, plans | quizzes, pages |
| Recommendations, learning context (`lib/services/recommendations.ts`, `learning-context.ts`) | `Recommendation`, `LearningContext` | generate, refresh | queue, AI layer |
| Tutor (`lib/services/tutor.ts`, `app/api/tutor/route.ts`, `lib/sse-client.ts`, `tutor-chat.tsx`) | `Conversation`, `Message`, the page | one turn: question, retrieval, stream, answer | AI layer, browser |
| AI layer (`lib/ai/`) | `AiRequest` rows, the embedding cache, the local model | measured calls, streams, retries | providers |
| Rate limiter (`lib/rate-limit.ts`) | windows per key, in memory | count, sweep | sign-in, registration and other routes |
| Sessions, spaces, projects (`lib/auth/`, `services/auth.ts`, `spaces.ts`, `projects.ts`) | `User`, `Session`, `Space`, `Project`, `ActivityEvent` | sign up, in and out; create, change, delete | every route |
| Dashboards, analytics, administration (`services/home.ts`, `analytics.ts`, `admin.ts`) | none | reads of many rows; `retryJob` | everything |
| Evaluation (`lib/eval/`, `scripts/eval.ts`) | the report in `Job.result`, the fixture | suites, report, the script | tutor, quizzes, guidance, queue |
| Timing (`lib/performance/timing.ts`) | spans of a request | start, record, summarise | tutor, scripts |
| Pages and forms (`components/`) | copies of what the server stores | send, poll, refresh, give up | routes |

What makes each of them correct, and what is hard about it:

* **Queue and workers.** A job has one holder, is given up only when its attempts are
  used, and settles in the end. Hard: the lock is only an age, `completeJob` and `failJob`
  update by id without looking at the row, `requeueJob` has no condition on the status.
* **Material pipeline, documents.** A READY material can be searched, a failed run leaves
  nothing of its own behind a later one, no text is lost between the file and the chunks.
  Hard: `processMaterial` is a dozen statements without a transaction, repeated after
  crashes, while the learner may retry or delete; a document and its row are two writes.
* **Quizzes and mastery.** Evidence is that of the answers, mastery that of the evidence,
  a completed quiz is evaluated, a stored question can be graded. Hard: read-committed
  transactions over several concepts, grading that takes seconds between a check and the
  write it guards, an enqueue outside the transaction it follows.
* **Guidance.** One open set of recommendations, made of the evidence there is, and a
  summary that is never lost. Hard: several jobs read, call a model for seconds and write.
* **Tutor and AI layer.** Questions and answers stay paired, what a page shows as done is
  stored, every model call leaves one row, the page never waits for ever. Hard: the page
  may leave, time out or ask again while the server is still at the turn.
* **Sessions, spaces, projects, limiter.** Only rightful sessions are admitted, each change
  has its event, budgets are kept. Hard: overlapping requests, expiry, cascades that meet
  updates, windows at their edges and a map at its bound.
* **Everything that only reads.** Pages agree with each other and with the rows. Hard: a
  page is several queries, each of another moment, and each looks at its own share of the
  rows (a limit, a pool, a window).
* **Pages and forms.** What is shown is stored, and what is stored is shown in the end.
  Hard: answers arrive in any order, and a request that is given up goes on.

The hazards, each at its line and with the properties aimed at it, are in `PROJECT.json`.

## 2. The modules

| Module | Models |
| --- | --- |
| `JobLifecycle` | what the queue promises its callers: the abstract specification |
| `JobQueue` | the queue and the worker loop, statement by statement, with time; implements `JobLifecycle` |
| `MaterialPipeline` | a material from upload to deletion, with its job; its job rows implement `JobLifecycle` |
| `QuizSession` | answers, evidence, mastery and the evaluation job |
| `TutorTurn` | a question to the tutor: page, stream, turn, `AiRequest` row |
| `Guidance` | the jobs that make recommendations and the learning context |
| `RateLimiter` | the fixed-window limiter |
| `Workspace` | sign-up, sign-in, sign-out, spaces and projects as interleaved requests; composes `RateLimiter` |
| `Pages` | the quiz page and the list of materials, with their requests, polls and refreshes |
| `Reading`, `Storage`, `Retrieval` | a document into chunks; documents beside their rows; chunks into evidence |
| `Prompts`, `Concepts`, `AiCalls` | what models are told; what they name; how they are called |
| `Learning`, `QuizBuilder` | mastery, trends and plans from aging evidence; quizzes that are generated and graded |
| `Dashboards`, `Usage`, `AdminDesk` | the figures of a learner's pages; counts over time; an administrator's lists |
| `EvalRun`, `Fixture` | the evaluation suites and their report; the script that makes their project |
| `Timing`, `Forms` | spans of a request; forms that create something |
| `JobQueueProofs`, `MaterialPipelineProofs`, `QuizSessionProofs`, `TutorTurnProofs`, `GuidanceProofs`, `WorkspaceProofs`, `PartProofs`, `LibraryProofs` | the theorems |
| `MC...` | finite instances; `MCLibrary` runs the modules of the five rows before the proofs, one in each behaviour |

Throughout, a request or worker is a record that remembers at which statement it is, and
each database statement is one action. A definition whose comment begins with `Mutant:` is
the altered form of the one that follows it; no specification uses it.

### JobQueue

`job[j]` is a row of the `Job` table and `worker[w]` a process: where it is in its loop
(`top`, `polling`, `running`, `completing`, `failing`, `down`), and the copy of the row that
`claimNextJob` gave it. `j` stands for a row, not for an idempotency key: a key used again
after the row was deleted is another `j`.

* `EnqueueJob`, `ClaimNextJob`, `CompleteJob`, `FailJob`, `ReclaimStaleJobs`, `RequeueJob`
  are the functions of `queue.ts`; `SkipReclaim`, `NothingDue` and `HandlerEnds` are the rest
  of the loop in `worker.ts`. `CompleteJob` on a row that was deleted goes on to `FailJob`,
  as the `catch` block of `runWorkerOnce` does.
* `RetryMaterial` and `AdminReads`/`AdminRequeues` are the two callers of `requeueJob`; the
  second is a check in one statement and an update in another. `RequeueJob` looks at no
  status, as `requeueJob` does not, and puts a job back under a worker that runs it. That
  callers refrain from this is an assumption about them (`NotInFlight`, a conjunct of `Next`),
  made where `InFlightRetries` is false.
* `cycle[j]` is history: how often `j` was claimed since it was enqueued or last put back, which
  runs were then under way (`rivals`), and whether one of these has settled it (`overtaken`).
  `RetryRuns` needs no assumption: only such a run can complete a job that was put back
  without running it again, or give it up before it has had all its attempts.
* `Crash`, `DatabaseError`, `ClaimReplyLost` and `CompleteReplyLost` are the faults. The
  retry in `lib/db.ts` repeats only statements that were never sent, so it adds no step;
  a reply that is lost after the statement took effect (P1017) is a fault of its own.
* Times are relative to the present: `wait` until `runAt`, `age` of `lockedAt`, `since` the
  last reclaim. `Tick` lets one unit pass. `age`, `held` and `since` stop just above the lock
  timeout, `wait` at `-Horizon`; no guard tells larger values apart (the order of two jobs
  overdue for longer than `Horizon` becomes a free choice, which only adds behaviours).

The constants `Overruns`, `InFlightRetries` and `LostReplies` name three things the code
does not exclude. Without them the queue keeps its promises; with them it keeps weaker
ones. `Overruns = FALSE` says that every run reports, or dies, within
`JOB_LOCK_TIMEOUT_MS` of its claim. With it a slow handler's job is handed to a second
worker, which the repository's `README.md:359-360` rules out ("no job is handed to two of
them"); `OneHolder` is checked and proved without it.

### MaterialPipeline

Each statement of `createMaterial`, `retryMaterial`, `deleteMaterial` and `processMaterial` is
an action, and a request or a worker may stop before any of them. A chunk keeps the run
that created it, because `replaceChunks` attaches embeddings by the ids its own run
generated. The queue is kept without its clock: a waiting job may be claimed at any time,
and a lock may expire once no worker holds the job (`LockHeld` of `JobQueue`) or, with
`Overruns`, at any time. `JobsAsPromised` checks that this job protocol is `JobLifecycle`,
which is what `JobQueue` is shown to implement. `Retry` asks only that the material exists, as the
service does. With `InFlightRetries` false its statements wait until no worker has the job, which is
the assumption of `JobQueue` about callers.

Three ways in which the code falls short of its documents are exceptions of the properties:
a worker that dies on its last attempt leaves its material PROCESSING beside a dead-lettered
job (`JobsEnd`; `architecture.md:520-521` promises that "a crashed worker cannot strand
work"), a deletion that dies half way leaves a row without a document (`ReadyIsComplete`;
the comment at `materials.ts:199-200` wants to avoid "a database record pointing at
nothing"), and a retry that dies half way leaves a COMPLETED job beside a material that is
not READY.

### QuizSession

A request steps through the statements of `submitAnswer` or `completeQuiz`. What it does
inside the transaction stays in the request (`rows`, `done`, `written`) until `Commit`, and
other processes see nothing of it, except that they wait for the rows it updated and for
the unique key of the answer it inserted. This is PostgreSQL's read-committed isolation,
the default that Prisma's transactions run at. `BreakDeadlock` is PostgreSQL's own.
`evaluateQuiz` runs the same recomputation outside a transaction. Two recomputations of a
concept may overlap; the history `drift` records when, and when one that ran alone has put
the mastery right. `abandoned` records the quizzes whose request died between COMPLETED and
the enqueue: nothing evaluates them later (`quizzes.ts:659-660` returns a completed quiz as
it is). Mastery is a percentage and the recency factor is left to `Learning`: rows of one
age decay together and their factor cancels in the weighted mean.

### TutorTurn

`turn[t]` is the server's side of one POST (`route.ts` and the generator `askTutor`), `wire[t]`
the events between it and the browser, `chat[c]` the page, `thread[id]` the messages of a
conversation. A conversation has the name of the turn that created it.

* `Ask`, `TryAgain` and `Switch` are what the learner does; `Read` and `Seen` are the loop of
  `send` in `tutor-chat.tsx`; `IdleTimeout` and `Interrupted` are its ways into the `catch`
  block. `Resync` is the effect that replaces the page's messages by the server's.
* `Preflight` to `SendDone` are the awaits and yields of `askTutor` in order. The question's
  transaction and the retrieval run side by side (`Promise.all`), so `SaveQuestion` may still
  happen after a failed `Retrieve` has ended the turn. `Emit` is what the route does with an
  event: it sends it, or finds the deadline passed or the reader gone and abandons the
  generator, whose stream still runs `aiStreamText`'s `finally` (`RecordRequest`).
* `StreamPiece` and `StreamEnds` are the provider's: a piece, the end, or a failure.
* `StatementFails`, `ServerDies` and `ConnectionLost` are the faults.

The deadline and the idle timer have no clock: they may fire wherever the code looks at
them. The deadline is looked at between events only, so a stalled model is noticed by the
page alone, and the server's turn may stay open. A turn that is tried again stores its
question again; when the first turn failed before its `citations` event the page does not
know the conversation, and the retry starts another.

### Guidance

`generateForProject` and `rebuildLearningContext` are chains of reads, a model call and a
transaction; a worker is a record with what its reads have seen. Two reads go on side by
side in both (`Reads`): the growth of the concepts, and the answers, in which a refresh looks
for repeated mistakes and a generation counts quizzes and averages scores. A set of
recommendations remembers the quizzes that both of its reads knew, so that a property can
say that nothing older is kept. The slice of the learning context, which a generation reads
as well, is left out of `sources`: it only colours the prompt, and it is always allowed to be
older, since the evaluation enqueues the context's refresh after the generation. The idempotency keys are those of the code: one job of each kind for
a quiz and one manual refresh for a minute. `CascadeDelete` is the project's deletion; it
waits for the rows a transaction holds, and PostgreSQL breaks the deadlock.

### RateLimiter, Workspace

`buckets` is the limiter's map, with its sweep and its bound; `calls` records for every key
when it was called and whether it was allowed, so that the properties count calls and never
look at buckets. `Workspace` is what calls it: requests that sign up, in and out, look up a
session, or change spaces and projects, each at a statement of its handler. The
transactions are two statements, the row and the event, under row locks and foreign keys
(`SpaceFree`, `ProjectFree`, `Cascade`); the deletion of a space reaches its projects in a
step of its own and may deadlock with their updates. A cookie is what the browser last
took from a response it still waited for; a page that has given up takes none. `Restart`
empties the limiter's map and loses the requests under way.

### Pages, Forms

The quiz page keeps the quiz, the open question and what it believes to be answered; the
list of materials keeps rows and polls while any is unsettled. Answers, polls and refreshes
are on their way at once and arrive in any order; a request may be given up while the server
goes on with it. A request also fails before anything is stored (`FailBefore`) or after
(`FailAfter`: the enqueue of a completed quiz's evaluation, the read of the view it returns,
or the enqueue for an uploaded material); `lapsed` records the latter and what was given up.
The server's side is as coarse as a page can tell.

### The library

`Reading` to `Forms` share no state, and one run, `library`, checks them all: a behaviour
chooses one part and the others stay. Each is a small state machine over the data its
functions work on (rows that arrive, age, change or go), and its property compares what
the code computes with a definition that says what it means: every sentence is in a chunk,
nothing better than the kept evidence was left out, the cache keeps the texts that were hit
last, the pages of one learner count the same rows. Where the code's own limits make two
answers differ (a pool of the weakest concepts, a window of days, a scan of the latest
rows), the property states the limit and demands agreement up to it.

Some of them say in their comments what the code does not promise, because it is so:

* `Concepts`: the names a grade covers or misses are lists with repetitions, of up to
  `MaxMentioned` names together, and each writing that reaches a concept counts. Two runs may
  store two spellings (twins); of these one gets all that an answer says of both.
* `AiCalls`: the `AiRequest` row and the caller's continuation (the write to the cache) are two
  steps, and a restart may fall between them.
* `EvalRun`: a hit's material and its chunk are looked up by two queries that may disagree. A
  key that consists of blanks passes the generator's check and is stored empty: the answer
  key's assertion fails with that cause. A run that fails leaves its job DEAD.
* `Fixture`: the script's steps are its statements, so it may stop between any two, a space
  without a project included. `eval.ts:26` speaks of "the same inputs every run". Three cases
  in which they are not are reachable and named by the properties: a run that fails, or is
  stopped, before it deletes its material's job leaves that job to the drain of a later run,
  which makes the old material READY beside the one that run has made (`SameInputs`), or
  processes anew the one READY material, which is FAILED if that goes wrong, and then
  evaluates (`MaterialThere`); a run stopped between the history and the mastery leaves the mastery at
  zero for ever (`HistoryCounted`). The limit of a hundred jobs in one drain, and the jobs of
  other users, are not modelled.

## 3. What the runs show

| Run | Instance | Result |
| --- | --- | --- |
| `queue_timely` | 2 jobs, 2 workers, 2 attempts, lock timeout 1, 2 faults, 1 retry | one holder for each job, reports that match the claim, implements `JobLifecycle` |
| `queue_wild` | 1 job, 2 workers, overruns, retries in flight, lost replies, fairness | attempts bounded by `MaxAttempts + workers - 1`; a job put back is run again, unless a run it was put back under settles it; every job settles |
| `materials_timely` | 1 material, 0 to 2 chunks, 2 workers, 2 requests, 2 worker faults, 1 request fault, 1 retry | READY is complete, one chunk set, COMPLETED means READY, jobs as promised |
| `materials_wild` | 1 material, 2 workers, overruns, retries in flight, fairness | live jobs finish, jobs of deleted materials end |
| `quiz` | 2 open questions on 2 concepts that may mention each other, 2 requests, 1 worker, 1 fault, fairness | evidence, mastery and follow-up jobs agree, deadlocks end, completed quizzes are evaluated |
| `quiz_drift` | 2 questions on one concept, 2 requests | **violated:** a concurrent answer's evidence is missing from mastery |
| `tutor` | 1 page, 2 turns, answers of 0 or 1 piece, 1 fault for all turns, fairness | answers follow their questions, failed calls store nothing, one row for each call, done means stored, no silent end, the page's wait ends |
| `guidance_overlapping` | 2 quizzes and 1 manual refresh, 2 workers, 1 attempt | when two sets can be open, and when older evidence can win: only when runs overlapped |
| `guidance_retried` | 1 quiz, 2 manual refreshes, 1 worker, 2 attempts, 1 fault, 1 message, fairness | retried jobs leave one open set, the summary is kept, every job ends |
| `workspace` | 2 accounts, up to 3 requests, 1 fault, window 2 of 3 instants, 1 tracked key; five mixes of operations | budgets, sessions, events, no lasting block |
| `pages` | 2 questions, 3 requests of the quiz page; 2 materials, 2 requests of the list, 1 poll on its way; fairness | what is shown is stored, the list converges, also when requests fail before or after storing |
| `library` | the sixteen parts, bounds below | nine properties, one for each group of parts |

The violated property of `quiz_drift` quotes the repository's README, which says that the
estimate "can never drift from the evidence behind it"; `PROJECT.json` has it under `findings`.

**Bounds.** Two workers and two attempts are the least with which a lost run, its successor
and a late report coexist, and with which an attempt is the last one or is not. Two jobs
make the order of claims and the bulk reclaim matter. A lock timeout of one tick separates
the tick at which a lock is full from the one at which it is stale. `MaxFaults` and
`MaxRequeues` end the faults, without which no liveness property could hold; faults may fall
at every step of every process. A document of up to two chunks, embedded one at a time, has
a first and a last batch; zero chunks is the document without usable words. `materials_wild`
uses zero chunks because chunk statements only add steps to a run that can already fail or
die in every state. One mention in a grade makes an answer update two concepts, and two such
answers update them in both orders. One page and two turns suffice for turns of one
conversation to overlap. Two workers and five jobs of one project overlap generations and
refreshes in every order; retries need one worker and one quiz only, because what a second
attempt finds was left by the first.

`workspace` chooses one of five mixes, since all operations at once exceed what can be
explored: three registrations (limit two, so that a window is spent and refused); sign-in,
sign-out and the session lookup from two pages; registration beside sign-in; the space
operations; the project operations beside the deletion of their space. In a window of two
out of three instants a key can spend a budget, be refused, and begin a second window; one
tracked key makes the second key sweep the first. Sessions live for one instant.

In `library`, each bound is the least that puts both sides of a limit into the model: two pages
and four sentences of sizes around the chunk target and the overlap; three rows around `TopK`,
the threshold and the citation limit, of two materials with one page each (a page and a
material tell passages apart alike), one length that fits the prompt and one that does not; a
window of three messages for three turns; an evidence limit of two for four answers, and
periods in which evidence halves; three texts for a cache of two; options that coincide after
trimming; more concepts than a pool, more projects than Home lists, more events than a page,
more jobs than a list; rows on both sides of midnight and of the window's start; two runs of
the evaluation script, either overlapping each other or beside a worker, not both (`Fixture`);
drafts submitted three times.

**Fairness.** A worker's next step is taken in the end (`runWorkerLoop` never leaves its
loop but on a signal, every exception is caught, and the deployment restarts a dead worker);
the handler ends; time passes. In the pipeline, the quiz and the guidance, requests under
way go on and a lock nobody holds expires. In `QuizSession` the fairness of requests and
workers is strong: PostgreSQL queues the waiters of a row lock, so one that waits again and
again is served. In `Guidance`, PostgreSQL breaks a deadlock and the cascade goes on. Nobody
is obliged to enqueue, upload, answer, retry or delete. In `TutorTurn` the server's own steps
are taken, and so are the page's: it reads what has arrived, its timer fires, its `catch`
block runs. Nothing is asked of the model, whose stream may stall for ever. In `Pages`, calls
and polls are answered or given up, the poll's timer fires, and a refresh renders. The runs
whose systems may stop for good when everything is done do not check for deadlock; the
queue's runs do, and `SomebodyMoves` states for `Workspace` that requests which are under way
never all wait.

**Mutants.** For each property of each passing run, `PROJECT.json` names a definition and an
altered form of it that stands next to it in the module (a lock that is stale one tick
early, a reclaim that skips exhausted jobs, evidence read outside the transaction, ...);
TLC finds the property violated when the altered form is used. Those of the properties
about deadlocks are changes of the code that wait where PostgreSQL does not see it: concepts
that are recomputed for one answer at a time (`RequestsEnd`), the event of a deletion
written by another connection than the deletion (`SomebodyMoves`). A property of `library`
gathers those of its parts; its mutant breaks one of them.

## 4. What is proved

Every theorem is for all values of the constants: any numbers of jobs, materials, workers,
requests, attempts and faults. The assumptions about the constants are the `...Assumption`
of each module, which TLC evaluates in every run. What else a theorem assumes is said here.

**`JobQueueProofs`** (`QueueAssumption`, `DelayAssumption`)

* `TypeCorrect`: `TypeOK` is an invariant of `Spec`.
* `OneHolderCorrect`, `ReportMatchesClaimCorrect`: the two properties are invariants of `Spec`,
  assuming `Disciplined` (no overruns, no retries in flight) and, for `ReportMatchesClaim`, no
  lost replies.
* `ImplementsLifecycleCorrect`: under the same assumptions the queue implements `JobLifecycle`.
* `AttemptsBoundedCorrect`, `RetryRunsCorrect`: with overruns, retries in flight and lost replies
  alike, attempts stay within `MaxAttempts + workers - 1`, and a job is settled only after the
  claims that `RetryRuns` asks for, unless a run it was put back under has settled it.

That no two workers hold a job is not inductive: it says nothing of why the second cannot
claim it. The strengthening adds `LockHeld`: while a worker holds a job, the row is RUNNING
in the worker's attempt, its lock is exactly as old as the run, and that is at most the lock
timeout. A claim takes no RUNNING row, a reclaim only one whose lock is older than the
timeout, and a tick is blocked while some run is at its limit; so no step separates a worker
from its row. The refinement follows in two stages: `RowChanges` (every step executes at most
one statement of `queue.ts` on each row, the reports by id included, because `LockHeld` finds
the row as claimed) and `StatementIsStep` (a statement is a step of its job, given
`TriesCounted`: a waiting job has a try left). The bound on attempts counts, for a job that
has used its tries, the processes that may still put it back on the queue
(`ReturnsCounted`); each puts it back at most once, and the claim of the last try leaves one
process less. For `RetryRuns`, `CyclesCounted` says that the claims since a job was put back are
its attempts, and that a run which is not a rival has had one of them; so its report, even on
a row that others have changed, comes after a claim, and gives the job up only with its
attempts used.

**`MaterialPipelineProofs`** (`PipelineAssumption`), assuming `Timely`: no overruns and no
retries in flight, the constants of the run `materials_timely`

* `ReadyIsCompleteCorrect`, `OneChunkSetCorrect`, `CompletedMeansReadyCorrect`.
* `JobsAsPromisedCorrect`: the job rows inside the pipeline implement `JobLifecycle`, the same
  abstract specification that `JobQueue` implements. So what the pipeline takes for granted
  of the queue is what the queue is proved to give.

The invariant `IInv` has three layers, each proved from the ones before. `TypeInv` says that
the job rows a material ever had, and the requests that may still create one (`Pending`), are
no more than its upload and its retries; that only the uploading request finds a material
without a row; and that a job row has at most one run, RUNNING in that run's attempt.
`ChunkInv` says what a run knows of the chunks at each statement of `processMaterial`: after
`deleteChunks` there are none, after `createChunks` all are its own and whole, after batch n
all up to `done` are embedded; the statement that makes the material READY finds them
complete. `DocInv` explains a missing document by a deletion and a COMPLETED job by a READY
material or by the very request that will requeue it. Without `Timely`, `replaceChunks` of two
runs interleave and none of this holds; what is left then is `JobsEnd`, which TLC checks.

**`QuizSessionProofs`** (`QuizAssumption`)

* `TypeCorrect`: `TypeOK`, the bounds of mastery (`MasteryInRange`), of attempts and of
  completions included: `CompletionsCounted` counts the requests still about to complete.
* `EvidenceMatchesAnswersCorrect`: `EvidenceInv` adds that a question being answered in a
  transaction has no answer yet and one such transaction (`OneTransaction`: the unique key),
  and what a question's rows are (`EvidenceKept`).
* `MasteryFollowsEvidenceCorrect`: `MasteryInv` says for each concept who is recomputing it
  (`Alone`: one transaction or one evaluation, unless they overlapped), and that the value
  before, the value written and the rows seen inside that transaction agree at each of its
  statements (`TransactionTrue`, `EvaluationTrue`); so the commit publishes what the rows say.

**`TutorTurnProofs`** (`TutorAssumption`)

* `AnswerFollowsQuestionCorrect`, `RowForEveryCallCorrect`, `DoneMeansStoredCorrect`,
  `NeverSilentCorrect`.

`TypeInv` leaves the pieces on a page unbounded; `ServerInv` says at each step of `askTutor`
what is stored (`Course`), which `AiRequest` row is left (`Rows`), and that an answer is
paired; `PageInv` relates the page to the wire: the pieces shown and those on their way are
the turn's, `done` is on the wire only when the answer is stored, events keep their order,
and a turn that ends with the connection up has announced it. The bound on the page's pieces
follows last.

**`GuidanceProofs`** (`GuidanceAssumption`, `JobAssumption`)

* `OneOpenSetCorrect`, `GuidanceFollowsEvidenceCorrect`, and the action property
  `SummaryNeverLostCorrect`.

`SetInv` says of a transaction that replaces the open set that every open set is one it saw or
was stored by one that overlapped it. `EvidenceInv` follows the evidence of a quiz from its row
through what each of a run's two reads has found (`Informed`, `Knows`) to what is stored (`Followed`). The types
need a count of their own: a job whose attempts are used is tried again only for runs that
outlived their lock (`Bounded`). No invariant is needed for the summary: `UpsertContext`
keeps it or replaces it by another, and no other step but the deletion touches it.

**`WorkspaceProofs`** (`WorkspaceAssumption`, `MixAssumption`, `LimiterAssumption`), first about
the limiter alone (`LimiterSpec`)

* `LimiterTypeCorrect`, `NeverTooFewCorrect`, `TrackedKeysAreLiveCorrect`: nobody is refused
  who was not granted a whole budget within a window's length before, and the map outgrows
  its bound by live keys alone. The invariant ties buckets to history (`WindowsCount`): a
  bucket's count is at most the calls its window has granted, or those are the limit, and no
  window reaches further than `WindowMs` from now.
* `BudgetKeptCorrect`: moreover, an interval as long as a window grants at most twice the
  limit less one. The second invariant (`Bounded`) says of a tracked key that its window, the
  stretch before it, and the window without its first instant are each within what two
  budgets leave; and of an untracked key that all its calls are past and the recent ones
  fewer than a budget. It is the third of these parts that makes the next window inductive:
  when a window is over, what is still recent lies after its first call.

then about the requests that use it (`Spec`)

* `LimiterUsed`: every behaviour of `Workspace` is one of `RateLimiter`'s; so
  `BudgetKeptByRequests`, the budgets are kept by the requests of the `workspace` run for any
  accounts and any number of requests. The invariant it needs is that a request under way
  names an account (`Named`), whose key is among the limiter's.
* `SessionsRightfulCorrect`: a session admits requests until it expires or is revoked, and
  ends for no other reason.
* `AuditTrailCorrect`: every change of a row has exactly one event.
* `SomebodyUnblockedCorrect`: requests never wait for one another in a ring that nobody breaks.

`ServiceInv` says of a request what it is at each place of its handler: its operation and
user (`Placed`), and that the tokens it holds were issued, the one it is about to delete
expired (`Holding`). That a session ends for no other reason then follows: `login` adds a token
that was never issued, the clean-up deletes what has expired, and only a sign-out revokes. The
types need a count (`EnoughRoom`): every open request may still issue one token, make one
space and one project, and change each row once; what there is and those together fit.

`AuditInv` adds the locks and the log. `Locked` says that a transaction past its first
statement has its row, that its user owns it (asked before the transaction began, and owners
do not change), and that it is `Apart` from every other open transaction: a space being deleted
is being changed by no one else, nor are its projects once the cascade has reached them.
`Recorded` says that for each row as many events of each type are in the log as its columns
say, that a request has at most one event (`Single`) and none before it has committed, and
that an event names rows that are there and the owner of the row it is about. The step that
commits a deletion changes events too (`SET NULL`): `Counting` proves that events which only
forget keep their number, because no two of them become the same one.

`SomebodyUnblocked` follows from the same invariant. Who waits at a first statement waits for a
request that is past its own. That one waits, at its event, only for the deletion of the space the
event names, which is then at its cascade and in a deadlock with it that PostgreSQL finds; or,
at its cascade, only for a request that has a project of the space and is at its event, the
same deadlock. So every chain of waiters ends within three links (`TransactionMoves`).
`SomebodyMoves` adds that a request which is not kept from its statement is able to take it,
which is about ENABLED.

**`PartProofs`** (`PagesAssumption`): `QuizPageTrueCorrect`, and the lemmas of `Forms`, `AdminDesk`,
`Storage`, `Reading`, `Timing` and `Prompts`, whose theorems are in `LibraryProofs`. The page's copy
and the server's rows are related through every request between them. `CallTrue` says what a request on its
way brings: an answer that was accepted is stored, a view holds nothing that is not, and the
view that a completion returns lacks only answers that crossed it. `Crossing` keeps who met
whom; `Awaited` finds for everything a page waits for the request under way that will end the
wait; `CopyTrue` says of an answer the page lacks that it is coming, or crossed the end, unless a
request was given up or failed after storing (`lapsed`).

**`LibraryProofs`** (`ReadingAssumption`, `StorageAssumption`, `CallAssumption`, `EvalAssumption`,
`FixtureAssumption`, `FormsAssumption`, `BuilderAssumption`, `ConceptAssumption`, `DeskAssumption`,
`PromptAssumption`)

* `DocumentsFaithfulCorrect`: `ChunksFaithful` of `Reading` and `DocumentsKept` of `Storage`.
  `PackingInv` says of the chunks, with the buffer as the last of them, that they are strung
  together (`Strung`): each is of one page, in order, and the next one either begins a page
  or begins with the end of its predecessor and goes on after it (`Carries`); and that they
  hold exactly what the cursor is past (`Packed`). That a sentence is in one chunk only,
  beside what is carried, follows: were it fresh in two, the later chunk would have to begin
  after itself (`FreshOnce`). Sums and normalised keys are recursive functions over a sequence.
  What they give is proved from the steps by which they are made (`StepByStep`, `EveryPlace`:
  a place where something fails for the first time would be a least number, and there is
  none). For keys, a normalised path once begun with `..` stays so (`Upward`), and any other has no
  `..` at all (`Inward`), so walking the segments of a safe key from the root leads where the
  normalised key says, which is inside (`SafeKeysLeadIn`). For
  documents, a path is written by its own upload alone; a row is made only of a document that
  is whole; and it loses it only to its deletion or to a loss of the disk.
* `CallsTrueCorrect`: `CallsAccounted` of `AiCalls`. Calls are counted: those made are the
  good, the bad, those a restart cut off before their row and those under way (`CallsInv`), and a call that is
  past the load of the local model has found it loaded. For the cache, `CacheInv` says by
  positions that the cache is the end of the order of last use; a hit moves one key to the end
  of both, a write that evicts drops the first of the cache, and neither needs induction over
  the sequences (`HitKeeps`, `WriteKeeps`).
* `EvaluationHonestCorrect`: `ReportHonest` of `EvalRun`, and `FixtureSound` of `Fixture`.
  `RunHonest` says at each step of a run what its checks say so far: which suites are covered,
  that a failed assertion has a cause among the facts or in what moved, and that every wrong
  fact has its failed assertion, or a check that is still owed (`Owed`). For the script,
  `AloneTrue` says of runs that do not overlap that there is one space and one project, with one
  history, refreshed or about to be; `HeldTrue` and `TasksApart` that a job is with who had it last,
  and nobody has two. `RunTrue` says at each step of the script which materials are READY:
  none before the run has made its own, and its project's from there to the drain; in the
  drain there is one, or the run has a material's job in hand or has failed at one (`Tried`).
  `SameInputs` is inductive with these: the second material of two to become READY is made by a
  run that has found none READY, so the first was left with its job, which is not deleted.
* `ScreensTrueCorrect`: `FormsHonest` of `Forms` and `DeskTrue` of `AdminDesk`. In a form only the last
  submission can still be waited for (`OnlyLast`), and a draft that was accepted is not in it
  again (`NotAgain`), so what is stored twice was not known to be stored (`Distinct`). Of the
  activity feed, `FeedInv` says that the events still owed to the reader are among those
  seen or behind the page's offset: arrivals move events to later places and never across it.
  Of the list of jobs, `JobsInv` says that a list without a job that moved meanwhile has, for each
  status, no more rows than are counted, and all of them if a later status is listed.
* `QuizzesSoundCorrect`: `QuizSound` of `QuizBuilder`. `BuilderInv` says that the drafts are those
  places of the plan, up to the one in hand, that had evidence when they were looked for,
  in ascending order, and each a question that passed the checks on the generated options.
* `NamesTrueCorrect`: `NamesResolved` of `Concepts`. `ConceptsInv` says of a transaction what it
  has stored so far and of every row which run stored it. Evidence is a set of rows that know
  the place they were named at, so that counting a concept's rows is counting those places,
  in lists of any length.
* `ToldTrueCorrect`: `ToldTrue` of `Prompts`, the half of `PromptsTrue` without the retrieval.
  `PromptsInv` says of a turn under way that its history is the end of what its conversation
  held at some moment, none of it its own (`Recalled`), which stays so when messages join
  (`RecalledKept`); that no two messages of a conversation are alike, since all there is of a
  turn before its answer is its question; and that the conversation touched last has the
  newest question (`NewestThere`). The adviser's list is the listing of a strict order by
  ranks: the ranks of n concepts are n different numbers below n, so each is taken (`Ranks`,
  `ListedInOrder`).
* `SpansNestedCorrect`: `DepthsTrue` and `SpansNested` of `Timing`, two thirds of `SpansTrue`. While no
  caller has two spans open, the open ones are a stack, each around the next (`Stacked`). Once
  that is lost a span still begins after the one it is within and ends before it; twice the
  rounded times are compared, so that what rounding adds is one hundredth at most (`Within`).

**Left to the model checker.** Liveness (`EveryJobSettles`, `JobsEnd`, `RequestsEnd`,
`CompletedIsEvaluated`, `PendingEnds`, `GuidanceEnds`, `ListConverges`) and `SomebodyMoves`,
whose second half is about ENABLED, are out of the prover's reach. `LearningTrue`, the rest of
`PromptsTrue` (`EvidenceFaithful`) and of `FiguresTrue` (`PagesAgree`, `UsageTrue`, `StatsTrue`) compare
what functions compute by filters, folds, sorts and weighted means with definitions of what
they should: for all inputs that needs induction over data that the provers cannot
instantiate. In place of the property that `quiz_drift` finds violated, `MasteryFollowsEvidence`
is what holds. All other invariants of the passing runs are theorems.

## 5. Not modelled

* **Clocks.** The application's clock sets `runAt` and the reclaim threshold, the database's
  sets `lockedAt`; their skew is not modelled. `SKIP LOCKED` passes over a row another claim
  holds for an instant; the model's claims are atomic, so a claim never misses a due row.
* **Contents.** Text, vectors, prompts and grades are abstracted to what the properties tell
  apart: sizes, scores, names up to capitals and blanks. The recency factor is a power of
  two for each half-life; within one it does not move.
* **`MASTERY_UPDATE`, `revokeAllSessions`.** They exist but nothing enqueues or calls them.
* **Rendering.** Server-rendered pages, charts, navigation and marketing draw what the
  services return and keep nothing another part depends on. What the services only pass on
  (rows of a journey, filter options, the latest evaluation, the raw series of a project) is
  left out of `Dashboards`, `Usage` and `AdminDesk` for the same reason.
* **The mock provider, the seed, `perf-baseline.ts`, `reembed-materials.ts`, configuration.**
  Stand-ins and scripts run by hand; the last script but one does what `Fixture` does, a
  `processMaterial` outside a job.
* **Password hashing, field validation, wording, layout.** Choices of right or wrong.

Things the models made plain that no run checks as a violation: `registerUser`'s loser of a
race gets a 500; an account whose `createSession` fails is told "already exists" on the next
try; `rate-limit.ts:132` and the comment of the quiz-completion route speak of two jobs where
one is queued; a stopped evaluation leaves its quiz and conversations in the fixture project;
`CONVERSATION_WINDOW_TURNS` counts messages; after the tutor's two spans side by side the
depths that `timing.ts` reports are no longer nesting levels; `trimEvidence` keeps a weaker
passage that fits after leaving out a stronger one that does not; the totals of a project's
activity and of the instance's count rows and buckets respectively.

## 6. Plan

The code that carries state is modelled, and every safety property of its modules is proved but
the ENABLED half of `SomebodyMoves`, with the six properties of `library` that do not depend on what
a sort or a mean computes. What is left is to check larger instances: two materials in the pipeline,
two pages of one conversation in the tutor, the evaluation script twice beside a worker.
