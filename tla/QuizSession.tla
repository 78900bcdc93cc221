---------------------------- MODULE QuizSession ----------------------------
(***************************************************************************)
(* Quizzes, the evidence their answers leave and the mastery derived from   *)
(* it: submitAnswer, completeQuiz and evaluateQuiz                         *)
(* (lib/services/quizzes.ts), recomputeConceptMastery                      *)
(* (lib/services/mastery.ts) and the QUIZ_EVALUATE handler                 *)
(* (lib/jobs/handlers.ts).                                                 *)
(*                                                                         *)
(* A request is a sequence of statements, and so is a run of the evaluation *)
(* job.  The answer's transaction runs at PostgreSQL's default isolation,   *)
(* read committed: each statement sees what is committed when it starts,    *)
(* and what its own transaction wrote; a row that a transaction updated is  *)
(* locked until it ends, and so is the unique key of a row it inserted.     *)
(*                                                                         *)
(* Scores and mastery are percentages.  The rows that count are of about    *)
(* the same age, so their recency factors cancel out.                      *)
(***************************************************************************)
EXTENDS Integers, Sequences, FiniteSets, FiniteSetsExt, SequencesExt

CONSTANTS
    Quizzes, Concepts, Questions,
    QuizOf,         \* the quiz of each question
    ConceptOf,      \* the concept each question is about
    OpenEnded,      \* the questions a model grades, against a rubric
    Requests,       \* API requests that may be under way at once
    Workers,        \* worker processes
    NoQuestion, NoQuiz, NoConcept,
    Scores,         \* scores an answer may get, in percent
    MaxMentions,    \* bound on the concepts a grade mentions
    MaxAttempts,    \* JOB_MAX_ATTEMPTS
    MaxFaults       \* bound on requests and workers that die, or lose the database

ASSUME QuizAssumption ==
    /\ QuizOf \in [Questions -> Quizzes]
    /\ ConceptOf \in [Questions -> Concepts]
    /\ OpenEnded \subseteq Questions
    /\ IsFiniteSet(Requests) /\ Requests \cap Workers = {}
    /\ NoQuestion \notin Questions /\ NoQuiz \notin Quizzes /\ NoConcept \notin Concepts
    /\ Scores \subseteq 0..100
    /\ MaxMentions \in Nat /\ MaxAttempts \in Nat \ {0} /\ MaxFaults \in Nat

VARIABLES
    quiz,        \* Quiz.status
    answer,      \* QuizAnswer.score of each question, or Unanswered
    evidence,    \* ConceptEvidence rows
    mastery,     \* Concept.mastery
    completions, \* QUIZ_COMPLETED events of each quiz
    job,         \* the QUIZ_EVALUATE job of each quiz
    followUp,    \* the RECOMMEND_GENERATE and CONTEXT_REFRESH jobs of each quiz
    request,     \* where each API request is, and what it has read
    worker,      \* where each worker is, and what it has read
    faults,      \* faults so far
    drift,       \* history: whether recomputations of each concept have overlapped
    abandoned    \* history: quizzes completed by a request that died before its enqueue

history == <<drift, abandoned>>
tables == <<quiz, answer, evidence, mastery, completions, job, followUp>>
vars == <<tables, request, worker, faults, history>>

-----------------------------------------------------------------------------
(* Types *)

Unanswered == -1
Unwritten == -1

QuizStatus == {"NONE", "IN_PROGRESS", "COMPLETED"}
JobStatus == {"NONE", "WAITING", "RUNNING", "COMPLETED", "DEAD"}

\* The n-th row an answer leaves; weights in halves.
Evidence == [question : Questions, n : 1..(1 + MaxMentions), concept : Concepts,
             score : 0..100, weight : {1, 2}]

\* A recomputation of one concept: what it has read, and what it will write.
NoRecompute == [concept |-> NoConcept, before |-> 0, after |-> 0]
Recompute == [concept : Concepts \cup {NoConcept}, before : 0..100, after : 0..100]

InTransaction == {"create", "read", "write", "commit"}
RequestStep == {"idle", "grade", "answer", "close", "enqueue"} \cup InTransaction
Request ==
    [at : RequestStep, question : Questions \cup {NoQuestion}, quiz : Quizzes \cup {NoQuiz},
     rows : Seq(Evidence), done : 0..(1 + MaxMentions), recompute : Recompute,
     written : [Concepts -> 0..100 \cup {Unwritten}]]

WorkerStep == {"idle", "next", "read", "write", "recommend", "context", "complete", "fail"}
Worker == [at : WorkerStep, quiz : Quizzes \cup {NoQuiz}, todo : SUBSET Concepts,
           recompute : Recompute]

Closed == [at |-> "idle", question |-> NoQuestion, quiz |-> NoQuiz, rows |-> <<>>, done |-> 0,
           recompute |-> NoRecompute, written |-> [c \in Concepts |-> Unwritten]]
Idle == [at |-> "idle", quiz |-> NoQuiz, todo |-> {}, recompute |-> NoRecompute]

-----------------------------------------------------------------------------
(* Mastery *)

\* clamp01: also of what is no number.
Clamped(value) == IF value \in 0..100 THEN value ELSE IF value > 100 THEN 100 ELSE 0

\* computeMastery: the weighted mean of the scores, rounded.
ComputeMastery(rows) ==
    LET total == MapThenSumSet(LAMBDA e : e.weight, rows)
        score == MapThenSumSet(LAMBDA e : e.weight * e.score, rows)
    IN  IF total = 0 THEN 0 ELSE Clamped((2 * score + total) \div (2 * total))

About(c) == {e \in evidence : e.concept = c}
QuestionsOf(z) == {q \in Questions : QuizOf[q] = z}

\* Who is in the middle of recomputing a concept: a transaction from its first evidence
\* about it to its end, an evaluation from one statement to another.
Recomputing(c) ==
    {r \in Requests : /\ request[r].at \in InTransaction
                      /\ \E k \in 1..request[r].done : request[r].rows[k].concept = c}
    \cup {w \in Workers : worker[w].recompute.concept = c}

\* Process p starts to recompute c: two at once may drift, and an evaluation that is
\* alone, if nobody joins it, brings back what drifted.
StartsRecompute(p, c) ==
    drift' = [drift EXCEPT ![c] =
        IF Recomputing(c) \ {p} # {} THEN "drifted"
        ELSE IF @ # "none" /\ p \in Workers THEN "mending"
        ELSE IF @ = "mending" /\ p \notin Recomputing(c) THEN "drifted"
        ELSE @]

EndsRecompute(c) == drift' = [drift EXCEPT ![c] = IF @ = "mending" THEN "none" ELSE @]

\* A row updated by an open transaction is locked.
Locked(c) == \E r \in Requests : request[r].written[c] # Unwritten

-----------------------------------------------------------------------------
Init ==
    /\ quiz = [z \in Quizzes |-> "NONE"]
    /\ answer = [q \in Questions |-> Unanswered]
    /\ evidence = {}
    /\ mastery = [c \in Concepts |-> 0]
    /\ completions = [z \in Quizzes |-> 0]
    /\ job = [z \in Quizzes |-> [status |-> "NONE", attempts |-> 0]]
    /\ followUp = [z \in Quizzes |-> {}]
    /\ request = [r \in Requests |-> Closed]
    /\ worker = [w \in Workers |-> Idle]
    /\ faults = 0
    /\ drift = [c \in Concepts |-> "none"]
    /\ abandoned = {}

At(r, at) == request[r].at = at
GoOn(r, at) == request' = [request EXCEPT ![r].at = at]
Close(r) == request' = [request EXCEPT ![r] = Closed]

\* startQuiz: the quiz and its questions, in one transaction.
StartQuiz(z) ==
    /\ quiz[z] = "NONE"
    /\ quiz' = [quiz EXCEPT ![z] = "IN_PROGRESS"]
    /\ UNCHANGED <<answer, evidence, mastery, completions, job, followUp, request, worker, faults, history>>

-----------------------------------------------------------------------------
(* submitAnswer *)

\* The quiz is in progress and the question is not answered (the question is
\* read after the quiz: read later, it could only be refused).
SubmitAnswer(r, q) ==
    /\ request[r] = Closed
    /\ quiz[QuizOf[q]] = "IN_PROGRESS"
    /\ answer[q] = Unanswered
    /\ request' = [request EXCEPT ![r] = [Closed EXCEPT !.at = "grade", !.question = q]]
    /\ UNCHANGED <<tables, worker, faults, history>>

\* A concept the grade mentions: covered (score 100) or missing (score 0).
Mentions(q) ==
    IF q \in OpenEnded
    THEN SeqOf([concept : Concepts \ {ConceptOf[q]}, score : {0, 100}], MaxMentions)
    ELSE {<<>>}

\* The question's own concept at full weight, those mentioned at half.
EvidenceRows(q, score, mentioned) ==
    <<[question |-> q, n |-> 1, concept |-> ConceptOf[q], score |-> score, weight |-> 2]>>
    \o [i \in DOMAIN mentioned |->
          [question |-> q, n |-> i + 1, concept |-> mentioned[i].concept,
           score |-> mentioned[i].score, weight |-> 1]]

\* gradeChoice compares two strings; gradeWritten asks a model, which may fail.
Grade(r) ==
    LET q == request[r].question IN
    /\ At(r, "grade")
    /\ \/ \E score \in Scores, mentioned \in Mentions(q) :
             /\ q \notin OpenEnded => score \in {0, 100}
             /\ request' = [request EXCEPT ![r].at = "answer",
                                           ![r].rows = EvidenceRows(q, score, mentioned)]
       \/ q \in OpenEnded /\ Close(r)
    /\ UNCHANGED <<tables, worker, faults, history>>

\* The transaction opens with the answer: if another one has just inserted it,
\* the statement waits for it to end; a question that is answered violates
\* the unique constraint, and the request fails.
CreateAnswer(r) ==
    LET q == request[r].question IN
    /\ At(r, "answer")
    /\ ~ \E s \in Requests : request[s].at \in InTransaction /\ request[s].question = q
    /\ \/ answer[q] # Unanswered /\ Close(r)
       \/ answer[q] = Unanswered /\ GoOn(r, "create")
    /\ UNCHANGED <<tables, worker, faults, history>>

\* The rows this transaction has inserted, which nobody else sees.
Inserted(r) == {request[r].rows[i] : i \in 1..request[r].done}

\* What a transaction reads: its own write, or what is committed.
MasterySeen(r, c) ==
    IF request[r].written[c] # Unwritten THEN request[r].written[c] ELSE mastery[c]

\* Mutant: the evidence is read with the global client, outside the transaction.
CommittedEvidence(r, c) == About(c)

EvidenceSeen(r, c) == About(c) \cup {e \in Inserted(r) : e.concept = c}

\* Mutant: the server recomputes a concept for one answer at a time, each keeping its
\* turn until its transaction ends: PostgreSQL knows nothing of those turns.
CreateEvidenceInTurn(r) ==
    LET next == request[r].done + 1
        c == request[r].rows[next].concept
    IN
    /\ At(r, "create")
    /\ Recomputing(c) \cap Requests \subseteq {r}
    /\ request' = [request EXCEPT ![r].at = "read", ![r].done = next,
          ![r].recompute = [NoRecompute EXCEPT !.concept = c, !.before = MasterySeen(r, c)]]
    /\ StartsRecompute(r, c)
    /\ UNCHANGED <<tables, worker, faults, abandoned>>

\* For each row: it is inserted, and recomputeConceptMastery reads the concept ...
CreateEvidence(r) ==
    LET next == request[r].done + 1
        c == request[r].rows[next].concept
    IN
    /\ At(r, "create")
    /\ request' = [request EXCEPT ![r].at = "read", ![r].done = next,
          ![r].recompute = [NoRecompute EXCEPT !.concept = c, !.before = MasterySeen(r, c)]]
    /\ StartsRecompute(r, c)
    /\ UNCHANGED <<tables, worker, faults, abandoned>>

AfterRow(r) == IF request[r].done = Len(request[r].rows) THEN "commit" ELSE "create"

\* ... then the evidence; there is nothing to write if mastery does not move ...
ReadEvidence(r) ==
    LET c == request[r].recompute.concept
        after == ComputeMastery(EvidenceSeen(r, c))
    IN
    /\ At(r, "read")
    /\ \/ /\ after # request[r].recompute.before
          /\ request' = [request EXCEPT ![r].at = "write", ![r].recompute.after = after]
       \/ /\ after = request[r].recompute.before
          /\ request' = [request EXCEPT ![r].at = AfterRow(r), ![r].recompute = NoRecompute]
    /\ UNCHANGED <<tables, worker, faults, history>>

\* ... and is stored, once no other transaction holds the concept's row.
WriteMastery(r) ==
    LET c == request[r].recompute.concept IN
    /\ At(r, "write")
    /\ \A s \in Requests \ {r} : request[s].written[c] = Unwritten
    /\ request' = [request EXCEPT ![r].at = AfterRow(r), ![r].recompute = NoRecompute,
                                  ![r].written[c] = request[r].recompute.after]
    /\ UNCHANGED <<tables, worker, faults, history>>

\* The transaction commits: answer, evidence and mastery appear at once.
Commit(r) ==
    /\ At(r, "commit")
    /\ answer' = [answer EXCEPT ![request[r].question] = request[r].rows[1].score]
    /\ evidence' = evidence \cup Inserted(r)
    /\ mastery' = [c \in Concepts |-> MasterySeen(r, c)]
    /\ Close(r)
    /\ UNCHANGED <<quiz, completions, job, followUp, worker, faults, history>>

\* Transaction r waits for a row that s holds.
WaitsFor(r, s) ==
    /\ r # s
    /\ At(r, "write")
    /\ request[s].written[request[r].recompute.concept] # Unwritten

\* PostgreSQL breaks a deadlock: one of the transactions is rolled back, and its
\* request fails.
BreakDeadlock(r) ==
    /\ \E s \in Requests : WaitsFor(r, s) /\ WaitsFor(s, r)
    /\ Close(r)
    /\ UNCHANGED <<tables, worker, faults, history>>

-----------------------------------------------------------------------------
(* completeQuiz *)

\* A quiz that is COMPLETED is returned as it is ...
CompleteQuiz(r, z) ==
    /\ request[r] = Closed
    /\ quiz[z] = "IN_PROGRESS"
    /\ request' = [request EXCEPT ![r] = [Closed EXCEPT !.at = "close", !.quiz = z]]
    /\ UNCHANGED <<tables, worker, faults, history>>

\* ... any other becomes COMPLETED, whatever it is by now, with its event, in
\* one transaction ...
CloseQuiz(r) ==
    LET z == request[r].quiz IN
    /\ At(r, "close")
    /\ quiz' = [quiz EXCEPT ![z] = "COMPLETED"]
    /\ completions' = [completions EXCEPT ![z] = @ + 1]
    /\ GoOn(r, "enqueue")
    /\ UNCHANGED <<answer, evidence, mastery, job, followUp, worker, faults, history>>

\* ... and its evaluation is enqueued, once.
EnqueueEvaluation(r) ==
    LET z == request[r].quiz IN
    /\ At(r, "enqueue")
    /\ job' = [job EXCEPT ![z] = IF @.status = "NONE" THEN [@ EXCEPT !.status = "WAITING"] ELSE @]
    /\ Close(r)
    /\ UNCHANGED <<quiz, answer, evidence, mastery, completions, followUp, worker, faults, history>>

RequestGoesOn(r) ==
    \/ Grade(r) \/ CreateAnswer(r) \/ CreateEvidence(r) \/ ReadEvidence(r)
    \/ WriteMastery(r) \/ Commit(r) \/ BreakDeadlock(r)
    \/ CloseQuiz(r) \/ EnqueueEvaluation(r)

-----------------------------------------------------------------------------
(* The QUIZ_EVALUATE job *)

On(w, at) == worker[w].at = at
Proceed(w, at) == worker' = [worker EXCEPT ![w].at = at]

ClaimEvaluation(w) ==
    /\ worker[w] = Idle
    /\ \E z \in Quizzes :
          /\ job[z].status = "WAITING"
          /\ job' = [job EXCEPT ![z] = [status |-> "RUNNING", attempts |-> @.attempts + 1]]
          /\ worker' = [worker EXCEPT ![w] =
                [Idle EXCEPT !.at = "next", !.quiz = z,
                             !.todo = {ConceptOf[q] : q \in QuestionsOf(z)}]]
    /\ UNCHANGED <<quiz, answer, evidence, mastery, completions, followUp, request, faults, history>>

\* evaluateQuiz recomputes the concepts of the quiz one after the other ...
EvaluateNext(w) ==
    /\ On(w, "next")
    /\ \E c \in worker[w].todo :
          /\ worker' = [worker EXCEPT ![w].at = "read", ![w].todo = @ \ {c},
                ![w].recompute = [NoRecompute EXCEPT !.concept = c, !.before = mastery[c]]]
          /\ StartsRecompute(w, c)
    /\ UNCHANGED <<tables, request, faults, abandoned>>

EvaluateRead(w) ==
    LET after == ComputeMastery(About(worker[w].recompute.concept)) IN
    /\ On(w, "read")
    /\ \/ /\ after # worker[w].recompute.before
          /\ worker' = [worker EXCEPT ![w].at = "write", ![w].recompute.after = after]
          /\ UNCHANGED drift
       \/ /\ after = worker[w].recompute.before
          /\ worker' = [worker EXCEPT ![w].at = "next", ![w].recompute = NoRecompute]
          /\ EndsRecompute(worker[w].recompute.concept)
    /\ UNCHANGED <<tables, request, faults, abandoned>>

\* ... outside any transaction: each result is stored as soon as it is known.
EvaluateWrite(w) ==
    LET c == worker[w].recompute.concept IN
    /\ On(w, "write")
    /\ ~Locked(c)
    /\ mastery' = [mastery EXCEPT ![c] = worker[w].recompute.after]
    /\ worker' = [worker EXCEPT ![w].at = "next", ![w].recompute = NoRecompute]
    /\ EndsRecompute(c)
    /\ UNCHANGED <<quiz, answer, evidence, completions, job, followUp, request, faults, abandoned>>

\* Then the handler enqueues its two follow-up jobs ...
EvaluateDone(w) ==
    /\ On(w, "next")
    /\ worker[w].todo = {}
    /\ Proceed(w, "recommend")
    /\ UNCHANGED <<tables, request, faults, history>>

\* Mutant: the job is completed with one of its follow-ups.
EnqueueOneFollowUp(w) ==
    /\ worker[w].at \in {"recommend", "context"}
    /\ followUp' = [followUp EXCEPT ![worker[w].quiz] = @ \cup {worker[w].at}]
    /\ Proceed(w, "complete")
    /\ UNCHANGED <<quiz, answer, evidence, mastery, completions, job, request, faults, history>>

EnqueueFollowUp(w) ==
    /\ worker[w].at \in {"recommend", "context"}
    /\ followUp' = [followUp EXCEPT ![worker[w].quiz] = @ \cup {worker[w].at}]
    /\ Proceed(w, IF On(w, "recommend") THEN "context" ELSE "complete")
    /\ UNCHANGED <<quiz, answer, evidence, mastery, completions, job, request, faults, history>>

Outcome(attempts) == IF attempts >= MaxAttempts THEN "DEAD" ELSE "WAITING"

\* ... and the job is COMPLETED, or, if something threw, FAILED or DEAD.
Report(w) ==
    LET z == worker[w].quiz IN
    /\ \/ On(w, "complete") /\ job' = [job EXCEPT ![z].status = "COMPLETED"]
       \/ On(w, "fail") /\ job' = [job EXCEPT ![z].status = Outcome(job[z].attempts)]
    /\ worker' = [worker EXCEPT ![w] = Idle]
    /\ UNCHANGED <<quiz, answer, evidence, mastery, completions, followUp, request, faults, history>>

WorkerGoesOn(w) ==
    \/ ClaimEvaluation(w) \/ EvaluateNext(w) \/ EvaluateRead(w) \/ EvaluateWrite(w)
    \/ EvaluateDone(w) \/ EnqueueFollowUp(w) \/ Report(w)

\* The lock of a run whose worker died expires (no run outlives its lock).
ReclaimEvaluation(z) ==
    /\ job[z].status = "RUNNING"
    /\ \A w \in Workers : worker[w].quiz # z
    /\ job' = [job EXCEPT ![z].status = Outcome(job[z].attempts)]
    /\ UNCHANGED <<quiz, answer, evidence, mastery, completions, followUp, request, worker, faults, history>>

-----------------------------------------------------------------------------
(* Faults *)

Fault == faults < MaxFaults /\ faults' = faults + 1

\* Mutant: the rows a transaction wrote survive it.
RequestDiesHalfCommitted(r) ==
    /\ Fault
    /\ request[r] # Closed
    /\ evidence' = evidence \cup Inserted(r)
    /\ Close(r)
    /\ UNCHANGED <<quiz, answer, mastery, completions, job, followUp, worker, history>>

\* The process dies, or a statement fails: an open transaction is rolled back.
RequestDies(r) ==
    /\ Fault
    /\ request[r] # Closed
    /\ Close(r)
    /\ abandoned' = abandoned \cup (IF At(r, "enqueue") THEN {request[r].quiz} ELSE {})
    /\ UNCHANGED <<tables, worker, drift>>

WorkerDies(w) ==
    /\ Fault
    /\ worker[w] # Idle
    /\ worker' = [worker EXCEPT ![w] = Idle]
    /\ UNCHANGED <<tables, request, history>>

\* A statement of the handler fails, and the error goes on to failJob.
WorkerThrows(w) ==
    /\ Fault
    /\ worker[w].at \notin {"idle", "fail"}
    /\ worker' = [worker EXCEPT ![w].at = "fail", ![w].recompute = NoRecompute]
    /\ UNCHANGED <<tables, request, history>>

-----------------------------------------------------------------------------
Next ==
    \/ \E z \in Quizzes :
          \/ StartQuiz(z) \/ ReclaimEvaluation(z)
          \/ \E r \in Requests : CompleteQuiz(r, z)
    \/ \E r \in Requests :
          \/ RequestGoesOn(r) \/ RequestDies(r)
          \/ \E q \in Questions : SubmitAnswer(r, q)
    \/ \E w \in Workers : WorkerGoesOn(w) \/ WorkerDies(w) \/ WorkerThrows(w)

Spec == Init /\ [][Next]_vars

\* Requests under way and workers go on, and stale locks are reclaimed; fairness
\* is strong because PostgreSQL hands a released row to whoever waits for it.
\* Nobody is obliged to start, answer or complete a quiz.
Fairness ==
    /\ \A r \in Requests : SF_vars(RequestGoesOn(r))
    /\ \A w \in Workers : SF_vars(WorkerGoesOn(w))
    /\ \A z \in Quizzes : WF_vars(ReclaimEvaluation(z))

FairSpec == Spec /\ Fairness

-----------------------------------------------------------------------------
(* Properties *)

\* Every row, request and run has the fields of its type.
TypeOK ==
    /\ quiz \in [Quizzes -> QuizStatus]
    /\ answer \in [Questions -> 0..100 \cup {Unanswered}]
    /\ evidence \subseteq Evidence
    /\ mastery \in [Concepts -> 0..100]
    /\ completions \in [Quizzes -> 0..Cardinality(Requests)]
    /\ job \in [Quizzes -> [status : JobStatus, attempts : 0..MaxAttempts]]
    /\ followUp \in [Quizzes -> SUBSET {"recommend", "context"}]
    /\ request \in [Requests -> Request]
    /\ worker \in [Workers -> Worker]
    /\ faults \in 0..MaxFaults
    /\ drift \in [Concepts -> {"none", "drifted", "mending"}]
    /\ abandoned \subseteq Quizzes

\* The evidence is that of the answers, no more and no less: one row at full
\* weight for each answered question, with the answer's score, and none for a
\* question whose answer was refused, rolled back or submitted twice.
EvidenceMatchesAnswers ==
    /\ TypeOK
    /\ \A q \in Questions :
          {e.score : e \in {f \in evidence : f.question = q /\ f.weight = 2}}
            = IF answer[q] = Unanswered THEN {} ELSE {answer[q]}
    /\ \A e, f \in evidence : e.question = f.question /\ e.n = f.n => e = f
    /\ \A e \in evidence : answer[e.question] # Unanswered

\* Mastery is what the evidence says, through failures, retries and repeated evaluations,
\* unless recomputations of the concept have overlapped; and then an evaluation that
\* nothing overlaps puts it right.
MasteryFollowsEvidence ==
    \A c \in Concepts : drift[c] = "none" => mastery[c] = ComputeMastery(About(c))

\* "Every answer appends ConceptEvidence and recomputes Concept.mastery in the same
\* transaction, so the estimate can never drift from the evidence behind it" (README.md).
NeverDrifts ==
    \A c \in Concepts :
        \/ mastery[c] = ComputeMastery(About(c))
        \/ \E w \in Workers : worker[w].recompute.concept = c

\* Every request ends, also when transactions wait for each other's rows.
RequestsEnd == \A r \in Requests : request[r] # Closed ~> request[r] = Closed

\* A quiz that was completed is evaluated in the end and both follow-ups of its
\* evaluation are enqueued, after any crash and retry, or the evaluation is dead-lettered;
\* unless the request that completed the quiz died before it had enqueued it: nothing
\* enqueues it later, for the quiz is COMPLETED.
CompletedIsEvaluated ==
    \A z \in Quizzes :
        quiz[z] = "COMPLETED" ~>
            \/ job[z].status = "COMPLETED" /\ followUp[z] = {"recommend", "context"}
            \/ job[z].status = "DEAD" \/ z \in abandoned
=============================================================================
