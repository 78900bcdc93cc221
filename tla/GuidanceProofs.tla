--------------------------- MODULE GuidanceProofs ---------------------------
(* Theorems about Guidance, for every value of its constants. *)
EXTENDS Guidance, FiniteSetTheorems, TLAPS

\* Every step is one of the actions, or leaves everything as it is.
LEMMA StepCases ==
    ASSUME [Next]_vars
    PROVE  \/ ExtractConcepts \/ RequestRecommendations \/ NextMinute
           \/ DeleteProject \/ CascadeDelete
           \/ \E z \in Quizzes : AnswerQuiz(z)
           \/ \E z \in Quizzes : EvaluateQuiz(z)
           \/ \E w \in Workers : Claim(w)
           \/ \E w \in Workers : Read(w)
           \/ \E w \in Workers : NothingToRecommend(w)
           \/ \E w \in Workers : Summarise(w)
           \/ \E w \in Workers : ModelFails(w)
           \/ \E w \in Workers : BeginReplace(w)
           \/ \E w \in Workers : DeleteOpen(w)
           \/ \E w \in Workers : CreateRecommendations(w)
           \/ \E w \in Workers : Commit(w)
           \/ \E w \in Workers : UpsertContext(w)
           \/ \E w \in Workers : Report(w)
           \/ \E w \in Workers : BreakDeadlock(w)
           \/ \E w \in Workers : Fails(w)
           \/ \E j \in Jobs : Reclaim(j)
           \/ \E j \in Jobs : Overrun(j)
           \/ UNCHANGED vars
  BY Zenon DEF Next, WorkerStep

-----------------------------------------------------------------------------
(* The parts of the inductive invariant *)

Active(a) == a.at \notin {"idle", "report", "fail"}

\* What a run still has to read, at each of its statements.
InOrder(a) ==
    /\ a.at = "idle" <=> a.job = NoJob
    /\ a.todo \subseteq Reads
    /\ a.at \in Replacing => a.todo = {} /\ ~Refreshes(a.job)
    /\ a.at = "upsert" => a.todo = {} /\ Refreshes(a.job)

\* The runs of a job that may still put it back on the queue when they fail.
Early(j) ==
    {a \in 1..(MaxAttempts - 1) :
        \E w \in Workers : worker[w].job = j /\ worker[w].attempts = a}

\* A job whose attempts are used up is tried again only for a run that outlived
\* its lock, and each of those puts it back at most once.
Bounded(j) ==
    job[j].attempts >= MaxAttempts =>
        job[j].attempts + Cardinality(Early(j))
            + (IF job[j].status = "WAITING" THEN 1 ELSE 0) <= 2 * MaxAttempts - 1

Attempted ==
    /\ \A w \in Workers :
          worker[w].job # NoJob => worker[w].attempts \in 1..job[worker[w].job].attempts
    /\ \A v, w \in Workers :
          worker[v].job # NoJob /\ Run(v) = Run(w) => v = w
    /\ \A j \in Jobs : job[j].status = "NONE" => job[j].attempts = 0

TypeInv ==
    /\ TypeOK
    /\ \A w \in Workers : InOrder(worker[w])
    /\ Attempted
    /\ \A j \in Jobs : Bounded(j)

\* A transaction deletes every open set, unless both were stored by transactions
\* that overlapped.
SetInv ==
    /\ \A v, w \in Workers :
          worker[v].at \in Replacing /\ worker[w].at \in Replacing /\ v # w => ~worker[w].alone
    /\ \A w \in Workers : worker[w].at \in Replacing =>
          \A s \in open : s.run \in worker[w].seen \/ (~worker[w].alone /\ ~s.alone)
    /\ \A s, t \in open : s # t => ~s.alone /\ ~t.alone

\* The jobs of a quiz are enqueued after its evidence is stored, and so read it.
Informed(a, z) ==
    a.job \in {ForQuiz("recommend", z), ForQuiz("context", z)} =>
        /\ z \in evidence
        /\ Active(a) /\ "growth" \notin a.todo => a.known /\ z \in a.growth
        /\ Active(a) /\ "answers" \notin a.todo => z \in a.answers

\* The body of the quiz's job has returned, in some run.
Settled(kind, z) ==
    \/ job[ForQuiz(kind, z)].status = "COMPLETED"
    \/ \E w \in Workers : worker[w].at = "report" /\ worker[w].job = ForQuiz(kind, z)

\* What a run that is not beaten has read knows of the quiz.
Knows(a, z) ==
    Active(a) /\ ~a.beaten =>
        /\ "growth" \notin a.todo => z \in a.growth
        /\ "answers" \notin a.todo => z \in a.answers

Recommended(z) ==
    /\ \E s \in open : z \in s.sources \/ s.beaten
    /\ \A w \in Workers : ~Refreshes(worker[w].job) => Knows(worker[w], z)

Curated(z) ==
    /\ z \in context.growth \cap context.mistakes \/ context.beaten
    /\ \A w \in Workers : Refreshes(worker[w].job) => Knows(worker[w], z)

Enqueued ==
    /\ evidence # {} => concepts
    /\ \A z \in Quizzes, kind \in {"recommend", "context"} :
          job[ForQuiz(kind, z)].status # "NONE" => z \in evidence
    /\ \A z \in Quizzes, w \in Workers : Informed(worker[w], z)

Followed(z) ==
    project # "deleted" =>
        /\ Settled("recommend", z) => Recommended(z)
        /\ Settled("context", z) => Curated(z)

EvidenceInv == Enqueued /\ \A z \in Quizzes : Followed(z)

IInv == TypeInv /\ SetInv /\ EvidenceInv

-----------------------------------------------------------------------------
(* What the steps change *)

\* A run goes on from a to b, as the others see it.
Same(a, b) ==
    /\ b.at = a.at /\ b.job = a.job /\ b.attempts = a.attempts /\ b.todo = a.todo
    /\ b.known = a.known /\ b.growth = a.growth /\ b.answers = a.answers /\ b.seen = a.seen
    /\ a.beaten => b.beaten
    /\ b.alone => a.alone

OthersSame(w) == \A v \in Workers \ {w} : Same(worker[v], worker'[v])

\* Jobs and their names.
LEMMA JobFacts ==
    /\ \A z \in Quizzes : ForQuiz("recommend", z) \in Jobs /\ ForQuiz("context", z) \in Jobs
    /\ \A z \in Quizzes : ~Refreshes(ForQuiz("recommend", z)) /\ Refreshes(ForQuiz("context", z))
    /\ \A z, y \in Quizzes, k, l \in {"recommend", "context"} :
          ForQuiz(k, z) = ForQuiz(l, y) => k = l /\ z = y
    /\ \A m \in Minutes : Manual(m) \in Jobs
    /\ \A m \in Minutes, z \in Quizzes, k \in {"recommend", "context"} : Manual(m) # ForQuiz(k, z)
  BY DEF Jobs, ForQuiz, Manual, Refreshes, Minutes

LEMMA WorkerChanges ==
    ASSUME worker \in [Workers -> Worker], NEW w \in Workers, NEW b \in Worker,
           worker' = [worker EXCEPT ![w] = b]
    PROVE  /\ worker' \in [Workers -> Worker] /\ worker'[w] = b
           /\ OthersSame(w)
  BY DEF OthersSame, Same

LEMMA IdleFacts ==
    /\ Idle \in Worker /\ InOrder(Idle) /\ ~Active(Idle)
    /\ Idle.at = "idle" /\ Idle.job = NoJob /\ Idle.attempts = 0 /\ Idle.todo = {} /\ Idle.alone
    /\ Idle.seen = {} /\ ~Idle.beaten
<1>1. 0 \in Attempts /\ 0 \in 0..MaxTurns
  BY GuidanceAssumption DEF Attempts
<1>2. QED
  BY <1>1, JobAssumption DEF Idle, Worker, Sources, Replacing, InOrder, Active

\* A worker that runs a job body.
LEMMA RunningFacts ==
    ASSUME TypeInv, NEW w \in Workers, worker[w].at # "idle"
    PROVE  /\ worker[w] \in Worker /\ InOrder(worker[w])
           /\ worker[w].job \in Jobs /\ worker[w].job # NoJob
           /\ worker[w].attempts \in Attempts /\ worker[w].attempts \in 1..job[worker[w].job].attempts
           /\ worker[w].todo \subseteq Reads
<1>1. worker[w] \in Worker /\ InOrder(worker[w])
  BY DEF TypeInv, TypeOK
<1>2. QED
  BY <1>1, JobAssumption DEF TypeInv, Attempted, InOrder, Worker

\* The job body is over.
LEMMA OverFacts ==
    ASSUME TypeInv, NEW w \in Workers, worker[w].at # "idle", NEW at \in {"report", "fail"}
    PROVE  /\ Over(w, at) \in Worker /\ InOrder(Over(w, at)) /\ ~Active(Over(w, at))
           /\ Over(w, at).at = at /\ Over(w, at).job = worker[w].job
           /\ Over(w, at).attempts = worker[w].attempts
<1>1. PICK b : b = Over(w, at)
  OBVIOUS
<1>2. b = [Idle EXCEPT !.at = at, !.job = worker[w].job, !.attempts = worker[w].attempts]
  BY <1>1 DEF Over
<1>3. /\ b \in Worker /\ b.at = at /\ b.job = worker[w].job /\ b.attempts = worker[w].attempts
      /\ b.todo = {}
  BY <1>2, RunningFacts, IdleFacts DEF Worker, Replacing
<1>4. QED
  BY <1>1, <1>3, RunningFacts DEF InOrder, Replacing, Active

\* One run goes on from a to b.
LEMMA EndFacts ==
    ASSUME TypeInv, NEW w \in Workers, worker[w].at # "idle", NEW at \in {"report", "fail"},
           End(w, at)
    PROVE  /\ worker' \in [Workers -> Worker] /\ OthersSame(w) /\ InOrder(worker'[w])
           /\ worker'[w].at = at /\ worker'[w].job = worker[w].job
           /\ worker'[w].attempts = worker[w].attempts
           /\ ~Active(worker'[w])
<1>1. PICK b : b = Over(w, at)
  OBVIOUS
<1>2. worker' = [worker EXCEPT ![w] = b]
  BY <1>1 DEF End
<1>3. worker' \in [Workers -> Worker] /\ worker'[w] = b /\ OthersSame(w)
  BY <1>1, <1>2, OverFacts, WorkerChanges DEF TypeInv, TypeOK
<1>4. QED
  BY <1>1, <1>3, OverFacts

LEMMA ReadFacts ==
    ASSUME TypeInv, NEW w \in Workers, Read(w)
    PROVE  /\ worker' \in [Workers -> Worker] /\ OthersSame(w) /\ InOrder(worker'[w])
           /\ worker[w].at = "read" /\ worker'[w].at = "read" /\ worker'[w].job = worker[w].job
           /\ worker'[w].attempts = worker[w].attempts
           /\ worker'[w].seen = worker[w].seen /\ worker'[w].alone = worker[w].alone
           /\ worker'[w].beaten = worker[w].beaten
           /\ \/ /\ worker'[w].todo = worker[w].todo \ {"growth"}
                 /\ worker'[w].growth = evidence /\ worker'[w].known = concepts
                 /\ worker'[w].answers = worker[w].answers
              \/ /\ worker'[w].todo = worker[w].todo \ {"answers"}
                 /\ worker'[w].growth = worker[w].growth /\ worker'[w].known = worker[w].known
                 /\ worker'[w].answers = evidence
<1> DEFINE a == worker[w]
<1>1. a.at = "read" /\ a \in Worker /\ InOrder(a) /\ a.job \in Jobs /\ a.job # NoJob
  BY RunningFacts DEF Read, On
<1>2. concepts \in BOOLEAN /\ evidence \in Sources
  BY DEF TypeInv, TypeOK
<1>3. PICK b : /\ worker' = [worker EXCEPT ![w] = b]
               /\ \/ b = [a EXCEPT !.todo = a.todo \ {"growth"}, !.growth = evidence, !.known = concepts]
                  \/ b = [a EXCEPT !.todo = a.todo \ {"answers"}, !.answers = evidence]
  <2>1. CASE worker' = [worker EXCEPT ![w].todo = @ \ {"growth"}, ![w].growth = Growth, ![w].known = concepts]
    BY <2>1 DEF Growth, TypeInv, TypeOK
  <2>2. CASE worker' = [worker EXCEPT ![w].todo = @ \ {"answers"}, ![w].answers = evidence]
    BY <2>2 DEF TypeInv, TypeOK
  <2>3. QED
    BY <2>1, <2>2 DEF Read
<1> HIDE DEF a
<1>4. /\ b \in Worker /\ b.at = "read" /\ b.job = a.job /\ b.attempts = a.attempts
      /\ b.seen = a.seen /\ b.alone = a.alone /\ b.beaten = a.beaten
      /\ b.todo \subseteq a.todo
      /\ \/ /\ b.todo = a.todo \ {"growth"}
            /\ b.growth = evidence /\ b.known = concepts /\ b.answers = a.answers
         \/ /\ b.todo = a.todo \ {"answers"}
            /\ b.growth = a.growth /\ b.known = a.known /\ b.answers = evidence
  <2>1. CASE b = [a EXCEPT !.todo = a.todo \ {"growth"}, !.growth = evidence, !.known = concepts]
    BY <1>1, <1>2, <2>1 DEF Worker
  <2>2. CASE b = [a EXCEPT !.todo = a.todo \ {"answers"}, !.answers = evidence]
    BY <1>1, <1>2, <2>2 DEF Worker
  <2>3. QED
    BY <1>3, <2>1, <2>2
<1>5. InOrder(b)
  BY <1>1, <1>4 DEF InOrder, Replacing
<1>6. worker' \in [Workers -> Worker] /\ worker'[w] = b /\ OthersSame(w)
  BY <1>3, <1>4, WorkerChanges DEF TypeInv, TypeOK
<1>7. QED
  BY <1>1, <1>4, <1>5, <1>6 DEF a

LEMMA SummariseFacts ==
    ASSUME TypeInv, NEW w \in Workers, Summarise(w)
    PROVE  /\ worker' \in [Workers -> Worker] /\ OthersSame(w) /\ InOrder(worker'[w])
           /\ worker[w].at = "read" /\ worker[w].todo = {} /\ Refreshes(worker[w].job)
           /\ worker'[w].at = "upsert" /\ worker'[w].job = worker[w].job
           /\ worker'[w].attempts = worker[w].attempts /\ worker'[w].todo = {}
           /\ worker'[w].known = worker[w].known /\ worker'[w].beaten = worker[w].beaten
           /\ worker'[w].growth = worker[w].growth /\ worker'[w].answers = worker[w].answers
<1> DEFINE a == worker[w]
<1>1. /\ a.at = "read" /\ a.todo = {} /\ Refreshes(a.job) /\ a \in Worker /\ InOrder(a)
      /\ a.job \in Jobs /\ a.job # NoJob
  BY RunningFacts DEF Summarise, ReadAll, On
<1>2. PICK turns \in 0..MaxTurns : worker' = [worker EXCEPT ![w].at = "upsert", ![w].turns = turns]
  BY DEF Summarise
<1>3. PICK b : b = [a EXCEPT !.at = "upsert", !.turns = turns]
  OBVIOUS
<1>4. worker' = [worker EXCEPT ![w] = b]
  BY <1>2, <1>3 DEF TypeInv, TypeOK
<1> HIDE DEF a
<1>5. /\ b \in Worker /\ b.at = "upsert" /\ b.job = a.job /\ b.attempts = a.attempts
      /\ b.todo = {} /\ b.known = a.known /\ b.beaten = a.beaten
      /\ b.growth = a.growth /\ b.answers = a.answers
  BY <1>1, <1>2, <1>3 DEF Worker
<1>6. InOrder(b)
  BY <1>1, <1>5 DEF InOrder, Replacing
<1>7. worker' \in [Workers -> Worker] /\ worker'[w] = b /\ OthersSame(w)
  BY <1>4, <1>5, WorkerChanges DEF TypeInv, TypeOK
<1>8. QED
  BY <1>1, <1>5, <1>6, <1>7 DEF a

\* What the transaction of a generation keeps from one statement to the next.
Carries(a, b) ==
    /\ b.job = a.job /\ b.attempts = a.attempts /\ b.todo = {} /\ b.known = a.known
    /\ b.growth = a.growth /\ b.answers = a.answers /\ b.beaten = a.beaten

LEMMA BeginReplaceFacts ==
    ASSUME TypeInv, NEW w \in Workers, BeginReplace(w)
    PROVE  /\ worker' \in [Workers -> Worker] /\ OthersSame(w) /\ InOrder(worker'[w])
           /\ worker[w].at = "read" /\ worker[w].todo = {} /\ ~Refreshes(worker[w].job)
           /\ worker'[w].at = "delete" /\ Carries(worker[w], worker'[w])
           /\ \A s \in open : s.run \in worker'[w].seen
           /\ \A v \in Workers \ {w} : worker[v].at \in Replacing =>
                 ~worker'[v].alone /\ ~worker'[w].alone
<1> DEFINE a == worker[w]
           others == {v \in Workers \ {w} : worker[v].at \in Replacing}
<1>1. /\ a.at = "read" /\ a.todo = {} /\ ~Refreshes(a.job) /\ a \in Worker /\ InOrder(a)
      /\ a.job \in Jobs /\ a.job # NoJob
  BY RunningFacts DEF BeginReplace, ReadAll, On
<1>2. PICK runs : runs = {s.run : s \in open}
  OBVIOUS
<1>3. runs \subseteq Jobs \X Attempts /\ \A s \in open : s.run \in runs
  BY <1>2 DEF TypeInv, TypeOK, RecommendationSet
<1>4. PICK b : b = [a EXCEPT !.at = "delete", !.seen = runs, !.alone = others = {}]
  OBVIOUS
<1>5. worker' = [v \in Workers |->
          IF v = w THEN b
          ELSE IF v \in others THEN [worker[v] EXCEPT !.alone = FALSE] ELSE worker[v]]
  BY <1>2, <1>4 DEF BeginReplace
<1>6. /\ b \in Worker /\ b.at = "delete" /\ Carries(a, b) /\ b.seen = runs
      /\ b.alone = (others = {})
  BY <1>1, <1>3, <1>4 DEF Worker, Replacing, Carries
<1>7. InOrder(b)
  BY <1>1, <1>6 DEF InOrder, Replacing, Carries
<1>8. \A v \in Workers \ {w} :
        /\ worker'[v] \in Worker /\ Same(worker[v], worker'[v])
        /\ v \in others => ~worker'[v].alone
  <2>1. TAKE v \in Workers \ {w}
  <2>2. worker[v] \in Worker
    BY DEF TypeInv, TypeOK
  <2>3. CASE v \in others
    <3>1. worker'[v] = [worker[v] EXCEPT !.alone = FALSE]
      BY <1>5, <2>3
    <3>2. QED
      BY <2>2, <3>1 DEF Worker, Same
  <2>4. CASE v \notin others
    <3>1. worker'[v] = worker[v]
      BY <1>5, <2>4
    <3>2. QED
      BY <2>2, <2>4, <3>1 DEF Same
  <2>5. QED
    BY <2>3, <2>4
<1>9. worker'[w] = b
  BY <1>5
<1>10. worker' \in [Workers -> Worker]
  <2>1. \A v \in Workers : worker'[v] \in Worker
    BY <1>6, <1>8, <1>9
  <2>2. worker' = [v \in Workers |-> worker'[v]]
    BY <1>5, Zenon
  <2>3. QED
    BY <2>1, <2>2
<1>11. \A v \in Workers \ {w} : worker[v].at \in Replacing => v \in others /\ ~b.alone
  BY <1>6
<1> HIDE DEF others
<1>12. QED
  BY <1>1, <1>3, <1>6, <1>7, <1>8, <1>9, <1>10, <1>11 DEF OthersSame

LEMMA DeleteOpenFacts ==
    ASSUME TypeInv, NEW w \in Workers, DeleteOpen(w)
    PROVE  /\ worker' \in [Workers -> Worker] /\ OthersSame(w) /\ InOrder(worker'[w])
           /\ worker[w].at = "delete" /\ worker[w].todo = {}
           /\ worker'[w].at = "create" /\ Carries(worker[w], worker'[w])
           /\ worker'[w].alone = worker[w].alone
           /\ \A s \in open : s.run \in worker[w].seen => s.run \in worker'[w].seen
<1> DEFINE a == worker[w]
<1>1. a.at = "delete" /\ a \in Worker /\ InOrder(a) /\ a.job \in Jobs /\ a.job # NoJob
  BY RunningFacts DEF DeleteOpen, On
<1>2. PICK seen : seen = a.seen \cap {s.run : s \in open}
  OBVIOUS
<1>3. PICK b : b = [a EXCEPT !.at = "create", !.seen = seen]
  OBVIOUS
<1>4. worker' = [worker EXCEPT ![w] = b]
  BY <1>2, <1>3 DEF DeleteOpen, TypeInv, TypeOK
<1>5. \A s \in open : s.run \in a.seen => s.run \in seen
  BY <1>2
<1>6. a.todo = {} /\ ~Refreshes(a.job)
  BY <1>1 DEF InOrder, Replacing
<1>7. seen \subseteq a.seen
  BY <1>2
<1> HIDE DEF a
<1>8. /\ b \in Worker /\ b.at = "create" /\ Carries(a, b) /\ b.seen = seen /\ b.alone = a.alone
  BY <1>1, <1>3, <1>6, <1>7 DEF Worker, Replacing, Carries
<1>9. InOrder(b)
  BY <1>1, <1>6, <1>8 DEF InOrder, Replacing, Carries
<1>10. worker' \in [Workers -> Worker] /\ worker'[w] = b /\ OthersSame(w)
  BY <1>4, <1>8, WorkerChanges DEF TypeInv, TypeOK
<1>11. QED
  BY <1>1, <1>5, <1>6, <1>8, <1>9, <1>10 DEF a

LEMMA CreateFacts ==
    ASSUME TypeInv, NEW w \in Workers, On(w, "create"), Goto(w, "commit")
    PROVE  /\ worker' \in [Workers -> Worker] /\ OthersSame(w) /\ InOrder(worker'[w])
           /\ worker[w].at = "create" /\ worker[w].todo = {}
           /\ worker'[w].at = "commit" /\ Carries(worker[w], worker'[w])
           /\ worker'[w].alone = worker[w].alone /\ worker'[w].seen = worker[w].seen
<1> DEFINE a == worker[w]
<1>1. a.at = "create" /\ a \in Worker /\ InOrder(a) /\ a.job \in Jobs /\ a.job # NoJob
  BY RunningFacts DEF On
<1>2. PICK b : b = [a EXCEPT !.at = "commit"]
  OBVIOUS
<1>3. worker' = [worker EXCEPT ![w] = b]
  BY <1>2 DEF Goto, TypeInv, TypeOK
<1>4. a.todo = {} /\ ~Refreshes(a.job)
  BY <1>1 DEF InOrder, Replacing
<1> HIDE DEF a
<1>5. b \in Worker /\ b.at = "commit" /\ Carries(a, b) /\ b.seen = a.seen /\ b.alone = a.alone
  BY <1>1, <1>2, <1>4 DEF Worker, Replacing, Carries
<1>6. InOrder(b)
  BY <1>1, <1>4, <1>5 DEF InOrder, Replacing, Carries
<1>7. worker' \in [Workers -> Worker] /\ worker'[w] = b /\ OthersSame(w)
  BY <1>3, <1>5, WorkerChanges DEF TypeInv, TypeOK
<1>8. QED
  BY <1>1, <1>4, <1>5, <1>6, <1>7 DEF a

\* A run stores its result, and beats those of its kind that have read.
LEMMA BeatenFacts ==
    ASSUME TypeInv, NEW w \in Workers, worker[w].at # "idle", NEW refreshes \in BOOLEAN,
           worker' = Beaten(w, refreshes)
    PROVE  /\ worker' \in [Workers -> Worker] /\ OthersSame(w) /\ InOrder(worker'[w])
           /\ worker'[w].at = "report" /\ worker'[w].job = worker[w].job
           /\ worker'[w].attempts = worker[w].attempts
           /\ ~Active(worker'[w])
           /\ \A v \in Workers \ {w} :
                 HasRead(v) /\ Refreshes(worker[v].job) = refreshes => worker'[v].beaten
<1>1. PICK b : b = Over(w, "report")
  OBVIOUS
<1>2. /\ b \in Worker /\ InOrder(b) /\ ~Active(b) /\ b.at = "report"
      /\ b.job = worker[w].job /\ b.attempts = worker[w].attempts
  BY <1>1, OverFacts
<1>3. worker' = [v \in Workers |->
        IF v # w /\ HasRead(v) /\ Refreshes(worker[v].job) = refreshes
        THEN [worker[v] EXCEPT !.beaten = TRUE]
        ELSE IF v = w THEN b ELSE worker[v]]
  BY <1>1, Zenon DEF Beaten
<1>4. worker'[w] = b
  BY <1>3
<1>5. \A v \in Workers \ {w} :
        /\ worker'[v] \in Worker /\ Same(worker[v], worker'[v])
        /\ HasRead(v) /\ Refreshes(worker[v].job) = refreshes => worker'[v].beaten
  <2>1. TAKE v \in Workers \ {w}
  <2>2. worker[v] \in Worker
    BY DEF TypeInv, TypeOK
  <2>3. CASE HasRead(v) /\ Refreshes(worker[v].job) = refreshes
    <3>1. worker'[v] = [worker[v] EXCEPT !.beaten = TRUE]
      BY <1>3, <2>3
    <3>2. QED
      BY <2>2, <3>1 DEF Worker, Same
  <2>4. CASE ~(HasRead(v) /\ Refreshes(worker[v].job) = refreshes)
    <3>1. worker'[v] = worker[v]
      BY <1>3, <2>4
    <3>2. QED
      BY <2>2, <2>4, <3>1 DEF Same
  <2>5. QED
    BY <2>3, <2>4
<1>6. worker' \in [Workers -> Worker]
  <2>1. \A v \in Workers : worker'[v] \in Worker
    BY <1>2, <1>4, <1>5
  <2>2. worker' = [v \in Workers |-> worker'[v]]
    BY <1>3, Zenon
  <2>3. QED
    BY <2>1, <2>2
<1>7. QED
  BY <1>2, <1>4, <1>5, <1>6 DEF OthersSame

-----------------------------------------------------------------------------
(* Types, and the attempts of a job *)

LEMMA EarlyFacts ==
    ASSUME NEW j
    PROVE  /\ IsFiniteSet(Early(j)) /\ Cardinality(Early(j)) \in Nat
           /\ Cardinality(Early(j)) <= MaxAttempts - 1
<1>1. MaxAttempts - 1 \in Nat /\ 1 \in Int
  BY GuidanceAssumption
<1>2. IsFiniteSet(1..(MaxAttempts - 1)) /\ Cardinality(1..(MaxAttempts - 1)) = MaxAttempts - 1
  BY <1>1, FS_Interval
<1>3. Early(j) \subseteq 1..(MaxAttempts - 1)
  BY DEF Early
<1>4. QED
  BY <1>2, <1>3, FS_Subset, FS_CardinalityType

\* Every worker keeps its run.
LEMMA RunsKept ==
    ASSUME TypeInv, UNCHANGED job,
           \A v \in Workers : worker'[v].job = worker[v].job /\ worker'[v].attempts = worker[v].attempts
    PROVE  Attempted' /\ \A j \in Jobs : Bounded(j)'
<1>1. Attempted'
  BY DEF TypeInv, Attempted, Run
<1>2. \A j \in Jobs : Early(j)' = Early(j)
  BY DEF Early
<1>3. QED
  BY <1>1, <1>2 DEF TypeInv, Bounded

\* One worker goes on with its run.
RunStep(w) ==
    /\ worker' \in [Workers -> Worker] /\ OthersSame(w) /\ InOrder(worker'[w])
    /\ worker'[w].job = worker[w].job /\ worker'[w].attempts = worker[w].attempts
    /\ UNCHANGED job

LEMMA RunStepKeeps ==
    ASSUME TypeInv, NEW w \in Workers, RunStep(w)
    PROVE  /\ worker' \in [Workers -> Worker] /\ job' \in [Jobs -> [status : JobStatus, attempts : Attempts]]
           /\ \A v \in Workers : InOrder(worker'[v])
           /\ Attempted' /\ \A j \in Jobs : Bounded(j)'
<1>1. \A v \in Workers : worker'[v].job = worker[v].job /\ worker'[v].attempts = worker[v].attempts
  BY DEF RunStep, OthersSame, Same
<1>2. \A v \in Workers : InOrder(worker'[v])
  BY DEF RunStep, OthersSame, Same, TypeInv, InOrder
<1>3. QED
  BY <1>1, <1>2, RunsKept DEF RunStep, TypeInv, TypeOK

\* A job changes, and no worker.
LEMMA JobStepKeeps ==
    ASSUME TypeInv, UNCHANGED worker, NEW j \in Jobs, NEW status \in JobStatus \ {"NONE"},
           job' = [job EXCEPT ![j] = [status |-> status, attempts |-> job[j].attempts]],
           status = "WAITING" => job[j].attempts < MaxAttempts
    PROVE  /\ job' \in [Jobs -> [status : JobStatus, attempts : Attempts]]
           /\ Attempted' /\ \A i \in Jobs : Bounded(i)'
<1>1. /\ job' \in [Jobs -> [status : JobStatus, attempts : Attempts]]
      /\ job'[j].status = status /\ job'[j].attempts = job[j].attempts
      /\ \A i \in Jobs \ {j} : job'[i] = job[i]
  BY DEF TypeInv, TypeOK
<1>2. Attempted'
  <2>1. \A i \in Jobs : job'[i].attempts = job[i].attempts
    BY <1>1
  <2>2. \A i \in Jobs : job'[i].status = "NONE" => job[i].status = "NONE"
    BY <1>1
  <2>3. \A w \in Workers : worker[w].job # NoJob => worker[w].job \in Jobs
    BY DEF TypeInv, TypeOK, Worker
  <2>4. QED
    BY <2>1, <2>2, <2>3 DEF TypeInv, Attempted, Run
<1>3. \A i : Early(i)' = Early(i)
  BY DEF Early
<1>4. Bounded(j)'
  <2>1. job[j].attempts \in Nat /\ MaxAttempts \in Nat /\ Cardinality(Early(j)) \in Nat
    BY EarlyFacts, GuidanceAssumption DEF TypeInv, TypeOK, Attempts
  <2>2. Bounded(j)
    BY DEF TypeInv
  <2>3. QED
    BY <1>1, <1>3, <2>1, <2>2 DEF Bounded
<1>5. \A i \in Jobs \ {j} : Bounded(i)'
  BY <1>1, <1>3 DEF Bounded, TypeInv
<1>6. QED
  BY <1>1, <1>2, <1>4, <1>5

LEMMA EnqueueKeeps ==
    ASSUME TypeInv, UNCHANGED worker, NEW j \in Jobs, Enqueue(j)
    PROVE  /\ job' \in [Jobs -> [status : JobStatus, attempts : Attempts]]
           /\ \A i \in Jobs \ {j} : job'[i] = job[i]
           /\ job'[j] = job[j] \/ job'[j].status = "WAITING"
           /\ job[j].status # "NONE" => job'[j] = job[j]
           /\ Attempted' /\ \A i \in Jobs : Bounded(i)'
<1>0. job[j] \in [status : JobStatus, attempts : Attempts]
  BY DEF TypeInv, TypeOK
<1>1. CASE job[j].status # "NONE"
  <2>1. job' = job
    BY <1>1 DEF Enqueue, TypeInv, TypeOK
  <2>2. QED
    BY <1>1, <2>1, RunsKept DEF TypeInv, TypeOK
<1>2. CASE job[j].status = "NONE"
  <2>1. job[j].attempts = 0
    BY <1>2 DEF TypeInv, Attempted
  <2>2. job' = [job EXCEPT ![j] = [status |-> "WAITING", attempts |-> job[j].attempts]]
    BY <1>2, <2>1 DEF Enqueue, TypeInv, TypeOK
  <2>3. 0 < MaxAttempts /\ "WAITING" \in JobStatus \ {"NONE"}
    BY GuidanceAssumption DEF JobStatus
  <2>4. /\ job' \in [Jobs -> [status : JobStatus, attempts : Attempts]]
        /\ Attempted' /\ \A i \in Jobs : Bounded(i)'
    BY <2>1, <2>2, <2>3, JobStepKeeps
  <2>5. job'[j].status = "WAITING" /\ \A i \in Jobs \ {j} : job'[i] = job[i]
    BY <2>2 DEF TypeInv, TypeOK
  <2>6. QED
    BY <1>2, <2>4, <2>5
<1>3. QED
  BY <1>1, <1>2

\* A lock expires, or is outlived.
LEMMA ReclaimKeeps ==
    ASSUME TypeInv, UNCHANGED worker, NEW j \in Jobs, job[j].status = "RUNNING",
           job' = [job EXCEPT ![j].status = Outcome(job[j].attempts)]
    PROVE  /\ job' \in [Jobs -> [status : JobStatus, attempts : Attempts]]
           /\ \A i \in Jobs \ {j} : job'[i] = job[i]
           /\ job'[j].status \in {"WAITING", "DEAD"}
           /\ Attempted' /\ \A i \in Jobs : Bounded(i)'
<1>1. PICK status : status = Outcome(job[j].attempts)
  OBVIOUS
<1>2. job[j] \in [status : JobStatus, attempts : Attempts] /\ job[j].attempts \in Nat
  BY DEF TypeInv, TypeOK, Attempts
<1>3. /\ status \in {"WAITING", "DEAD"} /\ status \in JobStatus \ {"NONE"}
      /\ status = "WAITING" => job[j].attempts < MaxAttempts
  BY <1>1, <1>2, GuidanceAssumption DEF Outcome, JobStatus
<1>4. job' = [job EXCEPT ![j] = [status |-> status, attempts |-> job[j].attempts]]
  <2>1. [job[j] EXCEPT !.status = status] = [status |-> status, attempts |-> job[j].attempts]
    BY <1>2
  <2>2. job' = [job EXCEPT ![j] = [job[j] EXCEPT !.status = status]]
    BY <1>1 DEF TypeInv, TypeOK
  <2>3. QED
    BY <2>1, <2>2
<1>5. job'[j].status = status /\ \A i \in Jobs \ {j} : job'[i] = job[i]
  BY <1>4 DEF TypeInv, TypeOK
<1>6. QED
  BY <1>3, <1>4, <1>5, JobStepKeeps

LEMMA ClaimFacts ==
    ASSUME TypeInv, NEW w \in Workers, Claim(w)
    PROVE  \E j \in Jobs :
              /\ job[j].status = "WAITING" /\ worker[w] = Idle
              /\ job' \in [Jobs -> [status : JobStatus, attempts : Attempts]]
              /\ job'[j].status = "RUNNING" /\ job'[j].attempts = job[j].attempts + 1
              /\ \A i \in Jobs \ {j} : job'[i] = job[i]
              /\ worker' \in [Workers -> Worker] /\ OthersSame(w) /\ InOrder(worker'[w])
              /\ worker'[w].job = j /\ worker'[w].attempts = job[j].attempts + 1
              /\ worker'[w].at \in {"read", "report"}
              /\ project # "deleted" => worker'[w].at = "read"
              /\ worker'[w].at = "read" => worker'[w].todo = Reads
<1>1. PICK j \in Jobs :
          /\ job[j].status = "WAITING"
          /\ job' = [job EXCEPT ![j] = [status |-> "RUNNING", attempts |-> job[j].attempts + 1]]
          /\ worker' = [worker EXCEPT ![w] =
                [Idle EXCEPT !.job = j, !.attempts = job[j].attempts + 1,
                             !.at = IF project = "deleted" THEN "report" ELSE "read",
                             !.todo = IF project = "deleted" THEN {} ELSE Reads]]
  BY DEF Claim, TypeInv, TypeOK
<1>2. PICK n : n = job[j].attempts
  OBVIOUS
<1>3. n + 1 \in Attempts
  <2>1. n \in Nat /\ MaxAttempts \in Nat \ {0} /\ Cardinality(Early(j)) \in Nat
    BY <1>2, EarlyFacts, GuidanceAssumption DEF TypeInv, TypeOK, Attempts
  <2>2. n >= MaxAttempts => n + Cardinality(Early(j)) + 1 <= 2 * MaxAttempts - 1
    BY <1>1, <1>2 DEF TypeInv, Bounded
  <2>3. QED
    BY <2>1, <2>2 DEF Attempts
<1>4. PICK b : b = [Idle EXCEPT !.job = j, !.attempts = n + 1,
                             !.at = IF project = "deleted" THEN "report" ELSE "read",
                             !.todo = IF project = "deleted" THEN {} ELSE Reads]
  OBVIOUS
<1>5. /\ b \in Worker /\ b.job = j /\ b.attempts = n + 1 /\ b.at \in {"read", "report"}
      /\ project # "deleted" => b.at = "read"
      /\ b.at = "read" => b.todo = Reads
      /\ b.todo \subseteq Reads
  <2>2. CASE project = "deleted"
    <3>1. b = [Idle EXCEPT !.job = j, !.attempts = n + 1, !.at = "report", !.todo = {}]
      BY <1>4, <2>2
    <3>2. QED
      BY <1>3, <2>2, <3>1, IdleFacts DEF Worker
  <2>3. CASE project # "deleted"
    <3>1. b = [Idle EXCEPT !.job = j, !.attempts = n + 1, !.at = "read", !.todo = Reads]
      BY <1>4, <2>3
    <3>2. QED
      BY <1>3, <2>3, <3>1, IdleFacts DEF Worker
  <2>4. QED
    BY <2>2, <2>3
<1>6. InOrder(b)
  BY <1>5, JobAssumption DEF InOrder, Replacing
<1>7. worker' = [worker EXCEPT ![w] = b]
  BY <1>1, <1>2, <1>4
<1>8. worker' \in [Workers -> Worker] /\ worker'[w] = b /\ OthersSame(w)
  BY <1>5, <1>7, WorkerChanges DEF TypeInv, TypeOK
<1>9. /\ job' \in [Jobs -> [status : JobStatus, attempts : Attempts]]
      /\ job'[j].status = "RUNNING" /\ job'[j].attempts = n + 1
      /\ \A i \in Jobs \ {j} : job'[i] = job[i]
  BY <1>1, <1>2, <1>3 DEF TypeInv, TypeOK, JobStatus
<1>10. worker[w] = Idle
  BY DEF Claim
<1>11. WITNESS j \in Jobs
<1>12. QED
  BY <1>1, <1>2, <1>5, <1>6, <1>8, <1>9, <1>10

LEMMA ClaimKeeps ==
    ASSUME TypeInv, NEW w \in Workers, Claim(w)
    PROVE  /\ worker' \in [Workers -> Worker] /\ job' \in [Jobs -> [status : JobStatus, attempts : Attempts]]
           /\ \A v \in Workers : InOrder(worker'[v])
           /\ Attempted' /\ \A i \in Jobs : Bounded(i)'
<1>1. PICK j \in Jobs :
              /\ job[j].status = "WAITING" /\ worker[w] = Idle
              /\ job' \in [Jobs -> [status : JobStatus, attempts : Attempts]]
              /\ job'[j].status = "RUNNING" /\ job'[j].attempts = job[j].attempts + 1
              /\ \A i \in Jobs \ {j} : job'[i] = job[i]
              /\ worker' \in [Workers -> Worker] /\ OthersSame(w) /\ InOrder(worker'[w])
              /\ worker'[w].job = j /\ worker'[w].attempts = job[j].attempts + 1
  BY ClaimFacts
<1>2. PICK n \in Nat : n = job[j].attempts
  BY DEF TypeInv, TypeOK, Attempts
<1>3. \A v \in Workers : InOrder(worker'[v])
  BY <1>1 DEF OthersSame, Same, TypeInv, InOrder
<1>4. \A v \in Workers \ {w} : worker'[v].job = worker[v].job /\ worker'[v].attempts = worker[v].attempts
  BY <1>1 DEF OthersSame, Same
<1>5. \A v \in Workers : worker[v].job # NoJob =>
        worker[v].job \in Jobs /\ worker[v].attempts \in 1..job[worker[v].job].attempts
  BY DEF TypeInv, TypeOK, Worker, Attempted
<1>6. Attempted'
  <2>1. \A v \in Workers : worker'[v].job # NoJob => worker'[v].attempts \in 1..job'[worker'[v].job].attempts
    <3>1. TAKE v \in Workers
    <3>2. CASE v = w
      BY <1>1, <1>2, <3>2
    <3>3. CASE v # w /\ worker[v].job = j
      BY <1>1, <1>2, <1>4, <1>5, <3>3
    <3>4. CASE v # w /\ worker[v].job # j
      BY <1>1, <1>4, <1>5, <3>4
    <3>5. QED
      BY <3>2, <3>3, <3>4
  <2>2. \A v \in Workers \ {w} : Run(v)' # Run(w)'
    BY <1>1, <1>2, <1>4, <1>5, JobAssumption DEF Run
  <2>3. \A u, v \in Workers : worker'[u].job # NoJob /\ Run(u)' = Run(v)' => u = v
    <3>1. \A u, v \in Workers \ {w} : worker'[u].job # NoJob /\ Run(u)' = Run(v)' => u = v
      BY <1>4 DEF Run, TypeInv, Attempted
    <3>2. QED
      BY <2>2, <3>1
  <2>4. \A i \in Jobs : job'[i].status = "NONE" => job'[i].attempts = 0
    BY <1>1 DEF TypeInv, Attempted
  <2>5. QED
    BY <2>1, <2>3, <2>4 DEF Attempted, Run
<1>7. \A i \in Jobs \ {j} : Bounded(i)'
  <2>1. TAKE i \in Jobs \ {j}
  <2>2. Early(i)' = Early(i)
    <3>1. \A a : (\E v \in Workers : worker'[v].job = i /\ worker'[v].attempts = a)
                <=> (\E v \in Workers : worker[v].job = i /\ worker[v].attempts = a)
      BY <1>1, <1>4, IdleFacts, JobAssumption
    <3>2. QED
      BY <3>1 DEF Early
  <2>3. QED
    BY <1>1, <2>2 DEF Bounded, TypeInv
<1>8. Bounded(j)'
  <2>1. MaxAttempts \in Nat \ {0} /\ Cardinality(Early(j)) \in Nat
    BY EarlyFacts, GuidanceAssumption
  <2>2. n >= MaxAttempts => n + Cardinality(Early(j)) + 1 <= 2 * MaxAttempts - 1
    BY <1>1, <1>2 DEF TypeInv, Bounded
  <2>3. PICK e : e = Cardinality(Early(j)')
    OBVIOUS
  <2>4. e \in Nat /\ e <= MaxAttempts - 1 /\ (n >= MaxAttempts => e <= Cardinality(Early(j)))
    <3>1. Early(j)' \subseteq 1..(MaxAttempts - 1)
      BY DEF Early
    <3>2. IsFiniteSet(1..(MaxAttempts - 1)) /\ Cardinality(1..(MaxAttempts - 1)) = MaxAttempts - 1
      BY SMTT(30), <2>1, FS_Interval
    <3>3. e \in Nat /\ e <= MaxAttempts - 1
      BY <2>3, <3>1, <3>2, FS_Subset, FS_CardinalityType
    <3>4. ASSUME n >= MaxAttempts
          PROVE  Early(j)' \subseteq Early(j)
      <4>1. \A a \in 1..(MaxAttempts - 1), v \in Workers :
                worker'[v].job = j /\ worker'[v].attempts = a => worker[v].job = j /\ worker[v].attempts = a
        BY <1>1, <1>2, <1>4, <2>1, <3>4
      <4>2. QED
        BY <4>1 DEF Early
    <3>5. QED
      BY <2>3, <3>3, <3>4, EarlyFacts, FS_Subset
  <2>5. QED
    BY <1>1, <1>2, <2>1, <2>2, <2>3, <2>4 DEF Bounded
<1>9. QED
  BY <1>1, <1>3, <1>6, <1>7, <1>8

\* A worker lets go of its run, and may put the job back on the queue if it was an
\* early one.
LEMMA LetGoKeeps ==
    ASSUME TypeInv, NEW w \in Workers, NEW j \in Jobs, worker[w].job = j,
           worker' = [worker EXCEPT ![w] = Idle],
           NEW status \in JobStatus,
           job' = [job EXCEPT ![j] = [status |-> status, attempts |-> job[j].attempts]],
           status = "NONE" => job[j].status = "NONE",
           status = "WAITING" => job[j].status = "WAITING" \/ worker[w].attempts < MaxAttempts
    PROVE  /\ worker' \in [Workers -> Worker] /\ job' \in [Jobs -> [status : JobStatus, attempts : Attempts]]
           /\ worker'[w] = Idle /\ OthersSame(w)
           /\ job'[j].status = status /\ \A i \in Jobs \ {j} : job'[i] = job[i]
           /\ \A v \in Workers : InOrder(worker'[v])
           /\ Attempted' /\ \A i \in Jobs : Bounded(i)'
<1>1. worker' \in [Workers -> Worker] /\ worker'[w] = Idle /\ OthersSame(w)
  BY IdleFacts, WorkerChanges DEF TypeInv, TypeOK
<1>2. /\ job' \in [Jobs -> [status : JobStatus, attempts : Attempts]]
      /\ job'[j].status = status /\ job'[j].attempts = job[j].attempts
      /\ \A i \in Jobs \ {j} : job'[i] = job[i]
  BY DEF TypeInv, TypeOK
<1>3. \A v \in Workers : InOrder(worker'[v])
  BY <1>1, IdleFacts DEF OthersSame, Same, TypeInv, InOrder
<1>4. /\ \A v \in Workers \ {w} : worker'[v].job = worker[v].job /\ worker'[v].attempts = worker[v].attempts
      /\ worker'[w].job = NoJob
  BY <1>1, IdleFacts DEF OthersSame, Same
<1>5. Attempted'
  <2>1. \A i \in Jobs : job'[i].attempts = job[i].attempts
    BY <1>2
  <2>2. \A i \in Jobs : job'[i].status = "NONE" => job[i].status = "NONE"
    BY <1>2
  <2>3. \A v \in Workers : worker[v].job # NoJob => worker[v].job \in Jobs
    BY DEF TypeInv, TypeOK, Worker
  <2>4. \A v \in Workers : worker'[v].job # NoJob =>
            v # w /\ worker'[v].job = worker[v].job /\ worker'[v].attempts = worker[v].attempts
    BY <1>4
  <2>5. \A v \in Workers : worker'[v].job # NoJob => worker'[v].attempts \in 1..job'[worker'[v].job].attempts
    BY <2>1, <2>3, <2>4 DEF TypeInv, Attempted
  <2>6. \A u, v \in Workers : worker'[u].job # NoJob /\ Run(u)' = Run(v)' => u = v
    <3>1. \A u, v \in Workers : worker'[u].job # NoJob /\ Run(u)' = Run(v)' =>
              v # w /\ worker[u].job # NoJob /\ Run(u) = Run(v)
      BY <2>4, <1>4 DEF Run
    <3>2. QED
      BY <3>1 DEF TypeInv, Attempted
  <2>7. QED
    BY <2>1, <2>2, <2>5, <2>6 DEF TypeInv, Attempted, Run
<1>6. \A i \in Jobs \ {j} : Bounded(i)'
  <2>1. TAKE i \in Jobs \ {j}
  <2>2. Early(i)' = Early(i)
    <3>1. \A a : (\E v \in Workers : worker'[v].job = i /\ worker'[v].attempts = a)
                <=> (\E v \in Workers : worker[v].job = i /\ worker[v].attempts = a)
      BY <1>4, JobAssumption
    <3>2. QED
      BY <3>1 DEF Early
  <2>3. QED
    BY <1>2, <2>2 DEF Bounded, TypeInv
<1>7. Bounded(j)'
  <2>1. PICK n \in Nat : n = job[j].attempts
    BY DEF TypeInv, TypeOK, Attempts
  <2>2. PICK a \in Nat : a = worker[w].attempts
    BY DEF TypeInv, TypeOK, Worker, Attempts
  <2>3. MaxAttempts \in Nat \ {0} /\ a >= 1
    BY <2>2, GuidanceAssumption, JobAssumption DEF TypeInv, Attempted
  <2>4. PICK early : early = Early(j)'
    OBVIOUS
  <2>5. early \subseteq Early(j)
    <3>1. \A b : \A v \in Workers : worker'[v].job = j /\ worker'[v].attempts = b =>
              worker[v].job = j /\ worker[v].attempts = b
      BY <1>4, JobAssumption
    <3>2. QED
      BY <2>4, <3>1 DEF Early
  <2>6. a < MaxAttempts => a \in Early(j) /\ a \notin early
    <3>1. a < MaxAttempts => a \in Early(j)
      BY <2>2, <2>3 DEF Early
    <3>2. \A v \in Workers : ~(worker'[v].job = j /\ worker'[v].attempts = a)
      <4>1. \A v \in Workers \ {w} : Run(v) # Run(w)
        BY JobAssumption DEF TypeInv, Attempted
      <4>2. QED
        BY <1>4, <2>2, <4>1, JobAssumption DEF Run
    <3>3. QED
      BY <2>4, <3>1, <3>2 DEF Early
  <2>7. /\ Cardinality(early) \in Nat /\ Cardinality(Early(j)) \in Nat
        /\ Cardinality(early) <= Cardinality(Early(j))
        /\ a < MaxAttempts => Cardinality(early) + 1 <= Cardinality(Early(j))
    <3>1. IsFiniteSet(Early(j)) /\ IsFiniteSet(Early(j) \ {a})
      BY EarlyFacts, FS_Subset, Early(j) \ {a} \subseteq Early(j)
    <3>2. Cardinality(early) \in Nat /\ Cardinality(early) <= Cardinality(Early(j))
      BY <2>5, <3>1, FS_Subset, FS_CardinalityType
    <3>3. ASSUME a < MaxAttempts
          PROVE  Cardinality(early) + 1 <= Cardinality(Early(j))
      <4>1. early \subseteq Early(j) \ {a}
        BY <2>5, <2>6, <3>3
      <4>2. Cardinality(early) <= Cardinality(Early(j) \ {a})
        BY <3>1, <4>1, FS_Subset
      <4>3. Cardinality(Early(j) \ {a}) = Cardinality(Early(j)) - 1
        BY <2>6, <3>1, <3>3, FS_RemoveElement
      <4>4. QED
        BY <3>2, <4>2, <4>3, EarlyFacts
    <3>4. QED
      BY <3>2, <3>3, EarlyFacts
  <2>8. n >= MaxAttempts =>
            n + Cardinality(Early(j)) + (IF job[j].status = "WAITING" THEN 1 ELSE 0) <= 2 * MaxAttempts - 1
    BY <2>1 DEF TypeInv, Bounded
  <2>9. n >= MaxAttempts =>
            n + Cardinality(early) + (IF status = "WAITING" THEN 1 ELSE 0) <= 2 * MaxAttempts - 1
    BY <2>1, <2>2, <2>3, <2>7, <2>8
  <2>10. QED
    BY <1>2, <2>1, <2>4, <2>9 DEF Bounded
<1>8. QED
  BY <1>1, <1>2, <1>3, <1>5, <1>6, <1>7

\* A run is over, and its worker reports it.
LEMMA ReportFacts ==
    ASSUME TypeInv, NEW w \in Workers, Report(w)
    PROVE  /\ worker[w].at \in {"report", "fail"} /\ worker[w].job \in Jobs
           /\ worker' \in [Workers -> Worker] /\ job' \in [Jobs -> [status : JobStatus, attempts : Attempts]]
           /\ worker'[w] = Idle /\ OthersSame(w)
           /\ job'[worker[w].job].status \in {"COMPLETED", "DEAD", "WAITING"}
           /\ job'[worker[w].job].status = "COMPLETED" => worker[w].at = "report"
           /\ \A i \in Jobs \ {worker[w].job} : job'[i] = job[i]
           /\ \A v \in Workers : InOrder(worker'[v])
           /\ Attempted' /\ \A i \in Jobs : Bounded(i)'
<1>1. worker[w].at \in {"report", "fail"} /\ worker[w].job \in Jobs
  BY RunningFacts DEF Report, On
<1>2. PICK j \in Jobs : j = worker[w].job
  BY <1>1
<1>3. PICK status : status = IF worker[w].at = "report" THEN "COMPLETED" ELSE Outcome(worker[w].attempts)
  OBVIOUS
<1>4. PICK a \in Nat : a = worker[w].attempts
  BY DEF TypeInv, TypeOK, Worker, Attempts
<1>5. /\ status \in {"COMPLETED", "DEAD", "WAITING"}
      /\ status = "COMPLETED" => worker[w].at = "report"
      /\ status = "WAITING" => a < MaxAttempts
  BY <1>3, <1>4, GuidanceAssumption DEF Outcome
<1>6. job' = [job EXCEPT ![j] = [status |-> status, attempts |-> job[j].attempts]]
  <2>1. job' = [job EXCEPT ![j] = [job[j] EXCEPT !.status = status]]
    BY <1>2, <1>3 DEF Report, On, TypeInv, TypeOK
  <2>2. [job[j] EXCEPT !.status = status] = [status |-> status, attempts |-> job[j].attempts]
    BY DEF TypeInv, TypeOK
  <2>3. QED
    BY <2>1, <2>2
<1>7. worker' = [worker EXCEPT ![w] = Idle] /\ status \in JobStatus
  BY <1>5 DEF Report, JobStatus
<1>8. QED
  BY ZenonT(60), <1>1, <1>2, <1>4, <1>5, <1>6, <1>7, LetGoKeeps

\* The worker dies.
LEMMA DiesFacts ==
    ASSUME TypeInv, NEW w \in Workers, worker[w] # Idle, worker' = [worker EXCEPT ![w] = Idle],
           UNCHANGED job
    PROVE  /\ worker' \in [Workers -> Worker] /\ worker'[w] = Idle /\ OthersSame(w)
           /\ \A v \in Workers : InOrder(worker'[v])
           /\ Attempted' /\ \A i \in Jobs : Bounded(i)'
<1>1. worker' \in [Workers -> Worker] /\ worker'[w] = Idle /\ OthersSame(w)
  BY IdleFacts, WorkerChanges DEF TypeInv, TypeOK
<1>2. CASE worker[w].at # "idle"
  <2>1. PICK j \in Jobs : j = worker[w].job
    BY <1>2, RunningFacts
  <2>2. PICK status : status = job[j].status
    OBVIOUS
  <2>3. status \in JobStatus /\ [status |-> status, attempts |-> job[j].attempts] = job[j]
    BY <2>2 DEF TypeInv, TypeOK
  <2>4. job' = [job EXCEPT ![j] = [status |-> status, attempts |-> job[j].attempts]]
    BY <2>3 DEF TypeInv, TypeOK
  <2>5. QED
    BY ZenonT(60), <1>1, <2>1, <2>2, <2>3, <2>4, LetGoKeeps
<1>3. CASE worker[w].at = "idle"
  <2>1. worker[w].job = NoJob
    BY <1>3 DEF TypeInv, InOrder
  <2>2. \A v \in Workers : worker'[v].job # NoJob =>
            v # w /\ worker'[v].job = worker[v].job /\ worker'[v].attempts = worker[v].attempts
    BY <1>1, IdleFacts DEF OthersSame, Same
  <2>3. Attempted'
    <3>1. \A u, v \in Workers : worker'[u].job # NoJob /\ Run(u)' = Run(v)' =>
              v # w /\ worker[u].job # NoJob /\ Run(u) = Run(v)
      BY <2>2, <1>1, IdleFacts DEF Run
    <3>2. QED
      BY <2>2, <3>1 DEF TypeInv, Attempted, Run
  <2>4. \A i \in Jobs : Bounded(i)'
    <3>1. TAKE i \in Jobs
    <3>2. \A a : (\E v \in Workers : worker'[v].job = i /\ worker'[v].attempts = a)
                <=> (\E v \in Workers : worker[v].job = i /\ worker[v].attempts = a)
      BY <1>1, <2>1, <2>2, IdleFacts, JobAssumption DEF OthersSame, Same
    <3>3. Early(i)' = Early(i)
      BY <3>2 DEF Early
    <3>4. QED
      BY <3>3 DEF Bounded, TypeInv
  <2>5. \A v \in Workers : InOrder(worker'[v])
    BY <1>1, IdleFacts DEF OthersSame, Same, TypeInv, InOrder
  <2>6. QED
    BY <1>1, <2>3, <2>4, <2>5
<1>4. QED
  BY <1>2, <1>3

\* Everything but the queue and the workers keeps its type.
Rest ==
    /\ project \in {"live", "deleting", "deleted", "kept"}
    /\ concepts \in BOOLEAN
    /\ evidence \in Sources
    /\ minute \in Minutes
    /\ open \subseteq RecommendationSet
    /\ context \in Context
    /\ faults \in 0..MaxFaults

Runs ==
    /\ worker \in [Workers -> Worker] /\ job \in [Jobs -> [status : JobStatus, attempts : Attempts]]
    /\ \A v \in Workers : InOrder(worker[v])
    /\ Attempted /\ \A i \in Jobs : Bounded(i)

LEMMA TypeInvParts == TypeInv <=> Rest /\ Runs
  BY DEF TypeInv, TypeOK, Rest, Runs

LEMMA WorkersKept == ASSUME TypeInv, UNCHANGED worker
                     PROVE  worker' \in [Workers -> Worker] /\ \A v \in Workers : InOrder(worker'[v])
  BY DEF TypeInv, TypeOK

LEMMA RunsUnchanged == ASSUME TypeInv, UNCHANGED <<worker, job>> PROVE Runs'
  BY WorkersKept, RunsKept DEF Runs, TypeInv, TypeOK

LEMMA NoContext ==
    [growth |-> {}, mistakes |-> {}, summary |-> 0, beaten |-> FALSE] \in Context
<1>1. 0 \in 0..MaxTurns
  BY GuidanceAssumption
<1>2. QED
  BY <1>1 DEF Context, Sources

LEMMA FaultFacts ==
    ASSUME TypeInv, Fault
    PROVE  faults' \in 0..MaxFaults
  BY GuidanceAssumption DEF TypeInv, TypeOK, Fault

LEMMA InitTypes == Init => TypeInv
<1> SUFFICES ASSUME Init PROVE TypeInv
  OBVIOUS
<1>1. 0 \in Attempts /\ 0 \in Minutes /\ 0 \in 0..MaxFaults /\ MaxAttempts \in Nat \ {0}
  BY GuidanceAssumption DEF Attempts, Minutes
<1>2. Rest
  BY <1>1, NoContext DEF Init, Rest, Sources
<1>3. /\ worker \in [Workers -> Worker] /\ job \in [Jobs -> [status : JobStatus, attempts : Attempts]]
      /\ \A v \in Workers : InOrder(worker[v])
  BY <1>1, IdleFacts DEF Init, JobStatus
<1>4. Attempted
  BY IdleFacts DEF Init, Attempted
<1>5. \A i \in Jobs : Bounded(i)
  BY <1>1 DEF Init, Bounded
<1>6. QED
  BY <1>2, <1>3, <1>4, <1>5, TypeInvParts DEF Runs

LEMMA NextTypes == TypeInv /\ [Next]_vars => TypeInv'
<1> SUFFICES ASSUME TypeInv, [Next]_vars PROVE Rest' /\ Runs'
  BY DEF TypeInv, TypeOK, Rest, Runs
<1>0. Rest
  BY TypeInvParts
<1> USE DEF learner
<1>1. ASSUME ExtractConcepts PROVE Rest' /\ Runs'
  BY <1>0, <1>1, RunsUnchanged DEF ExtractConcepts, Rest
<1>2. ASSUME RequestRecommendations PROVE Rest' /\ Runs'
  <2>1. Manual(minute) \in Jobs
    BY <1>0, JobFacts DEF Rest
  <2>2. Runs'
    BY <1>2, <2>1, EnqueueKeeps, WorkersKept DEF RequestRecommendations, Runs
  <2>3. QED
    BY <1>0, <1>2, <2>2 DEF RequestRecommendations, Rest
<1>3. ASSUME NextMinute PROVE Rest' /\ Runs'
  <2>1. minute' \in Minutes
    BY <1>0, <1>3, GuidanceAssumption DEF NextMinute, Rest, Minutes
  <2>2. QED
    BY <1>0, <1>3, <2>1, RunsUnchanged DEF NextMinute, Rest
<1>4. ASSUME DeleteProject PROVE Rest' /\ Runs'
  BY <1>0, <1>4, RunsUnchanged DEF DeleteProject, Rest
<1>5. ASSUME CascadeDelete PROVE Rest' /\ Runs'
  BY <1>0, <1>5, RunsUnchanged, NoContext DEF CascadeDelete, Rest
<1>6. ASSUME NEW z \in Quizzes, AnswerQuiz(z) PROVE Rest' /\ Runs'
  BY <1>0, <1>6, RunsUnchanged DEF AnswerQuiz, Rest, Sources
<1>7. ASSUME NEW z \in Quizzes, EvaluateQuiz(z) PROVE Rest' /\ Runs'
  <2>1. PICK j \in Jobs : Enqueue(j)
    BY <1>7, JobFacts DEF EvaluateQuiz
  <2>2. Runs'
    BY <1>7, <2>1, EnqueueKeeps, WorkersKept DEF EvaluateQuiz, Runs
  <2>3. QED
    BY <1>0, <1>7, <2>2 DEF EvaluateQuiz, Rest
<1>8. ASSUME NEW w \in Workers, Claim(w) PROVE Rest' /\ Runs'
  <2>1. Runs'
    BY <1>8, ClaimKeeps DEF Runs
  <2>2. QED
    BY <1>0, <1>8, <2>1 DEF Claim, Rest
<1>9. ASSUME NEW w \in Workers, Read(w) PROVE Rest' /\ Runs'
  <2>1. RunStep(w)
    BY <1>9, ReadFacts DEF Read, RunStep
  <2>2. QED
    BY <1>0, <1>9, <2>1, RunStepKeeps DEF Read, Rest, Runs
<1>10. ASSUME NEW w \in Workers, NothingToRecommend(w) PROVE Rest' /\ Runs'
  <2>1. RunStep(w)
    BY <1>10, EndFacts DEF NothingToRecommend, RunStep, ReadAll, On
  <2>2. QED
    BY <1>0, <1>10, <2>1, RunStepKeeps DEF NothingToRecommend, Rest, Runs
<1>11. ASSUME NEW w \in Workers, Summarise(w) PROVE Rest' /\ Runs'
  <2>1. RunStep(w)
    BY <1>11, SummariseFacts DEF Summarise, RunStep
  <2>2. QED
    BY <1>0, <1>11, <2>1, RunStepKeeps DEF Summarise, Rest, Runs
<1>12. ASSUME NEW w \in Workers, ModelFails(w) PROVE Rest' /\ Runs'
  <2>1. RunStep(w)
    BY <1>12, EndFacts DEF ModelFails, RunStep, ReadAll, On
  <2>2. QED
    BY <1>0, <1>12, <2>1, RunStepKeeps DEF ModelFails, Rest, Runs
<1>13. ASSUME NEW w \in Workers, BeginReplace(w) PROVE Rest' /\ Runs'
  <2>1. RunStep(w)
    BY <1>13, BeginReplaceFacts DEF BeginReplace, RunStep, Carries
  <2>2. QED
    BY <1>0, <1>13, <2>1, RunStepKeeps DEF BeginReplace, Rest, Runs
<1>14. ASSUME NEW w \in Workers, DeleteOpen(w) PROVE Rest' /\ Runs'
  <2>1. RunStep(w)
    BY <1>14, DeleteOpenFacts DEF DeleteOpen, RunStep, Carries
  <2>2. QED
    BY <1>0, <1>14, <2>1, RunStepKeeps DEF DeleteOpen, Rest, Runs
<1>15. ASSUME NEW w \in Workers, CreateRecommendations(w) PROVE Rest' /\ Runs'
  <2>1. RunStep(w)
    BY <1>15, CreateFacts, EndFacts DEF CreateRecommendations, RunStep, Carries, On
  <2>2. QED
    BY <1>0, <1>15, <2>1, RunStepKeeps DEF CreateRecommendations, Rest, Runs
<1>16. ASSUME NEW w \in Workers, Commit(w) PROVE Rest' /\ Runs'
  <2>1. RunStep(w)
    BY <1>16, BeatenFacts DEF Commit, RunStep, On
  <2>2. open' \subseteq RecommendationSet
    <3>1. /\ worker[w] \in Worker /\ worker[w].job \in Jobs /\ worker[w].attempts \in Attempts
      BY <1>16, RunningFacts DEF Commit, On
    <3>2. [run |-> Run(w), sources |-> worker[w].growth \cap worker[w].answers,
           beaten |-> worker[w].beaten, alone |-> worker[w].alone] \in RecommendationSet
      BY <3>1 DEF Worker, RecommendationSet, Run, Sources
    <3>3. QED
      BY <1>0, <1>16, <3>2 DEF Commit, Rest
  <2>3. QED
    BY <1>0, <1>16, <2>1, <2>2, RunStepKeeps DEF Commit, Rest, Runs
<1>17. ASSUME NEW w \in Workers, UpsertContext(w) PROVE Rest' /\ Runs'
  <2>1. RunStep(w)
    BY <1>17, BeatenFacts, EndFacts DEF UpsertContext, RunStep, On
  <2>2. context' \in Context
    <3>1. worker[w] \in Worker
      BY <1>17, RunningFacts DEF UpsertContext, On
    <3>2. Summary(w) \in 0..MaxTurns
      BY <1>0, <3>1 DEF Summary, Rest, Worker, Context
    <3>3. /\ worker[w].growth \in Sources /\ worker[w].answers \in Sources
          /\ worker[w].beaten \in BOOLEAN
      BY <3>1 DEF Worker
    <3>4. [growth |-> worker[w].growth, mistakes |-> worker[w].answers,
           summary |-> Summary(w), beaten |-> worker[w].beaten] \in Context
      BY <3>2, <3>3 DEF Context
    <3>5. QED
      BY <1>0, <1>17, <3>4 DEF UpsertContext, Rest
  <2>3. QED
    BY <1>0, <1>17, <2>1, <2>2, RunStepKeeps DEF UpsertContext, Rest, Runs
<1>18. ASSUME NEW w \in Workers, Report(w) PROVE Rest' /\ Runs'
  <2>1. Runs'
    BY <1>18, ReportFacts DEF Runs
  <2>2. QED
    BY <1>0, <1>18, <2>1 DEF Report, Rest
<1>19. ASSUME NEW w \in Workers, BreakDeadlock(w) PROVE Rest' /\ Runs'
  <2>1. CASE End(w, "fail") /\ UNCHANGED project
    <3>1. RunStep(w)
      BY <1>19, <2>1, EndFacts DEF BreakDeadlock, Deadlocked, RunStep, On
    <3>2. QED
      BY <1>0, <1>19, <2>1, <3>1, RunStepKeeps DEF BreakDeadlock, Rest, Runs
  <2>2. CASE project' = "kept" /\ UNCHANGED worker
    BY <1>0, <1>19, <2>2, RunsUnchanged DEF BreakDeadlock, Rest
  <2>3. QED
    BY <1>19, <2>1, <2>2 DEF BreakDeadlock
<1>20. ASSUME NEW w \in Workers, Fails(w) PROVE Rest' /\ Runs'
  <2>1. faults' \in 0..MaxFaults
    BY <1>20, FaultFacts DEF Fails
  <2>2. Rest'
    BY <1>0, <1>20, <2>1 DEF Fails, Rest
  <2>3. CASE worker[w] # Idle /\ worker' = [worker EXCEPT ![w] = Idle]
    <3>1. Runs'
      BY <1>20, <2>3, DiesFacts DEF Fails, Runs, TypeInv, TypeOK
    <3>2. QED
      BY <2>2, <3>1
  <2>4. CASE worker[w].at \notin {"idle", "report", "fail"} /\ End(w, "fail")
    <3>1. RunStep(w)
      BY <1>20, <2>4, EndFacts DEF Fails, RunStep
    <3>2. QED
      BY <2>2, <3>1, RunStepKeeps DEF Runs
  <2>5. QED
    BY <1>20, <2>3, <2>4 DEF Fails
<1>21. ASSUME NEW j \in Jobs, Reclaim(j) PROVE Rest' /\ Runs'
  <2>1. Runs'
    BY <1>21, ReclaimKeeps, WorkersKept DEF Reclaim, Runs
  <2>2. QED
    BY <1>0, <1>21, <2>1 DEF Reclaim, Rest
<1>22. ASSUME NEW j \in Jobs, Overrun(j) PROVE Rest' /\ Runs'
  <2>1. Runs'
    BY <1>22, ReclaimKeeps, WorkersKept DEF Overrun, Runs
  <2>2. QED
    BY <1>0, <1>22, <2>1, FaultFacts DEF Overrun, Rest
<1>23. ASSUME UNCHANGED vars PROVE Rest' /\ Runs'
  BY <1>0, <1>23, RunsUnchanged DEF vars, Rest
<1>24. QED
  BY <1>1, <1>2, <1>3, <1>4, <1>5, <1>6, <1>7, <1>8, <1>9, <1>10, <1>11, <1>12, <1>13,
     <1>14, <1>15, <1>16, <1>17, <1>18, <1>19, <1>20, <1>21, <1>22, <1>23, StepCases

-----------------------------------------------------------------------------
(* Sets of recommendations *)

\* No set is stored, and no transaction begins.
LEMMA SetsKept ==
    ASSUME SetInv, open' \subseteq open,
           \A v \in Workers : worker'[v].at \in Replacing =>
               /\ worker[v].at \in Replacing
               /\ worker'[v].alone => worker[v].alone
               /\ \A s \in open : s.run \in worker[v].seen => s.run \in worker'[v].seen
    PROVE  SetInv'
  BY DEF SetInv

\* One worker goes on outside of a transaction, or leaves one.
LEMMA SetsKeptOutside ==
    ASSUME SetInv, open' \subseteq open, NEW w \in Workers, OthersSame(w),
           worker'[w].at \notin Replacing
    PROVE  SetInv'
  BY SetsKept DEF OthersSame, Same

LEMMA SetsKeptAside ==
    ASSUME SetInv, open' \subseteq open, UNCHANGED worker
    PROVE  SetInv'
  BY SetsKept

LEMMA InitSets == Init => SetInv
  BY IdleFacts DEF Init, SetInv, Replacing

LEMMA NextSets == TypeInv /\ SetInv /\ [Next]_vars => SetInv'
<1> SUFFICES ASSUME TypeInv, SetInv, [Next]_vars PROVE SetInv'
  OBVIOUS
<1> USE DEF learner
<1>1. ASSUME ExtractConcepts \/ RequestRecommendations \/ NextMinute \/ DeleteProject PROVE SetInv'
  BY <1>1, SetsKeptAside DEF ExtractConcepts, RequestRecommendations, NextMinute, DeleteProject
<1>2. ASSUME CascadeDelete PROVE SetInv'
  BY <1>2, SetsKeptAside DEF CascadeDelete
<1>3. ASSUME NEW z \in Quizzes, AnswerQuiz(z) \/ EvaluateQuiz(z) PROVE SetInv'
  BY <1>3, SetsKeptAside DEF AnswerQuiz, EvaluateQuiz
<1>4. ASSUME NEW j \in Jobs, Reclaim(j) \/ Overrun(j) PROVE SetInv'
  BY <1>4, SetsKeptAside DEF Reclaim, Overrun
<1>5. ASSUME NEW w \in Workers, Claim(w) PROVE SetInv'
  <2>1. OthersSame(w) /\ worker'[w].at \notin Replacing
    BY <1>5, ClaimFacts DEF Replacing
  <2>2. QED
    BY <1>5, <2>1, SetsKeptOutside DEF Claim
<1>6. ASSUME NEW w \in Workers, Read(w) PROVE SetInv'
  <2>1. OthersSame(w) /\ worker'[w].at \notin Replacing
    BY <1>6, ReadFacts DEF Replacing
  <2>2. QED
    BY <1>6, <2>1, SetsKeptOutside DEF Read
<1>7. ASSUME NEW w \in Workers, NothingToRecommend(w) PROVE SetInv'
  <2>1. OthersSame(w) /\ worker'[w].at \notin Replacing
    BY <1>7, EndFacts DEF NothingToRecommend, ReadAll, On, Replacing
  <2>2. QED
    BY <1>7, <2>1, SetsKeptOutside DEF NothingToRecommend
<1>8. ASSUME NEW w \in Workers, Summarise(w) PROVE SetInv'
  <2>1. OthersSame(w) /\ worker'[w].at \notin Replacing
    BY <1>8, SummariseFacts DEF Replacing
  <2>2. QED
    BY <1>8, <2>1, SetsKeptOutside DEF Summarise
<1>9. ASSUME NEW w \in Workers, ModelFails(w) PROVE SetInv'
  <2>1. OthersSame(w) /\ worker'[w].at \notin Replacing
    BY <1>9, EndFacts DEF ModelFails, ReadAll, On, Replacing
  <2>2. QED
    BY <1>9, <2>1, SetsKeptOutside DEF ModelFails
<1>10. ASSUME NEW w \in Workers, BeginReplace(w) PROVE SetInv'
  <2>1. open' = open
    BY <1>10 DEF BeginReplace
  <2>2. /\ \A v \in Workers \ {w} : Same(worker[v], worker'[v])
        /\ worker'[w].at = "delete"
        /\ \A s \in open : s.run \in worker'[w].seen
        /\ \A v \in Workers \ {w} : worker[v].at \in Replacing =>
              ~worker'[v].alone /\ ~worker'[w].alone
    BY <1>10, BeginReplaceFacts DEF OthersSame
  <2>3. \A u, v \in Workers :
            worker'[u].at \in Replacing /\ worker'[v].at \in Replacing /\ u # v => ~worker'[v].alone
    BY <2>2 DEF SetInv, Same
  <2>4. \A v \in Workers : worker'[v].at \in Replacing =>
            \A s \in open : s.run \in worker'[v].seen \/ (~worker'[v].alone /\ ~s.alone)
    BY <2>2 DEF SetInv, Same
  <2>5. QED
    BY <2>1, <2>3, <2>4 DEF SetInv
<1>11. ASSUME NEW w \in Workers, DeleteOpen(w) PROVE SetInv'
  <2>1. /\ OthersSame(w) /\ worker[w].at \in Replacing /\ worker'[w].alone = worker[w].alone
        /\ \A s \in open : s.run \in worker[w].seen => s.run \in worker'[w].seen
    BY <1>11, DeleteOpenFacts DEF Replacing
  <2>2. QED
    BY <1>11, <2>1, SetsKept DEF DeleteOpen, OthersSame, Same
<1>12. ASSUME NEW w \in Workers, CreateRecommendations(w) PROVE SetInv'
  <2>1. CASE Goto(w, "commit")
    <3>1. /\ OthersSame(w) /\ worker[w].at \in Replacing /\ worker'[w].alone = worker[w].alone
          /\ worker'[w].seen = worker[w].seen
      BY <1>12, <2>1, CreateFacts DEF CreateRecommendations, Replacing
    <3>2. QED
      BY <1>12, <3>1, SetsKept DEF CreateRecommendations, OthersSame, Same
  <2>2. CASE End(w, "fail")
    <3>1. OthersSame(w) /\ worker'[w].at \notin Replacing
      BY <1>12, <2>2, EndFacts DEF CreateRecommendations, On, Replacing
    <3>2. QED
      BY <1>12, <3>1, SetsKeptOutside DEF CreateRecommendations
  <2>3. QED
    BY <1>12, <2>1, <2>2 DEF CreateRecommendations
<1>13. ASSUME NEW w \in Workers, Commit(w) PROVE SetInv'
  <2>1. /\ \A v \in Workers \ {w} : Same(worker[v], worker'[v])
        /\ worker'[w].at \notin Replacing /\ worker[w].at \in Replacing
    BY <1>13, BeatenFacts DEF Commit, On, Replacing, OthersSame
  <2>2. PICK new : new = [run |-> Run(w), sources |-> worker[w].growth \cap worker[w].answers,
                          beaten |-> worker[w].beaten, alone |-> worker[w].alone]
    OBVIOUS
  <2>3. /\ open' = {s \in open : s.run \notin worker[w].seen} \cup {new}
        /\ new.alone = worker[w].alone
    BY <1>13, <2>2 DEF Commit
  <2>4. \A s \in open' : s # new => s \in open /\ ~s.alone /\ ~new.alone
    BY <2>1, <2>3 DEF SetInv
  <2>5. \A s, t \in open' : s # t => ~s.alone /\ ~t.alone
    BY <2>4 DEF SetInv
  <2>6. \A v \in Workers \ {w} : worker'[v].at \in Replacing => ~worker'[v].alone /\ ~new.alone
    BY <2>1, <2>3 DEF SetInv, Same
  <2>7. \A v \in Workers : worker'[v].at \in Replacing =>
            \A s \in open' : s.run \in worker'[v].seen \/ (~worker'[v].alone /\ ~s.alone)
    BY <2>1, <2>4, <2>6 DEF SetInv, Same
  <2>8. \A u, v \in Workers :
            worker'[u].at \in Replacing /\ worker'[v].at \in Replacing /\ u # v => ~worker'[v].alone
    BY <2>1 DEF SetInv, Same
  <2>9. QED
    BY <2>5, <2>7, <2>8 DEF SetInv
<1>14. ASSUME NEW w \in Workers, UpsertContext(w) PROVE SetInv'
  <2>1. OthersSame(w) /\ worker'[w].at \notin Replacing
    BY <1>14, BeatenFacts, EndFacts DEF UpsertContext, On, Replacing
  <2>2. QED
    BY <1>14, <2>1, SetsKeptOutside DEF UpsertContext
<1>15. ASSUME NEW w \in Workers, Report(w) PROVE SetInv'
  <2>1. OthersSame(w) /\ worker'[w].at \notin Replacing
    BY <1>15, ReportFacts, IdleFacts DEF Replacing
  <2>2. QED
    BY <1>15, <2>1, SetsKeptOutside DEF Report
<1>16. ASSUME NEW w \in Workers, BreakDeadlock(w) PROVE SetInv'
  <2>1. CASE End(w, "fail")
    <3>1. OthersSame(w) /\ worker'[w].at \notin Replacing
      BY <1>16, <2>1, EndFacts DEF BreakDeadlock, Deadlocked, On, Replacing
    <3>2. QED
      BY <1>16, <3>1, SetsKeptOutside DEF BreakDeadlock
  <2>2. CASE UNCHANGED worker
    BY <1>16, <2>2, SetsKeptAside DEF BreakDeadlock
  <2>3. QED
    BY <1>16, <2>1, <2>2 DEF BreakDeadlock
<1>17. ASSUME NEW w \in Workers, Fails(w) PROVE SetInv'
  <2>1. OthersSame(w) /\ worker'[w].at \notin Replacing
    <3>1. CASE worker[w] # Idle /\ worker' = [worker EXCEPT ![w] = Idle]
      BY <1>17, <3>1, DiesFacts, IdleFacts DEF Fails, Replacing
    <3>2. CASE worker[w].at \notin {"idle", "report", "fail"} /\ End(w, "fail")
      BY <3>2, EndFacts DEF Replacing
    <3>3. QED
      BY <1>17, <3>1, <3>2 DEF Fails
  <2>2. QED
    BY <1>17, <2>1, SetsKeptOutside DEF Fails
<1>18. ASSUME UNCHANGED vars PROVE SetInv'
  BY <1>18, SetsKeptAside DEF vars
<1>19. QED
  BY <1>1, <1>2, <1>3, <1>4, <1>5, <1>6, <1>7, <1>8, <1>9, <1>10, <1>11, <1>12, <1>13,
     <1>14, <1>15, <1>16, <1>17, <1>18, StepCases

-----------------------------------------------------------------------------
(* Evidence *)

LEMMA SameKnows ==
    ASSUME NEW a, NEW b, Same(a, b), NEW z
    PROVE  Knows(a, z) => Knows(b, z)
  BY DEF Same, Knows, Active

\* A job that has run is one that was enqueued.
LEMMA SettledEvidence ==
    ASSUME TypeInv, Enqueued, NEW z \in Quizzes, NEW kind \in {"recommend", "context"},
           Settled(kind, z)
    PROVE  z \in evidence
<1>1. CASE job[ForQuiz(kind, z)].status = "COMPLETED"
  BY <1>1 DEF Enqueued
<1>2. CASE \E w \in Workers : worker[w].at = "report" /\ worker[w].job = ForQuiz(kind, z)
  BY <1>2 DEF Enqueued, Informed
<1>3. QED
  BY <1>1, <1>2 DEF Settled

\* No result is stored, and no body returns.
LEMMA FollowedKept ==
    ASSUME TypeInv, EvidenceInv, NEW z \in Quizzes, UNCHANGED <<open, context>>,
           project' # "deleted" =>
               /\ project # "deleted"
               /\ \A kind \in {"recommend", "context"} : Settled(kind, z)' => Settled(kind, z)
               /\ \A v \in Workers :
                     \/ Knows(worker'[v], z)
                     \/ /\ worker'[v].job = worker[v].job
                        /\ z \in evidence /\ Knows(worker[v], z) => Knows(worker'[v], z)
    PROVE  Followed(z)'
<1> SUFFICES ASSUME project' # "deleted"
             PROVE  /\ Settled("recommend", z)' => Recommended(z)'
                    /\ Settled("context", z)' => Curated(z)'
  BY DEF Followed
<1>1. Followed(z) /\ Enqueued
  BY DEF EvidenceInv
<1>2. ASSUME Settled("recommend", z)' PROVE Recommended(z)'
  <2>1. Settled("recommend", z) /\ z \in evidence /\ Recommended(z)
    BY <1>1, <1>2, SettledEvidence DEF Followed
  <2>2. \A v \in Workers : ~Refreshes(worker'[v].job) => Knows(worker'[v], z)
    BY <2>1 DEF Recommended
  <2>3. QED
    BY <2>1, <2>2 DEF Recommended
<1>3. ASSUME Settled("context", z)' PROVE Curated(z)'
  <2>1. Settled("context", z) /\ z \in evidence /\ Curated(z)
    BY <1>1, <1>3, SettledEvidence DEF Followed
  <2>2. \A v \in Workers : Refreshes(worker'[v].job) => Knows(worker'[v], z)
    BY <2>1 DEF Curated
  <2>3. QED
    BY <2>1, <2>2 DEF Curated
<1>4. QED
  BY <1>2, <1>3

\* Nothing is enqueued, no worker moves and no result is stored.
LEMMA EvidenceKeptAside ==
    ASSUME TypeInv, EvidenceInv, UNCHANGED <<worker, open, context>>,
           evidence \subseteq evidence', evidence' # {} => concepts',
           project' # "deleted" => project # "deleted",
           job' \in [Jobs -> [status : JobStatus, attempts : Attempts]],
           \A j \in Jobs : job'[j].status = "COMPLETED" => job[j].status = "COMPLETED",
           \A z \in Quizzes, kind \in {"recommend", "context"} :
               job'[ForQuiz(kind, z)].status # "NONE" =>
                   job[ForQuiz(kind, z)].status # "NONE" \/ z \in evidence
    PROVE  EvidenceInv'
<1>1. \A z \in Quizzes, v \in Workers : Informed(worker[v], z)'
  BY DEF EvidenceInv, Enqueued, Informed
<1>2. Enqueued'
  BY <1>1 DEF EvidenceInv, Enqueued
<1>3. ASSUME NEW z \in Quizzes PROVE Followed(z)'
  <2>1. \A kind \in {"recommend", "context"} : Settled(kind, z)' => Settled(kind, z)
    BY JobFacts DEF Settled
  <2>2. QED
    BY <2>1, FollowedKept
<1>4. QED
  BY <1>2, <1>3 DEF EvidenceInv

\* One worker goes on: what is left to show of its own run.
Goes(w) ==
    /\ OthersSame(w) /\ worker'[w].job = worker[w].job
    /\ UNCHANGED <<job, evidence, concepts, project>>

LEMMA EnqueuedKept ==
    ASSUME Enqueued, NEW w \in Workers, Goes(w), \A z \in Quizzes : Informed(worker[w], z)'
    PROVE  Enqueued'
<1>1. \A z \in Quizzes, v \in Workers \ {w} : Informed(worker[v], z)'
  BY DEF Enqueued, Goes, OthersSame, Same, Informed, Active
<1>2. QED
  BY <1>1 DEF Enqueued, Goes

LEMMA EvidenceKept ==
    ASSUME TypeInv, EvidenceInv, NEW w \in Workers, Goes(w), UNCHANGED <<open, context>>,
           worker'[w].at # "report",
           \A z \in Quizzes : Informed(worker[w], z)',
           \A z \in Quizzes : z \in evidence /\ Knows(worker[w], z) => Knows(worker'[w], z)
    PROVE  EvidenceInv'
<1>1. Enqueued'
  BY EnqueuedKept DEF EvidenceInv
<1>2. ASSUME NEW z \in Quizzes PROVE Followed(z)'
  <2>1. \A kind \in {"recommend", "context"} : Settled(kind, z)' => Settled(kind, z)
    BY DEF Settled, Goes, OthersSame, Same
  <2>2. \A v \in Workers :
            worker'[v].job = worker[v].job /\ (z \in evidence /\ Knows(worker[v], z) => Knows(worker'[v], z))
    <3>1. \A v \in Workers \ {w} : worker'[v].job = worker[v].job /\ (Knows(worker[v], z) => Knows(worker'[v], z))
      BY SameKnows DEF Goes, OthersSame, Same
    <3>2. QED
      BY <3>1 DEF Goes
  <2>3. QED
    BY <2>1, <2>2, FollowedKept DEF Goes
<1>3. QED
  BY <1>1, <1>2 DEF EvidenceInv

\* The body of a run throws.
LEMMA EvidenceKeptFailing ==
    ASSUME TypeInv, EvidenceInv, NEW w \in Workers, worker[w].at # "idle", End(w, "fail"),
           UNCHANGED <<job, evidence, concepts, project, open, context>>
    PROVE  EvidenceInv'
<1>1. /\ OthersSame(w) /\ worker'[w].at = "fail" /\ worker'[w].job = worker[w].job
      /\ ~Active(worker'[w])
  BY EndFacts
<1>2. Goes(w)
  BY <1>1 DEF Goes
<1>3. \A z \in Quizzes : Informed(worker[w], z)'
  BY <1>1 DEF EvidenceInv, Enqueued, Informed, Active
<1>4. \A z \in Quizzes : Knows(worker'[w], z)
  BY <1>1 DEF Knows
<1>5. QED
  BY <1>1, <1>2, <1>3, <1>4, EvidenceKept

\* A worker lets go of its run, or reports one that has returned.
LEMMA EvidenceKeptIdle ==
    ASSUME TypeInv, EvidenceInv, NEW w \in Workers, OthersSame(w), worker'[w] = Idle,
           UNCHANGED <<evidence, concepts, project, open, context>>,
           \A j \in Jobs : job'[j].status = job[j].status
                \/ (j = worker[w].job /\ (job'[j].status = "COMPLETED" => worker[w].at = "report"))
    PROVE  EvidenceInv'
<1>1. \A z \in Quizzes, v \in Workers : Informed(worker[v], z)'
  <2>1. \A z \in Quizzes : Informed(worker[w], z)'
    BY IdleFacts, JobFacts, JobAssumption DEF Informed
  <2>2. \A z \in Quizzes, v \in Workers \ {w} : Informed(worker[v], z)'
    BY DEF EvidenceInv, Enqueued, OthersSame, Same, Informed, Active
  <2>3. QED
    BY <2>1, <2>2
<1>2. \A z \in Quizzes, kind \in {"recommend", "context"} :
          job'[ForQuiz(kind, z)].status # "NONE" => z \in evidence
  BY JobFacts DEF EvidenceInv, Enqueued, Informed
<1>3. ASSUME NEW z \in Quizzes PROVE Followed(z)'
  <2>1. \A kind \in {"recommend", "context"} : Settled(kind, z)' => Settled(kind, z)
    BY JobFacts, IdleFacts DEF Settled, OthersSame, Same
  <2>2. \A v \in Workers \ {w} : worker'[v].job = worker[v].job /\ (Knows(worker[v], z) => Knows(worker'[v], z))
    BY SameKnows DEF OthersSame, Same
  <2>3. Knows(worker'[w], z)
    BY IdleFacts DEF Knows
  <2>4. QED
    BY <2>1, <2>2, <2>3, FollowedKept
<1>4. QED
  BY <1>1, <1>2, <1>3 DEF EvidenceInv, Enqueued

LEMMA InitEvidence == Init => EvidenceInv
<1> SUFFICES ASSUME Init PROVE EvidenceInv
  OBVIOUS
<1>1. Enqueued
  BY IdleFacts, JobFacts, JobAssumption DEF Init, Enqueued, Informed
<1>2. \A z \in Quizzes, kind \in {"recommend", "context"} : ~Settled(kind, z)
  BY IdleFacts, JobFacts DEF Init, Settled
<1>3. QED
  BY <1>1, <1>2 DEF EvidenceInv, Followed

LEMMA ClaimEvidence ==
    ASSUME TypeInv, EvidenceInv, NEW w \in Workers, Claim(w)
    PROVE  EvidenceInv'
<1>1. PICK j \in Jobs :
        /\ job[j].status = "WAITING"
        /\ job'[j].status = "RUNNING" /\ \A i \in Jobs \ {j} : job'[i] = job[i]
        /\ OthersSame(w) /\ worker'[w].job = j /\ worker'[w].at \in {"read", "report"}
        /\ project # "deleted" => worker'[w].at = "read"
        /\ worker'[w].at = "read" => worker'[w].todo = Reads
  BY ClaimFacts
<1>2. UNCHANGED <<evidence, concepts, project, open, context>>
  BY DEF Claim, learner
<1>3. "growth" \in Reads /\ "answers" \in Reads
  BY DEF Reads
<1>4. \A z \in Quizzes, kind \in {"recommend", "context"} :
          job'[ForQuiz(kind, z)].status # "NONE" => z \in evidence
  <2>1. \A i \in Jobs : job'[i].status # "NONE" => job[i].status # "NONE"
    BY <1>1
  <2>2. QED
    BY <2>1, JobFacts DEF EvidenceInv, Enqueued
<1>5. \A z \in Quizzes, v \in Workers : Informed(worker[v], z)'
  <2>1. \A z \in Quizzes : Informed(worker[w], z)'
    BY <1>1, <1>2, <1>3 DEF EvidenceInv, Enqueued, Informed, Active
  <2>2. \A z \in Quizzes, v \in Workers \ {w} : Informed(worker[v], z)'
    BY <1>1, <1>2 DEF EvidenceInv, Enqueued, OthersSame, Same, Informed, Active
  <2>3. QED
    BY <2>1, <2>2
<1>6. ASSUME NEW z \in Quizzes PROVE Followed(z)'
  <2>1. project' # "deleted" =>
            \A kind \in {"recommend", "context"} : Settled(kind, z)' => Settled(kind, z)
    BY <1>1, <1>2, JobFacts DEF Settled, OthersSame, Same
  <2>2. \A v \in Workers \ {w} : worker'[v].job = worker[v].job /\ (Knows(worker[v], z) => Knows(worker'[v], z))
    BY <1>1, SameKnows DEF OthersSame, Same
  <2>3. Knows(worker'[w], z)
    BY <1>1, <1>3 DEF Knows, Active
  <2>4. QED
    BY <1>2, <2>1, <2>2, <2>3, FollowedKept
<1>7. QED
  BY <1>2, <1>4, <1>5, <1>6 DEF EvidenceInv, Enqueued

LEMMA ReadEvidence ==
    ASSUME TypeInv, EvidenceInv, NEW w \in Workers, Read(w)
    PROVE  EvidenceInv'
<1>1. /\ OthersSame(w) /\ worker[w].at = "read" /\ worker'[w].at = "read"
      /\ worker'[w].job = worker[w].job /\ worker'[w].beaten = worker[w].beaten
      /\ \/ /\ worker'[w].todo = worker[w].todo \ {"growth"}
            /\ worker'[w].growth = evidence /\ worker'[w].known = concepts
            /\ worker'[w].answers = worker[w].answers
         \/ /\ worker'[w].todo = worker[w].todo \ {"answers"}
            /\ worker'[w].growth = worker[w].growth /\ worker'[w].known = worker[w].known
            /\ worker'[w].answers = evidence
  BY ReadFacts
<1>2. UNCHANGED <<job, evidence, concepts, project, open, context>>
  BY DEF Read, learner
<1>3. Goes(w)
  BY <1>1, <1>2 DEF Goes
<1>4. concepts \in BOOLEAN /\ (evidence # {} => concepts)
  BY DEF TypeInv, TypeOK, EvidenceInv, Enqueued
<1>5. ASSUME NEW z \in Quizzes PROVE Informed(worker[w], z)'
  <2>1. Informed(worker[w], z)
    BY DEF EvidenceInv, Enqueued
  <2>2. QED
    BY <1>1, <1>2, <1>4, <2>1 DEF Informed, Active
<1>6. ASSUME NEW z \in Quizzes, z \in evidence, Knows(worker[w], z) PROVE Knows(worker'[w], z)
  BY <1>1, <1>6 DEF Knows, Active
<1>7. QED
  BY <1>1, <1>2, <1>3, <1>5, <1>6, EvidenceKept

\* A run that goes on with what it has read.
LEMMA CarriesEvidence ==
    ASSUME TypeInv, EvidenceInv, NEW w \in Workers, OthersSame(w), Active(worker[w]),
           Carries(worker[w], worker'[w]), worker[w].todo = {}, worker'[w].at # "report",
           UNCHANGED <<job, evidence, concepts, project, open, context>>
    PROVE  EvidenceInv'
<1>1. Goes(w)
  BY DEF Goes, Carries
<1>2. ASSUME NEW z \in Quizzes PROVE Informed(worker[w], z)'
  <2>1. Informed(worker[w], z)
    BY DEF EvidenceInv, Enqueued
  <2>2. QED
    BY <2>1 DEF Informed, Active, Carries
<1>3. \A z \in Quizzes : Knows(worker[w], z) => Knows(worker'[w], z)
  BY DEF Knows, Carries
<1>4. QED
  BY <1>1, <1>2, <1>3, EvidenceKept

LEMMA NothingEvidence ==
    ASSUME TypeInv, EvidenceInv, NEW w \in Workers, NothingToRecommend(w)
    PROVE  EvidenceInv'
<1>1. /\ worker[w].at = "read" /\ worker[w].todo = {} /\ ~worker[w].known
      /\ ~Refreshes(worker[w].job)
      /\ UNCHANGED <<job, evidence, concepts, project, open, context>>
  BY DEF NothingToRecommend, ReadAll, On, learner
<1>2. /\ OthersSame(w) /\ worker'[w].at = "report" /\ worker'[w].job = worker[w].job
      /\ ~Active(worker'[w])
  BY <1>1, EndFacts DEF NothingToRecommend
<1>3. \A z \in Quizzes, kind \in {"recommend", "context"} : worker[w].job # ForQuiz(kind, z)
  <2>1. TAKE z \in Quizzes, kind \in {"recommend", "context"}
  <2>2. Informed(worker[w], z)
    BY DEF EvidenceInv, Enqueued
  <2>3. QED
    BY <1>1, <2>2 DEF Informed, Active
<1>4. Goes(w)
  BY <1>1, <1>2 DEF Goes
<1>5. Enqueued'
  <2>1. \A z \in Quizzes : Informed(worker[w], z)'
    BY <1>1, <1>2, <1>3 DEF Informed
  <2>2. QED
    BY <1>4, <2>1, EnqueuedKept DEF EvidenceInv
<1>6. ASSUME NEW z \in Quizzes PROVE Followed(z)'
  <2>1. \A kind \in {"recommend", "context"} : Settled(kind, z)' => Settled(kind, z)
    BY <1>1, <1>2, <1>3 DEF Settled, OthersSame, Same
  <2>2. \A v \in Workers \ {w} : worker'[v].job = worker[v].job /\ (Knows(worker[v], z) => Knows(worker'[v], z))
    BY <1>2, SameKnows DEF OthersSame, Same
  <2>3. Knows(worker'[w], z)
    BY <1>2 DEF Knows
  <2>4. QED
    BY <1>1, <2>1, <2>2, <2>3, FollowedKept
<1>7. QED
  BY <1>5, <1>6 DEF EvidenceInv

\* A run returns from a stored result: those of its kind that have read before do
\* not count any more.
LEMMA StoredFacts ==
    ASSUME TypeInv, EvidenceInv, NEW w \in Workers, Active(worker[w]), NEW refreshes \in BOOLEAN,
           Refreshes(worker[w].job) = refreshes, worker' = Beaten(w, refreshes),
           UNCHANGED <<job, evidence, concepts, project>>, NEW z \in Quizzes
    PROVE  /\ Enqueued'
           /\ \A kind \in {"recommend", "context"} :
                 Settled(kind, z)' => Settled(kind, z) \/ worker[w].job = ForQuiz(kind, z)
           /\ \A v \in Workers : worker'[v].job = worker[v].job
           /\ \A v \in Workers : Refreshes(worker[v].job) = refreshes => Knows(worker'[v], z)
           /\ \A v \in Workers : Knows(worker[v], z) => Knows(worker'[v], z)
<1>1. /\ OthersSame(w) /\ worker'[w].at = "report" /\ worker'[w].job = worker[w].job
      /\ ~Active(worker'[w])
      /\ \A v \in Workers \ {w} : HasRead(v) /\ Refreshes(worker[v].job) = refreshes => worker'[v].beaten
  BY BeatenFacts DEF Active
<1>2. Goes(w)
  BY <1>1 DEF Goes
<1>3. Enqueued'
  <2>1. \A y \in Quizzes : Informed(worker[w], y)'
    BY <1>1 DEF EvidenceInv, Enqueued, Informed
  <2>2. QED
    BY <1>2, <2>1, EnqueuedKept DEF EvidenceInv
<1>4. \A kind \in {"recommend", "context"} :
          Settled(kind, z)' => Settled(kind, z) \/ worker[w].job = ForQuiz(kind, z)
  BY <1>1 DEF Settled, OthersSame, Same
<1>5. \A v \in Workers : worker'[v].job = worker[v].job
  BY <1>1 DEF OthersSame, Same
<1>6. \A v \in Workers : Knows(worker[v], z) => Knows(worker'[v], z)
  BY <1>1, SameKnows DEF OthersSame, Knows
<1>7. ASSUME NEW v \in Workers, Refreshes(worker[v].job) = refreshes PROVE Knows(worker'[v], z)
  <2>1. CASE v = w
    BY <1>1, <2>1 DEF Knows
  <2>2. CASE v # w /\ HasRead(v)
    BY <1>1, <1>7, <2>2 DEF Knows
  <2>3. CASE v # w /\ ~HasRead(v)
    <3>1. Same(worker[v], worker'[v])
      BY <1>1, <2>3 DEF OthersSame
    <3>2. CASE ~Active(worker[v])
      BY <3>1, <3>2 DEF Knows, Active, Same
    <3>3. CASE Active(worker[v])
      <4>1. "growth" \in worker[v].todo /\ "answers" \in worker[v].todo
        BY <2>3, <3>3 DEF HasRead, Active, Reads
      <4>2. QED
        BY <3>1, <4>1 DEF Knows, Same
    <3>4. QED
      BY <3>2, <3>3
  <2>4. QED
    BY <2>1, <2>2, <2>3
<1>8. QED
  BY <1>3, <1>4, <1>5, <1>6, <1>7

LEMMA CommitEvidence ==
    ASSUME TypeInv, EvidenceInv, NEW w \in Workers, Commit(w)
    PROVE  EvidenceInv'
<1>1. /\ worker[w].at = "commit" /\ Active(worker[w]) /\ worker' = Beaten(w, FALSE)
      /\ UNCHANGED <<job, evidence, concepts, project, context>>
  BY DEF Commit, On, Active, learner
<1>2. worker[w].todo = {} /\ Refreshes(worker[w].job) = FALSE
  BY <1>1 DEF TypeInv, InOrder, Replacing, Refreshes
<1>3. PICK new : /\ new.sources = worker[w].growth \cap worker[w].answers /\ new.beaten = worker[w].beaten
                 /\ new \in open'
  <2>1. PICK new : new = [run |-> Run(w), sources |-> worker[w].growth \cap worker[w].answers,
                          beaten |-> worker[w].beaten, alone |-> worker[w].alone]
    OBVIOUS
  <2>2. new \in open' /\ new.sources = worker[w].growth \cap worker[w].answers /\ new.beaten = worker[w].beaten
    BY <2>1 DEF Commit
  <2>3. QED
    BY <2>2
<1>4. ASSUME NEW z \in Quizzes PROVE Enqueued' /\ Followed(z)'
  <2>1. /\ Enqueued'
        /\ \A kind \in {"recommend", "context"} :
              Settled(kind, z)' => Settled(kind, z) \/ worker[w].job = ForQuiz(kind, z)
        /\ \A v \in Workers : worker'[v].job = worker[v].job
        /\ \A v \in Workers : Refreshes(worker[v].job) = FALSE => Knows(worker'[v], z)
        /\ \A v \in Workers : Knows(worker[v], z) => Knows(worker'[v], z)
    BY <1>1, <1>2, StoredFacts
  <2>2. ASSUME project' # "deleted", Settled("recommend", z)' PROVE Recommended(z)'
    <3>1. z \in new.sources \/ new.beaten
      <4>1. CASE Settled("recommend", z)
        <5>1. Knows(worker[w], z)
          BY <1>1, <1>2, <2>2, <4>1 DEF EvidenceInv, Followed, Recommended
        <5>2. QED
          BY <1>1, <1>2, <1>3, <5>1 DEF Knows
      <4>2. CASE worker[w].job = ForQuiz("recommend", z)
        BY <1>1, <1>2, <1>3, <4>2 DEF EvidenceInv, Enqueued, Informed
      <4>3. QED
        BY <2>1, <2>2, <4>1, <4>2
    <3>2. \A v \in Workers : ~Refreshes(worker'[v].job) => Knows(worker'[v], z)
      BY <2>1 DEF Refreshes
    <3>3. QED
      BY <1>3, <3>1, <3>2 DEF Recommended
  <2>3. ASSUME project' # "deleted", Settled("context", z)' PROVE Curated(z)'
    <3>1. Settled("context", z)
      BY <1>2, <2>1, <2>3, JobFacts
    <3>2. Curated(z)
      BY <1>1, <2>3, <3>1 DEF EvidenceInv, Followed
    <3>3. QED
      BY <1>1, <2>1, <3>2 DEF Curated
  <2>4. QED
    BY <2>1, <2>2, <2>3 DEF Followed
<1>5. CASE Quizzes = {}
  <2>1. Enqueued'
    BY <1>1, <1>5 DEF EvidenceInv, Enqueued
  <2>2. QED
    BY <1>5, <2>1 DEF EvidenceInv
<1>6. QED
  BY <1>4, <1>5 DEF EvidenceInv

LEMMA UpsertEvidence ==
    ASSUME TypeInv, EvidenceInv, NEW w \in Workers, UpsertContext(w)
    PROVE  EvidenceInv'
<1>1. /\ worker[w].at = "upsert" /\ Active(worker[w])
      /\ UNCHANGED <<job, evidence, concepts, project, open>>
  BY DEF UpsertContext, On, Active, learner
<1>2. worker[w].todo = {} /\ Refreshes(worker[w].job) = TRUE
  BY <1>1 DEF TypeInv, InOrder, Replacing, Refreshes
<1>3. CASE End(w, "fail") /\ UNCHANGED context
  BY <1>1, <1>3, EvidenceKeptFailing
<1>4. CASE /\ context' = [growth |-> worker[w].growth, mistakes |-> worker[w].answers,
                          summary |-> Summary(w), beaten |-> worker[w].beaten]
           /\ worker' = Beaten(w, TRUE)
  <2>1. /\ context'.growth = worker[w].growth /\ context'.mistakes = worker[w].answers
        /\ context'.beaten = worker[w].beaten
    BY <1>4
  <2>2. ASSUME NEW z \in Quizzes PROVE Enqueued' /\ Followed(z)'
    <3>1. /\ Enqueued'
          /\ \A kind \in {"recommend", "context"} :
                Settled(kind, z)' => Settled(kind, z) \/ worker[w].job = ForQuiz(kind, z)
          /\ \A v \in Workers : worker'[v].job = worker[v].job
          /\ \A v \in Workers : Refreshes(worker[v].job) = TRUE => Knows(worker'[v], z)
          /\ \A v \in Workers : Knows(worker[v], z) => Knows(worker'[v], z)
      BY <1>1, <1>2, <1>4, StoredFacts
    <3>2. ASSUME project' # "deleted", Settled("context", z)' PROVE Curated(z)'
      <4>1. z \in context'.growth \cap context'.mistakes \/ context'.beaten
        <5>1. CASE Settled("context", z)
          <6>1. Knows(worker[w], z)
            BY <1>1, <1>2, <3>2, <5>1 DEF EvidenceInv, Followed, Curated
          <6>2. QED
            BY <1>1, <1>2, <2>1, <6>1 DEF Knows
        <5>2. CASE worker[w].job = ForQuiz("context", z)
          BY <1>1, <1>2, <2>1, <5>2 DEF EvidenceInv, Enqueued, Informed
        <5>3. QED
          BY <3>1, <3>2, <5>1, <5>2
      <4>2. \A v \in Workers : Refreshes(worker'[v].job) => Knows(worker'[v], z)
        BY <3>1 DEF Refreshes
      <4>3. QED
        BY <4>1, <4>2 DEF Curated
    <3>3. ASSUME project' # "deleted", Settled("recommend", z)' PROVE Recommended(z)'
      <4>1. Settled("recommend", z)
        BY <1>2, <3>1, <3>3, JobFacts
      <4>2. Recommended(z)
        BY <1>1, <3>3, <4>1 DEF EvidenceInv, Followed
      <4>3. QED
        BY <1>1, <3>1, <4>2 DEF Recommended
    <3>4. QED
      BY <3>1, <3>2, <3>3 DEF Followed
  <2>3. CASE Quizzes = {}
    <3>1. Enqueued'
      BY <1>1, <2>3 DEF EvidenceInv, Enqueued
    <3>2. QED
      BY <2>3, <3>1 DEF EvidenceInv
  <2>4. QED
    BY <2>2, <2>3 DEF EvidenceInv
<1>5. QED
  BY <1>3, <1>4 DEF UpsertContext

LEMMA NextEvidence == TypeInv /\ EvidenceInv /\ [Next]_vars => EvidenceInv'
<1> SUFFICES ASSUME TypeInv, EvidenceInv, [Next]_vars PROVE EvidenceInv'
  OBVIOUS
<1> USE DEF learner
<1>0. /\ job \in [Jobs -> [status : JobStatus, attempts : Attempts]]
      /\ evidence # {} => concepts
      /\ \A z \in Quizzes, kind \in {"recommend", "context"} :
            job[ForQuiz(kind, z)].status # "NONE" => z \in evidence
  BY DEF TypeInv, TypeOK, EvidenceInv, Enqueued
<1>1. ASSUME ExtractConcepts PROVE EvidenceInv'
  BY <1>0, <1>1, EvidenceKeptAside DEF ExtractConcepts
<1>2. ASSUME RequestRecommendations PROVE EvidenceInv'
  <2>1. PICK m \in Minutes : m = minute
    BY DEF TypeInv, TypeOK
  <2>2. UNCHANGED <<worker, project, concepts, evidence, open, context>> /\ Enqueue(Manual(m))
    BY <1>2, <2>1 DEF RequestRecommendations
  <2>3. /\ job' \in [Jobs -> [status : JobStatus, attempts : Attempts]]
        /\ \A i \in Jobs \ {Manual(m)} : job'[i] = job[i]
        /\ job'[Manual(m)] = job[Manual(m)] \/ job'[Manual(m)].status = "WAITING"
    BY <2>2, EnqueueKeeps, JobFacts
  <2>4. \A i \in Jobs : job'[i].status = "COMPLETED" => job[i].status = "COMPLETED"
    BY <2>3
  <2>5. \A z \in Quizzes, kind \in {"recommend", "context"} : job'[ForQuiz(kind, z)] = job[ForQuiz(kind, z)]
    BY <2>3, JobFacts
  <2>6. QED
    BY <1>0, <2>2, <2>3, <2>4, <2>5, EvidenceKeptAside
<1>3. ASSUME NextMinute PROVE EvidenceInv'
  BY <1>0, <1>3, EvidenceKeptAside DEF NextMinute
<1>4. ASSUME DeleteProject PROVE EvidenceInv'
  BY <1>0, <1>4, EvidenceKeptAside DEF DeleteProject
<1>5. ASSUME CascadeDelete PROVE EvidenceInv'
  <2>1. UNCHANGED <<worker, job, concepts, evidence>> /\ project' = "deleted"
    BY <1>5 DEF CascadeDelete
  <2>2. Enqueued'
    BY <2>1 DEF EvidenceInv, Enqueued, Informed
  <2>3. QED
    BY <2>1, <2>2 DEF EvidenceInv, Followed
<1>6. ASSUME NEW z \in Quizzes, AnswerQuiz(z) PROVE EvidenceInv'
  BY <1>0, <1>6, EvidenceKeptAside DEF AnswerQuiz
<1>7. ASSUME NEW z \in Quizzes, EvaluateQuiz(z) PROVE EvidenceInv'
  <2>1. PICK k \in {"recommend", "context"} : Enqueue(ForQuiz(k, z))
    BY <1>7 DEF EvaluateQuiz
  <2>2. PICK j \in Jobs : j = ForQuiz(k, z)
    BY JobFacts
  <2>3. UNCHANGED <<worker, project, concepts, evidence, open, context>> /\ z \in evidence
    BY <1>7 DEF EvaluateQuiz
  <2>4. /\ job' \in [Jobs -> [status : JobStatus, attempts : Attempts]]
        /\ \A i \in Jobs \ {j} : job'[i] = job[i]
        /\ job'[j] = job[j] \/ job'[j].status = "WAITING"
    BY <2>1, <2>2, <2>3, EnqueueKeeps
  <2>5. \A i \in Jobs : job'[i].status = "COMPLETED" => job[i].status = "COMPLETED"
    BY <2>4
  <2>6. \A y \in Quizzes, kind \in {"recommend", "context"} :
            job'[ForQuiz(kind, y)] = job[ForQuiz(kind, y)] \/ y \in evidence
    BY <2>2, <2>3, <2>4, JobFacts
  <2>7. QED
    BY <1>0, <2>3, <2>4, <2>5, <2>6, EvidenceKeptAside
<1>8. ASSUME NEW w \in Workers, Claim(w) PROVE EvidenceInv'
  BY <1>8, ClaimEvidence
<1>9. ASSUME NEW w \in Workers, Read(w) PROVE EvidenceInv'
  BY <1>9, ReadEvidence
<1>10. ASSUME NEW w \in Workers, NothingToRecommend(w) PROVE EvidenceInv'
  BY <1>10, NothingEvidence
<1>11. ASSUME NEW w \in Workers, Summarise(w) PROVE EvidenceInv'
  <2>1. /\ OthersSame(w) /\ Active(worker[w]) /\ Carries(worker[w], worker'[w])
        /\ worker[w].todo = {} /\ worker'[w].at # "report"
    BY <1>11, SummariseFacts DEF Active, Carries
  <2>2. QED
    BY <1>11, <2>1, CarriesEvidence DEF Summarise
<1>12. ASSUME NEW w \in Workers, ModelFails(w) PROVE EvidenceInv'
  BY <1>12, EvidenceKeptFailing DEF ModelFails, ReadAll, On
<1>13. ASSUME NEW w \in Workers, BeginReplace(w) PROVE EvidenceInv'
  <2>1. /\ OthersSame(w) /\ Active(worker[w]) /\ Carries(worker[w], worker'[w])
        /\ worker[w].todo = {} /\ worker'[w].at # "report"
    BY <1>13, BeginReplaceFacts DEF Active
  <2>2. QED
    BY <1>13, <2>1, CarriesEvidence DEF BeginReplace
<1>14. ASSUME NEW w \in Workers, DeleteOpen(w) PROVE EvidenceInv'
  <2>1. /\ OthersSame(w) /\ Active(worker[w]) /\ Carries(worker[w], worker'[w])
        /\ worker[w].todo = {} /\ worker'[w].at # "report"
    BY <1>14, DeleteOpenFacts DEF Active
  <2>2. QED
    BY <1>14, <2>1, CarriesEvidence DEF DeleteOpen
<1>15. ASSUME NEW w \in Workers, CreateRecommendations(w) PROVE EvidenceInv'
  <2>1. CASE Goto(w, "commit")
    <3>1. /\ OthersSame(w) /\ Active(worker[w]) /\ Carries(worker[w], worker'[w])
          /\ worker[w].todo = {} /\ worker'[w].at # "report"
      BY <1>15, <2>1, CreateFacts DEF CreateRecommendations, Active
    <3>2. QED
      BY <1>15, <3>1, CarriesEvidence DEF CreateRecommendations
  <2>2. CASE End(w, "fail")
    BY <1>15, <2>2, EvidenceKeptFailing DEF CreateRecommendations, On
  <2>3. QED
    BY <1>15, <2>1, <2>2 DEF CreateRecommendations
<1>16. ASSUME NEW w \in Workers, Commit(w) PROVE EvidenceInv'
  BY <1>16, CommitEvidence
<1>17. ASSUME NEW w \in Workers, UpsertContext(w) PROVE EvidenceInv'
  BY <1>17, UpsertEvidence
<1>18. ASSUME NEW w \in Workers, Report(w) PROVE EvidenceInv'
  <2>1. /\ OthersSame(w) /\ worker'[w] = Idle
        /\ job'[worker[w].job].status = "COMPLETED" => worker[w].at = "report"
        /\ \A i \in Jobs \ {worker[w].job} : job'[i] = job[i]
    BY <1>18, ReportFacts
  <2>2. UNCHANGED <<evidence, concepts, project, open, context>>
    BY <1>18 DEF Report
  <2>3. \A j \in Jobs : job'[j].status = job[j].status
                \/ (j = worker[w].job /\ (job'[j].status = "COMPLETED" => worker[w].at = "report"))
    BY <2>1
  <2>4. QED
    BY <2>1, <2>2, <2>3, EvidenceKeptIdle
<1>19. ASSUME NEW w \in Workers, BreakDeadlock(w) PROVE EvidenceInv'
  <2>1. CASE End(w, "fail") /\ UNCHANGED project
    BY <1>19, <2>1, EvidenceKeptFailing DEF BreakDeadlock, Deadlocked, On
  <2>2. CASE project' = "kept" /\ UNCHANGED worker
    <3>1. project # "deleted" /\ UNCHANGED <<job, concepts, evidence, open, context>>
      BY <1>19 DEF BreakDeadlock, Deadlocked
    <3>2. QED
      BY <1>0, <2>2, <3>1, EvidenceKeptAside
  <2>3. QED
    BY <1>19, <2>1, <2>2 DEF BreakDeadlock
<1>20. ASSUME NEW w \in Workers, Fails(w) PROVE EvidenceInv'
  <2>1. CASE worker[w] # Idle /\ worker' = [worker EXCEPT ![w] = Idle]
    <3>1. OthersSame(w) /\ worker'[w] = Idle
      BY <1>20, <2>1, DiesFacts DEF Fails
    <3>2. UNCHANGED <<job, evidence, concepts, project, open, context>>
      BY <1>20 DEF Fails
    <3>3. \A j \in Jobs : job'[j].status = job[j].status
                  \/ (j = worker[w].job /\ (job'[j].status = "COMPLETED" => worker[w].at = "report"))
      BY <3>2
    <3>4. QED
      BY <3>1, <3>2, <3>3, EvidenceKeptIdle
  <2>2. CASE worker[w].at \notin {"idle", "report", "fail"} /\ End(w, "fail")
    BY <1>20, <2>2, EvidenceKeptFailing DEF Fails
  <2>3. QED
    BY <1>20, <2>1, <2>2 DEF Fails
<1>21. ASSUME NEW j \in Jobs, Reclaim(j) \/ Overrun(j) PROVE EvidenceInv'
  <2>1. UNCHANGED <<worker, project, concepts, evidence, open, context>> /\ job[j].status = "RUNNING"
    BY <1>21 DEF Reclaim, Overrun
  <2>2. /\ job' \in [Jobs -> [status : JobStatus, attempts : Attempts]]
        /\ \A i \in Jobs \ {j} : job'[i] = job[i]
        /\ job'[j].status \in {"WAITING", "DEAD"}
    BY <1>21, <2>1, ReclaimKeeps DEF Reclaim, Overrun
  <2>3. /\ \A i \in Jobs : job'[i].status = "COMPLETED" => job[i].status = "COMPLETED"
        /\ \A i \in Jobs : job'[i].status # "NONE" => job[i].status # "NONE"
    BY <2>1, <2>2
  <2>4. QED
    BY <1>0, <2>1, <2>2, <2>3, EvidenceKeptAside, JobFacts
<1>22. ASSUME UNCHANGED vars PROVE EvidenceInv'
  BY <1>0, <1>22, EvidenceKeptAside DEF vars
<1>23. QED
  BY <1>1, <1>2, <1>3, <1>4, <1>5, <1>6, <1>7, <1>8, <1>9, <1>10, <1>11, <1>12, <1>13,
     <1>14, <1>15, <1>16, <1>17, <1>18, <1>19, <1>20, <1>21, <1>22, StepCases

-----------------------------------------------------------------------------
(* Theorems *)

LEMMA Inductive == Spec => []IInv
<1>1. Init => IInv
  BY InitTypes, InitSets, InitEvidence DEF IInv
<1>2. IInv /\ [Next]_vars => IInv'
  BY NextTypes, NextSets, NextEvidence DEF IInv
<1>3. QED
  BY <1>1, <1>2, PTL DEF Spec

\* Two sets of recommendations are open at once only if the transactions that
\* stored them overlapped, whatever is retried, outlives its lock or dies.
THEOREM OneOpenSetCorrect == Spec => []OneOpenSet
<1>1. IInv => OneOpenSet
  BY DEF IInv, TypeInv, SetInv, OneOpenSet
<1>2. QED
  BY <1>1, Inductive, PTL

LEMMA SettledGuidance == IInv => GuidanceFollowsEvidence
<1> SUFFICES ASSUME IInv, NEW z \in Quizzes, Live
             PROVE  /\ job[ForQuiz("recommend", z)].status = "COMPLETED" =>
                          \E s \in open : z \in s.sources \/ s.beaten
                    /\ job[ForQuiz("context", z)].status = "COMPLETED" =>
                          z \in context.growth \cap context.mistakes \/ context.beaten
  BY DEF GuidanceFollowsEvidence
<1>1. Followed(z) /\ project # "deleted"
  BY DEF IInv, EvidenceInv, Live
<1>2. QED
  BY <1>1 DEF Followed, Settled, Recommended, Curated

\* What a completed job of a quiz left behind is made with the evidence of the
\* quiz, unless a run that had read before another one stored its result brought
\* an older one back.
THEOREM GuidanceFollowsEvidenceCorrect == Spec => []GuidanceFollowsEvidence
  BY SettledGuidance, Inductive, PTL

LEMMA StepKeepsSummary ==
    IInv /\ [Next]_vars => [context.summary > 0 => context'.summary > 0 \/ project' = "deleted"]_vars
<1> SUFFICES ASSUME IInv, [Next]_vars, context.summary > 0, project' # "deleted"
             PROVE  context'.summary > 0
  OBVIOUS
<1>1. ASSUME NEW w \in Workers, UpsertContext(w) PROVE context'.summary > 0
  <2>1. worker[w] \in Worker /\ context \in Context
    BY <1>1 DEF IInv, TypeInv, TypeOK
  <2>2. Summary(w) > 0
    BY <2>1 DEF Summary, Worker
  <2>3. context'.summary = Summary(w) \/ context' = context
    <3>1. \/ context' = [growth |-> worker[w].growth, mistakes |-> worker[w].answers,
                         summary |-> Summary(w), beaten |-> worker[w].beaten]
          \/ context' = context
      BY <1>1, Zenon DEF UpsertContext
    <3>2. QED
      BY <3>1
  <2>4. QED
    BY <2>2, <2>3
<1>2. CascadeDelete => project' = "deleted"
  BY DEF CascadeDelete
<1>3. UNCHANGED context => context'.summary > 0
  OBVIOUS
<1>4. QED
  BY <1>1, <1>2, <1>3, StepCases
     DEF ExtractConcepts, RequestRecommendations, NextMinute, DeleteProject, AnswerQuiz, EvaluateQuiz,
         Claim, Read, NothingToRecommend, Summarise, ModelFails, BeginReplace, DeleteOpen,
         CreateRecommendations, Commit, Report, BreakDeadlock, Fails, Reclaim, Overrun, vars

\* No refresh of the context loses the summary of an earlier conversation.
THEOREM SummaryNeverLostCorrect == Spec => SummaryNeverLost
  BY Inductive, StepKeepsSummary, PTL DEF Spec, SummaryNeverLost
=============================================================================
