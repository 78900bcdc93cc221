------------------------- MODULE QuizSessionProofs -------------------------
(* Theorems about QuizSession, for every value of its constants. *)
EXTENDS QuizSession, FiniteSetTheorems, TLAPS

\* Every step is one of the actions, or leaves everything as it is.
LEMMA StepCases ==
    ASSUME [Next]_vars
    PROVE  \/ \E z \in Quizzes : StartQuiz(z)
           \/ \E z \in Quizzes : ReclaimEvaluation(z)
           \/ \E r \in Requests, z \in Quizzes : CompleteQuiz(r, z)
           \/ \E r \in Requests, q \in Questions : SubmitAnswer(r, q)
           \/ \E r \in Requests : Grade(r)
           \/ \E r \in Requests : CreateAnswer(r)
           \/ \E r \in Requests : CreateEvidence(r)
           \/ \E r \in Requests : ReadEvidence(r)
           \/ \E r \in Requests : WriteMastery(r)
           \/ \E r \in Requests : Commit(r)
           \/ \E r \in Requests : BreakDeadlock(r)
           \/ \E r \in Requests : CloseQuiz(r)
           \/ \E r \in Requests : EnqueueEvaluation(r)
           \/ \E r \in Requests : RequestDies(r)
           \/ \E w \in Workers : ClaimEvaluation(w)
           \/ \E w \in Workers : EvaluateNext(w)
           \/ \E w \in Workers : EvaluateRead(w)
           \/ \E w \in Workers : EvaluateWrite(w)
           \/ \E w \in Workers : EvaluateDone(w)
           \/ \E w \in Workers : EnqueueFollowUp(w)
           \/ \E w \in Workers : Report(w)
           \/ \E w \in Workers : WorkerDies(w)
           \/ \E w \in Workers : WorkerThrows(w)
           \/ UNCHANGED vars
  BY Zenon DEF Next, RequestGoesOn, WorkerGoesOn

-----------------------------------------------------------------------------
(* Mastery and grades *)

\* computeMastery returns a percentage, whatever rows it is given.
LEMMA MasteryInRange == \A rows : ComputeMastery(rows) \in 0..100
<1> TAKE rows
<1> DEFINE total == MapThenSumSet(LAMBDA e : e.weight, rows)
<1> DEFINE score == MapThenSumSet(LAMBDA e : e.weight * e.score, rows)
<1>1. ComputeMastery(rows)
        = IF total = 0 THEN 0 ELSE Clamped((2 * score + total) \div (2 * total))
  BY Zenon DEF ComputeMastery
<1>2. \A value : Clamped(value) \in 0..100
  BY DEF Clamped
<1> HIDE DEF total, score
<1>3. QED
  BY <1>1, <1>2

\* Without evidence there is no mastery.
LEMMA NoEvidenceNoMastery == ComputeMastery({}) = 0
<1> DEFINE total == MapThenSumSet(LAMBDA e : e.weight, {})
<1> DEFINE score == MapThenSumSet(LAMBDA e : e.weight * e.score, {})
<1>1. ComputeMastery({}) = IF total = 0 THEN 0 ELSE Clamped((2 * score + total) \div (2 * total))
  BY Zenon DEF ComputeMastery
<1>2. total = 0
  BY DEF MapThenSumSet, MapThenFoldSet
<1>3. QED
  BY <1>1, <1>2, Zenon

\* The rows of an answer to question q: the first, at full weight, is about the
\* question itself.
Graded(q, rows) ==
    /\ rows \in Seq(Evidence)
    /\ Len(rows) \in 1..(1 + MaxMentions)
    /\ \A k \in 1..Len(rows) :
          rows[k].question = q /\ rows[k].n = k /\ (rows[k].weight = 2 <=> k = 1)

\* What submitAnswer writes for a grade.
LEMMA RowsAreGraded ==
    ASSUME NEW q \in Questions, NEW score \in Scores, NEW mentioned \in Mentions(q)
    PROVE  Graded(q, EvidenceRows(q, score, mentioned))
<1> USE QuizAssumption
<1>1. /\ mentioned \in Seq([concept : Concepts, score : {0, 100}])
      /\ Len(mentioned) \in 0..MaxMentions
      /\ \A i \in 1..Len(mentioned) :
            mentioned[i].concept \in Concepts /\ mentioned[i].score \in {0, 100}
  <2>1. CASE q \notin OpenEnded
    BY <2>1 DEF Mentions
  <2>2. CASE q \in OpenEnded
    <3> DEFINE mention == [concept : Concepts, score : {0, 100}]
    <3>1. PICK m \in 0..MaxMentions :
              mentioned \in [1..m -> [concept : Concepts \ {ConceptOf[q]}, score : {0, 100}]]
      BY <2>2 DEF Mentions, SeqOf
    <3>2. mentioned \in [1..m -> mention]
      BY <3>1
    <3> HIDE DEF mention
    <3>3. mentioned \in Seq(mention) /\ Len(mentioned) = m
      BY <3>2
    <3>4. \A i \in 1..m : mentioned[i].concept \in Concepts /\ mentioned[i].score \in {0, 100}
      BY <3>2 DEF mention
    <3>5. QED
      BY <3>3, <3>4 DEF mention
  <2>3. QED
    BY <2>1, <2>2
<1> DEFINE first == [question |-> q, n |-> 1, concept |-> ConceptOf[q], score |-> score,
                     weight |-> 2]
<1> DEFINE row(i) == [question |-> q, n |-> i + 1, concept |-> mentioned[i].concept,
                      score |-> mentioned[i].score, weight |-> 1]
<1> DEFINE others == [i \in DOMAIN mentioned |-> row(i)]
<1>2. first \in Evidence /\ first.question = q /\ first.n = 1 /\ first.weight = 2
  BY DEF Evidence
<1>3. \A i \in 1..Len(mentioned) :
        row(i) \in Evidence /\ row(i).question = q /\ row(i).n = i + 1 /\ row(i).weight = 1
  <2>1. TAKE i \in 1..Len(mentioned)
  <2>2. mentioned[i].concept \in Concepts /\ mentioned[i].score \in {0, 100}
    BY <1>1
  <2>3. i + 1 \in 1..(1 + MaxMentions)
    BY <1>1
  <2>4. QED
    BY <2>2, <2>3 DEF Evidence
<1>4. EvidenceRows(q, score, mentioned) = <<first>> \o others
  BY DEF EvidenceRows
<1> HIDE DEF first, row
<1>5. /\ others \in Seq(Evidence) /\ Len(others) = Len(mentioned)
      /\ \A i \in 1..Len(mentioned) : others[i] = row(i)
  <2>1. DOMAIN mentioned = 1..Len(mentioned) /\ Len(mentioned) \in Nat
    BY <1>1
  <2>2. others \in [1..Len(mentioned) -> Evidence]
    BY <1>3, <2>1
  <2>3. QED
    BY <2>1, <2>2
<1> HIDE DEF others
<1> DEFINE rows == <<first>> \o others
<1>6. /\ rows \in Seq(Evidence) /\ Len(rows) = 1 + Len(mentioned)
      /\ rows[1] = first
      /\ \A k \in 2..Len(rows) : rows[k] = others[k - 1]
  BY <1>1, <1>2, <1>5
<1> HIDE DEF rows
<1>7. \A k \in 1..Len(rows) :
          rows[k].question = q /\ rows[k].n = k /\ (rows[k].weight = 2 <=> k = 1)
  <2>1. TAKE k \in 1..Len(rows)
  <2>2. CASE k = 1
    BY <1>2, <1>6, <2>2
  <2>3. CASE k # 1
    <3>1. k \in 2..Len(rows) /\ k - 1 \in 1..Len(mentioned)
      BY <1>1, <1>6, <2>3
    <3>2. rows[k] = row(k - 1)
      BY <1>5, <1>6, <3>1
    <3>3. QED
      BY <1>3, <2>3, <3>1, <3>2
  <2>4. QED
    BY <2>2, <2>3
<1>8. QED
  BY <1>1, <1>4, <1>6, <1>7 DEF Graded, rows

-----------------------------------------------------------------------------
(* Requests *)

\* Request a has written, or is about to write, to concept c.
Touching(a, c) == a.at \in InTransaction /\ \E k \in 1..a.done : a.rows[k].concept = c

\* What a request has read and holds, at each of its statements.
InOrder(a) ==
    /\ a.at \in {"grade", "answer"} \cup InTransaction => a.question \in Questions
    /\ a.at \in {"answer"} \cup InTransaction => Graded(a.question, a.rows)
    /\ a.at \in {"close", "enqueue"} => a.quiz \in Quizzes
    /\ a.at \notin InTransaction =>
          a.done = 0 /\ \A c \in Concepts : a.written[c] = Unwritten
    /\ a.at \in InTransaction => a.done <= Len(a.rows)
    /\ a.at = "create" => a.done < Len(a.rows)
    /\ a.at = "commit" => a.done = Len(a.rows)
    /\ a.at \in {"read", "write"} => a.done >= 1 /\ a.recompute.concept = a.rows[a.done].concept
    /\ a.at \notin {"read", "write"} => a.recompute.concept = NoConcept
    /\ \A c \in Concepts : a.written[c] # Unwritten => Touching(a, c)

Orderly(a) == a \in Request /\ InOrder(a)

\* No recomputation is one with no concept.
LEMMA NoRecomputeType == NoRecompute \in Recompute /\ NoRecompute.concept = NoConcept
  BY DEF NoRecompute, Recompute

\* The statements of a request lead from one orderly record to another.
LEMMA ClosedIsOrderly ==
    /\ Orderly(Closed)
    /\ \A q \in Questions : Orderly([Closed EXCEPT !.at = "grade", !.question = q])
    /\ \A z \in Quizzes : Orderly([Closed EXCEPT !.at = "close", !.quiz = z])
<1>1. /\ Closed \in Request
      /\ \A q \in Questions : [Closed EXCEPT !.at = "grade", !.question = q] \in Request
      /\ \A z \in Quizzes : [Closed EXCEPT !.at = "close", !.quiz = z] \in Request
  <2>1. Closed \in Request
    <3>1. <<>> \in Seq(Evidence) /\ 0 \in 0..(1 + MaxMentions)
      BY QuizAssumption
    <3>2. QED
      BY <3>1, NoRecomputeType DEF Closed, Request, RequestStep
  <2>2. QED
    BY <2>1 DEF Request, RequestStep
<1>2. InOrder(Closed)
  BY DEF Closed, InOrder, InTransaction, NoRecompute
<1>3. \A q \in Questions : InOrder([Closed EXCEPT !.at = "grade", !.question = q])
  BY DEF Closed, InOrder, InTransaction, NoRecompute
<1>4. \A z \in Quizzes : InOrder([Closed EXCEPT !.at = "close", !.quiz = z])
  BY DEF Closed, InOrder, InTransaction, NoRecompute
<1>5. QED
  BY <1>1, <1>2, <1>3, <1>4 DEF Orderly

LEMMA AnswerIsOrderly ==
    ASSUME NEW a, Orderly(a), a.at = "grade", NEW rows, Graded(a.question, rows)
    PROVE  Orderly([a EXCEPT !.at = "answer", !.rows = rows])
  BY DEF Orderly, Request, RequestStep, InTransaction, InOrder, Graded

LEMMA CreateIsOrderly ==
    ASSUME NEW a, Orderly(a), a.at = "answer"
    PROVE  Orderly([a EXCEPT !.at = "create"])
<1> DEFINE b == [a EXCEPT !.at = "create"]
<1>1. /\ b \in Request
      /\ b.at = "create" /\ b.question = a.question /\ b.rows = a.rows /\ b.done = a.done
      /\ b.recompute = a.recompute /\ b.written = a.written
  BY DEF Orderly, Request, RequestStep, InTransaction
<1> HIDE DEF b
<1>2. a.done = 0 /\ Len(a.rows) \in Nat \ {0}
  BY DEF Orderly, InOrder, InTransaction, Graded
<1>3. InOrder(b)
  BY <1>1, <1>2 DEF Orderly, InOrder, InTransaction
<1>4. QED
  BY <1>1, <1>3 DEF b, Orderly

LEMMA ReadIsOrderly ==
    ASSUME NEW a, Orderly(a), a.at = "create", NEW before \in 0..100
    PROVE  /\ a.done + 1 \in 1..Len(a.rows)
           /\ a.rows[a.done + 1].concept \in Concepts
           /\ Orderly([a EXCEPT !.at = "read", !.done = a.done + 1,
                 !.recompute = [NoRecompute EXCEPT !.concept = a.rows[a.done + 1].concept,
                                                   !.before = before]])
<1> DEFINE concept == a.rows[a.done + 1].concept
<1>1. Graded(a.question, a.rows) /\ a.done \in Nat /\ a.done < Len(a.rows)
  BY DEF Orderly, InOrder, InTransaction, Request
<1>2. a.done + 1 \in 1..Len(a.rows) /\ a.done + 1 \in 0..(1 + MaxMentions)
  BY <1>1, QuizAssumption DEF Graded
<1>3. a.rows[a.done + 1] \in Evidence
  BY <1>1, <1>2 DEF Graded
<1>4. concept \in Concepts
  BY <1>3 DEF Evidence
<1> HIDE DEF concept
<1>5. PICK recompute : recompute = [NoRecompute EXCEPT !.concept = concept, !.before = before]
  OBVIOUS
<1> DEFINE b == [a EXCEPT !.at = "read", !.done = a.done + 1, !.recompute = recompute]
<1>6. /\ b \in Request
      /\ b.at = "read" /\ b.question = a.question /\ b.rows = a.rows /\ b.done = a.done + 1
      /\ b.recompute.concept = concept /\ b.written = a.written
  <2>1. recompute \in Recompute /\ recompute.concept = concept
    <3>1. recompute = [concept |-> concept, before |-> before, after |-> 0]
      BY <1>5 DEF NoRecompute
    <3>2. QED
      BY <1>4, <3>1 DEF Recompute
  <2>2. QED
    BY <1>2, <2>1 DEF Orderly, Request, RequestStep, InTransaction
<1> HIDE DEF b
<1>7. \A c : Touching(a, c) => Touching(b, c)
  BY <1>1, <1>6 DEF Touching, InTransaction
<1>8. InOrder(b)
  BY <1>1, <1>2, <1>6, <1>7 DEF Orderly, InOrder, InTransaction, concept
<1>9. QED
  BY <1>2, <1>4, <1>5, <1>6, <1>8 DEF b, concept, Orderly

\* What is known of a request that recomputes a concept.
LEMMA RecomputeIsOrderly ==
    ASSUME NEW a, Orderly(a), a.at \in {"read", "write"}
    PROVE  /\ Graded(a.question, a.rows)
           /\ a.done \in 1..Len(a.rows)
           /\ a.recompute.concept \in Concepts
           /\ a.recompute.concept = a.rows[a.done].concept
           /\ Touching(a, a.recompute.concept)
<1>1. Graded(a.question, a.rows) /\ a.done \in Nat /\ a.done >= 1 /\ a.done <= Len(a.rows)
  BY DEF Orderly, InOrder, InTransaction, Request
<1>2. a.recompute.concept = a.rows[a.done].concept
  BY DEF Orderly, InOrder, InTransaction, Request
<1>3. a.done \in 1..Len(a.rows) /\ a.done \in 1..a.done
  BY <1>1 DEF Graded
<1>4. a.rows[a.done] \in Evidence
  BY <1>1, <1>3 DEF Graded
<1>5. a.recompute.concept \in Concepts
  BY <1>2, <1>4 DEF Evidence
<1>6. QED
  BY <1>1, <1>2, <1>3, <1>5 DEF Touching, InTransaction

LEMMA WriteIsOrderly ==
    ASSUME NEW a, Orderly(a), a.at = "read", NEW after \in 0..100
    PROVE  Orderly([a EXCEPT !.at = "write", !.recompute.after = after])
<1> DEFINE recompute == [a.recompute EXCEPT !.after = after]
           b == [a EXCEPT !.at = "write", !.recompute = recompute]
<1>1. recompute \in Recompute /\ recompute.concept = a.recompute.concept
  BY DEF Orderly, Request, Recompute
<1> HIDE DEF recompute
<1>2. /\ b \in Request
      /\ b.at = "write" /\ b.question = a.question /\ b.rows = a.rows /\ b.done = a.done
      /\ b.recompute.concept = a.recompute.concept /\ b.written = a.written
  BY <1>1 DEF Orderly, Request, RequestStep, InTransaction
<1> HIDE DEF b
<1>3. \A c : Touching(a, c) => Touching(b, c)
  BY <1>2 DEF Touching, InTransaction
<1>4. InOrder(b)
  BY <1>2, <1>3, RecomputeIsOrderly DEF Orderly, InOrder, InTransaction
<1>5. [a EXCEPT !.at = "write", !.recompute.after = after] = b
  BY DEF b, recompute, Orderly, Request
<1>6. QED
  BY <1>2, <1>4, <1>5 DEF Orderly

\* A request that has recomputed a concept goes on with its next row, if there is one.
LEMMA NextRowIsOrderly ==
    ASSUME NEW a, Orderly(a), a.at \in {"read", "write"},
           NEW at, at = IF a.done = Len(a.rows) THEN "commit" ELSE "create",
           NEW written \in [Concepts -> 0..100 \cup {Unwritten}],
           \A c \in Concepts : written[c] # Unwritten =>
               a.written[c] # Unwritten \/ c = a.recompute.concept
    PROVE  Orderly([a EXCEPT !.at = at, !.recompute = NoRecompute, !.written = written])
<1> DEFINE b == [a EXCEPT !.at = at, !.recompute = NoRecompute, !.written = written]
<1>1. /\ b \in Request
      /\ b.at = at /\ b.question = a.question /\ b.rows = a.rows /\ b.done = a.done
      /\ b.recompute.concept = NoConcept /\ b.written = written
  BY NoRecomputeType DEF Orderly, Request, RequestStep, InTransaction
<1> HIDE DEF b
<1>2. \A c : Touching(a, c) => Touching(b, c)
  BY <1>1 DEF Touching, InTransaction
<1>3. a.done <= Len(a.rows) /\ a.done \in Nat /\ Len(a.rows) \in Nat
  BY DEF Orderly, InOrder, InTransaction, Request
<1>4. InOrder(b)
  BY <1>1, <1>2, <1>3, RecomputeIsOrderly DEF Orderly, InOrder, InTransaction
<1>5. QED
  BY <1>1, <1>4 DEF b, Orderly

LEMMA EnqueueIsOrderly ==
    ASSUME NEW a, Orderly(a), a.at = "close"
    PROVE  Orderly([a EXCEPT !.at = "enqueue"])
  BY DEF Orderly, Request, RequestStep, InTransaction, InOrder

\* The requests after a step.
Orderlies == request \in [Requests -> Request] /\ \A r \in Requests : InOrder(request[r])

LEMMA GradeIsOrderly ==
    ASSUME Orderlies, NEW r \in Requests, Grade(r)
    PROVE  Orderlies'
<1> DEFINE q == request[r].question
<1>1. Orderly(request[r]) /\ At(r, "grade") /\ q \in Questions
  BY DEF Orderlies, Orderly, InOrder, Grade, At
<1>2. ASSUME NEW a, Orderly(a), request' = [request EXCEPT ![r] = a]
      PROVE  Orderlies'
  BY <1>2 DEF Orderlies, Orderly
<1>3. CASE \E score \in Scores, mentioned \in Mentions(q) :
             request' = [request EXCEPT ![r].at = "answer",
                                        ![r].rows = EvidenceRows(q, score, mentioned)]
  <2>1. PICK score \in Scores, mentioned \in Mentions(q) :
             request' = [request EXCEPT ![r].at = "answer",
                                        ![r].rows = EvidenceRows(q, score, mentioned)]
    BY <1>3
  <2>2. Orderly([request[r] EXCEPT !.at = "answer", !.rows = EvidenceRows(q, score, mentioned)])
    BY <1>1, RowsAreGraded, AnswerIsOrderly DEF At
  <2>3. QED
    BY <1>2, <2>1, <2>2
<1>4. CASE Close(r)
  BY <1>2, <1>4, ClosedIsOrderly DEF Close
<1>5. QED
  BY <1>3, <1>4 DEF Grade

\* The other statements of a request.
LEMMA ReadyToRead ==
    ASSUME Orderlies, mastery \in [Concepts -> 0..100], NEW r \in Requests, CreateEvidence(r)
    PROVE  Orderlies'
<1> DEFINE a == request[r]
           c == a.rows[a.done + 1].concept
<1>1. Orderly(a) /\ a.at = "create" /\ a.written \in [Concepts -> 0..100 \cup {Unwritten}]
  BY DEF Orderlies, Orderly, CreateEvidence, At, Request
<1>2. c \in Concepts
  <2>1. 0 \in 0..100
    OBVIOUS
  <2>2. QED
    BY <1>1, <2>1, ReadIsOrderly
<1>3. MasterySeen(r, c) \in 0..100
  BY <1>1, <1>2 DEF MasterySeen
<1>4. PICK b : /\ b = [a EXCEPT !.at = "read", !.done = a.done + 1,
                         !.recompute = [NoRecompute EXCEPT !.concept = c, !.before = MasterySeen(r, c)]]
               /\ request' = [request EXCEPT ![r] = b]
  BY DEF CreateEvidence
<1>5. Orderly(b)
  BY <1>1, <1>3, <1>4, ReadIsOrderly
<1>6. QED
  BY <1>4, <1>5 DEF Orderlies, Orderly

LEMMA ReadyToWrite ==
    ASSUME Orderlies, NEW r \in Requests, ReadEvidence(r)
    PROVE  Orderlies'
<1> DEFINE a == request[r]
           c == a.recompute.concept
<1>1. Orderly(a) /\ a.at = "read" /\ a \in Request
  BY DEF Orderlies, Orderly, ReadEvidence, At
<1>2. ASSUME NEW b, Orderly(b), request' = [request EXCEPT ![r] = b]
      PROVE  Orderlies'
  BY <1>2 DEF Orderlies, Orderly
<1>3. PICK after \in 0..100 : after = ComputeMastery(EvidenceSeen(r, c))
  BY MasteryInRange
<1>4. CASE request' = [request EXCEPT ![r].at = "write", ![r].recompute.after = after]
  <2>1. Orderly([a EXCEPT !.at = "write", !.recompute.after = after])
    BY <1>1, WriteIsOrderly
  <2>2. QED
    BY <1>2, <1>4, <2>1
<1>5. CASE request' = [request EXCEPT ![r].at = AfterRow(r), ![r].recompute = NoRecompute]
  <2>1. Orderly([a EXCEPT !.at = AfterRow(r), !.recompute = NoRecompute, !.written = a.written])
    BY <1>1, NextRowIsOrderly DEF AfterRow, Request
  <2>2. [a EXCEPT !.at = AfterRow(r), !.recompute = NoRecompute, !.written = a.written]
          = [a EXCEPT !.at = AfterRow(r), !.recompute = NoRecompute]
    BY <1>1 DEF Request
  <2>3. QED
    BY <1>2, <1>5, <2>1, <2>2
<1>6. QED
  BY <1>3, <1>4, <1>5 DEF ReadEvidence

LEMMA ReadyForNextRow ==
    ASSUME Orderlies, NEW r \in Requests, WriteMastery(r)
    PROVE  Orderlies'
<1> DEFINE a == request[r]
           c == a.recompute.concept
<1>1. Orderly(a) /\ a.at = "write" /\ a \in Request
  BY DEF Orderlies, Orderly, WriteMastery, At
<1>2. c \in Concepts /\ a.recompute.after \in 0..100
  BY <1>1, RecomputeIsOrderly DEF Request, Recompute
<1>3. PICK written : written = [a.written EXCEPT ![c] = a.recompute.after]
  OBVIOUS
<1>4. /\ written \in [Concepts -> 0..100 \cup {Unwritten}]
      /\ \A d \in Concepts : written[d] # Unwritten => a.written[d] # Unwritten \/ d = c
  BY <1>1, <1>2, <1>3 DEF Request
<1>5. Orderly([a EXCEPT !.at = AfterRow(r), !.recompute = NoRecompute, !.written = written])
  BY <1>1, <1>4, NextRowIsOrderly DEF AfterRow
<1>6. request' = [request EXCEPT ![r] =
          [a EXCEPT !.at = AfterRow(r), !.recompute = NoRecompute, !.written = written]]
  BY ZenonT(60), <1>3 DEF WriteMastery, Orderlies, Request
<1>7. QED
  BY <1>5, <1>6 DEF Orderlies, Orderly

\* Every step leaves every request in order.
LEMMA OrderlyStep ==
    ASSUME Orderlies, mastery \in [Concepts -> 0..100], [Next]_vars
    PROVE  Orderlies'
<1>1. ASSUME NEW r \in Requests, NEW a, Orderly(a), request' = [request EXCEPT ![r] = a]
      PROVE  Orderlies'
  BY <1>1 DEF Orderlies, Orderly
<1>2. ASSUME NEW r \in Requests PROVE Close(r) => Orderlies'
  BY <1>1, ClosedIsOrderly DEF Close
<1>3. UNCHANGED request => Orderlies'
  BY DEF Orderlies
<1>4. ASSUME NEW r \in Requests PROVE Orderly(request[r])
  BY DEF Orderlies, Orderly
<1>5. CASE \E r \in Requests, z \in Quizzes : CompleteQuiz(r, z)
  BY <1>1, <1>5, ClosedIsOrderly DEF CompleteQuiz
<1>6. CASE \E r \in Requests, q \in Questions : SubmitAnswer(r, q)
  BY <1>1, <1>6, ClosedIsOrderly DEF SubmitAnswer
<1>7. CASE \E r \in Requests : Grade(r)
  BY <1>7, GradeIsOrderly
<1>8. ASSUME NEW r \in Requests, CreateAnswer(r) PROVE Orderlies'
  <2>1. CASE Close(r)
    BY <1>2, <2>1
  <2>2. CASE GoOn(r, "create")
    <3>1. Orderly([request[r] EXCEPT !.at = "create"])
      BY <1>4, <1>8, CreateIsOrderly DEF CreateAnswer, At
    <3>2. QED
      BY <1>1, <2>2, <3>1 DEF GoOn
  <2>3. QED
    BY <1>8, <2>1, <2>2 DEF CreateAnswer
<1>9. CASE \E r \in Requests : CreateEvidence(r)
  BY <1>9, ReadyToRead
<1>10. CASE \E r \in Requests : ReadEvidence(r)
  BY <1>10, ReadyToWrite
<1>11. CASE \E r \in Requests : WriteMastery(r)
  BY <1>11, ReadyForNextRow
<1>12. CASE \E r \in Requests :
           Commit(r) \/ BreakDeadlock(r) \/ EnqueueEvaluation(r) \/ RequestDies(r)
  BY <1>2, <1>12 DEF Commit, BreakDeadlock, EnqueueEvaluation, RequestDies
<1>13. ASSUME NEW r \in Requests, CloseQuiz(r) PROVE Orderlies'
  <2>1. Orderly([request[r] EXCEPT !.at = "enqueue"])
    BY <1>4, <1>13, EnqueueIsOrderly DEF CloseQuiz, At
  <2>2. QED
    BY <1>1, <1>13, <2>1 DEF CloseQuiz, GoOn
<1>14. CASE UNCHANGED vars
  BY <1>3, <1>14 DEF vars
<1>15. CASE \E z \in Quizzes : StartQuiz(z) \/ ReclaimEvaluation(z)
  BY <1>3, <1>15 DEF StartQuiz, ReclaimEvaluation
<1>16. CASE \E w \in Workers :
           \/ ClaimEvaluation(w) \/ EvaluateNext(w) \/ EvaluateRead(w) \/ EvaluateWrite(w)
           \/ EvaluateDone(w) \/ EnqueueFollowUp(w) \/ Report(w) \/ WorkerDies(w) \/ WorkerThrows(w)
  BY <1>3, <1>16 DEF ClaimEvaluation, EvaluateNext, EvaluateRead, EvaluateWrite,
       EvaluateDone, EnqueueFollowUp, Report, WorkerDies, WorkerThrows
<1>17. QED
  BY <1>5, <1>6, <1>7, <1>8, <1>9, <1>10, <1>11, <1>12, <1>13, <1>14, <1>15, <1>16,
     StepCases, Zenon

-----------------------------------------------------------------------------
(* Runs of the evaluation *)

\* A run is of a quiz, and it has a concept from reading it to having stored its mastery.
Running(b) ==
    /\ b.at # "idle" => b.quiz \in Quizzes
    /\ b.at \in {"read", "write"} <=> b.recompute.concept # NoConcept

Runs == worker \in [Workers -> Worker] /\ \A w \in Workers : Running(worker[w])

LEMMA IdleIsRunning == Idle \in Worker /\ Running(Idle)
  BY NoRecomputeType DEF Idle, Worker, WorkerStep, Running

BetweenConcepts == WorkerStep \ {"idle", "read", "write"}

LEMMA Going == "next" \in BetweenConcepts /\ "fail" \in BetweenConcepts
  BY DEF BetweenConcepts, WorkerStep

LEMMA RunsStep ==
    ASSUME Runs, mastery \in [Concepts -> 0..100], [Next]_vars
    PROVE  Runs'
<1>1. ASSUME NEW w \in Workers, NEW b \in Worker, Running(b),
             worker' = [worker EXCEPT ![w] = b]
      PROVE  Runs'
  BY <1>1 DEF Runs
<1>2. ASSUME NEW w \in Workers PROVE worker[w] \in Worker /\ Running(worker[w])
  BY DEF Runs
<1>3. UNCHANGED worker => Runs'
  BY DEF Runs
<1>4. ASSUME NEW w \in Workers, ClaimEvaluation(w) PROVE Runs'
  <2>1. PICK z \in Quizzes :
            worker' = [worker EXCEPT ![w] =
                [Idle EXCEPT !.at = "next", !.quiz = z,
                             !.todo = {ConceptOf[q] : q \in QuestionsOf(z)}]]
    BY <1>4 DEF ClaimEvaluation
  <2>2. PICK todo : todo = {ConceptOf[q] : q \in QuestionsOf(z)}
    OBVIOUS
  <2>3. todo \subseteq Concepts
    BY <2>2, QuizAssumption DEF QuestionsOf
  <2>4. PICK b : b = [Idle EXCEPT !.at = "next", !.quiz = z, !.todo = todo]
    OBVIOUS
  <2>5. b = [at |-> "next", quiz |-> z, todo |-> todo, recompute |-> NoRecompute]
    BY <2>4 DEF Idle
  <2>6. b \in Worker /\ Running(b)
    BY <2>3, <2>5, NoRecomputeType DEF Worker, WorkerStep, Running
  <2>7. QED
    BY <1>1, <2>1, <2>2, <2>4, <2>6
<1>5. ASSUME NEW w \in Workers, EvaluateNext(w) PROVE Runs'
  <2>1. PICK c \in worker[w].todo :
            worker' = [worker EXCEPT ![w].at = "read", ![w].todo = @ \ {c},
                ![w].recompute = [NoRecompute EXCEPT !.concept = c, !.before = mastery[c]]]
    BY <1>5 DEF EvaluateNext
  <2>2. c \in Concepts /\ c # NoConcept
    BY <1>2, QuizAssumption DEF Worker
  <2>3. PICK begun : begun = [NoRecompute EXCEPT !.concept = c, !.before = mastery[c]]
    OBVIOUS
  <2>4. begun = [concept |-> c, before |-> mastery[c], after |-> 0]
    BY <2>3 DEF NoRecompute
  <2>5. begun \in Recompute /\ begun.concept = c
    BY <2>2, <2>4 DEF Recompute
  <2>6. PICK b : b = [worker[w] EXCEPT !.at = "read", !.todo = @ \ {c}, !.recompute = begun]
    OBVIOUS
  <2>7. b \in Worker /\ b.at = "read" /\ b.quiz = worker[w].quiz /\ b.recompute = begun
    BY <1>2, <2>5, <2>6 DEF Worker, WorkerStep
  <2>8. Running(b)
    BY <1>2, <1>5, <2>2, <2>5, <2>7 DEF Running, EvaluateNext, On
  <2>9. worker' = [worker EXCEPT ![w] = b]
    BY <2>1, <2>3, <2>6
  <2>10. QED
    BY <1>1, <2>7, <2>8, <2>9
<1>6. ASSUME NEW w \in Workers, NEW at \in BetweenConcepts,
             worker[w].at # "idle",
             worker' = [worker EXCEPT ![w].at = at, ![w].recompute = NoRecompute]
      PROVE  Runs'
  <2>1. PICK b : b = [worker[w] EXCEPT !.at = at, !.recompute = NoRecompute]
    OBVIOUS
  <2>2. /\ b \in Worker /\ b.at = at /\ b.quiz = worker[w].quiz
        /\ b.recompute.concept = NoConcept
    BY <1>2, <2>1, NoRecomputeType DEF Worker, BetweenConcepts
  <2>3. Running(b)
    BY <1>2, <1>6, <2>2 DEF Running, BetweenConcepts
  <2>4. worker' = [worker EXCEPT ![w] = b]
    BY <1>6, <2>1
  <2>5. QED
    BY <1>1, <2>2, <2>3, <2>4
<1>7. ASSUME NEW w \in Workers, EvaluateRead(w) PROVE Runs'
  <2>1. PICK after \in 0..100 : after = ComputeMastery(About(worker[w].recompute.concept))
    BY MasteryInRange
  <2>2. CASE worker' = [worker EXCEPT ![w].at = "write", ![w].recompute.after = after]
    <3>1. PICK b : b = [worker[w] EXCEPT !.at = "write", !.recompute.after = after]
      OBVIOUS
    <3>2. /\ b \in Worker /\ b.at = "write" /\ b.quiz = worker[w].quiz
          /\ b.recompute.concept = worker[w].recompute.concept
      <4>1. PICK recompute : recompute = [worker[w].recompute EXCEPT !.after = after]
        OBVIOUS
      <4>2. recompute \in Recompute /\ recompute.concept = worker[w].recompute.concept
        BY <1>2, <4>1 DEF Worker, Recompute
      <4>3. b = [worker[w] EXCEPT !.at = "write", !.recompute = recompute]
        BY <1>2, <3>1, <4>1 DEF Worker
      <4>4. QED
        BY <1>2, <4>2, <4>3 DEF Worker, WorkerStep
    <3>3. Running(b)
      BY <1>2, <1>7, <3>2 DEF Running, EvaluateRead, On
    <3>4. worker' = [worker EXCEPT ![w] = b]
      BY <2>2, <3>1
    <3>5. QED
      BY <1>1, <3>2, <3>3, <3>4
  <2>3. CASE worker' = [worker EXCEPT ![w].at = "next", ![w].recompute = NoRecompute]
    <3>1. worker[w].at # "idle"
      BY <1>7 DEF EvaluateRead, On
    <3>2. QED
      BY <1>6, <2>3, <3>1, Going, Zenon
  <2>4. QED
    BY <1>7, <2>1, <2>2, <2>3 DEF EvaluateRead
<1>8. ASSUME NEW w \in Workers, EvaluateWrite(w) PROVE Runs'
  <2>1. worker[w].at # "idle"
    BY <1>8 DEF EvaluateWrite, On
  <2>2. worker' = [worker EXCEPT ![w].at = "next", ![w].recompute = NoRecompute]
    BY <1>8 DEF EvaluateWrite
  <2>3. QED
    BY <1>6, <2>1, <2>2, Going, Zenon
<1>9. ASSUME NEW w \in Workers, NEW at \in BetweenConcepts,
             worker[w].at \notin {"idle", "read", "write"}, Proceed(w, at)
      PROVE  Runs'
  <2>1. PICK b : b = [worker[w] EXCEPT !.at = at]
    OBVIOUS
  <2>2. /\ b \in Worker /\ b.at = at /\ b.quiz = worker[w].quiz
        /\ b.recompute = worker[w].recompute
    BY <1>2, <2>1 DEF Worker, BetweenConcepts
  <2>3. Running(b)
    BY <1>2, <1>9, <2>2 DEF Running, BetweenConcepts
  <2>4. QED
    BY <1>1, <1>9, <2>1, <2>2, <2>3 DEF Proceed
<1>10. ASSUME NEW w \in Workers, EvaluateDone(w) PROVE Runs'
  BY <1>9, <1>10 DEF EvaluateDone, On, WorkerStep, BetweenConcepts
<1>11. ASSUME NEW w \in Workers, EnqueueFollowUp(w) PROVE Runs'
  BY <1>9, <1>11 DEF EnqueueFollowUp, On, WorkerStep, BetweenConcepts
<1>12. ASSUME NEW w \in Workers, Report(w) \/ WorkerDies(w) PROVE Runs'
  BY <1>1, <1>12, IdleIsRunning DEF Report, WorkerDies
<1>13. ASSUME NEW w \in Workers, WorkerThrows(w) PROVE Runs'
  <2>1. worker[w].at # "idle"
    BY <1>13 DEF WorkerThrows
  <2>2. worker' = [worker EXCEPT ![w].at = "fail", ![w].recompute = NoRecompute]
    BY <1>13 DEF WorkerThrows
  <2>3. QED
    BY <1>6, <2>1, <2>2, Going, Zenon
<1>14. CASE UNCHANGED vars
  BY <1>3, <1>14 DEF vars
<1>15. CASE \E z \in Quizzes : StartQuiz(z) \/ ReclaimEvaluation(z)
  BY <1>3, <1>15 DEF StartQuiz, ReclaimEvaluation
<1>16. CASE \E r \in Requests :
           \/ \E z \in Quizzes : CompleteQuiz(r, z)
           \/ \E q \in Questions : SubmitAnswer(r, q)
           \/ Grade(r) \/ CreateAnswer(r) \/ CreateEvidence(r) \/ ReadEvidence(r)
           \/ WriteMastery(r) \/ Commit(r) \/ BreakDeadlock(r) \/ CloseQuiz(r)
           \/ EnqueueEvaluation(r) \/ RequestDies(r)
  BY <1>3, <1>16 DEF CompleteQuiz, SubmitAnswer, Grade, CreateAnswer, CreateEvidence,
       ReadEvidence, WriteMastery, Commit, BreakDeadlock, CloseQuiz, EnqueueEvaluation, RequestDies
<1>17. QED
  BY <1>4, <1>5, <1>7, <1>8, <1>10, <1>11, <1>12, <1>13, <1>14, <1>15, <1>16, StepCases, Zenon

-----------------------------------------------------------------------------
(* Types *)

\* A completion is recorded once by each request that saw the quiz in progress.
Closing(z) == {r \in Requests : At(r, "close") /\ request[r].quiz = z}

CompletionsCounted ==
    \A z \in Quizzes :
        /\ completions[z] + Cardinality(Closing(z)) <= Cardinality(Requests)
        /\ quiz[z] # "COMPLETED" => completions[z] = 0

LEMMA ClosingCounted ==
    /\ Cardinality(Requests) \in Nat
    /\ \A S \in SUBSET Requests : /\ IsFiniteSet(S) /\ Cardinality(S) \in Nat
                                  /\ Cardinality(S) <= Cardinality(Requests)
    /\ \A S, T \in SUBSET Requests : S \subseteq T => Cardinality(S) <= Cardinality(T)
  BY QuizAssumption, FS_CardinalityType, FS_Subset

LEMMA CompletionsStep ==
    ASSUME quiz \in [Quizzes -> QuizStatus], completions \in [Quizzes -> Nat],
           Orderlies, CompletionsCounted, [Next]_vars
    PROVE  completions' \in [Quizzes -> Nat] /\ CompletionsCounted'
<1>1. \A z : Closing(z) \in SUBSET Requests /\ Closing(z)' \in SUBSET Requests
  BY DEF Closing
<1>2. ASSUME \A r \in Requests : request'[r].at = "close" =>
                 request[r].at = "close" /\ request'[r].quiz = request[r].quiz,
             completions' = completions,
             \A z \in Quizzes : quiz[z] = "COMPLETED" => quiz'[z] = "COMPLETED"
      PROVE  completions' \in [Quizzes -> Nat] /\ CompletionsCounted'
  <2>1. \A z \in Quizzes : Closing(z)' \subseteq Closing(z)
    BY <1>2 DEF Closing, At
  <2>2. \A z \in Quizzes : /\ Cardinality(Closing(z)') \in Nat /\ Cardinality(Closing(z)) \in Nat
                           /\ Cardinality(Closing(z)') <= Cardinality(Closing(z))
    BY <1>1, <2>1, ClosingCounted
  <2>3. QED
    BY <1>2, <2>2, ClosingCounted DEF CompletionsCounted
<1>3. ASSUME NEW r \in Requests, NEW z \in Quizzes, CompleteQuiz(r, z)
      PROVE  completions' \in [Quizzes -> Nat] /\ CompletionsCounted'
  <2>1. /\ completions' = completions /\ quiz' = quiz /\ completions[z] = 0
        /\ request' = [request EXCEPT ![r] = [Closed EXCEPT !.at = "close", !.quiz = z]]
        /\ request[r].at # "close"
    BY <1>3 DEF CompleteQuiz, CompletionsCounted, Closed, tables
  <2>2. ASSUME NEW y \in Quizzes, y # z
        PROVE  Closing(y)' = Closing(y)
    BY <2>1, <2>2 DEF Closing, At, Orderlies, Closed
  <2>3. Cardinality(Closing(z)') <= Cardinality(Requests) /\ Cardinality(Closing(z)') \in Nat
    BY <1>1, ClosingCounted
  <2>4. ASSUME NEW y \in Quizzes
        PROVE  /\ completions'[y] + Cardinality(Closing(y)') <= Cardinality(Requests)
               /\ quiz'[y] # "COMPLETED" => completions'[y] = 0
    <3>1. CASE y = z
      BY <2>1, <2>3, <3>1, ClosingCounted DEF CompletionsCounted
    <3>2. CASE y # z
      BY <2>1, <2>2, <3>2 DEF CompletionsCounted
    <3>3. QED
      BY <3>1, <3>2
  <2>5. QED
    BY <2>1, <2>4 DEF CompletionsCounted
<1>4. ASSUME NEW r \in Requests, CloseQuiz(r)
      PROVE  completions' \in [Quizzes -> Nat] /\ CompletionsCounted'
  <2>1. PICK z \in Quizzes : z = request[r].quiz
    BY <1>4 DEF CloseQuiz, At, Orderlies, InOrder
  <2>2. /\ completions' = [completions EXCEPT ![z] = @ + 1]
        /\ quiz' = [quiz EXCEPT ![z] = "COMPLETED"]
        /\ request' = [request EXCEPT ![r].at = "enqueue"]
        /\ request[r].at = "close"
    BY <1>4, <2>1 DEF CloseQuiz, At, GoOn
  <2>3. \A s \in Requests : /\ s # r => request'[s] = request[s]
                            /\ request'[r].at = "enqueue"
    BY <2>2 DEF Orderlies, Request
  <2>4. \A y \in Quizzes : y # z => Closing(y)' = Closing(y)
    BY <2>1, <2>2, <2>3 DEF Closing, At
  <2>5. Closing(z)' = Closing(z) \ {r} /\ r \in Closing(z)
    BY <2>1, <2>2, <2>3 DEF Closing, At
  <2>6. Cardinality(Closing(z)') = Cardinality(Closing(z)) - 1
    BY <1>1, <2>5, ClosingCounted, FS_RemoveElement
  <2>7. ASSUME NEW y \in Quizzes
        PROVE  /\ completions'[y] + Cardinality(Closing(y)') <= Cardinality(Requests)
               /\ quiz'[y] # "COMPLETED" => completions'[y] = 0
    <3>1. CASE y = z
      <4>1. Cardinality(Closing(z)) \in Nat /\ completions[z] \in Nat
        BY <1>1, ClosingCounted
      <4>2. completions'[z] = completions[z] + 1 /\ quiz'[z] = "COMPLETED"
        BY <2>2
      <4>3. QED
        BY <2>6, <3>1, <4>1, <4>2, ClosingCounted DEF CompletionsCounted
    <3>2. CASE y # z
      BY <2>2, <2>4, <3>2 DEF CompletionsCounted
    <3>3. QED
      BY <3>1, <3>2
  <2>8. completions' \in [Quizzes -> Nat]
    BY <2>2
  <2>9. QED
    BY <2>7, <2>8 DEF CompletionsCounted
<1>5. ASSUME NEW r \in Requests, Close(r), completions' = completions, quiz' = quiz
      PROVE  completions' \in [Quizzes -> Nat] /\ CompletionsCounted'
  BY <1>2, <1>5 DEF Close, Closed, Orderlies
<1>6. ASSUME NEW r \in Requests,
             \/ \E q \in Questions : SubmitAnswer(r, q)
             \/ Grade(r) \/ CreateAnswer(r) \/ CreateEvidence(r) \/ ReadEvidence(r) \/ WriteMastery(r)
      PROVE  completions' \in [Quizzes -> Nat] /\ CompletionsCounted'
  <2>1. completions' = completions /\ quiz' = quiz
    BY <1>6 DEF SubmitAnswer, Grade, CreateAnswer, CreateEvidence, ReadEvidence, WriteMastery, tables
  <2>2. CASE \E q \in Questions : SubmitAnswer(r, q)
    BY <1>2, <2>1, <2>2 DEF SubmitAnswer, Closed, Orderlies
  <2>3. CASE Grade(r)
    <3>1. CASE Close(r)
      BY <1>5, <2>1, <3>1
    <3>2. CASE \E rows : request' = [request EXCEPT ![r].at = "answer", ![r].rows = rows]
      BY <1>2, <2>1, <3>2 DEF Orderlies, Request
    <3>3. QED
      BY <2>3, <3>1, <3>2 DEF Grade
  <2>4. CASE CreateAnswer(r)
    <3>1. CASE Close(r)
      BY <1>5, <2>1, <3>1
    <3>2. CASE GoOn(r, "create")
      BY <1>2, <2>1, <3>2 DEF Orderlies, Request, GoOn
    <3>3. QED
      BY <2>4, <3>1, <3>2 DEF CreateAnswer
  <2>5. CASE CreateEvidence(r) \/ ReadEvidence(r) \/ WriteMastery(r)
    <3>1. request'[r].at # "close"
      BY <2>5 DEF CreateEvidence, ReadEvidence, WriteMastery, AfterRow, Orderlies, Request
    <3>2. \A s \in Requests : s # r => request'[s] = request[s]
      BY <2>5 DEF CreateEvidence, ReadEvidence, WriteMastery, Orderlies
    <3>3. QED
      BY <1>2, <2>1, <3>1, <3>2
  <2>6. QED
    BY <1>6, <2>2, <2>3, <2>4, <2>5
<1>7. CASE \E r \in Requests :
           Commit(r) \/ BreakDeadlock(r) \/ EnqueueEvaluation(r) \/ RequestDies(r)
  BY <1>5, <1>7 DEF Commit, BreakDeadlock, EnqueueEvaluation, RequestDies, tables
<1>8. CASE UNCHANGED vars
  BY <1>2, <1>8 DEF vars, tables
<1>9. CASE \E z \in Quizzes : StartQuiz(z) \/ ReclaimEvaluation(z)
  BY <1>2, <1>9 DEF StartQuiz, ReclaimEvaluation
<1>10. CASE \E w \in Workers :
           \/ ClaimEvaluation(w) \/ EvaluateNext(w) \/ EvaluateRead(w) \/ EvaluateWrite(w)
           \/ EvaluateDone(w) \/ EnqueueFollowUp(w) \/ Report(w) \/ WorkerDies(w) \/ WorkerThrows(w)
  <2>1. UNCHANGED <<request, completions, quiz>>
    BY <1>10 DEF ClaimEvaluation, EvaluateNext, EvaluateRead, EvaluateWrite,
         EvaluateDone, EnqueueFollowUp, Report, WorkerDies, WorkerThrows, tables
  <2>2. QED
    BY <1>2, <2>1
<1>11. QED
  BY <1>3, <1>4, <1>6, <1>7, <1>8, <1>9, <1>10, StepCases, Zenon

\* An evaluation that is waiting for a worker has an attempt left.
AttemptsLeft ==
    \A z \in Quizzes : job[z].status \in {"NONE", "WAITING"} => job[z].attempts < MaxAttempts

\* The tables and the history, without the count of the completions.
TablesOK ==
    /\ quiz \in [Quizzes -> QuizStatus]
    /\ answer \in [Questions -> 0..100 \cup {Unanswered}]
    /\ evidence \subseteq Evidence
    /\ mastery \in [Concepts -> 0..100]
    /\ job \in [Quizzes -> [status : JobStatus, attempts : 0..MaxAttempts]]
    /\ AttemptsLeft
    /\ followUp \in [Quizzes -> SUBSET {"recommend", "context"}]
    /\ faults \in 0..MaxFaults
    /\ drift \in [Concepts -> {"none", "drifted", "mending"}]
    /\ abandoned \subseteq Quizzes

TypeInv ==
    /\ TablesOK
    /\ Orderlies
    /\ Runs
    /\ completions \in [Quizzes -> Nat]
    /\ CompletionsCounted

LEMMA TypeInvImpliesTypeOK == TypeInv => TypeOK
<1> SUFFICES ASSUME TypeInv PROVE TypeOK
  OBVIOUS
<1>1. ASSUME NEW z \in Quizzes
      PROVE  completions[z] \in 0..Cardinality(Requests)
  <2>1. Cardinality(Closing(z)) \in Nat /\ completions[z] \in Nat
    BY ClosingCounted DEF Closing, TypeInv
  <2>2. completions[z] + Cardinality(Closing(z)) <= Cardinality(Requests)
    BY DEF TypeInv, CompletionsCounted
  <2>3. QED
    BY <2>1, <2>2, ClosingCounted
<1>2. completions \in [Quizzes -> 0..Cardinality(Requests)]
  BY <1>1 DEF TypeInv
<1>3. QED
  BY <1>2 DEF TypeInv, TablesOK, Orderlies, Runs, TypeOK

LEMMA TypeInit == Init => TypeInv
<1> SUFFICES ASSUME Init PROVE TypeInv
  OBVIOUS
<1>1. TablesOK
  BY QuizAssumption
     DEF Init, TablesOK, AttemptsLeft, QuizStatus, JobStatus, Unanswered
<1>2. Orderlies
  BY ClosedIsOrderly DEF Init, Orderlies, Orderly
<1>3. Runs
  BY IdleIsRunning DEF Init, Runs
<1>4. completions \in [Quizzes -> Nat]
  BY DEF Init
<1>5. CompletionsCounted
  <2>1. \A z \in Quizzes : completions[z] = 0 /\ Cardinality(Closing(z)) \in Nat
    BY ClosingCounted DEF Init, Closing
  <2>2. \A z \in Quizzes : Cardinality(Closing(z)) <= Cardinality(Requests)
    BY ClosingCounted DEF Closing
  <2>3. QED
    BY <2>1, <2>2 DEF CompletionsCounted
<1>6. QED
  BY <1>1, <1>2, <1>3, <1>4, <1>5 DEF TypeInv

\* What a statement says of an evaluation job.
LEMMA JobTypes ==
    ASSUME NEW a \in [status : JobStatus, attempts : 0..MaxAttempts]
    PROVE  /\ a.attempts < MaxAttempts =>
                [status |-> "RUNNING", attempts |-> a.attempts + 1]
                    \in [status : JobStatus, attempts : 0..MaxAttempts]
           /\ \A status \in JobStatus :
                /\ [a EXCEPT !.status = status] \in [status : JobStatus, attempts : 0..MaxAttempts]
                /\ [a EXCEPT !.status = status].status = status
                /\ [a EXCEPT !.status = status].attempts = a.attempts
           /\ Outcome(a.attempts) \in {"DEAD", "WAITING"}
           /\ Outcome(a.attempts) = "WAITING" => a.attempts < MaxAttempts
<1>1. a.attempts < MaxAttempts =>
          [status |-> "RUNNING", attempts |-> a.attempts + 1]
              \in [status : JobStatus, attempts : 0..MaxAttempts]
  BY QuizAssumption DEF JobStatus
<1>2. \A status \in JobStatus :
          /\ [a EXCEPT !.status = status] \in [status : JobStatus, attempts : 0..MaxAttempts]
          /\ [a EXCEPT !.status = status].status = status
          /\ [a EXCEPT !.status = status].attempts = a.attempts
  OBVIOUS
<1>3. Outcome(a.attempts) \in {"DEAD", "WAITING"}
      /\ (Outcome(a.attempts) = "WAITING" => a.attempts < MaxAttempts)
  BY QuizAssumption DEF Outcome
<1>4. QED
  BY <1>1, <1>2, <1>3

\* What a transaction has inserted, and the mastery it sees.
LEMMA TransactionTypes ==
    ASSUME TablesOK, Orderlies, NEW r \in Requests, request[r].at \in InTransaction
    PROVE  /\ Graded(request[r].question, request[r].rows)
           /\ request[r].question \in Questions
           /\ request[r].done \in 0..Len(request[r].rows)
           /\ \A k \in 1..request[r].done : /\ k \in 1..Len(request[r].rows)
                                            /\ request[r].rows[k] \in Evidence
           /\ Inserted(r) \subseteq Evidence
           /\ request[r].rows[1].score \in 0..100
           /\ \A c \in Concepts : MasterySeen(r, c) \in 0..100
<1>1. /\ request[r] \in Request /\ Graded(request[r].question, request[r].rows)
      /\ request[r].question \in Questions
  BY DEF Orderlies, InOrder
<1>2. request[r].done \in 0..Len(request[r].rows) /\ Len(request[r].rows) \in Nat \ {0}
  BY <1>1 DEF Orderlies, InOrder, Request, Graded
<1>3. \A k \in 1..Len(request[r].rows) : request[r].rows[k] \in Evidence
  BY <1>1 DEF Graded
<1>4. Inserted(r) \subseteq Evidence
  BY <1>2, <1>3 DEF Inserted
<1>5. request[r].rows[1].score \in 0..100
  <2>1. request[r].rows[1] \in Evidence
    BY <1>2, <1>3
  <2>2. QED
    BY <2>1 DEF Evidence
<1>6. \A c \in Concepts : MasterySeen(r, c) \in 0..100
  BY <1>1 DEF MasterySeen, TablesOK, Request
<1>7. QED
  BY <1>1, <1>2, <1>3, <1>4, <1>5, <1>6

LEMMA TablesStep ==
    ASSUME TablesOK, Orderlies, Runs, [Next]_vars
    PROVE  TablesOK'
<1> USE DEF TablesOK
<1>1. AttemptsLeft /\ UNCHANGED job => AttemptsLeft'
  BY DEF AttemptsLeft
<1>2. ASSUME NEW z, NEW a \in [status : JobStatus, attempts : 0..MaxAttempts],
             a.status \in {"NONE", "WAITING"} => a.attempts < MaxAttempts,
             job' = [job EXCEPT ![z] = a]
      PROVE  job' \in [Quizzes -> [status : JobStatus, attempts : 0..MaxAttempts]] /\ AttemptsLeft'
  BY <1>2 DEF AttemptsLeft
<1>3. CASE \E z \in Quizzes : StartQuiz(z)
  BY <1>1, <1>3 DEF StartQuiz, QuizStatus, history
<1>4. ASSUME NEW z, NEW status \in JobStatus, z \in Quizzes,
             status = "WAITING" => job[z].attempts < MaxAttempts, status # "NONE",
             job' = [job EXCEPT ![z].status = status]
      PROVE  job' \in [Quizzes -> [status : JobStatus, attempts : 0..MaxAttempts]] /\ AttemptsLeft'
  BY <1>2, <1>4, JobTypes
<1>5. ASSUME NEW z \in Quizzes, ReclaimEvaluation(z) PROVE TablesOK'
  <2>1. /\ Outcome(job[z].attempts) \in JobStatus /\ Outcome(job[z].attempts) # "NONE"
        /\ Outcome(job[z].attempts) = "WAITING" => job[z].attempts < MaxAttempts
    BY JobTypes DEF JobStatus
  <2>2. job' \in [Quizzes -> [status : JobStatus, attempts : 0..MaxAttempts]] /\ AttemptsLeft'
    BY <1>4, <1>5, <2>1 DEF ReclaimEvaluation
  <2>3. QED
    BY <1>5, <2>2 DEF ReclaimEvaluation, history
<1>6. CASE \E r \in Requests, z \in Quizzes : CompleteQuiz(r, z)
  BY <1>1, <1>6 DEF CompleteQuiz, tables, history
<1>7. CASE \E r \in Requests :
           \/ \E q \in Questions : SubmitAnswer(r, q)
           \/ Grade(r) \/ CreateAnswer(r) \/ ReadEvidence(r) \/ WriteMastery(r) \/ BreakDeadlock(r)
  BY <1>1, <1>7 DEF SubmitAnswer, Grade, CreateAnswer, ReadEvidence, WriteMastery, BreakDeadlock,
       tables, history
<1>8. ASSUME NEW p, NEW c, StartsRecompute(p, c)
      PROVE  drift' \in [Concepts -> {"none", "drifted", "mending"}]
  BY <1>8 DEF StartsRecompute
<1>9. CASE \E r \in Requests : CreateEvidence(r)
  BY <1>1, <1>8, <1>9 DEF CreateEvidence, tables
<1>10. ASSUME NEW r \in Requests, Commit(r) PROVE TablesOK'
  <2>1. /\ Inserted(r) \subseteq Evidence /\ request[r].rows[1].score \in 0..100
        /\ \A c \in Concepts : MasterySeen(r, c) \in 0..100
    BY <1>10, TransactionTypes DEF Commit, At, InTransaction
  <2>2. QED
    BY <1>1, <1>10, <2>1 DEF Commit, history
<1>11. CASE \E r \in Requests : CloseQuiz(r)
  BY <1>1, <1>11 DEF CloseQuiz, QuizStatus, history
<1>12. ASSUME NEW r \in Requests, EnqueueEvaluation(r) PROVE TablesOK'
  <2>1. PICK z \in Quizzes : z = request[r].quiz
    BY <1>12 DEF EnqueueEvaluation, At, Orderlies, InOrder
  <2>2. CASE job[z].status # "NONE"
    <3>1. job' = job
      BY <1>12, <2>1, <2>2 DEF EnqueueEvaluation
    <3>2. QED
      BY <1>1, <1>12, <3>1 DEF EnqueueEvaluation, history
  <2>3. CASE job[z].status = "NONE"
    <3>1. job' = [job EXCEPT ![z].status = "WAITING"]
      BY <1>12, <2>1, <2>3 DEF EnqueueEvaluation
    <3>2. job[z].attempts < MaxAttempts
      BY <2>3 DEF AttemptsLeft
    <3>3. job' \in [Quizzes -> [status : JobStatus, attempts : 0..MaxAttempts]] /\ AttemptsLeft'
      BY <1>4, <3>1, <3>2 DEF JobStatus
    <3>4. QED
      BY <1>12, <3>3 DEF EnqueueEvaluation, history
  <2>4. QED
    BY <2>2, <2>3
<1>13. ASSUME NEW r \in Requests, RequestDies(r) PROVE TablesOK'
  <2>1. abandoned' \subseteq Quizzes
    BY <1>13 DEF RequestDies, At, Orderlies, InOrder
  <2>2. faults' \in 0..MaxFaults
    BY <1>13, QuizAssumption DEF RequestDies, Fault
  <2>3. QED
    BY <1>1, <1>13, <2>1, <2>2 DEF RequestDies, tables
<1>14. ASSUME NEW w \in Workers, ClaimEvaluation(w) PROVE TablesOK'
  <2>1. PICK z \in Quizzes :
            /\ job[z].status = "WAITING"
            /\ job' = [job EXCEPT ![z] = [status |-> "RUNNING", attempts |-> @.attempts + 1]]
    BY <1>14 DEF ClaimEvaluation
  <2>2. job[z].attempts < MaxAttempts
    BY <2>1 DEF AttemptsLeft
  <2>3. PICK a : a = [status |-> "RUNNING", attempts |-> job[z].attempts + 1]
    OBVIOUS
  <2>4. a \in [status : JobStatus, attempts : 0..MaxAttempts] /\ a.status = "RUNNING"
    BY <2>2, <2>3, JobTypes
  <2>5. job' = [job EXCEPT ![z] = a]
    BY <2>1, <2>3
  <2>6. job' \in [Quizzes -> [status : JobStatus, attempts : 0..MaxAttempts]] /\ AttemptsLeft'
    BY <1>2, <2>4, <2>5
  <2>7. QED
    BY <1>14, <2>6 DEF ClaimEvaluation, history
<1>15. CASE \E w \in Workers : EvaluateNext(w)
  BY <1>1, <1>8, <1>15 DEF EvaluateNext, tables
<1>16. ASSUME NEW c, EndsRecompute(c)
       PROVE  drift' \in [Concepts -> {"none", "drifted", "mending"}]
  BY <1>16 DEF EndsRecompute
<1>17. ASSUME NEW w \in Workers, EvaluateRead(w) PROVE TablesOK'
  <2>1. drift' = drift \/ EndsRecompute(worker[w].recompute.concept)
    BY <1>17 DEF EvaluateRead
  <2>2. drift' \in [Concepts -> {"none", "drifted", "mending"}]
    BY <1>16, <2>1
  <2>3. QED
    BY <1>1, <1>17, <2>2 DEF EvaluateRead, tables
<1>18. ASSUME NEW w \in Workers, EvaluateWrite(w) PROVE TablesOK'
  <2>1. worker[w].recompute.after \in 0..100
    BY DEF Runs, Worker, Recompute
  <2>2. QED
    BY <1>1, <1>16, <1>18, <2>1 DEF EvaluateWrite
<1>19. CASE \E w \in Workers : EvaluateDone(w)
  BY <1>1, <1>19 DEF EvaluateDone, tables, history
<1>20. ASSUME NEW w \in Workers, EnqueueFollowUp(w) PROVE TablesOK'
  <2>1. PICK follow \in {"recommend", "context"} :
            followUp' = [followUp EXCEPT ![worker[w].quiz] = @ \cup {follow}]
    BY <1>20 DEF EnqueueFollowUp
  <2>2. followUp' \in [Quizzes -> SUBSET {"recommend", "context"}]
    BY <2>1
  <2>3. QED
    BY <1>1, <1>20, <2>2 DEF EnqueueFollowUp, history
<1>21. ASSUME NEW w \in Workers, Report(w) PROVE TablesOK'
  <2>1. PICK z \in Quizzes : z = worker[w].quiz
    BY <1>21 DEF Report, On, Runs, Running
  <2>2. /\ Outcome(job[z].attempts) \in JobStatus /\ Outcome(job[z].attempts) # "NONE"
        /\ Outcome(job[z].attempts) = "WAITING" => job[z].attempts < MaxAttempts
    BY JobTypes DEF JobStatus
  <2>3. job' \in [Quizzes -> [status : JobStatus, attempts : 0..MaxAttempts]] /\ AttemptsLeft'
    <3>1. CASE job' = [job EXCEPT ![z].status = "COMPLETED"]
      BY <1>4, <3>1 DEF JobStatus
    <3>2. CASE job' = [job EXCEPT ![z].status = Outcome(job[z].attempts)]
      BY <1>4, <2>2, <3>2
    <3>3. QED
      BY <1>21, <2>1, <3>1, <3>2 DEF Report
  <2>4. QED
    BY <1>21, <2>3 DEF Report, history
<1>22. CASE \E w \in Workers : WorkerDies(w) \/ WorkerThrows(w)
  <2>1. faults' \in 0..MaxFaults
    BY <1>22, QuizAssumption DEF WorkerDies, WorkerThrows, Fault
  <2>2. QED
    BY <1>1, <1>22, <2>1 DEF WorkerDies, WorkerThrows, tables, history
<1>23. CASE UNCHANGED vars
  BY <1>1, <1>23 DEF vars, tables, history
<1>24. QED
  BY <1>3, <1>5, <1>6, <1>7, <1>9, <1>10, <1>11, <1>12, <1>13, <1>14, <1>15, <1>17, <1>18,
     <1>19, <1>20, <1>21, <1>22, <1>23, StepCases, Zenon

LEMMA TypeStep == TypeInv /\ [Next]_vars => TypeInv'
  BY TablesStep, OrderlyStep, RunsStep, CompletionsStep DEF TypeInv, TablesOK

\* In every state the tables, the requests and the runs have their types: mastery
\* and scores are percentages, no evaluation is attempted more than MaxAttempts
\* times, and a quiz has at most one completion for each request.
THEOREM TypeCorrect == Spec => []TypeOK
  BY TypeInit, TypeStep, TypeInvImpliesTypeOK, PTL DEF Spec

-----------------------------------------------------------------------------
(* The evidence is that of the answers *)

\* A question whose answer is being recorded has none yet, and one request records it.
OneTransaction ==
    /\ \A r \in Requests :
          request[r].at \in InTransaction => answer[request[r].question] = Unanswered
    /\ \A r, s \in Requests :
          /\ request[r].at \in InTransaction /\ request[s].at \in InTransaction
          /\ request[r].question = request[s].question
          => r = s

\* A question's first row has its full weight and its score.
EvidenceKept ==
    /\ \A e \in evidence : /\ answer[e.question] # Unanswered
                           /\ e.weight = 2 <=> e.n = 1
                           /\ e.n = 1 => e.score = answer[e.question]
    /\ \A e, f \in evidence : e.question = f.question /\ e.n = f.n => e = f
    /\ \A q \in Questions :
          answer[q] # Unanswered => \E e \in evidence : e.question = q /\ e.n = 1

EvidenceInv == TypeInv /\ OneTransaction /\ EvidenceKept

\* What most steps do to the transactions: they go on, or end, with nothing committed.
TransactionsGoOn ==
    /\ UNCHANGED <<answer, evidence>>
    /\ \A r \in Requests : request'[r].at \in InTransaction =>
          request[r].at \in InTransaction /\ request'[r].question = request[r].question

LEMMA TransactionCases ==
    ASSUME TypeInv, [Next]_vars
    PROVE  \/ \E r \in Requests : CreateAnswer(r) /\ GoOn(r, "create")
           \/ \E r \in Requests : Commit(r)
           \/ TransactionsGoOn
<1> USE DEF TypeInv, Orderlies, TransactionsGoOn
<1>1. ASSUME NEW r \in Requests, Close(r), UNCHANGED <<answer, evidence>>
      PROVE  TransactionsGoOn
  BY <1>1 DEF Close, Closed, InTransaction
<1>2. CASE \E z \in Quizzes : StartQuiz(z) \/ ReclaimEvaluation(z)
  BY <1>2 DEF StartQuiz, ReclaimEvaluation
<1>3. CASE \E r \in Requests, z \in Quizzes : CompleteQuiz(r, z)
  BY <1>3 DEF CompleteQuiz, tables, Closed, InTransaction
<1>4. CASE \E r \in Requests, q \in Questions : SubmitAnswer(r, q)
  BY <1>4 DEF SubmitAnswer, tables, Closed, InTransaction
<1>5. ASSUME NEW r \in Requests, Grade(r) PROVE TransactionsGoOn
  <2>1. CASE Close(r)
    BY <1>1, <1>5, <2>1 DEF Grade, tables
  <2>2. CASE \E rows : request' = [request EXCEPT ![r].at = "answer", ![r].rows = rows]
    BY ZenonT(60), <1>5, <2>2 DEF Grade, tables, InTransaction, Request
  <2>3. QED
    BY <1>5, <2>1, <2>2 DEF Grade
<1>6. ASSUME NEW r \in Requests, CreateAnswer(r)
      PROVE  TransactionsGoOn \/ GoOn(r, "create")
  BY <1>1, <1>6 DEF CreateAnswer, tables
<1>7. ASSUME NEW r \in Requests, CreateEvidence(r) \/ ReadEvidence(r) \/ WriteMastery(r)
      PROVE  TransactionsGoOn
  <2>1. request[r].at \in InTransaction /\ request'[r].question = request[r].question
    BY <1>7 DEF CreateEvidence, ReadEvidence, WriteMastery, At, InTransaction, Request
  <2>2. \A s \in Requests : s # r => request'[s] = request[s]
    BY <1>7 DEF CreateEvidence, ReadEvidence, WriteMastery
  <2>3. UNCHANGED <<answer, evidence>>
    BY <1>7 DEF CreateEvidence, ReadEvidence, WriteMastery, tables
  <2>4. QED
    BY <2>1, <2>2, <2>3
<1>8. CASE \E r \in Requests : BreakDeadlock(r) \/ EnqueueEvaluation(r) \/ RequestDies(r)
  BY <1>1, <1>8 DEF BreakDeadlock, EnqueueEvaluation, RequestDies, tables
<1>9. CASE \E r \in Requests : CloseQuiz(r)
  BY <1>9 DEF CloseQuiz, GoOn, InTransaction, Request
<1>10. CASE \E w \in Workers :
           \/ ClaimEvaluation(w) \/ EvaluateNext(w) \/ EvaluateRead(w) \/ EvaluateWrite(w)
           \/ EvaluateDone(w) \/ EnqueueFollowUp(w) \/ Report(w) \/ WorkerDies(w) \/ WorkerThrows(w)
  <2>1. UNCHANGED <<request, answer, evidence>>
    BY <1>10 DEF ClaimEvaluation, EvaluateNext, EvaluateRead, EvaluateWrite,
         EvaluateDone, EnqueueFollowUp, Report, WorkerDies, WorkerThrows, tables
  <2>2. QED
    BY <2>1
<1>11. CASE UNCHANGED vars
  BY <1>11 DEF vars, tables
<1>12. QED
  BY <1>2, <1>3, <1>4, <1>5, <1>6, <1>7, <1>8, <1>9, <1>10, <1>11, StepCases, Zenon

\* The rows a transaction commits.
LEMMA InsertedRows ==
    ASSUME TypeInv, NEW r \in Requests, Commit(r)
    PROVE  /\ request[r].question \in Questions
           /\ \A e \in Inserted(r) : /\ e.question = request[r].question
                                     /\ e.weight = 2 <=> e.n = 1
                                     /\ e.n = 1 => e.score = request[r].rows[1].score
           /\ \A e, f \in Inserted(r) : e.n = f.n => e = f
           /\ \E e \in Inserted(r) : e.n = 1
           /\ request[r].rows[1].score \in 0..100
<1> DEFINE a == request[r]
<1>1. a.at = "commit" /\ a.at \in InTransaction
  BY DEF Commit, At, InTransaction
<1>2. /\ Graded(a.question, a.rows) /\ a.question \in Questions /\ a.rows[1].score \in 0..100
      /\ a.done \in 0..Len(a.rows)
  BY <1>1, TransactionTypes DEF TypeInv
<1>3. a.done = Len(a.rows)
  BY <1>1 DEF TypeInv, Orderlies, InOrder
<1>4. \A k \in 1..a.done :
          a.rows[k].question = a.question /\ a.rows[k].n = k /\ (a.rows[k].weight = 2 <=> k = 1)
  BY <1>2, <1>3 DEF Graded
<1>5. 1 \in 1..a.done
  BY <1>2, <1>3 DEF Graded
<1>6. ASSUME NEW e \in Inserted(r)
      PROVE  \E k \in 1..a.done : e = a.rows[k] /\ e.n = k
  BY <1>4, <1>6 DEF Inserted
<1>7. \A e \in Inserted(r) : /\ e.question = a.question
                             /\ e.weight = 2 <=> e.n = 1
                             /\ e.n = 1 => e = a.rows[1]
  BY <1>4, <1>6
<1>8. \A e, f \in Inserted(r) : e.n = f.n => e = f
  BY <1>6
<1>9. a.rows[1] \in Inserted(r) /\ a.rows[1].n = 1
  BY <1>4, <1>5 DEF Inserted
<1>10. QED
  BY <1>2, <1>7, <1>8, <1>9

LEMMA EvidenceInit == Init => EvidenceInv
  BY TypeInit DEF Init, EvidenceInv, OneTransaction, EvidenceKept, Closed, InTransaction

LEMMA EvidenceStep == EvidenceInv /\ [Next]_vars => EvidenceInv'
<1> SUFFICES ASSUME EvidenceInv, [Next]_vars PROVE OneTransaction' /\ EvidenceKept'
  BY TypeStep DEF EvidenceInv
<1> USE DEF EvidenceInv
<1>1. CASE TransactionsGoOn
  BY <1>1 DEF TransactionsGoOn, OneTransaction, EvidenceKept
<1>2. ASSUME NEW r \in Requests, CreateAnswer(r), GoOn(r, "create")
      PROVE  OneTransaction' /\ EvidenceKept'
  <2>1. /\ request'[r].question = request[r].question
        /\ \A s \in Requests : s # r => request'[s] = request[s]
    BY <1>2 DEF GoOn, TypeInv, Orderlies, Request
  <2>2. answer[request[r].question] = Unanswered
    <3>1. CASE Close(r)
      BY <1>2, <3>1 DEF Close, GoOn, Closed, TypeInv, Orderlies, Request
    <3>2. QED
      BY <1>2, <3>1 DEF CreateAnswer
  <2>3. \A s \in Requests : request[s].at \in InTransaction =>
            request[s].question # request[r].question
    BY <1>2 DEF CreateAnswer
  <2>4. UNCHANGED <<answer, evidence>>
    BY <1>2 DEF CreateAnswer, tables
  <2>5. OneTransaction'
    BY <2>1, <2>2, <2>3, <2>4 DEF OneTransaction
  <2>6. QED
    BY <2>4, <2>5 DEF EvidenceKept
<1>3. ASSUME NEW r \in Requests, Commit(r)
      PROVE  OneTransaction' /\ EvidenceKept'
  <2> DEFINE q == request[r].question
             score == request[r].rows[1].score
  <2>1. /\ q \in Questions /\ score \in 0..100 /\ score # Unanswered
        /\ \A e \in Inserted(r) : /\ e.question = q
                                  /\ e.weight = 2 <=> e.n = 1
                                  /\ e.n = 1 => e.score = score
        /\ \A e, f \in Inserted(r) : e.n = f.n => e = f
        /\ \E e \in Inserted(r) : e.n = 1
    <3>1. /\ q \in Questions /\ score \in 0..100
          /\ \A e \in Inserted(r) : /\ e.question = q
                                    /\ e.weight = 2 <=> e.n = 1
                                    /\ e.n = 1 => e.score = score
          /\ \A e, f \in Inserted(r) : e.n = f.n => e = f
          /\ \E e \in Inserted(r) : e.n = 1
      BY <1>3, InsertedRows, ZenonT(60)
    <3> HIDE DEF q, score
    <3>2. score # Unanswered
      BY <3>1 DEF Unanswered
    <3> QED
      BY <3>1, <3>2
  <2>2. answer[q] = Unanswered
    BY <1>3 DEF OneTransaction, Commit, At, InTransaction
  <2>3. /\ answer' = [answer EXCEPT ![q] = score]
        /\ evidence' = evidence \cup Inserted(r)
        /\ answer \in [Questions -> 0..100 \cup {Unanswered}]
        /\ evidence \subseteq Evidence
    BY <1>3 DEF Commit, TypeInv, TablesOK
  <2>4. \A s \in Requests : request'[s].at \in InTransaction =>
            s # r /\ request'[s] = request[s]
    BY <1>3 DEF Commit, Close, Closed, InTransaction, TypeInv, Orderlies
  <2>5. \A s \in Requests : request'[s].at \in InTransaction =>
            request[s].question # q /\ request[s].question \in Questions
    BY <1>3, <2>4 DEF OneTransaction, Commit, At, InTransaction, TypeInv, Orderlies, InOrder
  <2> HIDE DEF q, score
  <2>6. answer'[q] = score /\ \A p \in Questions : p # q => answer'[p] = answer[p]
    BY <2>1, <2>3
  <2>7. OneTransaction'
    BY <2>4, <2>5, <2>6 DEF OneTransaction
  <2>8. \A e \in evidence : e.question # q /\ e.question \in Questions
    BY <2>2, <2>3 DEF EvidenceKept, Evidence
  <2>9. \A e \in evidence' : /\ answer'[e.question] # Unanswered
                             /\ e.weight = 2 <=> e.n = 1
                             /\ e.n = 1 => e.score = answer'[e.question]
    BY <2>1, <2>3, <2>6, <2>8 DEF EvidenceKept
  <2>10. \A e, f \in evidence' : e.question = f.question /\ e.n = f.n => e = f
    BY <2>1, <2>3, <2>8 DEF EvidenceKept
  <2>11. \A p \in Questions :
             answer'[p] # Unanswered => \E e \in evidence' : e.question = p /\ e.n = 1
    BY <2>1, <2>3, <2>6 DEF EvidenceKept
  <2>12. QED
    BY <2>7, <2>9, <2>10, <2>11 DEF EvidenceKept
<1>4. QED
  BY <1>1, <1>2, <1>3, TransactionCases, Zenon

LEMMA EvidenceInvImplies == EvidenceInv => EvidenceMatchesAnswers
<1> SUFFICES ASSUME EvidenceInv PROVE EvidenceMatchesAnswers
  OBVIOUS
<1>1. ASSUME NEW q \in Questions
      PROVE  {e.score : e \in {f \in evidence : f.question = q /\ f.weight = 2}}
               = IF answer[q] = Unanswered THEN {} ELSE {answer[q]}
  BY DEF EvidenceInv, EvidenceKept
<1>2. QED
  BY <1>1, TypeInvImpliesTypeOK DEF EvidenceInv, EvidenceKept, EvidenceMatchesAnswers

\* The evidence is that of the answers, whichever requests answer at once, are refused,
\* are rolled back or die: the transaction of submitAnswer and the unique answer of a
\* question are enough.
THEOREM EvidenceMatchesAnswersCorrect == Spec => []EvidenceMatchesAnswers
  BY EvidenceInit, EvidenceStep, EvidenceInvImplies, PTL DEF Spec

-----------------------------------------------------------------------------
(* Mastery follows the evidence *)

\* Who is recomputing concept c, unless recomputations of it have overlapped: one
\* transaction, or one evaluation; and what is to bring it back is an evaluation.
Alone(c) ==
    /\ drift[c] # "drifted" =>
          /\ \A r, s \in Requests : Touching(request[r], c) /\ Touching(request[s], c) => r = s
          /\ \A v, w \in Workers :
                worker[v].recompute.concept = c /\ worker[w].recompute.concept = c => v = w
          /\ \A r \in Requests, w \in Workers :
                ~ (Touching(request[r], c) /\ worker[w].recompute.concept = c)
    /\ drift[c] = "mending" => \A r \in Requests : ~Touching(request[r], c)

\* Inside a transaction that is alone, mastery is what the evidence says, rows and
\* updates of its own included, from the end of each recomputation to the next.
TransactionTrue(r, c) ==
    drift[c] = "none" /\ Touching(request[r], c) =>
        /\ request[r].recompute.concept # c =>
              MasterySeen(r, c) = ComputeMastery(EvidenceSeen(r, c))
        /\ request[r].recompute.concept = c /\ At(r, "read") =>
              request[r].recompute.before = MasterySeen(r, c)
        /\ request[r].recompute.concept = c /\ At(r, "write") =>
              request[r].recompute.after = ComputeMastery(EvidenceSeen(r, c))

\* An evaluation that is alone has read what is still there.
EvaluationTrue(w, c) ==
    drift[c] # "drifted" /\ worker[w].recompute.concept = c =>
        /\ On(w, "read") => worker[w].recompute.before = mastery[c]
        /\ On(w, "write") => worker[w].recompute.after = ComputeMastery(About(c))

MasteryTrue(c) ==
    /\ Alone(c)
    /\ \A r \in Requests : TransactionTrue(r, c)
    /\ \A w \in Workers : EvaluationTrue(w, c)
    /\ drift[c] = "none" => mastery[c] = ComputeMastery(About(c))

MasteryInv == TypeInv /\ \A c \in Concepts : MasteryTrue(c)

\* A step that changes a request alone, so that it touches c no longer, or not yet.
LEMMA RequestLeaves ==
    ASSUME NEW c \in Concepts, MasteryTrue(c), TypeInv,
           NEW r \in Requests, NEW b, request' = [request EXCEPT ![r] = b], ~Touching(b, c),
           UNCHANGED <<mastery, evidence, worker, drift>>
    PROVE  MasteryTrue(c)'
<1>1. /\ \A s \in Requests : s # r => request'[s] = request[s]
      /\ request'[r] = b
  BY DEF TypeInv, Orderlies
<1>2. Alone(c)'
  BY <1>1 DEF MasteryTrue, Alone
<1>3. ASSUME NEW s \in Requests PROVE TransactionTrue(s, c)'
  <2>1. CASE s = r
    BY <1>1, <2>1 DEF TransactionTrue
  <2>2. CASE s # r
    BY <1>1, <2>2 DEF MasteryTrue, TransactionTrue, MasterySeen, EvidenceSeen, About, Inserted, At
  <2>3. QED
    BY <2>1, <2>2
<1>4. \A w \in Workers : EvaluationTrue(w, c)'
  BY DEF MasteryTrue, EvaluationTrue, About, On
<1>5. QED
  BY <1>2, <1>3, <1>4 DEF MasteryTrue, About

\* A step that changes a run alone, so that it recomputes c no longer, or not yet.
LEMMA RunLeaves ==
    ASSUME NEW c \in Concepts, MasteryTrue(c), TypeInv,
           NEW w \in Workers, NEW b, worker' = [worker EXCEPT ![w] = b], b.recompute.concept # c,
           UNCHANGED <<mastery[c], evidence, request, drift[c]>>
    PROVE  MasteryTrue(c)'
<1>1. /\ \A v \in Workers : v # w => worker'[v] = worker[v]
      /\ worker'[w] = b
  BY DEF TypeInv, Runs
<1>2. Alone(c)'
  BY <1>1 DEF MasteryTrue, Alone
<1>3. ASSUME NEW r \in Requests PROVE TransactionTrue(r, c)'
  BY DEF MasteryTrue, TransactionTrue, MasterySeen, EvidenceSeen, About, Inserted, At
<1>4. \A v \in Workers : EvaluationTrue(v, c)'
  BY <1>1 DEF MasteryTrue, EvaluationTrue, About, On
<1>5. QED
  BY <1>2, <1>3, <1>4 DEF MasteryTrue, About

\* A request about another concept: it touches c as before, and sees of c what it saw.
LEMMA RequestElsewhere ==
    ASSUME NEW c \in Concepts, MasteryTrue(c), TypeInv,
           NEW r \in Requests, NEW b, request' = [request EXCEPT ![r] = b],
           Touching(b, c) => Touching(request[r], c),
           request[r].recompute.concept # c, b.recompute.concept # c,
           EvidenceSeen(r, c)' = EvidenceSeen(r, c), MasterySeen(r, c)' = MasterySeen(r, c),
           UNCHANGED <<mastery, evidence, worker, drift[c]>>
    PROVE  MasteryTrue(c)'
<1>1. /\ \A s \in Requests : s # r => request'[s] = request[s]
      /\ request'[r] = b
  BY DEF TypeInv, Orderlies
<1>2. Alone(c)'
  BY <1>1 DEF MasteryTrue, Alone
<1>3. ASSUME NEW s \in Requests PROVE TransactionTrue(s, c)'
  <2>1. CASE s = r
    BY <1>1, <2>1 DEF MasteryTrue, TransactionTrue
  <2>2. CASE s # r
    BY <1>1, <2>2 DEF MasteryTrue, TransactionTrue, MasterySeen, EvidenceSeen, About, Inserted, At
  <2>3. QED
    BY <2>1, <2>2
<1>4. \A w \in Workers : EvaluationTrue(w, c)'
  BY DEF MasteryTrue, EvaluationTrue, About, On
<1>5. QED
  BY <1>2, <1>3, <1>4 DEF MasteryTrue, About

\* Who recomputes a concept, by the records of requests and runs.
LEMMA Recomputers ==
    \A c, p : p \in Recomputing(c) <=>
        \/ p \in Requests /\ Touching(request[p], c)
        \/ p \in Workers /\ worker[p].recompute.concept = c
  BY DEF Recomputing, Touching

\* What starting a recomputation says of the concept.
LEMMA DriftStarts ==
    ASSUME drift \in [Concepts -> {"none", "drifted", "mending"}], NEW c \in Concepts, NEW p,
           StartsRecompute(p, c)
    PROVE  /\ \A d \in Concepts : d # c => drift'[d] = drift[d]
           /\ Recomputing(c) \ {p} # {} => drift'[c] = "drifted"
           /\ Recomputing(c) \ {p} = {} =>
                 /\ drift[c] = "none" => drift'[c] = "none"
                 /\ p \in Workers /\ drift[c] # "none" => drift'[c] = "mending"
                 /\ p \notin Workers /\ drift[c] = "drifted" => drift'[c] = "drifted"
                 /\ p \notin Workers /\ drift[c] = "mending" =>
                       drift'[c] = IF p \in Recomputing(c) THEN "mending" ELSE "drifted"
  BY DEF StartsRecompute

\* The k-th row is inserted, and mastery is read: other concepts are left alone ...
LEMMA InsertElsewhere ==
    ASSUME MasteryInv, NEW r \in Requests, CreateEvidence(r), NEW c \in Concepts,
           c # request[r].rows[request[r].done + 1].concept
    PROVE  MasteryTrue(c)'
<1> DEFINE a == request[r]
           d == a.rows[a.done + 1].concept
<1>1. PICK b : b = [a EXCEPT !.at = "read", !.done = a.done + 1,
                       !.recompute = [NoRecompute EXCEPT !.concept = d, !.before = MasterySeen(r, d)]]
  OBVIOUS
<1>2. request' = [request EXCEPT ![r] = b] /\ UNCHANGED <<mastery, evidence, worker>>
  BY <1>1 DEF CreateEvidence, tables
<1>3. /\ a \in Request /\ a.at = "create" /\ a.done \in Nat
      /\ a.recompute.concept = NoConcept
  BY DEF MasteryInv, TypeInv, Orderlies, InOrder, CreateEvidence, At, Request
<1>4. /\ b.at = "read" /\ b.done = a.done + 1 /\ b.rows = a.rows /\ b.written = a.written
      /\ b.recompute.concept = d
  <2>1. [NoRecompute EXCEPT !.concept = d, !.before = MasterySeen(r, d)].concept = d
    BY DEF NoRecompute
  <2>2. QED
    BY <1>1, <1>3, <2>1 DEF Request
<1>5. Touching(b, c) => Touching(a, c)
  BY <1>3, <1>4 DEF Touching, InTransaction
<1>6. request'[r] = b
  BY <1>2 DEF MasteryInv, TypeInv, Orderlies
<1>7. {e \in Inserted(r)' : e.concept = c} = {e \in Inserted(r) : e.concept = c}
  BY <1>3, <1>4, <1>6 DEF Inserted
<1>8. EvidenceSeen(r, c)' = EvidenceSeen(r, c) /\ MasterySeen(r, c)' = MasterySeen(r, c)
  BY <1>2, <1>4, <1>6, <1>7 DEF EvidenceSeen, About, MasterySeen
<1>9. drift'[c] = drift[c]
  BY DEF CreateEvidence, StartsRecompute, MasteryInv, TypeInv, TablesOK
<1>10. QED
  BY <1>2, <1>3, <1>4, <1>5, <1>8, <1>9, RequestElsewhere, QuizAssumption DEF MasteryInv

\* ... and its own concept, unless somebody else is recomputing it, is as it was.
LEMMA InsertHere ==
    ASSUME MasteryInv, NEW r \in Requests, CreateEvidence(r), NEW c \in Concepts,
           c = request[r].rows[request[r].done + 1].concept
    PROVE  MasteryTrue(c)'
<1> DEFINE a == request[r]
<1>1. PICK begun : begun = [NoRecompute EXCEPT !.concept = c, !.before = MasterySeen(r, c)]
  OBVIOUS
<1>2. PICK b : b = [a EXCEPT !.at = "read", !.done = a.done + 1, !.recompute = begun]
  OBVIOUS
<1>3. request' = [request EXCEPT ![r] = b] /\ UNCHANGED <<mastery, evidence, worker>>
  BY <1>1, <1>2 DEF CreateEvidence, tables
<1>4. begun = [concept |-> c, before |-> MasterySeen(r, c), after |-> 0]
  BY <1>1 DEF NoRecompute
<1>5. /\ b.at = "read" /\ b.written = a.written
      /\ b.recompute.concept = c /\ b.recompute.before = MasterySeen(r, c)
  BY <1>2, <1>4 DEF MasteryInv, TypeInv, Orderlies, Request
<1>6. request'[r] = b /\ \A s \in Requests : s # r => request'[s] = request[s]
  BY <1>3 DEF MasteryInv, TypeInv, Orderlies
<1>7. CASE drift'[c] = "drifted"
  BY <1>7 DEF MasteryTrue, Alone, TransactionTrue, EvaluationTrue
<1>8. CASE drift'[c] # "drifted"
  <2>0. StartsRecompute(r, c) /\ drift \in [Concepts -> {"none", "drifted", "mending"}]
    BY DEF CreateEvidence, MasteryInv, TypeInv, TablesOK
  <2>1. r \notin Workers
    BY QuizAssumption
  <2>2. \A p : p \in Recomputing(c) => p = r
    <3>1. Recomputing(c) \ {r} # {} => drift'[c] = "drifted"
      BY <2>0, DriftStarts
    <3>2. QED
      BY <1>8, <3>1
  <2>3. /\ drift[c] # "drifted" /\ drift'[c] = drift[c]
        /\ drift[c] = "mending" => r \in Recomputing(c)
    <3>1. Recomputing(c) \ {r} = {}
      BY <2>2
    <3>2. /\ drift[c] = "none" => drift'[c] = "none"
          /\ drift[c] = "drifted" => drift'[c] = "drifted"
          /\ drift[c] = "mending" =>
                drift'[c] = IF r \in Recomputing(c) THEN "mending" ELSE "drifted"
      BY <2>0, <2>1, <3>1, DriftStarts
    <3>3. drift[c] \in {"none", "drifted", "mending"}
      BY <2>0
    <3>4. QED
      BY <1>8, <3>2, <3>3
  <2>4. \A s \in Requests : s # r => ~Touching(request[s], c)
    BY <2>2, Recomputers
  <2>5. \A w \in Workers : worker[w].recompute.concept # c
    BY <2>1, <2>2, Recomputers
  <2>6. drift[c] = "none"
    BY <2>1, <2>3, Recomputers DEF MasteryInv, MasteryTrue, Alone, TypeInv, TablesOK
  <2>7. Alone(c)'
    BY <1>3, <1>6, <2>3, <2>4, <2>5, <2>6 DEF Alone
  <2>8. MasterySeen(r, c)' = MasterySeen(r, c)
    BY <1>3, <1>5, <1>6 DEF MasterySeen
  <2>9. \A s \in Requests : TransactionTrue(s, c)'
    BY <1>5, <1>6, <2>4, <2>8 DEF TransactionTrue, At
  <2>10. \A w \in Workers : EvaluationTrue(w, c)'
    BY <1>3, <2>5 DEF EvaluationTrue
  <2>11. QED
    BY <1>3, <2>3, <2>6, <2>7, <2>9, <2>10 DEF MasteryInv, MasteryTrue, About
<1>9. QED
  BY <1>7, <1>8

\* The evidence is read, and mastery is found right, or is about to be made so.
LEMMA ReadTrue ==
    ASSUME MasteryInv, NEW r \in Requests, ReadEvidence(r), NEW c \in Concepts
    PROVE  MasteryTrue(c)'
<1> DEFINE a == request[r]
           d == a.recompute.concept
<1>1. a \in Request /\ a.at = "read" /\ UNCHANGED <<mastery, evidence, worker, drift>>
  BY DEF MasteryInv, TypeInv, Orderlies, ReadEvidence, At, tables, history
<1>2. PICK after : after = ComputeMastery(EvidenceSeen(r, d))
  OBVIOUS
<1>3. PICK b :
        /\ request' = [request EXCEPT ![r] = b]
        /\ b.at \in InTransaction /\ b.done = a.done /\ b.rows = a.rows /\ b.written = a.written
        /\ \/ b.at = "write" /\ b.recompute.concept = d /\ b.recompute.after = after
           \/ b.recompute.concept = NoConcept /\ after = a.recompute.before
  <2>1. CASE /\ request' = [request EXCEPT ![r].at = "write", ![r].recompute.after = after]
    <3>1. PICK recompute : recompute = [a.recompute EXCEPT !.after = after]
      OBVIOUS
    <3>2. recompute.concept = d /\ recompute.after = after
      BY <1>1, <3>1 DEF Request, Recompute
    <3>3. request' = [request EXCEPT ![r] = [a EXCEPT !.at = "write", !.recompute = recompute]]
      BY <1>1, <2>1, <3>1 DEF Request
    <3>4. PICK b : b = [a EXCEPT !.at = "write", !.recompute = recompute]
      OBVIOUS
    <3>5. /\ b.at = "write" /\ b.done = a.done /\ b.rows = a.rows /\ b.written = a.written
          /\ b.recompute = recompute
      BY <1>1, <3>4 DEF Request
    <3>6. QED
      BY <3>2, <3>3, <3>4, <3>5 DEF InTransaction
  <2>2. CASE /\ request' = [request EXCEPT ![r].at = AfterRow(r), ![r].recompute = NoRecompute]
             /\ after = a.recompute.before
    <3>1. PICK b : b = [a EXCEPT !.at = AfterRow(r), !.recompute = NoRecompute]
      OBVIOUS
    <3>2. /\ b.at = AfterRow(r) /\ b.done = a.done /\ b.rows = a.rows /\ b.written = a.written
          /\ b.recompute = NoRecompute
      BY <1>1, <3>1 DEF Request
    <3>3. AfterRow(r) \in InTransaction
      BY DEF AfterRow, InTransaction
    <3>4. request' = [request EXCEPT ![r] = b]
      BY <2>2, <3>1
    <3>5. QED
      BY <2>2, <3>2, <3>3, <3>4, NoRecomputeType
  <2>3. QED
    BY <1>2, <2>1, <2>2 DEF ReadEvidence
<1>4. request'[r] = b /\ \A s \in Requests : s # r => request'[s] = request[s]
  BY <1>3 DEF MasteryInv, TypeInv, Orderlies
<1>5. /\ \A k : Touching(b, k) <=> Touching(a, k)
      /\ EvidenceSeen(r, c)' = EvidenceSeen(r, c) /\ MasterySeen(r, c)' = MasterySeen(r, c)
  BY <1>1, <1>3, <1>4 DEF Touching, InTransaction, EvidenceSeen, About, Inserted, MasterySeen
<1>6. CASE c # d
  BY <1>1, <1>3, <1>5, <1>6, RequestElsewhere, QuizAssumption DEF MasteryInv
<1>7. CASE c = d
  <2>1. Alone(c)'
    BY <1>1, <1>4, <1>5 DEF MasteryInv, MasteryTrue, Alone
  <2>2. TransactionTrue(r, c)'
    BY <1>1, <1>2, <1>3, <1>4, <1>5, <1>7, QuizAssumption
       DEF MasteryInv, MasteryTrue, TransactionTrue, At
  <2>3. ASSUME NEW s \in Requests, s # r PROVE TransactionTrue(s, c)'
    <3>1. TransactionTrue(s, c) /\ request'[s] = request[s]
      BY <1>4, <2>3 DEF MasteryInv, MasteryTrue
    <3>2. QED
      BY <1>1, <3>1 DEF TransactionTrue, At, EvidenceSeen, About, Inserted, MasterySeen
  <2>4. \A w \in Workers : EvaluationTrue(w, c)'
    BY <1>1 DEF MasteryInv, MasteryTrue, EvaluationTrue, About, On
  <2>5. QED
    BY <1>1, <2>1, <2>2, <2>3, <2>4 DEF MasteryInv, MasteryTrue, About
<1>8. QED
  BY <1>6, <1>7

\* Mastery is stored in the transaction.
LEMMA WriteTrue ==
    ASSUME MasteryInv, NEW r \in Requests, WriteMastery(r), NEW c \in Concepts
    PROVE  MasteryTrue(c)'
<1> DEFINE a == request[r]
           d == a.recompute.concept
<1>1. /\ a \in Request /\ Orderly(a) /\ a.at = "write"
      /\ UNCHANGED <<mastery, evidence, worker, drift>>
  BY DEF MasteryInv, TypeInv, Orderlies, Orderly, WriteMastery, At, tables, history
<1>2. d \in Concepts /\ a.recompute.after \in 0..100 /\ a.recompute.after # Unwritten
  <2>1. d \in Concepts
    BY <1>1, RecomputeIsOrderly
  <2>2. a.recompute.after \in 0..100
    BY <1>1 DEF Request, Recompute
  <2>3. QED
    BY <2>1, <2>2 DEF Unwritten
<1>3. PICK written : written = [a.written EXCEPT ![d] = a.recompute.after]
  OBVIOUS
<1>4. written[d] = a.recompute.after /\ \A k \in Concepts : k # d => written[k] = a.written[k]
  BY <1>1, <1>2, <1>3 DEF Request
<1>5. PICK b : b = [a EXCEPT !.at = AfterRow(r), !.recompute = NoRecompute, !.written = written]
  OBVIOUS
<1>6. /\ b.at = AfterRow(r) /\ b.done = a.done /\ b.rows = a.rows /\ b.written = written
      /\ b.recompute = NoRecompute
  BY <1>1, <1>5 DEF Request
<1>7. request' = [request EXCEPT ![r] = b]
  BY <1>3, <1>5 DEF WriteMastery
<1>8. request'[r] = b /\ \A s \in Requests : s # r => request'[s] = request[s]
  BY <1>7 DEF MasteryInv, TypeInv, Orderlies
<1>9. b.at \in InTransaction /\ b.recompute.concept = NoConcept
  BY <1>6, NoRecomputeType DEF AfterRow, InTransaction
<1>10. (\A k : Touching(b, k) <=> Touching(a, k)) /\ EvidenceSeen(r, c)' = EvidenceSeen(r, c)
  BY <1>1, <1>6, <1>8, <1>9 DEF Touching, InTransaction, EvidenceSeen, About, Inserted
<1>11. CASE c # d
  <2>1. MasterySeen(r, c)' = MasterySeen(r, c)
    BY <1>1, <1>4, <1>6, <1>8, <1>11 DEF MasterySeen
  <2>2. QED
    BY <1>1, <1>7, <1>9, <1>10, <1>11, <2>1, RequestElsewhere, QuizAssumption DEF MasteryInv
<1>12. CASE c = d
  <2>1. Alone(c)'
    BY <1>1, <1>8, <1>10 DEF MasteryInv, MasteryTrue, Alone
  <2>2. MasterySeen(r, c)' = a.recompute.after
    BY <1>2, <1>4, <1>6, <1>8, <1>12 DEF MasterySeen
  <2>3. drift[c] = "none" /\ Touching(a, c) => a.recompute.after = ComputeMastery(EvidenceSeen(r, c))
    BY <1>1, <1>12 DEF MasteryInv, MasteryTrue, TransactionTrue, At
  <2>4. TransactionTrue(r, c)'
    BY <1>1, <1>8, <1>9, <1>10, <2>2, <2>3, QuizAssumption DEF TransactionTrue
  <2>5. ASSUME NEW s \in Requests, s # r PROVE TransactionTrue(s, c)'
    <3>1. TransactionTrue(s, c) /\ request'[s] = request[s]
      BY <1>8, <2>5 DEF MasteryInv, MasteryTrue
    <3>2. QED
      BY <1>1, <3>1 DEF TransactionTrue, At, EvidenceSeen, About, Inserted, MasterySeen
  <2>6. \A w \in Workers : EvaluationTrue(w, c)'
    BY <1>1 DEF MasteryInv, MasteryTrue, EvaluationTrue, About, On
  <2>7. QED
    BY <1>1, <2>1, <2>4, <2>5, <2>6 DEF MasteryInv, MasteryTrue, About
<1>13. QED
  BY <1>11, <1>12

\* A transaction commits: its evidence appears, and the mastery it has seen.
LEMMA CommitTrue ==
    ASSUME MasteryInv, NEW r \in Requests, Commit(r), NEW c \in Concepts
    PROVE  MasteryTrue(c)'
<1> DEFINE a == request[r]
<1>1. /\ a.at = "commit" /\ a.recompute.concept = NoConcept
      /\ a.written[c] # Unwritten => Touching(a, c)
  BY DEF MasteryInv, TypeInv, Orderlies, InOrder, Commit, At
<1>2. /\ evidence' = evidence \cup Inserted(r) /\ mastery'[c] = MasterySeen(r, c)
      /\ request' = [request EXCEPT ![r] = Closed] /\ UNCHANGED <<worker, drift>>
  BY DEF Commit, Close, history
<1>3. ~Touching(request'[r], c) /\ \A s \in Requests : s # r => request'[s] = request[s]
  BY <1>2 DEF MasteryInv, TypeInv, Orderlies, Closed, Touching, InTransaction
<1>4. Alone(c)'
  BY <1>2, <1>3 DEF MasteryInv, MasteryTrue, Alone
<1>5. About(c)' = EvidenceSeen(r, c)
  BY <1>2 DEF About, EvidenceSeen
<1>6. CASE Touching(a, c)
  <2>1. drift[c] # "mending"
    BY <1>6 DEF MasteryInv, MasteryTrue, Alone
  <2>2. drift[c] = "none" => mastery'[c] = ComputeMastery(About(c)')
    BY <1>1, <1>2, <1>5, <1>6, QuizAssumption DEF MasteryInv, MasteryTrue, TransactionTrue
  <2>3. drift[c] # "drifted" => /\ \A s \in Requests : s # r => ~Touching(request[s], c)
                                /\ \A w \in Workers : worker[w].recompute.concept # c
    BY <1>6 DEF MasteryInv, MasteryTrue, Alone
  <2>4. \A s \in Requests : TransactionTrue(s, c)'
    BY <1>2, <1>3, <2>3 DEF TransactionTrue
  <2>5. \A w \in Workers : EvaluationTrue(w, c)'
    BY <1>2, <2>3 DEF EvaluationTrue
  <2>6. QED
    BY <1>2, <1>4, <2>2, <2>4, <2>5 DEF MasteryTrue
<1>7. CASE ~Touching(a, c)
  <2>1. mastery'[c] = mastery[c]
    BY <1>1, <1>2, <1>7 DEF MasterySeen
  <2>2. \A e \in Inserted(r) : e.concept # c
    BY <1>1, <1>7 DEF Inserted, Touching, InTransaction
  <2>3. About(c)' = About(c)
    BY <1>2, <2>2 DEF About
  <2>4. ASSUME NEW s \in Requests PROVE TransactionTrue(s, c)'
    <3>1. CASE s = r
      BY <1>3, <3>1 DEF TransactionTrue
    <3>2. CASE s # r
      <4>1. request'[s] = request[s] /\ TransactionTrue(s, c)
        BY <1>3, <3>2 DEF MasteryInv, MasteryTrue
      <4>2. EvidenceSeen(s, c)' = EvidenceSeen(s, c) /\ MasterySeen(s, c)' = MasterySeen(s, c)
        BY <2>1, <2>3, <4>1 DEF EvidenceSeen, MasterySeen, Inserted
      <4>3. QED
        BY <1>2, <4>1, <4>2 DEF TransactionTrue, At
    <3>3. QED
      BY <3>1, <3>2
  <2>5. \A w \in Workers : EvaluationTrue(w, c)'
    BY <1>2, <2>1, <2>3 DEF MasteryInv, MasteryTrue, EvaluationTrue, On
  <2>6. QED
    BY <1>2, <1>4, <2>1, <2>3, <2>4, <2>5 DEF MasteryInv, MasteryTrue
<1>8. QED
  BY <1>6, <1>7

\* An evaluation comes to its next concept.
LEMMA NextTrue ==
    ASSUME MasteryInv, NEW w \in Workers, EvaluateNext(w), NEW c \in Concepts
    PROVE  MasteryTrue(c)'
<1>1. PICK d \in worker[w].todo :
          /\ worker' = [worker EXCEPT ![w].at = "read", ![w].todo = @ \ {d},
                ![w].recompute = [NoRecompute EXCEPT !.concept = d, !.before = mastery[d]]]
          /\ StartsRecompute(w, d)
  BY DEF EvaluateNext
<1>2. PICK begun : begun = [NoRecompute EXCEPT !.concept = d, !.before = mastery[d]]
  OBVIOUS
<1>3. begun = [concept |-> d, before |-> mastery[d], after |-> 0]
  BY <1>2 DEF NoRecompute
<1>4. PICK b : b = [worker[w] EXCEPT !.at = "read", !.todo = @ \ {d}, !.recompute = begun]
  OBVIOUS
<1>5. /\ b.at = "read" /\ b.recompute.concept = d /\ b.recompute.before = mastery[d]
      /\ worker' = [worker EXCEPT ![w] = b] /\ d \in Concepts
  BY <1>1, <1>2, <1>3, <1>4 DEF MasteryInv, TypeInv, Runs, Worker
<1>6. worker'[w] = b /\ \A v \in Workers : v # w => worker'[v] = worker[v]
  BY <1>5 DEF MasteryInv, TypeInv, Runs
<1>7. UNCHANGED <<mastery, evidence, request>>
  BY DEF EvaluateNext, tables
<1>8. /\ \A k \in Concepts : k # d => drift'[k] = drift[k]
      /\ Recomputing(d) \ {w} # {} => drift'[d] = "drifted"
      /\ Recomputing(d) \ {w} = {} =>
            /\ drift[d] = "none" => drift'[d] = "none"
            /\ drift[d] # "none" => drift'[d] = "mending"
  <2>1. StartsRecompute(w, d) /\ drift \in [Concepts -> {"none", "drifted", "mending"}]
    BY <1>1 DEF MasteryInv, TypeInv, TablesOK
  <2>2. QED
    BY <1>5, <2>1, DriftStarts
<1>9. CASE c # d
  BY <1>5, <1>7, <1>8, <1>9, RunLeaves DEF MasteryInv
<1>10. CASE c = d
  <2>1. CASE drift'[c] = "drifted"
    BY <2>1 DEF MasteryTrue, Alone, TransactionTrue, EvaluationTrue
  <2>2. CASE drift'[c] # "drifted"
    <3>1. Recomputing(c) \ {w} = {}
      BY <1>8, <1>10, <2>2
    <3>2. w \notin Requests
      BY QuizAssumption
    <3>3. \A r \in Requests : ~Touching(request[r], c)
      BY <3>1, <3>2, Recomputers
    <3>4. \A v \in Workers : v # w => worker[v].recompute.concept # c
      BY <3>1, Recomputers
    <3>5. Alone(c)'
      BY <1>6, <1>7, <3>3, <3>4 DEF Alone
    <3>6. \A r \in Requests : TransactionTrue(r, c)'
      BY <1>7, <3>3 DEF TransactionTrue
    <3>7. \A v \in Workers : EvaluationTrue(v, c)'
      BY <1>5, <1>6, <1>7, <1>10, <3>4 DEF EvaluationTrue, On
    <3>8. drift'[c] = "none" => drift[c] = "none"
      BY <1>8, <1>10, <3>1
    <3>9. QED
      BY <1>7, <3>5, <3>6, <3>7, <3>8 DEF MasteryInv, MasteryTrue, About
  <2>3. QED
    BY <2>1, <2>2
<1>11. QED
  BY <1>9, <1>10

\* What ending a recomputation says of the concepts.
LEMMA DriftEnds ==
    ASSUME drift \in [Concepts -> {"none", "drifted", "mending"}], NEW d \in Concepts,
           EndsRecompute(d)
    PROVE  /\ \A c \in Concepts : c # d => drift'[c] = drift[c]
           /\ drift[d] = "drifted" => drift'[d] = "drifted"
           /\ drift[d] # "drifted" => drift'[d] = "none"
  BY DEF EndsRecompute

\* A run ends a recomputation of d, whose mastery is now what the evidence says, if it was alone.
LEMMA RunEnds ==
    ASSUME MasteryInv, NEW w \in Workers, NEW b, NEW d \in Concepts,
           worker[w].recompute.concept = d, b.recompute.concept = NoConcept,
           worker' = [worker EXCEPT ![w] = b], EndsRecompute(d), UNCHANGED <<evidence, request>>,
           \A c \in Concepts : c # d => mastery'[c] = mastery[c],
           drift[d] # "drifted" => mastery'[d] = ComputeMastery(About(d)),
           NEW c \in Concepts
    PROVE  MasteryTrue(c)'
<1>1. worker'[w] = b /\ \A v \in Workers : v # w => worker'[v] = worker[v]
  BY DEF MasteryInv, TypeInv, Runs
<1>2. /\ \A k \in Concepts : k # d => drift'[k] = drift[k]
      /\ drift[d] = "drifted" => drift'[d] = "drifted"
      /\ drift[d] # "drifted" => drift'[d] = "none"
  BY DriftEnds DEF MasteryInv, TypeInv, TablesOK
<1>3. CASE c # d
  BY <1>2, <1>3, RunLeaves, QuizAssumption DEF MasteryInv
<1>4. CASE c = d /\ drift[c] = "drifted"
  BY <1>2, <1>4 DEF MasteryTrue, Alone, TransactionTrue, EvaluationTrue
<1>5. CASE c = d /\ drift[c] # "drifted"
  <2>1. /\ \A r \in Requests : ~Touching(request[r], c)
        /\ \A v \in Workers : v # w => worker[v].recompute.concept # c
    BY <1>5 DEF MasteryInv, MasteryTrue, Alone
  <2>2. \A v \in Workers : worker'[v].recompute.concept # c
    BY <1>1, <2>1, QuizAssumption
  <2>3. Alone(c)'
    BY <2>1, <2>2 DEF Alone
  <2>4. \A r \in Requests : TransactionTrue(r, c)'
    BY <2>1 DEF TransactionTrue
  <2>5. \A v \in Workers : EvaluationTrue(v, c)'
    BY <2>2 DEF EvaluationTrue
  <2>6. QED
    BY <1>5, <2>3, <2>4, <2>5 DEF MasteryTrue, About
<1>6. QED
  BY <1>3, <1>4, <1>5

LEMMA EvaluateReadTrue ==
    ASSUME MasteryInv, NEW w \in Workers, EvaluateRead(w), NEW c \in Concepts
    PROVE  MasteryTrue(c)'
<1> DEFINE d == worker[w].recompute.concept
<1>1. /\ worker[w] \in Worker /\ worker[w].at = "read" /\ d \in Concepts
      /\ UNCHANGED <<mastery, evidence, request>>
  BY DEF MasteryInv, TypeInv, Runs, Running, EvaluateRead, On, Worker, Recompute, tables
<1>2. PICK after : after = ComputeMastery(About(d))
  OBVIOUS
<1>3. drift[d] # "drifted" => worker[w].recompute.before = mastery[d]
  BY <1>1 DEF MasteryInv, MasteryTrue, EvaluationTrue, On
<1>4. CASE /\ worker' = [worker EXCEPT ![w].at = "write", ![w].recompute.after = after]
           /\ UNCHANGED drift
  <2>1. PICK recompute : recompute = [worker[w].recompute EXCEPT !.after = after]
    OBVIOUS
  <2>2. recompute.concept = d /\ recompute.after = after
    BY <1>1, <2>1 DEF Worker, Recompute
  <2>3. PICK b : b = [worker[w] EXCEPT !.at = "write", !.recompute = recompute]
    OBVIOUS
  <2>4. b.at = "write" /\ b.recompute = recompute /\ worker' = [worker EXCEPT ![w] = b]
    BY <1>1, <1>4, <2>1, <2>3 DEF Worker
  <2>5. worker'[w] = b /\ \A v \in Workers : v # w => worker'[v] = worker[v]
    BY <2>4 DEF MasteryInv, TypeInv, Runs
  <2>6. CASE c # d
    BY <1>1, <1>4, <2>2, <2>4, <2>6, RunLeaves DEF MasteryInv
  <2>7. CASE c = d
    <3>1. /\ \A v \in Workers : worker'[v].recompute.concept = worker[v].recompute.concept
          /\ Alone(c) /\ (\A r \in Requests : TransactionTrue(r, c))
          /\ (\A v \in Workers : EvaluationTrue(v, c))
      BY <2>2, <2>4, <2>5 DEF MasteryInv, MasteryTrue
    <3>2. Alone(c)'
      BY <1>1, <1>4, <3>1 DEF Alone
    <3>3. ASSUME NEW r \in Requests PROVE TransactionTrue(r, c)'
      <4>1. EvidenceSeen(r, c)' = EvidenceSeen(r, c) /\ MasterySeen(r, c)' = MasterySeen(r, c)
        BY <1>1 DEF MasterySeen, EvidenceSeen, About, Inserted
      <4>2. QED
        BY <1>1, <1>4, <3>1, <4>1 DEF TransactionTrue, At
    <3>4. EvaluationTrue(w, c)'
      BY <1>1, <1>2, <2>2, <2>4, <2>5, <2>7 DEF EvaluationTrue, On, About
    <3>5. ASSUME NEW v \in Workers, v # w PROVE EvaluationTrue(v, c)'
      BY <1>1, <1>4, <2>5, <3>1, <3>5 DEF EvaluationTrue, About, On
    <3>6. QED
      BY <1>1, <1>4, <3>2, <3>3, <3>4, <3>5 DEF MasteryInv, MasteryTrue, About
  <2>8. QED
    BY <2>6, <2>7
<1>5. CASE /\ worker' = [worker EXCEPT ![w].at = "next", ![w].recompute = NoRecompute]
           /\ after = worker[w].recompute.before /\ EndsRecompute(d)
  <2>1. PICK b : b = [worker[w] EXCEPT !.at = "next", !.recompute = NoRecompute]
    OBVIOUS
  <2>2. b.recompute.concept = NoConcept /\ worker' = [worker EXCEPT ![w] = b]
    BY <1>1, <1>5, <2>1, NoRecomputeType DEF Worker
  <2>3. drift[d] # "drifted" => mastery'[d] = ComputeMastery(About(d))
    BY <1>1, <1>2, <1>3, <1>5
  <2>4. QED
    BY <1>1, <1>5, <2>2, <2>3, RunEnds
<1>6. QED
  BY <1>2, <1>4, <1>5 DEF EvaluateRead

LEMMA EvaluateWriteTrue ==
    ASSUME MasteryInv, NEW w \in Workers, EvaluateWrite(w), NEW c \in Concepts
    PROVE  MasteryTrue(c)'
<1> DEFINE d == worker[w].recompute.concept
<1>1. /\ worker[w] \in Worker /\ worker[w].at = "write" /\ d \in Concepts
      /\ UNCHANGED <<evidence, request>> /\ EndsRecompute(d)
      /\ mastery' = [mastery EXCEPT ![d] = worker[w].recompute.after]
      /\ mastery \in [Concepts -> 0..100]
  BY DEF MasteryInv, TypeInv, TablesOK, Runs, Running, EvaluateWrite, On, Worker, Recompute
<1>2. drift[d] # "drifted" => worker[w].recompute.after = ComputeMastery(About(d))
  BY <1>1 DEF MasteryInv, MasteryTrue, EvaluationTrue, On
<1>3. PICK b : b = [worker[w] EXCEPT !.at = "next", !.recompute = NoRecompute]
  OBVIOUS
<1>4. b.recompute.concept = NoConcept /\ worker' = [worker EXCEPT ![w] = b]
  BY <1>1, <1>3, NoRecomputeType DEF Worker, EvaluateWrite
<1>5. drift[d] # "drifted" => mastery'[d] = ComputeMastery(About(d))
  BY <1>1, <1>2
<1>6. \A k \in Concepts : k # d => mastery'[k] = mastery[k]
  BY <1>1
<1>7. QED
  BY <1>1, <1>4, <1>5, <1>6, RunEnds

LEMMA MasteryInit == Init => MasteryInv
<1> SUFFICES ASSUME Init PROVE MasteryInv
  OBVIOUS
<1>1. \A r \in Requests, c \in Concepts : ~Touching(request[r], c)
  BY DEF Init, Closed, Touching, InTransaction
<1>2. \A w \in Workers, c \in Concepts : worker[w].recompute.concept # c
  BY NoRecomputeType, QuizAssumption DEF Init, Idle
<1>3. ASSUME NEW c \in Concepts PROVE mastery[c] = ComputeMastery(About(c))
  <2>1. About(c) = {} /\ mastery[c] = 0
    BY DEF Init, About
  <2>2. QED
    BY <2>1, NoEvidenceNoMastery
<1>4. QED
  BY <1>1, <1>2, <1>3, TypeInit
     DEF MasteryInv, MasteryTrue, Alone, TransactionTrue, EvaluationTrue

LEMMA MasteryStep == MasteryInv /\ [Next]_vars => MasteryInv'
<1> SUFFICES ASSUME MasteryInv, [Next]_vars, NEW c \in Concepts PROVE MasteryTrue(c)'
  BY TypeStep DEF MasteryInv
<1>1. TypeInv /\ MasteryTrue(c)
  BY DEF MasteryInv
<1>2. UNCHANGED <<mastery, evidence, request, worker, drift>> => MasteryTrue(c)'
  BY <1>1 DEF MasteryTrue, Alone, TransactionTrue, EvaluationTrue, MasterySeen, EvidenceSeen,
       About, Inserted, At, On
<1>3. ASSUME NEW r \in Requests, NEW b, request' = [request EXCEPT ![r] = b],
             \/ b.at \notin InTransaction
             \/ b.done = 0,
             UNCHANGED <<mastery, evidence, worker, drift>>
      PROVE  MasteryTrue(c)'
  <2>1. ~Touching(b, c)
    BY <1>3 DEF Touching
  <2>2. QED
    BY <1>1, <1>3, <2>1, RequestLeaves
<1>4. Closed.at \notin InTransaction
  BY DEF Closed, InTransaction
<1>5. CASE \E z \in Quizzes : StartQuiz(z) \/ ReclaimEvaluation(z)
  BY <1>2, <1>5 DEF StartQuiz, ReclaimEvaluation, history
<1>6. CASE \E r \in Requests, z \in Quizzes : CompleteQuiz(r, z)
  <2>1. PICK r \in Requests, z \in Quizzes : CompleteQuiz(r, z)
    BY <1>6
  <2>2. PICK b : b = [Closed EXCEPT !.at = "close", !.quiz = z]
    OBVIOUS
  <2>3. b.at = "close" /\ request' = [request EXCEPT ![r] = b]
    BY <2>1, <2>2 DEF CompleteQuiz, Closed
  <2>4. QED
    BY <1>3, <2>1, <2>3 DEF CompleteQuiz, tables, history, InTransaction
<1>7. CASE \E r \in Requests, q \in Questions : SubmitAnswer(r, q)
  <2>1. PICK r \in Requests, q \in Questions : SubmitAnswer(r, q)
    BY <1>7
  <2>2. PICK b : b = [Closed EXCEPT !.at = "grade", !.question = q]
    OBVIOUS
  <2>3. b.at = "grade" /\ request' = [request EXCEPT ![r] = b]
    BY <2>1, <2>2 DEF SubmitAnswer, Closed
  <2>4. QED
    BY <1>3, <2>1, <2>3 DEF SubmitAnswer, tables, history, InTransaction
<1>8. ASSUME NEW r \in Requests, Close(r), UNCHANGED <<mastery, evidence, worker, drift>>
      PROVE  MasteryTrue(c)'
  BY <1>3, <1>4, <1>8 DEF Close
<1>9. ASSUME NEW r \in Requests, Grade(r) PROVE MasteryTrue(c)'
  <2>1. UNCHANGED <<mastery, evidence, worker, drift>>
    BY <1>9 DEF Grade, tables, history
  <2>2. ASSUME NEW rows, request' = [request EXCEPT ![r].at = "answer", ![r].rows = rows]
        PROVE  MasteryTrue(c)'
    <3>1. PICK b : b = [request[r] EXCEPT !.at = "answer", !.rows = rows]
      OBVIOUS
    <3>2. b.at = "answer" /\ request' = [request EXCEPT ![r] = b]
      BY <1>1, <2>2, <3>1 DEF TypeInv, Orderlies, Request
    <3>3. QED
      BY <1>3, <2>1, <3>2 DEF InTransaction
  <2>3. QED
    BY <1>8, <1>9, <2>1, <2>2 DEF Grade
<1>10. ASSUME NEW r \in Requests, CreateAnswer(r) PROVE MasteryTrue(c)'
  <2>1. UNCHANGED <<mastery, evidence, worker, drift>>
    BY <1>10 DEF CreateAnswer, tables, history
  <2>2. CASE GoOn(r, "create")
    <3>1. PICK b : b = [request[r] EXCEPT !.at = "create"]
      OBVIOUS
    <3>2. request[r].at = "answer" /\ request[r] \in Request /\ InOrder(request[r])
      BY <1>1, <1>10 DEF CreateAnswer, At, TypeInv, Orderlies
    <3>3. b.done = request[r].done /\ request' = [request EXCEPT ![r] = b]
      BY <2>2, <3>1, <3>2 DEF GoOn, Request
    <3>4. request[r].done = 0
      BY <3>2 DEF InOrder, InTransaction
    <3>5. QED
      BY <1>3, <2>1, <3>3, <3>4
  <2>3. QED
    BY <1>8, <1>10, <2>1, <2>2 DEF CreateAnswer
<1>11. ASSUME NEW r \in Requests, CreateEvidence(r) PROVE MasteryTrue(c)'
  BY <1>11, InsertElsewhere, InsertHere
<1>12. CASE \E r \in Requests : ReadEvidence(r) \/ WriteMastery(r) \/ Commit(r)
  BY <1>12, ReadTrue, WriteTrue, CommitTrue
<1>13. CASE \E r \in Requests : BreakDeadlock(r) \/ EnqueueEvaluation(r) \/ RequestDies(r)
  BY <1>8, <1>13 DEF BreakDeadlock, EnqueueEvaluation, RequestDies, tables, history
<1>14. ASSUME NEW r \in Requests, CloseQuiz(r) PROVE MasteryTrue(c)'
  <2>1. PICK b : b = [request[r] EXCEPT !.at = "enqueue"]
    OBVIOUS
  <2>2. b.at = "enqueue" /\ request' = [request EXCEPT ![r] = b]
    BY <1>1, <1>14, <2>1 DEF CloseQuiz, GoOn, TypeInv, Orderlies, Request
  <2>3. QED
    BY <1>3, <1>14, <2>2 DEF CloseQuiz, history, InTransaction
<1>15. ASSUME NEW w \in Workers, NEW b, worker' = [worker EXCEPT ![w] = b],
              b.recompute.concept = NoConcept, UNCHANGED <<mastery, evidence, request, drift>>
       PROVE  MasteryTrue(c)'
  BY <1>1, <1>15, RunLeaves, QuizAssumption
<1>16. Idle.recompute.concept = NoConcept
  BY NoRecomputeType DEF Idle
<1>17. ASSUME NEW w \in Workers, ClaimEvaluation(w) PROVE MasteryTrue(c)'
  <2>1. PICK z \in Quizzes : worker' = [worker EXCEPT ![w] =
                [Idle EXCEPT !.at = "next", !.quiz = z,
                             !.todo = {ConceptOf[q] : q \in QuestionsOf(z)}]]
    BY <1>17 DEF ClaimEvaluation
  <2>2. PICK todo : todo = {ConceptOf[q] : q \in QuestionsOf(z)}
    OBVIOUS
  <2>3. PICK b : b = [Idle EXCEPT !.at = "next", !.quiz = z, !.todo = todo]
    OBVIOUS
  <2>4. b.recompute.concept = NoConcept
    BY <1>16, <2>3 DEF Idle
  <2>5. worker' = [worker EXCEPT ![w] = b]
    BY <2>1, <2>2, <2>3
  <2>6. QED
    BY <1>15, <1>17, <2>4, <2>5 DEF ClaimEvaluation, history
<1>18. CASE \E w \in Workers : EvaluateNext(w) \/ EvaluateRead(w) \/ EvaluateWrite(w)
  BY <1>18, NextTrue, EvaluateReadTrue, EvaluateWriteTrue DEF MasteryInv
<1>19. ASSUME NEW w \in Workers, NEW at, worker[w].at \notin {"read", "write"}, Proceed(w, at),
              UNCHANGED <<mastery, evidence, request, drift>>
       PROVE  MasteryTrue(c)'
  <2>1. PICK b : b = [worker[w] EXCEPT !.at = at]
    OBVIOUS
  <2>2. b.recompute.concept = NoConcept /\ worker' = [worker EXCEPT ![w] = b]
    BY <1>1, <1>19, <2>1 DEF Proceed, TypeInv, Runs, Running, Worker
  <2>3. QED
    BY <1>15, <1>19, <2>2
<1>20. CASE \E w \in Workers : EvaluateDone(w) \/ EnqueueFollowUp(w)
  BY <1>19, <1>20 DEF EvaluateDone, EnqueueFollowUp, On, tables, history
<1>21. CASE \E w \in Workers : Report(w) \/ WorkerDies(w)
  BY <1>15, <1>16, <1>21 DEF Report, WorkerDies, tables, history
<1>22. ASSUME NEW w \in Workers, WorkerThrows(w) PROVE MasteryTrue(c)'
  <2>1. PICK b : b = [worker[w] EXCEPT !.at = "fail", !.recompute = NoRecompute]
    OBVIOUS
  <2>2. b.recompute.concept = NoConcept /\ worker' = [worker EXCEPT ![w] = b]
    BY <1>1, <1>22, <2>1, NoRecomputeType DEF WorkerThrows, TypeInv, Runs, Worker
  <2>3. QED
    BY <1>15, <1>22, <2>2 DEF WorkerThrows, tables, history
<1>23. CASE UNCHANGED vars
  BY <1>2, <1>23 DEF vars, tables, history
<1>24. QED
  BY <1>5, <1>6, <1>7, <1>9, <1>10, <1>11, <1>12, <1>13, <1>14, <1>17, <1>18, <1>20, <1>21,
     <1>22, <1>23, StepCases, Zenon

\* Mastery is what the evidence says, through failures, retries and repeated evaluations,
\* for a concept whose recomputations have not overlapped since an evaluation that was
\* alone: for any number of requests, workers, quizzes and rows, and any estimate.
THEOREM MasteryFollowsEvidenceCorrect == Spec => []MasteryFollowsEvidence
<1>1. MasteryInv => MasteryFollowsEvidence
  BY DEF MasteryInv, MasteryTrue, MasteryFollowsEvidence
<1>2. QED
  BY <1>1, MasteryInit, MasteryStep, PTL DEF Spec

=============================================================================
