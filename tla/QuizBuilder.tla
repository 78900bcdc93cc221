----------------------------- MODULE QuizBuilder -----------------------------
(***************************************************************************)
(* How a quiz comes to be, and how its multiple-choice questions are graded:*)
(* startQuiz and gradeChoice (lib/services/quizzes.ts) and the generation   *)
(* of one question (lib/ai/features/generate-quiz.ts), while materials are  *)
(* processed and withdrawn and the project may be deleted.  Which concepts  *)
(* a plan names, and why, is in Learning.                                   *)
(***************************************************************************)
EXTENDS Integers, Sequences, SequencesExt, FiniteSets

CONSTANTS
    QuizConcepts,    \* the concepts of the project
    PlanLength,      \* questions a quiz is asked to have
    RawIds,          \* option ids a model may write
    MaxOptions,      \* bound on the options of a question
    Attempts,        \* MAX_ATTEMPTS
    MaxQuizzes       \* bound on the quizzes

\* An id: its text, and whether there are blanks around it; none is a JSON null, or empty.
RawId(text, padded) == [text |-> text, padded |-> padded]
NoId == RawId("", FALSE)

ASSUME BuilderAssumption ==
    /\ {PlanLength, MaxOptions, Attempts} \subseteq Nat \ {0} /\ MaxQuizzes \in Nat
    /\ RawIds \subseteq [text : STRING, padded : BOOLEAN] \ {NoId}

VARIABLES
    grounded,   \* the concepts that the READY materials have evidence for
    deleted,    \* the project is deleted
    building,   \* the request that builds a quiz
    seen,       \* history: the concepts that had evidence when it was retrieved for this quiz
    stored      \* the quizzes

builderVars == <<grounded, deleted, building, seen, stored>>

-----------------------------------------------------------------------------
(* One generated question *)

TrimmedId(id) == RawId(id.text, FALSE)

\* What a model writes: the ids of the options, and the key, if it gives one.
RawQuestion(multiple) ==
    [prompt : BOOLEAN, options : IF multiple THEN BoundedSeq(RawIds, MaxOptions) ELSE {<<>>},
     key : IF multiple THEN RawIds \cup {NoId} ELSE {NoId}]

\* Mutant: whether the ids are unique is not asked.
UsableWithDuplicates(question, multiple) ==
    /\ question.prompt
    /\ multiple =>
          /\ Len(question.options) >= 2
          /\ question.key # NoId
          /\ Contains(question.options, question.key)

\* problemWith: the ids as the model wrote them.
Usable(question, multiple) ==
    /\ question.prompt
    /\ multiple =>
          /\ Len(question.options) >= 2
          /\ question.key # NoId
          /\ Contains(question.options, question.key)
          /\ IsInjective(question.options)

\* normalise, and the row made of it: an id of blanks is empty from here on.  The
\* stored order is the position among the drafts.
QuestionOf(question, plan, n) ==
    [planned |-> n,   \* history: its place in the plan
     concept |-> plan[n].concept, type |-> plan[n].type,
     options |-> [k \in DOMAIN question.options |-> TrimmedId(question.options[k])],
     key |-> TrimmedId(question.key),
     padded |-> \E id \in ToSet(question.options) : id.padded]   \* history

-----------------------------------------------------------------------------
(* startQuiz *)

NoBuild == [at |-> "idle", plan |-> <<>>, n |-> 0, tries |-> 0, drafts |-> <<>>]
Multiple(type) == type = "MULTIPLE_CHOICE"
Current == building.plan[building.n]

BuilderInit ==
    /\ grounded = {} /\ deleted = FALSE
    /\ building = NoBuild /\ seen = <<>>
    /\ stored = <<>>

\* The plan: the ranked concepts in turn, with alternating types; their queries
\* are embedded in one call, which may fail.
StartBuilding ==
    /\ building = NoBuild /\ ~deleted /\ Len(stored) < MaxQuizzes
    /\ \E first \in QuizConcepts, multiple \in BOOLEAN :
          LET ranked == <<first>> \o SetToSeq(QuizConcepts \ {first})
              type(n) == IF (n % 2 = 1) = multiple THEN "MULTIPLE_CHOICE" ELSE "OPEN_ENDED"
          IN  building' = [NoBuild EXCEPT !.at = "embed",
                 !.plan = [n \in 1..PlanLength |->
                             [concept |-> ranked[((n - 1) % Len(ranked)) + 1], type |-> type(n)]]]
    /\ seen' = <<>>
    /\ UNCHANGED <<grounded, deleted, stored>>

StopsBuilding == building' = NoBuild

EmbedQueries ==
    /\ building.at = "embed"
    /\ \/ building' = [building EXCEPT !.at = "retrieve", !.n = 1]
       \/ StopsBuilding
    /\ UNCHANGED <<grounded, deleted, seen, stored>>

\* After the question that was drafted or skipped.
NextQuestion(drafts) ==
    [building EXCEPT !.at = IF building.n = Len(building.plan) THEN "store" ELSE "retrieve",
                     !.n = IF building.n = Len(building.plan) THEN @ ELSE @ + 1,
                     !.tries = 0, !.drafts = drafts]

\* A concept without evidence is skipped.
RetrieveForQuestion ==
    /\ building.at = "retrieve"
    /\ IF ~deleted /\ Current.concept \in grounded
       THEN /\ building' = [building EXCEPT !.at = "generate"]
            /\ seen' = Append(seen, building.n)
       ELSE building' = NextQuestion(building.drafts) /\ UNCHANGED seen
    /\ UNCHANGED <<grounded, deleted, stored>>

\* generateQuizQuestion: one attempt.  Any failure of a model call, and a question
\* that is unusable twice, ends the request, and nothing of it is stored.
GenerateQuestion ==
    /\ building.at = "generate"
    /\ \/ \E question \in RawQuestion(Multiple(Current.type)) :
             building' =
                IF Usable(question, Multiple(Current.type))
                THEN NextQuestion(Append(building.drafts, QuestionOf(question, building.plan, building.n)))
                ELSE IF building.tries + 1 < Attempts THEN [building EXCEPT !.tries = @ + 1]
                ELSE NoBuild
       \/ StopsBuilding
    /\ UNCHANGED <<grounded, deleted, seen, stored>>

\* The quiz and its questions in one transaction, which fails if the project is
\* gone; no question at all is refused.
StoreQuiz ==
    /\ building.at = "store"
    /\ StopsBuilding
    /\ \/ /\ building.drafts # <<>> /\ ~deleted
          /\ stored' = Append(stored, [plan |-> building.plan, questions |-> building.drafts, from |-> ToSet(seen)])
       \/ UNCHANGED stored   \* refused, or a statement failed
    /\ UNCHANGED <<grounded, deleted, seen>>

\* Materials become READY, are withdrawn, or the project goes.
EvidenceChanges(c) ==
    /\ ~deleted
    /\ grounded' = IF c \in grounded THEN grounded \ {c} ELSE grounded \cup {c}
    /\ UNCHANGED <<deleted, building, seen, stored>>

ProjectGoes ==
    /\ ~deleted
    /\ deleted' = TRUE
    /\ stored' = <<>> /\ grounded' = {}
    /\ UNCHANGED <<building, seen>>

-----------------------------------------------------------------------------
(* gradeChoice *)

\* The page submits the id of an option; an empty one does not pass validation.
GradeOption(question, n) ==
    IF question.options[n] = NoId THEN "refused"
    ELSE IF question.key = NoId THEN "no key"
    ELSE IF question.options[n] = question.key THEN "right" ELSE "wrong"

-----------------------------------------------------------------------------
BuilderNext ==
    \/ StartBuilding \/ EmbedQueries \/ RetrieveForQuestion \/ GenerateQuestion \/ StoreQuiz
    \/ \E c \in QuizConcepts : EvidenceChanges(c)
    \/ ProjectGoes

-----------------------------------------------------------------------------
(* Properties *)

\* A quiz has the planned questions, in their order, without those whose concept
\* had no evidence when it was looked for; none of the others is missing, whatever
\* became of the material since, and no quiz is empty.
QuizAsPlanned ==
    \A q \in DOMAIN stored :
        LET questions == stored[q].questions
            plan == stored[q].plan
            places == [k \in DOMAIN questions |-> questions[k].planned]
        IN
        /\ places # <<>> /\ IsSorted(places, <) /\ ToSet(places) = stored[q].from
        /\ \A k \in DOMAIN questions :
              questions[k].concept = plan[places[k]].concept /\ questions[k].type = plan[places[k]].type

\* A stored multiple-choice question can be graded: one of its options is right and
\* all others are wrong.  Only ids that were written with blanks, which are trimmed
\* after the checks, can leave it without a key or with two right options.
QuestionsGradable ==
    \A q \in DOMAIN stored : \A k \in DOMAIN stored[q].questions :
        LET question == stored[q].questions[k]
            graders(outcome) == {n \in DOMAIN question.options : GradeOption(question, n) = outcome}
        IN
        Multiple(question.type) /\ ~question.padded =>
            /\ Cardinality(graders("right")) = 1
            /\ graders("wrong") = DOMAIN question.options \ graders("right") /\ graders("wrong") # {}

\* The quiz a learner gets is the planned one, as far as there is material for it,
\* and can be graded.
QuizSound == QuizAsPlanned /\ QuestionsGradable
=============================================================================
