------------------------------- MODULE EvalRun -------------------------------
(***************************************************************************)
(* The evaluation of a project: runEvaluationSuites (lib/eval/run.ts), the  *)
(* job that keeps its report (lib/jobs/handlers.ts), buildReport            *)
(* (lib/eval/report.ts).  The suites run against a live project: between    *)
(* their steps materials are withdrawn, the learner's mastery moves and     *)
(* recommendations are dismissed.  What a step calls is reduced to what it  *)
(* can come back with; the calls are in TutorTurn, Retrieval, QuizBuilder   *)
(* and Guidance.                                                            *)
(***************************************************************************)
EXTENDS Integers, Sequences, SequencesExt, FiniteSets

CONSTANTS
    Difficulties,         \* what difficultyForMastery can say of the tested concept
    MaxRecommendations,   \* the most recommendations one generation makes
    MaxRuns               \* bound on the runs

ASSUME EvalAssumption ==
    /\ Difficulties # {} /\ "none" \notin Difficulties
    /\ MaxRecommendations \in Nat \ {0} /\ MaxRuns \in Nat

VARIABLES
    project,   \* the project: its evidence, the concept's difficulty, its open recommendations
    run,       \* the run: the step it is at, its checks, what it keeps for later steps
    facts,     \* history: what went wrong for the run, and what moved under it
    jobs       \* the EVAL_RUN jobs that ended, in that order

evalVars == <<project, run, facts, jobs>>

-----------------------------------------------------------------------------
(* The report *)

Suites == {"tutor", "retrieval", "assessment", "recommendations"}
Assertion(suite, passed) == [suite |-> suite, kind |-> "assertion", passed |-> passed]
Metric(suite, passed) == [suite |-> suite, kind |-> "metric", passed |-> passed]

Tally(checks, kinds, suites) ==
    LET count(passed) == Cardinality({k \in DOMAIN checks :
            checks[k].kind \in kinds /\ checks[k].suite \in suites /\ checks[k].passed = passed})
    IN  [passed |-> count(TRUE), failed |-> count(FALSE)]

OfKind(kind, checks) == Tally(checks, {kind}, Suites)

\* No assertion at all is a broken run.
Ok(checks) ==
    LET assertions == OfKind("assertion", checks) IN
    assertions.passed + assertions.failed > 0 /\ assertions.failed = 0

ReportOf(checks) ==
    [checks |-> checks, ok |-> Ok(checks),
     assertions |-> OfKind("assertion", checks), metrics |-> OfKind("metric", checks),
     suites |-> [suite \in Suites |-> Tally(checks, {"assertion", "metric"}, {suite})]]

-----------------------------------------------------------------------------
NoRun == [at |-> "idle", checks |-> <<>>, planned |-> "none", created |-> 0]
NoFacts == [wrong |-> {}, moved |-> {}]
NoReport == [ok |-> FALSE, checks |-> <<>>]

EvalInit ==
    /\ project = [ready |-> FALSE, difficulty |-> CHOOSE d \in Difficulties : TRUE, open |-> 0]
    /\ run = NoRun /\ facts = NoFacts /\ jobs = <<>>

GoesOn(step, checks) == run' = [run EXCEPT !.at = step, !.checks = @ \o checks]
Wrong(what) == facts' = [facts EXCEPT !.wrong = @ \cup what]

\* Whatever throws, a model call, a refusal or the database, ends the job: it has one
\* attempt (EVAL_RUN's maxAttempts), so that failJob leaves it DEAD, and keeps no report.
RunFails ==
    /\ run.at # "idle"
    /\ jobs' = Append(jobs, [status |-> "DEAD", report |-> NoReport, facts |-> facts])
    /\ run' = NoRun /\ facts' = NoFacts
    /\ UNCHANGED project

\* Mutant: without a material the suites about it are left out, and nothing says so.
StartRunInSilence ==
    /\ run = NoRun /\ Len(jobs) < MaxRuns
    /\ run' = [NoRun EXCEPT !.at = IF project.ready THEN "ask" ELSE "quiz"]
    /\ facts' = [NoFacts EXCEPT !.wrong = IF project.ready THEN {} ELSE {"material"}]
    /\ UNCHANGED <<project, jobs>>

\* The oldest READY material and its first chunk; a chunk has text (Reading), so that
\* the retrieval suite is left out with the tutor's only.
StartRun ==
    /\ run = NoRun /\ Len(jobs) < MaxRuns
    /\ run' = [NoRun EXCEPT !.at = IF project.ready THEN "ask" ELSE "quiz",
                            !.checks = IF project.ready THEN <<>> ELSE <<Assertion("tutor", FALSE)>>]
    /\ facts' = [NoFacts EXCEPT !.wrong = IF project.ready THEN {} ELSE {"material"}]
    /\ UNCHANGED <<project, jobs>>

\* The tutor is asked about the passage.  It refuses, or cites passages and streams
\* an answer that may be empty; the material may not be among them.
AskAboutPassage ==
    /\ run.at = "ask"
    /\ \E cited \in {"own", "other", "none"}, text \in BOOLEAN :
          /\ project.ready \/ cited # "own"
          /\ cited = "none" => ~text
          /\ GoesOn(IF text THEN "grade answer" ELSE "ask off topic",
                    <<Assertion("tutor", cited = "own")>>
                        \o (IF text THEN <<>> ELSE <<Assertion("tutor", FALSE)>>))
          /\ Wrong((IF cited = "own" THEN {} ELSE {"citation"}) \cup (IF text THEN {} ELSE {"answer"}))
    /\ UNCHANGED <<project, jobs>>

\* A model grades the answer or the first recommendation: a metric.
GradeAnswer ==
    /\ run.at = "grade answer"
    /\ \E adequate \in BOOLEAN : GoesOn("ask off topic", <<Metric("tutor", adequate)>>)
    /\ UNCHANGED <<project, facts, jobs>>

AskOffTopic ==
    /\ run.at = "ask off topic"
    /\ \E refused \in BOOLEAN :
          /\ GoesOn("retrieve", <<Assertion("tutor", refused)>>)
          /\ Wrong(IF refused THEN {} ELSE {"refusal"})
    /\ UNCHANGED <<project, jobs>>

\* The passage itself as the query.
RetrievePassage ==
    /\ run.at = "retrieve"
    /\ \E top \in {"own", "other", "none"} :
          /\ project.ready \/ top # "own"
          /\ GoesOn(IF top = "none" THEN "no hits" ELSE "scope", <<Assertion("retrieval", top = "own")>>)
          /\ Wrong(IF top = "own" THEN {} ELSE {"ranking"})
    /\ UNCHANGED <<project, jobs>>

\* The hits' materials, and then their chunks, are looked up again: they are there, and
\* of this project, unless the material went, or was processed anew, since.
CheckMaterials ==
    /\ run.at = "scope"
    /\ \E there \in BOOLEAN :
          /\ "material" \notin facts.moved => there
          /\ GoesOn("chunks", <<Assertion("retrieval", there)>>)
    /\ UNCHANGED <<project, facts, jobs>>

CheckChunks ==
    /\ run.at = "chunks"
    /\ \E there \in BOOLEAN :
          /\ "material" \notin facts.moved => there
          /\ GoesOn("quiz", <<Assertion("retrieval", there)>>)
    /\ UNCHANGED <<project, facts, jobs>>

\* Without hits nothing can be missing.
CheckNoHits ==
    /\ run.at = "no hits"
    /\ GoesOn("quiz", <<Assertion("retrieval", TRUE), Assertion("retrieval", TRUE)>>)
    /\ UNCHANGED <<project, facts, jobs>>

\* A quiz of two, the first a multiple choice, unless its concept has no evidence
\* and it is left out.  (A quiz without questions is refused: the run fails.)
StartEvalQuiz ==
    /\ run.at = "quiz"
    /\ \E choice \in BOOLEAN :
          /\ run' = [run EXCEPT !.at = "check quiz",
                                !.planned = IF choice THEN project.difficulty ELSE "none",
                                !.checks = Append(@, Assertion("assessment", TRUE))]
          /\ Wrong(IF choice THEN {} ELSE {"no choice"})
    /\ UNCHANGED <<project, jobs>>

\* Its key is one of its options, unless the model wrote a key of blanks, which is
\* trimmed to nothing after the checks (QuizBuilder); its difficulty is compared with
\* what the mastery says by now.
CheckQuiz ==
    /\ run.at = "check quiz"
    /\ \E keyed \in BOOLEAN :
          /\ GoesOn("recommend", <<Assertion("assessment", keyed /\ run.planned # "none"),
                                   Assertion("assessment", run.planned = project.difficulty)>>)
          /\ Wrong(IF keyed THEN {} ELSE {"key"})
    /\ UNCHANGED <<project, jobs>>

\* generateForProject replaces what was open.
Recommend ==
    /\ run.at = "recommend"
    /\ \E created \in 0..MaxRecommendations :   \* 0: the project has no concepts
          /\ run' = [run EXCEPT !.at = "list", !.created = created]
          /\ project' = IF created = 0 THEN project ELSE [project EXCEPT !.open = created]
          /\ Wrong(IF created = 0 THEN {"no recommendation"} ELSE {})
    /\ UNCHANGED jobs

\* The schema of the model's answer requires a priority between 0 and 1 and a reason,
\* which may be blank.
ListOpen ==
    /\ run.at = "list"
    /\ \E reasoned \in BOOLEAN :
          /\ project.open = 0 => reasoned
          /\ GoesOn(IF project.open > 0 THEN "grade recommendation" ELSE "report",
                    <<Assertion("recommendations", run.created > 0 /\ project.open > 0),
                      Assertion("recommendations", project.open > 0 /\ reasoned),
                      Assertion("recommendations", TRUE)>>)
          /\ Wrong(IF reasoned THEN {} ELSE {"blank reason"})
    /\ UNCHANGED <<project, jobs>>

GradeRecommendation ==
    /\ run.at = "grade recommendation"
    /\ \E adequate \in BOOLEAN : GoesOn("report", <<Metric("recommendations", adequate)>>)
    /\ UNCHANGED <<project, facts, jobs>>

\* The report is the result of the job.
StoreReport ==
    /\ run.at = "report"
    /\ jobs' = Append(jobs, [status |-> "COMPLETED", report |-> ReportOf(run.checks), facts |-> facts])
    /\ run' = NoRun /\ facts' = NoFacts
    /\ UNCHANGED project

-----------------------------------------------------------------------------
(* The project meanwhile *)

Moves(what) == facts' = IF run = NoRun THEN facts ELSE [facts EXCEPT !.moved = @ \cup {what}]

EvalMaterialChanges ==
    /\ project' = [project EXCEPT !.ready = ~@]
    /\ Moves("material")
    /\ UNCHANGED <<run, jobs>>

EvalMasteryMoves ==
    /\ \E difficulty \in Difficulties \ {project.difficulty} :
          project' = [project EXCEPT !.difficulty = difficulty]
    /\ Moves("mastery")
    /\ UNCHANGED <<run, jobs>>

RecommendationDismissed ==
    /\ project.open > 0
    /\ project' = [project EXCEPT !.open = @ - 1]
    /\ Moves("recommendations")
    /\ UNCHANGED <<run, jobs>>

EvalNext ==
    \/ StartRun \/ RunFails
    \/ AskAboutPassage \/ GradeAnswer \/ AskOffTopic \/ RetrievePassage
    \/ CheckMaterials \/ CheckChunks \/ CheckNoHits
    \/ StartEvalQuiz \/ CheckQuiz \/ Recommend \/ ListOpen \/ GradeRecommendation \/ StoreReport
    \/ EvalMaterialChanges \/ EvalMasteryMoves \/ RecommendationDismissed

-----------------------------------------------------------------------------
(* Properties *)

Completed == {job \in ToSet(jobs) : job.status = "COMPLETED"}

\* A report that is ok has an assertion in every suite, and nothing was wrong that
\* the run met: a suite that was left out cannot pass.
PassesMean ==
    \A job \in Completed : job.report.ok =>
        /\ job.facts.wrong = {}
        /\ \A suite \in Suites : \E k \in DOMAIN job.report.checks :
              job.report.checks[k].suite = suite /\ job.report.checks[k].kind = "assertion"

\* A report that is not ok has a cause: something the run met was wrong, or the
\* project moved under it.  A model's grades are never the cause.
FailuresMean ==
    \A job \in Completed : ~job.report.ok => job.facts.wrong \cup job.facts.moved # {}

\* The tallies of the kinds, and those of the suites, add up to the checks.
TalliesAgree ==
    \A job \in Completed :
        LET r == job.report
            size(tally) == tally.passed + tally.failed
        IN  /\ size(r.assertions) + size(r.metrics) = Len(r.checks)
            /\ size(r.suites["tutor"]) + size(r.suites["retrieval"])
                  + size(r.suites["assessment"]) + size(r.suites["recommendations"]) = Len(r.checks)

\* An evaluation's verdict can be trusted either way, as far as it goes.
ReportHonest == PassesMean /\ FailuresMean /\ TalliesAgree
=============================================================================
