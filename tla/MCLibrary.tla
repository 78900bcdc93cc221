------------------------------ MODULE MCLibrary ------------------------------
(***************************************************************************)
(* The parts that share no state, checked in one run: a behaviour is a      *)
(* behaviour of one of them, while the others stay as they began.           *)
(***************************************************************************)
EXTENDS Reading, Storage, Retrieval, Prompts, Learning, Concepts, AiCalls,
        Timing, QuizBuilder, Dashboards, Usage, AdminDesk, EvalRun, Fixture,
        Forms, TLC

CONSTANTS d1, d2, h1, h2   \* projects and spaces of the boards

VARIABLE part   \* the part that moves

MCImportance == (1 :> 60) @@ (2 :> 90)
MCRawIds == {RawId("a", FALSE), RawId("b", FALSE), RawId("a", TRUE), RawId("", TRUE)}
MCHomeOf == (d1 :> h1) @@ (d2 :> h1)
MCLatencyOf == [failed \in BOOLEAN |-> IF failed THEN 1 ELSE 3]
MCNames == {NameOf("w", TRUE, FALSE), NameOf("w", FALSE, TRUE), NameOf("v", FALSE, FALSE)}
MCMentioned == {NameOf("w", TRUE, FALSE), NameOf("w", FALSE, TRUE)}

Parts == {"reading", "storage", "retrieval", "prompts", "learning", "names", "calls",
          "timing", "builder", "boards", "usage", "feed", "jobs", "evaluation", "fixture",
          "forms"}

vars == <<readingVars, storageVars, retrievalVars, promptVars, learningVars, conceptVars,
          callVars, timingVars, builderVars, boardVars, usageVars, deskVars, evalVars,
          fixtureVars, formVars, part>>

Init ==
    /\ part \in Parts
    /\ ReadingInit /\ StorageInit /\ RetrievalInit /\ PromptsInit /\ LearningInit
    /\ ConceptsInit /\ CallsInit /\ TimingInit /\ BuilderInit /\ BoardInit
    /\ UsageInit /\ DeskInit /\ EvalInit /\ FixtureInit /\ FormsInit
    /\ part # "forms" => form = "quiz"   \* one beginning for the parts that do not move
    /\ part # "fixture" => enough

Next ==
    \/ /\ part = "reading" /\ ReadingNext
       /\ UNCHANGED <<storageVars, retrievalVars, promptVars, learningVars, conceptVars, callVars,
                       timingVars, builderVars, boardVars, usageVars, deskVars, evalVars,
                       fixtureVars, formVars, part>>
    \/ /\ part = "storage" /\ StorageNext
       /\ UNCHANGED <<readingVars, retrievalVars, promptVars, learningVars, conceptVars, callVars,
                       timingVars, builderVars, boardVars, usageVars, deskVars, evalVars,
                       fixtureVars, formVars, part>>
    \/ /\ part = "retrieval" /\ RetrievalNext
       /\ UNCHANGED <<readingVars, storageVars, promptVars, learningVars, conceptVars, callVars,
                       timingVars, builderVars, boardVars, usageVars, deskVars, evalVars,
                       fixtureVars, formVars, part>>
    \/ /\ part = "prompts" /\ PromptsNext
       /\ UNCHANGED <<readingVars, storageVars, retrievalVars, learningVars, conceptVars,
                       callVars, timingVars, builderVars, boardVars, usageVars, deskVars,
                       evalVars, fixtureVars, formVars, part>>
    \/ /\ part = "learning" /\ LearningNext
       /\ UNCHANGED <<readingVars, storageVars, retrievalVars, promptVars, conceptVars, callVars,
                       timingVars, builderVars, boardVars, usageVars, deskVars, evalVars,
                       fixtureVars, formVars, part>>
    \/ /\ part = "names" /\ ConceptsNext
       /\ UNCHANGED <<readingVars, storageVars, retrievalVars, promptVars, learningVars, callVars,
                       timingVars, builderVars, boardVars, usageVars, deskVars, evalVars,
                       fixtureVars, formVars, part>>
    \/ /\ part = "calls" /\ CallsNext
       /\ UNCHANGED <<readingVars, storageVars, retrievalVars, promptVars, learningVars,
                       conceptVars, timingVars, builderVars, boardVars, usageVars, deskVars,
                       evalVars, fixtureVars, formVars, part>>
    \/ /\ part = "timing" /\ TimingNext
       /\ UNCHANGED <<readingVars, storageVars, retrievalVars, promptVars, learningVars,
                       conceptVars, callVars, builderVars, boardVars, usageVars, deskVars,
                       evalVars, fixtureVars, formVars, part>>
    \/ /\ part = "builder" /\ BuilderNext
       /\ UNCHANGED <<readingVars, storageVars, retrievalVars, promptVars, learningVars,
                       conceptVars, callVars, timingVars, boardVars, usageVars, deskVars,
                       evalVars, fixtureVars, formVars, part>>
    \/ /\ part = "boards" /\ BoardNext
       /\ UNCHANGED <<readingVars, storageVars, retrievalVars, promptVars, learningVars,
                       conceptVars, callVars, timingVars, builderVars, usageVars, deskVars,
                       evalVars, fixtureVars, formVars, part>>
    \/ /\ part = "usage" /\ UsageNext
       /\ UNCHANGED <<readingVars, storageVars, retrievalVars, promptVars, learningVars,
                       conceptVars, callVars, timingVars, builderVars, boardVars, deskVars,
                       evalVars, fixtureVars, formVars, part>>
    \/ /\ part = "feed" /\ FeedNext
       /\ UNCHANGED <<readingVars, storageVars, retrievalVars, promptVars, learningVars,
                       conceptVars, callVars, timingVars, builderVars, boardVars, usageVars,
                       evalVars, fixtureVars, formVars, part>>
    \/ /\ part = "jobs" /\ JobsNext
       /\ UNCHANGED <<readingVars, storageVars, retrievalVars, promptVars, learningVars,
                       conceptVars, callVars, timingVars, builderVars, boardVars, usageVars,
                       evalVars, fixtureVars, formVars, part>>
    \/ /\ part = "evaluation" /\ EvalNext
       /\ UNCHANGED <<readingVars, storageVars, retrievalVars, promptVars, learningVars,
                       conceptVars, callVars, timingVars, builderVars, boardVars, usageVars,
                       deskVars, fixtureVars, formVars, part>>
    \/ /\ part = "fixture" /\ FixtureNext
       /\ UNCHANGED <<readingVars, storageVars, retrievalVars, promptVars, learningVars,
                       conceptVars, callVars, timingVars, builderVars, boardVars, usageVars,
                       deskVars, evalVars, formVars, part>>
    \/ /\ part = "forms" /\ FormsNext
       /\ UNCHANGED <<readingVars, storageVars, retrievalVars, promptVars, learningVars,
                       conceptVars, callVars, timingVars, builderVars, boardVars, usageVars,
                       deskVars, evalVars, fixtureVars, part>>

Spec == Init /\ [][Next]_vars

-----------------------------------------------------------------------------
(* Properties: those of the parts, each of the part that moves *)

\* Chunks hold the text of the pages they name (lib/documents), and the stored document
\* is whole and where its material says (lib/storage).
DocumentsFaithful ==
    /\ part = "reading" => ChunksFaithful
    /\ part = "storage" => DocumentsKept

\* A prompt and its citations hold the best evidence there is (lib/rag), and the part of
\* the conversation and of the learner's record that they claim to hold (lib/ai/features).
PromptsTrue ==
    /\ part = "retrieval" => EvidenceFaithful
    /\ part = "prompts" => ToldTrue

\* What growth, mastery, trends and plans say is what the evidence says (services/growth.ts,
\* services/mastery.ts, lib/learning).
LearningTrue == part = "learning" => ProgressTrue

\* The names by which models speak of concepts reach concepts of that name
\* (ai/features/extract-concepts.ts, services/materials.ts, quizzes.ts, recommendations.ts).
NamesTrue == part = "names" => NamesResolved

\* Calls of models are recorded once and cached truly (lib/ai).
CallsTrue == part = "calls" => CallsAccounted

\* A quiz that is stored can be answered and graded (lib/learning/selection.ts,
\* ai/features/generate-quiz.ts, services/quizzes.ts).
QuizzesSound == part = "builder" => QuizSound

\* Home, the pages of a space and a project and a learner's journey agree (services/home.ts,
\* spaces.ts, projects.ts, admin.ts), usage and growth over time add up (services/analytics.ts),
\* and the spans of a request are what they say (lib/performance/timing.ts).
FiguresTrue ==
    /\ part = "boards" => PagesAgree
    /\ part = "usage" => UsageTrue
    /\ part = "timing" => SpansTrue

\* An evaluation says what its checks found (lib/eval), on the fixture it describes, but for
\* the cases FixtureSound names (scripts/eval.ts).
EvaluationHonest ==
    /\ part = "evaluation" => ReportHonest
    /\ part = "fixture" => FixtureSound

\* A form says what became of its submission (components/spaces, projects, quiz, auth), and
\* an administrator's lists are complete (services/admin.ts).
ScreensTrue ==
    /\ part = "forms" => FormsHonest
    /\ part \in {"feed", "jobs"} => DeskTrue
=============================================================================
