------------------------------ MODULE Learning ------------------------------
(***************************************************************************)
(* What the evidence of a project says about its learner: the mastery of a  *)
(* concept (lib/learning/mastery.ts), its trend (lib/learning/growth.ts,    *)
(* lib/services/growth.ts) and the questions to ask next                    *)
(* (lib/learning/selection.ts, the reads of startQuiz).  Time is counted in *)
(* half-lives of the evidence, so that a recency factor is a power of two   *)
(* and a concept practised in an earlier period is off the recency ramp.    *)
(* Scores are percentages, mastery is in hundredths of a percent, and       *)
(* weights are in halves.                                                   *)
(***************************************************************************)
EXTENDS Integers, Sequences, SequencesExt, FiniteSets, FiniteSetsExt

CONSTANTS
    LearnConcepts,    \* the concepts; numbers, in the order of their names
    Importance,       \* of each concept, in percent
    LearnScores,      \* of an answer, in percent
    EvidenceLimit,    \* MASTERY_EVIDENCE_LIMIT
    SeriesLimit,      \* SERIES_LIMIT
    ScanLimit,        \* EVIDENCE_SCAN_LIMIT, for a whole project
    MistakePeriods,   \* MISTAKE_WINDOW_DAYS
    MaxLength,        \* bound on the length of a quiz
    MaxRowsLearned,   \* bound on the evidence
    MaxPeriod         \* bound on the clock

ASSUME LearningAssumption ==
    /\ LearnConcepts \subseteq Nat /\ IsFiniteSet(LearnConcepts)
    /\ Importance \in [LearnConcepts -> 0..100] /\ LearnScores \subseteq 0..100
    /\ {EvidenceLimit, SeriesLimit, ScanLimit} \subseteq Nat \ {0}
    /\ {MistakePeriods, MaxLength, MaxRowsLearned, MaxPeriod} \subseteq Nat

VARIABLES
    period,     \* the clock
    learned,    \* ConceptEvidence, by createdAt
    estimate,   \* Concept.mastery
    ahead       \* the concepts with a row ahead of the clock when it was computed

learningVars == <<period, learned, estimate, ahead>>

-----------------------------------------------------------------------------
Observation == [concept : LearnConcepts, score : 0..100, weight : {1, 2}, at : 0..MaxPeriod]
Full == 2
Secondary == 1

Of(c, observations) == SelectSeq(observations, LAMBDA e : e.concept = c)
Latest(observations, n) ==
    SubSeq(observations, Max({1, Len(observations) - n + 1}), Len(observations))

\* A factor of 2^-age, as a whole number; the age is never negative.
Recency(age) == 2 ^ (MaxPeriod - Max({0, age}))

\* toFixed(4)
Quotient(a, b) == (2 * a + b) \div (2 * b)

\* Mutant: the first observations instead of the latest.
FirstOnes(observations, time) ==
    LET recent == SubSeq(observations, 1, Min({EvidenceLimit, Len(observations)}))
        weighed(e) == e.weight * Recency(time - e.at)
        total == FoldLeft(LAMBDA sum, e : sum + weighed(e), 0, recent)
    IN  IF total = 0 THEN 0
        ELSE Quotient(100 * FoldLeft(LAMBDA sum, e : sum + weighed(e) * e.score, 0, recent), total)

\* computeMastery
MasteryAt(observations, time) ==
    LET recent == Latest(observations, EvidenceLimit)
        weighed(e) == e.weight * Recency(time - e.at)
        total == FoldLeft(LAMBDA sum, e : sum + weighed(e), 0, recent)
    IN  IF total = 0 THEN 0
        ELSE Quotient(100 * FoldLeft(LAMBDA sum, e : sum + weighed(e) * e.score, 0, recent), total)

-----------------------------------------------------------------------------
LearningInit ==
    /\ period = 0 /\ learned = <<>>
    /\ estimate = [c \in LearnConcepts |-> 0]
    /\ ahead = {}

TimePasses ==
    /\ period < MaxPeriod
    /\ period' = period + 1
    /\ UNCHANGED <<learned, estimate, ahead>>

Stored(e, observations) ==
    InsertAt(observations, Quantify(DOMAIN observations, LAMBDA n : observations[n].at <= e.at) + 1, e)

\* recomputeConceptMastery
Recomputed(touched, observations) ==
    /\ learned' = observations
    /\ estimate' = [c \in LearnConcepts |->
                      IF c \in touched THEN MasteryAt(Of(c, observations), period) ELSE estimate[c]]
    /\ ahead' = (ahead \ touched)
                   \cup {c \in touched : \E e \in ToSet(Of(c, observations)) : e.at > period}

\* The rows of one answer; the clock of whoever stores them may be ahead.
ObserveAnswer(c, score) ==
    \E at \in period..Min({period + 1, MaxPeriod}) :
        LET own == [concept |-> c, score |-> score, weight |-> Full, at |-> at] IN
        \/ /\ Len(learned) < MaxRowsLearned
           /\ Recomputed({c}, Stored(own, learned))
        \/ \E d \in LearnConcepts \ {c}, mark \in {0, 100} :   \* a concept missing or covered
              /\ Len(learned) + 1 < MaxRowsLearned
              /\ LET mention == [concept |-> d, score |-> mark, weight |-> Secondary, at |-> at]
                 IN  Recomputed({c, d}, Stored(mention, Stored(own, learned)))
    /\ UNCHANGED period

\* refreshProjectMastery, and the recomputations of evaluateQuiz.
RefreshEstimates ==
    /\ Recomputed(LearnConcepts, learned)
    /\ UNCHANGED period

LearningNext ==
    \/ TimePasses
    \/ \E c \in LearnConcepts, score \in LearnScores : ObserveAnswer(c, score)
    \/ RefreshEstimates

-----------------------------------------------------------------------------
(* Growth *)

\* getGrowthForProject reads the latest rows of the project, not of the concept.
Scanned(c) == Of(c, Latest(learned, ScanLimit))

\* masterySeries: each point as of its own time.
SeriesOf(observations) ==
    LET shown == Latest(observations, SeriesLimit)
    IN  [n \in DOMAIN shown |-> MasteryAt(SubSeq(shown, 1, n), shown[n].at)]

\* classifyGrowth: the change from the earlier half to the later one.
DeltaOf(observations) ==
    LET half == Len(observations) \div 2 IN
    IF Len(observations) < 2 THEN 0
    ELSE MasteryAt(SubSeq(observations, half + 1, Len(observations)), period)
            - MasteryAt(SubSeq(observations, 1, half), period)

TrendThreshold == 500
LowMastery == 4000

BandOf(observations) ==
    LET delta == DeltaOf(observations) IN
    CASE Len(observations) < 2     -> "STABLE"
      [] delta >= TrendThreshold   -> "IMPROVING"
      [] delta <= -TrendThreshold  -> "NEEDS_ATTENTION"
      [] OTHER -> IF MasteryAt(observations, period) < LowMastery THEN "NEEDS_ATTENTION" ELSE "STABLE"

-----------------------------------------------------------------------------
(* The next quiz *)

Practised(c) == Of(c, learned) # <<>>
LastPractised(c) == Last(Of(c, learned)).at
Mistakes(c) ==
    Len(SelectSeq(learned, LAMBDA e : e.concept = c /\ e.score < 50 /\ e.at >= period - MistakePeriods))

\* recencyFactor, above its floor, in fifths: nothing for a concept practised now.
Freshness(c) == IF Practised(c) /\ LastPractised(c) >= period THEN 1 ELSE 5

\* conceptPriority, with every factor in whole numbers.
Priority(c) == (10000 - estimate[c]) * Importance[c] * Freshness(c) * (2 + Mistakes(c))

\* The order of the questions; the name breaks a tie.
Before(c, d) == Priority(c) > Priority(d) \/ (Priority(c) = Priority(d) /\ c < d)
Ranked == SetToSortSeq(LearnConcepts, Before)

OtherType(type) == IF type = "MULTIPLE_CHOICE" THEN "OPEN_ENDED" ELSE "MULTIPLE_CHOICE"
FirstType(mode) == IF mode = "ASSESSMENT" THEN "OPEN_ENDED" ELSE "MULTIPLE_CHOICE"

\* difficultyForMastery, in hundredths of a percent.
Difficulty(mastery) == Min({9000, Max({1500, 2500 + (mastery * 6) \div 10})})

\* planQuiz: the ranked concepts, in turn, with alternating types.
PlanQuiz(length, mode) ==
    LET ranked == Ranked IN
    [n \in 1..length |->
        LET c == ranked[((n - 1) % Len(ranked)) + 1] IN
        [concept |-> c, difficulty |-> Difficulty(estimate[c]),
         type |-> IF n % 2 = 1 THEN FirstType(mode) ELSE OtherType(FirstType(mode))]]

-----------------------------------------------------------------------------
(* Properties *)

ScanReaches(c) == Latest(Of(c, learned), EvidenceLimit) = Latest(Scanned(c), EvidenceLimit)

\* The stored mastery stays what the growth view shows ("equal to what
\* Concept.mastery holds", growth.ts), at any later time, and the last point of
\* the concept's line is the same number; unless the scan of the project's latest
\* rows misses some of this concept's, or a row was ahead of the clock.
GrowthAgrees ==
    \A c \in LearnConcepts :
        ScanReaches(c) /\ c \notin ahead =>
            /\ MasteryAt(Scanned(c), period) = estimate[c]
            /\ Scanned(c) # <<>> => Last(SeriesOf(Scanned(c))) = estimate[c]

\* Mastery stays between the worst and the best of the latest scores, whatever
\* the clocks do; one more right answer never lowers it and a wrong one never
\* raises it, not even when it pushes an old observation out.
EstimatesSound ==
    \A c \in LearnConcepts :
        LET mine == Of(c, learned)
            scores == {e.score : e \in ToSet(Latest(mine, EvidenceLimit))}
            after(score) ==
                MasteryAt(Append(mine, [concept |-> c, score |-> score, weight |-> Full, at |-> period]), period)
        IN
        /\ mine # <<>> => 100 * Min(scores) <= estimate[c] /\ estimate[c] <= 100 * Max(scores)
        /\ c \notin ahead => after(100) >= estimate[c] /\ (mine # <<>> => after(0) <= estimate[c])

\* A learner whose answers only get better is not shown as declining, and one whose
\* answers only get worse is not shown as improving.
TrendsHonest ==
    \A c \in LearnConcepts :
        LET scores == [n \in DOMAIN Scanned(c) |-> Scanned(c)[n].score] IN
        /\ IsSorted(scores, <=) =>
              DeltaOf(Scanned(c)) >= 0
              /\ (BandOf(Scanned(c)) = "NEEDS_ATTENTION" => MasteryAt(Scanned(c), period) < LowMastery)
        /\ IsSorted(Reverse(scores), <=) => BandOf(Scanned(c)) # "IMPROVING"

\* Of two concepts one of which is weaker, matters more, was practised earlier and
\* has seen more mistakes, that one is asked first; every concept is asked about as
\* often, the first ones once more, so none is left out of a quiz that is long enough.
PlanFair ==
    /\ \A c, d \in LearnConcepts :
          /\ estimate[c] <= estimate[d] /\ Importance[c] >= Importance[d]
          /\ Freshness(c) >= Freshness(d) /\ Mistakes(c) >= Mistakes(d)
          /\ Priority(c) # Priority(d)
          => Before(c, d)
    /\ \A length \in 0..MaxLength, mode \in {"QUIZ", "ASSESSMENT"} :
          LET plan == PlanQuiz(length, mode)
              asked(c) == Quantify(DOMAIN plan, LAMBDA n : plan[n].concept = c)
          IN
          /\ \A c, d \in LearnConcepts : Before(c, d) => asked(d) <= asked(c) /\ asked(c) <= asked(d) + 1
          /\ \A m, n \in DOMAIN plan :
                estimate[plan[m].concept] < estimate[plan[n].concept] =>
                    plan[m].difficulty <= plan[n].difficulty

\* What the learner is told and asked follows from the evidence.
ProgressTrue == GrowthAgrees /\ EstimatesSound /\ TrendsHonest /\ PlanFair
=============================================================================
