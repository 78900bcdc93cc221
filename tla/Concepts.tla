------------------------------- MODULE Concepts -------------------------------
(***************************************************************************)
(* The concepts of a project are known to its models by name only.  They   *)
(* come from the materials (lib/ai/features/extract-concepts.ts and         *)
(* extractAndPersistConcepts in lib/services/materials.ts), whose workers   *)
(* write them at the same time; the grader of a written answer names those  *)
(* it found or missed (lib/ai/features/grade-answer.ts, submitAnswer in      *)
(* lib/services/quizzes.ts), and the adviser the one a recommendation is    *)
(* about (lib/services/recommendations.ts).                                 *)
(***************************************************************************)
EXTENDS Integers, Sequences, SequencesExt, FiniteSets

CONSTANTS
    Documents,     \* the materials
    RawNames,      \* names a model may give a concept it extracts
    Mentioned,     \* names a grader or adviser may write
    MaxNames,      \* bound on the names in one extraction
    MaxMentioned,  \* bound on the names in the two lists of a grade (openEndedGradeSchema)
    Extractions,   \* attempts of a material's job
    MaxNamings     \* bound on the written answers and the requests for advice

\* Names: a word, written with or without a capital, perhaps with space around.
NameOf(word, capital, spaced) == [word |-> word, capital |-> capital, spaced |-> spaced]
NoConcept == NameOf("no concept", FALSE, FALSE)   \* a null: nobody's name
Names == {name \in [word : STRING, capital : BOOLEAN, spaced : BOOLEAN] : name.word # NoConcept.word}

ASSUME ConceptAssumption ==
    /\ {MaxNames, MaxMentioned, Extractions} \subseteq Nat \ {0} /\ MaxNamings \in Nat
    /\ RawNames \subseteq Names /\ Mentioned \subseteq Names

VARIABLES
    conceptRows,    \* the Concept rows: their name and (history) the run that created them
    links,       \* the MaterialConcept rows
    extraction,  \* the run of each material
    written,     \* the written answers, with their evidence
    advice       \* the open recommendations

conceptVars == <<conceptRows, links, extraction, written, advice>>

-----------------------------------------------------------------------------
LowerCase(name) == NameOf(name.word, FALSE, name.spaced)
Trimmed(name) == NameOf(name.word, name.capital, FALSE)

StoredNames == {row.name : row \in conceptRows}

\* Mutant: a name that is repeated with another capital is kept.
NormalisedByExactName(names) ==
    LET trimmed == [k \in DOMAIN names |-> Trimmed(names[k])] IN
    SelectSeq(trimmed, LAMBDA name : name.word # "")

\* normaliseExtraction: without blanks, and of the names that differ in their
\* capitals only, the first.
Normalised(names) ==
    LET trimmed == [k \in DOMAIN names |-> Trimmed(names[k])]
        Kept(k) == /\ trimmed[k].word # ""
                   /\ \A j \in 1..(k - 1) : LowerCase(trimmed[j]) # LowerCase(trimmed[k])
    IN  [n \in 1..Cardinality({k \in DOMAIN names : Kept(k)}) |->
            trimmed[CHOOSE k \in DOMAIN names :
                        Kept(k) /\ Cardinality({j \in 1..k : Kept(j)}) = n]]

-----------------------------------------------------------------------------
(* Extraction *)

NoExtraction == [at |-> "model", names |-> <<>>, n |-> 0, tries |-> 1]
NamesOfRun(m) == {extraction[m].names[k] : k \in 1..extraction[m].n}

\* The rows of an uncommitted transaction are locked.
HeldFrom(m, name) ==
    \E o \in Documents \ {m} : extraction[o].at = "upsert" /\ name \in NamesOfRun(o)

ConceptsInit ==
    /\ conceptRows = {} /\ links = {}
    /\ extraction = [m \in Documents |-> NoExtraction]
    /\ written = <<>>
    /\ advice = [requests |-> 0, asked |-> {}, rows |-> {}]

\* extractConcepts: the model's answer, if it keeps to the schema.
ExtractNames(m) ==
    /\ extraction[m].at = "model"
    /\ \E names \in BoundedSeq(RawNames, MaxNames) :
          LET kept == Normalised(names) IN
          extraction' = [extraction EXCEPT ![m] =
              [@ EXCEPT !.at = IF kept = <<>> THEN "done" ELSE "upsert", !.names = kept, !.n = 0]]
    /\ UNCHANGED <<conceptRows, links, written, advice>>

\* One concept and its link, in the transaction.
UpsertConcept(m) ==
    /\ extraction[m].at = "upsert" /\ extraction[m].n < Len(extraction[m].names)
    /\ ~HeldFrom(m, extraction[m].names[extraction[m].n + 1])
    /\ extraction' = [extraction EXCEPT ![m].n = @ + 1]
    /\ UNCHANGED <<conceptRows, links, written, advice>>

CommitConcepts(m) ==
    /\ extraction[m].at = "upsert" /\ extraction[m].n = Len(extraction[m].names)
    /\ conceptRows' = conceptRows \cup
          {[name |-> name, by |-> <<m, extraction[m].tries>>] : name \in NamesOfRun(m) \ StoredNames}
    /\ links' = links \cup ({m} \X NamesOfRun(m))
    /\ extraction' = [extraction EXCEPT ![m].at = "done"]
    /\ UNCHANGED <<written, advice>>

\* The model's call, a statement (a unique violation, or the deadlock of two runs
\* that write the same names in different orders) or the worker fails: nothing of
\* the transaction stays, and the job is tried again while it has attempts left.
ExtractionFails(m) ==
    /\ extraction[m].at \in {"model", "upsert"}
    /\ extraction' = [extraction EXCEPT ![m] =
          IF @.tries < Extractions THEN [NoExtraction EXCEPT !.tries = extraction[m].tries + 1]
          ELSE [@ EXCEPT !.at = "failed"]]
    /\ UNCHANGED <<conceptRows, links, written, advice>>

-----------------------------------------------------------------------------
(* Names that models write about *)

\* A map from the lower-case names to the rows: of two that share theirs, the one
\* that the query returned last.
NameMaps(known) ==
    LET keys == {LowerCase(name) : name \in known} IN
    {map \in [keys -> known] : \A key \in keys : LowerCase(map[key]) = key}

\* What a model wrote is put in lower case, but not trimmed.
Resolved(name, map) ==
    IF LowerCase(name) \in DOMAIN map THEN map[LowerCase(name)] ELSE NoConcept

\* The rubric's three dimensions, from 0 to 100, as one score.
ScoreOf(dimensions) == (2 * (dimensions[1] + dimensions[2] + dimensions[3]) + 3) \div 6

\* The evidence of a written answer: its own concept in full, and the others it was
\* said to show or to lack at half weight, one row for each time they were named.
EvidenceRow(concept, score, half, place) ==
    [concept |-> concept, score |-> score, half |-> half, place |-> place]
Mentions(names, points, map) ==
    {EvidenceRow(Resolved(names[k], map), points, TRUE, k) : k \in DOMAIN names}
EvidenceOf(own, score, covered, missing, map) ==
    {EvidenceRow(own, score, FALSE, 0)} \cup
    {row \in Mentions(covered, 100, map) \cup Mentions(missing, 0, map) : row.concept \notin {NoConcept, own}}

\* gradeWritten, and the rows submitAnswer makes of its outcome.
GradeWritten ==
    /\ Len(written) + advice.requests < MaxNamings
    /\ \E own \in StoredNames, map \in NameMaps(StoredNames), relevance \in {0, 100} :
       \E covered, missing \in BoundedSeq(Mentioned, MaxMentioned) :
          /\ Len(covered) + Len(missing) <= MaxMentioned
          /\ LET score == ScoreOf(<<100, 0, relevance>>) IN
             written' = Append(written,
                [own |-> own, score |-> score, covered |-> covered, missing |-> missing,
                 known |-> StoredNames,   \* history
                 evidence |-> EvidenceOf(own, score, covered, missing, map)])
    /\ UNCHANGED <<conceptRows, links, extraction, advice>>

\* generateForProject: the concepts are read, the model is called ...
AskForAdvice ==
    /\ advice.asked = {} /\ StoredNames # {}
    /\ Len(written) + advice.requests < MaxNamings
    /\ advice' = [advice EXCEPT !.asked = StoredNames, !.requests = @ + 1]
    /\ UNCHANGED <<conceptRows, links, extraction, written>>

\* ... and what it suggests, unless the job fails, replaces the open set; a name it
\* invented links to nothing, and it may give none.  Each suggestion is linked on
\* its own: one stands for all.
StoreAdvice ==
    /\ advice.asked # {}
    /\ \/ \E map \in NameMaps(advice.asked), name \in Mentioned \cup {NoConcept} :
             advice' = [advice EXCEPT !.asked = {}, !.rows =
                {[name |-> name, known |-> advice.asked,   \* history
                  concept |-> IF name = NoConcept THEN NoConcept ELSE Resolved(name, map)]}]
       \/ advice' = [advice EXCEPT !.asked = {}]
    /\ UNCHANGED <<conceptRows, links, extraction, written>>

-----------------------------------------------------------------------------
ConceptsNext ==
    \/ \E m \in Documents :
          ExtractNames(m) \/ UpsertConcept(m) \/ CommitConcepts(m) \/ ExtractionFails(m)
    \/ GradeWritten \/ AskForAdvice \/ StoreAdvice

-----------------------------------------------------------------------------
(* Properties *)

\* A material that is through has all its concepts, each with its link, whatever the
\* runs of other materials wrote, waited for or lost at the same time.
ExtractionsWhole ==
    \A m \in Documents : extraction[m].at = "done" =>
        \A k \in DOMAIN extraction[m].names :
            extraction[m].names[k] \in StoredNames /\ <<m, extraction[m].names[k]>> \in links

\* A name is stored once, and two that differ in their capitals only come from two
\* runs: one extraction never splits a concept.
TwinsFromTwoRuns ==
    \A a, b \in conceptRows :
        a # b => a.name # b.name /\ (LowerCase(a.name) = LowerCase(b.name) => a.by # b.by)

\* An answer is full evidence for its own concept, once.  Half evidence is for others
\* that were named: each name that reaches a concept counts once, for and against it,
\* each time it is written.  Of twins one gets all that an answer says of both; if that
\* one is the answer's own, none of it counts.
MentionsResolved ==
    \A n \in DOMAIN written :
        LET answer == written[n]
            Called(concept, points) ==
                {row \in answer.evidence :
                    row.half = TRUE /\ row.score = points /\ LowerCase(row.concept) = LowerCase(concept)}
            Times(names, concept) == {k \in DOMAIN names : LowerCase(names[k]) = LowerCase(concept)}
            AsNamed(concept) ==
                /\ Cardinality(Called(concept, 100)) = Cardinality(Times(answer.covered, concept))
                /\ Cardinality(Called(concept, 0)) = Cardinality(Times(answer.missing, concept))
            Ignored(concept) == Called(concept, 100) \cup Called(concept, 0) = {}
        IN
        /\ Cardinality({row \in answer.evidence : row.concept = answer.own}) = 1
        /\ \E row \in answer.evidence : row.concept = answer.own /\ row.half = FALSE /\ row.score = answer.score
        /\ \A row \in answer.evidence : row.concept \in answer.known
        /\ \A concept \in answer.known :
              AsNamed(concept) \/ (LowerCase(concept) = LowerCase(answer.own) /\ Ignored(concept))
        /\ \A a, b \in answer.evidence :
              a.half = TRUE /\ b.half = TRUE /\ LowerCase(a.concept) = LowerCase(b.concept) => a.concept = b.concept

\* A recommendation is about the concept it names, if the project has it.
AdviceLinked ==
    \A row \in advice.rows :
        IF row.concept = NoConcept
        THEN \A name \in row.known : LowerCase(name) # LowerCase(row.name)
        ELSE row.concept \in StoredNames /\ LowerCase(row.concept) = LowerCase(row.name)

\* What models say of concepts by their names reaches concepts of those names.
NamesResolved == ExtractionsWhole /\ TwinsFromTwoRuns /\ MentionsResolved /\ AdviceLinked
=============================================================================
