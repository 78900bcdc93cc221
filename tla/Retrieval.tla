------------------------------ MODULE Retrieval ------------------------------
(***************************************************************************)
(* From the chunks of a project to the evidence of an answer: the query of  *)
(* lib/rag/retrieve.ts, the passages that fit the prompt                    *)
(* (lib/ai/features/tutor-answer.ts) and the citations (lib/rag/cite.ts).   *)
(* One question is asked again and again while materials are processed and  *)
(* deleted; a chunk carries the score it has for that question, in          *)
(* thousandths of what a citation shows.                                    *)
(***************************************************************************)
EXTENDS Integers, Sequences, SequencesExt, FiniteSets, FiniteSetsExt, Functions

CONSTANTS
    Sources,         \* the materials
    SourcePages,     \* of a material, the missing page (null) among them
    Scores,          \* cosine similarities, as integers
    Lengths,         \* of a passage
    MaxRows,         \* bound on the chunks
    TopK,            \* RETRIEVAL_TOP_K
    MinScore,        \* RETRIEVAL_MIN_SCORE
    MaxEvidence,     \* MAX_EVIDENCE_CHARACTERS
    Shown,           \* scores are rounded to multiples of this (toFixed(3))
    CitationLimit    \* of buildCitations

ASSUME RetrievalAssumption ==
    /\ Scores \subseteq Nat /\ Lengths \subseteq Nat
    /\ {MaxRows, TopK, MinScore, MaxEvidence, CitationLimit} \subseteq Nat
    /\ Shown \in Nat \ {0}

VARIABLES
    rows,      \* the chunks, in the order they were stored
    ready,     \* the materials that are READY
    answered   \* the answer given from these rows: its evidence, and how it was used

retrievalVars == <<rows, ready, answered>>

-----------------------------------------------------------------------------
\* A chunk that is not embedded has no score.
None == -1
Row == [source : Sources, page : SourcePages, score : Scores \cup {None}, length : Lengths]
NoAnswer == [evidence |-> <<>>, prompt |-> <<>>, citations |-> <<>>]

RetrievalInit == rows = <<>> /\ ready = {} /\ answered = NoAnswer

\* A worker stores a chunk of a material that is not READY yet; a chunk is
\* embedded in a later statement, which may not come.
StoreChunk ==
    /\ Len(rows) < MaxRows
    /\ \E row \in Row : row.source \notin ready /\ rows' = Append(rows, row)
    /\ answered' = NoAnswer
    /\ UNCHANGED ready

MarkReady(source) ==
    /\ source \notin ready
    /\ ready' = ready \cup {source}
    /\ answered' = NoAnswer
    /\ UNCHANGED rows

\* Deleted, or processed again from the start.
Withdraw(source) ==
    /\ rows' = SelectSeq(rows, LAMBDA row : row.source # source)
    /\ ready' = ready \ {source}
    /\ answered' = NoAnswer

-----------------------------------------------------------------------------
(* The query and what is made of its rows *)

Eligible == {n \in DOMAIN rows : rows[n].score # None /\ rows[n].source \in ready}

\* ORDER BY distance: rows of one distance come in any order.
Orders(eligible) ==
    {order \in [1..Cardinality(eligible) -> eligible] :
        IsInjective(order) /\ IsSorted(order, LAMBDA m, n : rows[m].score >= rows[n].score)}

\* LIMIT first, the threshold after it, in the application.
Evidence(order) ==
    LET hits == SubSeq(order, 1, Min({TopK, Len(order)}))
    IN  SelectSeq([n \in DOMAIN hits |-> rows[hits[n]]], LAMBDA row : row.score >= MinScore)

LengthOfAll(passages) == FoldLeft(LAMBDA total, row : total + row.length, 0, passages)

\* trimEvidence: a passage that does not fit is left out, later ones may fit.
TrimEvidence(evidence) ==
    FoldLeft(LAMBDA kept, row : IF LengthOfAll(kept) + row.length > MaxEvidence THEN kept ELSE Append(kept, row),
             <<>>, evidence)

\* toFixed(3)
Rounded(score) == ((score + Shown \div 2) \div Shown) * Shown

Key(row) == <<row.source, row.page>>
CitationOf(row) == [source |-> row.source, page |-> row.page, score |-> Rounded(row.score)]

\* One passage of buildCitations: the first of its page, or a better one.  The
\* score it is compared with has been rounded.
Cited(cited, row) ==
    LET n == SelectInSeq(cited, LAMBDA c : Key(c) = Key(row)) IN
    IF n = 0 THEN Append(cited, CitationOf(row))
    ELSE IF row.score > cited[n].score THEN [cited EXCEPT ![n] = CitationOf(row)]
    ELSE cited

\* A sort that keeps the order of equals, and the first few of it.
Best(cited) ==
    LET before(m, n) == cited[m].score > cited[n].score \/ (cited[m].score = cited[n].score /\ m < n)
        order == SetToSortSeq(DOMAIN cited, before)
    IN  [n \in 1..Min({CitationLimit, Len(cited)}) |-> cited[order[n]]]

BuildCitations(evidence) == Best(FoldLeft(Cited, <<>>, evidence))

\* A question is answered from what the query returns now.
AnswerQuestion ==
    /\ \E order \in Orders(Eligible) :
          LET evidence == Evidence(order) IN
          answered' = [evidence |-> evidence, prompt |-> TrimEvidence(evidence),
                       citations |-> BuildCitations(evidence)]
    /\ UNCHANGED <<rows, ready>>

RetrievalNext ==
    \/ StoreChunk
    \/ \E source \in Sources : MarkReady(source) \/ Withdraw(source)
    \/ AnswerQuestion

-----------------------------------------------------------------------------
(* Properties *)

\* Nothing is left out that scores more than something kept, and everything that
\* reaches the threshold is there unless TopK better passages are: thresholding
\* after the limit loses nothing.  (Of the rows as they are when it is asked.)
StrongestEvidence ==
    \A order \in Orders(Eligible) :
        LET evidence == Evidence(order)
            worthy == {n \in Eligible : rows[n].score >= MinScore}
            counted(s) == Cardinality({n \in worthy : rows[n].score = s})
            kept(s) == Quantify(DOMAIN evidence, LAMBDA n : evidence[n].score = s)
        IN
        /\ Len(evidence) = Min({TopK, Cardinality(worthy)})
        /\ \A n \in DOMAIN evidence : \A s \in Scores :
              s > evidence[n].score /\ s >= MinScore => kept(s) = counted(s)

\* The prompt's passages fit, and one that was left out would not have.
PromptFits ==
    LET prompt == answered.prompt IN
    /\ LengthOfAll(prompt) <= MaxEvidence
    /\ \A n \in DOMAIN answered.evidence :
          LET row == answered.evidence[n] IN
          ~Contains(prompt, row) => LengthOfAll(prompt) + row.length > MaxEvidence

\* Every page of the evidence is cited once, with the rounded score of its best
\* passage, best first; a page is missing only when CitationLimit others rank at
\* least as high.  Nothing else is cited.
CitationsFaithful ==
    LET evidence == answered.evidence
        cited == answered.citations
        pages == {Key(evidence[n]) : n \in DOMAIN evidence}
        top(p) == Rounded(Max({evidence[n].score : n \in {k \in DOMAIN evidence : Key(evidence[k]) = p}}))
    IN
    /\ Len(cited) = Min({CitationLimit, Cardinality(pages)})
    /\ \A m, n \in DOMAIN cited : m < n => Key(cited[m]) # Key(cited[n]) /\ cited[m].score >= cited[n].score
    /\ \A n \in DOMAIN cited : Key(cited[n]) \in pages /\ cited[n].score = top(Key(cited[n]))
    /\ \A p \in pages \ {Key(cited[n]) : n \in DOMAIN cited} : \A n \in DOMAIN cited : cited[n].score >= top(p)

\* What an answer cites and is based on.
EvidenceFaithful == StrongestEvidence /\ PromptFits /\ CitationsFaithful
=============================================================================
