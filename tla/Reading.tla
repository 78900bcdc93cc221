------------------------------- MODULE Reading -------------------------------
(***************************************************************************)
(* How one document becomes chunks: its pages are extracted                 *)
(* (lib/documents/parse.ts), pages with little text go through optical      *)
(* character recognition (lib/documents/ocr.ts), and the result is packed   *)
(* into overlapping chunks (lib/documents/chunk.ts), one iteration of the   *)
(* packing loop at a time.  A page's text is a sequence of sentences, and a *)
(* sentence is its size: what it says matters to nobody here.               *)
(***************************************************************************)
EXTENDS Integers, Sequences, SequencesExt, FiniteSetsExt, Functions

CONSTANTS
    MaxPages, MaxSentences,   \* bounds on a document
    Sizes,                    \* of a sentence; 0 for a fragment without a letter or digit
    OcrBelow,                 \* OCR_MIN_CHARS_PER_PAGE
    MinUsable,                \* MIN_USABLE_TEXT_CHARACTERS
    TargetTokens,             \* CHUNK_TARGET_TOKENS
    OverlapTokens             \* CHUNK_OVERLAP_TOKENS

ASSUME ReadingAssumption ==
    /\ MaxPages \in Nat /\ MaxSentences \in Nat
    /\ Sizes \subseteq Nat
    /\ OcrBelow \in Nat /\ MinUsable \in Nat /\ OverlapTokens \in Nat
    /\ TargetTokens \in Nat \ {0}

VARIABLES
    stage,     \* how far the document has come
    layer,     \* the text layer of each page
    found,     \* what OCR has found so far, page by page
    texts,     \* the text of each page that is read on
    cursor,    \* the page and sentence that the packing is at
    buffer,    \* the sentences of the chunk being packed, by their positions
    chunks     \* the chunks: [page, parts]

readingVars == <<stage, layer, found, texts, cursor, buffer, chunks>>

-----------------------------------------------------------------------------
Text == BoundedSeq(Sizes, MaxSentences)
Stray == 0
LengthOf(sentence) == IF sentence = Stray THEN 1 ELSE sentence
SumOf(numbers) ==
    LET sum[n \in 0..Len(numbers)] == IF n = 0 THEN 0 ELSE sum[n - 1] + numbers[n]
    IN  sum[Len(numbers)]
TextLength(text) == SumOf([i \in DOMAIN text |-> LengthOf(text[i])])
DocumentLength(pages) == SumOf([p \in DOMAIN pages |-> TextLength(pages[p])])
SentencesIn(pages) == SumOf([p \in DOMAIN pages |-> Len(pages[p])])

\* The pages that deserve OCR.
NeedsOcr(p) == TextLength(layer[p]) < OcrBelow
PagesForOcr == {p \in DOMAIN layer : NeedsOcr(p)}

ReadingInit ==
    /\ stage = "extract"
    /\ layer = <<>> /\ found = << >> /\ texts = <<>>
    /\ cursor = <<1, 1>> /\ buffer = <<>> /\ chunks = <<>>

\* extractPdfPages, page by page; OCR may be switched off.
ExtractPage ==
    /\ stage = "extract" /\ Len(layer) < MaxPages
    /\ \E text \in Text :
          /\ SentencesIn(layer) + Len(text) <= MaxSentences
          /\ layer' = Append(layer, text)
    /\ UNCHANGED <<stage, found, texts, cursor, buffer, chunks>>

ExtractEnds ==
    /\ stage = "extract" /\ layer # <<>>
    /\ texts' = layer
    /\ \/ PagesForOcr # {} /\ stage' = "ocr"
       \/ stage' = "check"   \* no page needs OCR, or OCR_ENABLED is false
    /\ UNCHANGED <<layer, found, cursor, buffer, chunks>>

\* recognisePages: an empty text where there is no image, or nothing to read.
RecognisePage ==
    /\ stage = "ocr" /\ DOMAIN found # PagesForOcr
    /\ LET p == Min(PagesForOcr \ DOMAIN found) IN
       \E text \in Text :
          /\ SentencesIn(layer) + SumFunction([q \in DOMAIN found |-> Len(found[q])]) + Len(text)
                <= MaxSentences
          /\ found' = [q \in DOMAIN found \cup {p} |-> IF q = p THEN text ELSE found[q]]
    /\ UNCHANGED <<stage, layer, texts, cursor, buffer, chunks>>

\* A page that recognition reads less on keeps its text layer.
Better(p) ==
    IF p \in DOMAIN found /\ TextLength(found[p]) > TextLength(layer[p]) THEN found[p] ELSE layer[p]

MergeOcrResults ==
    /\ stage = "ocr" /\ DOMAIN found = PagesForOcr
    /\ texts' = [p \in DOMAIN layer |-> Better(p)]
    /\ stage' = "check"
    /\ UNCHANGED <<layer, found, cursor, buffer, chunks>>

\* OCR fails as a whole, at any page: the text layer is read on.
OcrFails ==
    /\ stage = "ocr"
    /\ found' = << >>
    /\ stage' = "check"
    /\ UNCHANGED <<layer, texts, cursor, buffer, chunks>>

\* processMaterial gives up on a document with next to no text.
CheckText ==
    /\ stage = "check"
    /\ stage' = IF DocumentLength(texts) < MinUsable THEN "failed" ELSE "chunk"
    /\ UNCHANGED <<layer, found, texts, cursor, buffer, chunks>>

-----------------------------------------------------------------------------
(* chunkPages *)

Page == cursor[1]
TokensOf(p, parts) == SumOf([n \in DOMAIN parts |-> texts[p][parts[n]]])
LastOf(parts, n) == SubSeq(parts, Len(parts) - n + 1, Len(parts))

\* Mutant: the whole chunk is carried when no shorter end of it fits.
OverlapOrAll(p, parts) ==
    LET fits == {n \in 1..Len(parts) : TokensOf(p, LastOf(parts, n)) <= OverlapTokens} IN
    IF fits = {} THEN parts ELSE LastOf(parts, Max(fits))

\* trailingOverlap: as many sentences from the end as the budget allows; a single
\* one that is too large is carried as well, unless it is the whole chunk.
TrailingOverlap(p, parts) ==
    LET fits == {n \in 0..Len(parts) : TokensOf(p, LastOf(parts, n)) <= OverlapTokens} IN
    IF Max(fits) = 0 /\ Len(parts) > 1 THEN LastOf(parts, 1) ELSE LastOf(parts, Max(fits))

Flushed == IF buffer = <<>> THEN chunks ELSE Append(chunks, [page |-> Page, parts |-> buffer])

\* One sentence of the loop, fragments skipped (splitSentences).
TakeSentence ==
    /\ stage = "chunk" /\ Page \in DOMAIN texts /\ cursor[2] \in DOMAIN texts[Page]
    /\ LET i == cursor[2]
           size == texts[Page][i]
           full == buffer # <<>> /\ TokensOf(Page, buffer) + size > TargetTokens
       IN
          /\ cursor' = <<Page, i + 1>>
          /\ IF size = Stray
             THEN UNCHANGED <<buffer, chunks>>
             ELSE /\ buffer' = Append(IF full THEN TrailingOverlap(Page, buffer) ELSE buffer, i)
                  /\ chunks' = IF full THEN Flushed ELSE chunks
    /\ UNCHANGED <<stage, layer, found, texts>>

\* The end of a page: no chunk spans two.
EndPage ==
    /\ stage = "chunk" /\ Page \in DOMAIN texts /\ cursor[2] \notin DOMAIN texts[Page]
    /\ chunks' = Flushed
    /\ buffer' = <<>>
    /\ cursor' = <<Page + 1, 1>>
    /\ UNCHANGED <<stage, layer, found, texts>>

ChunkingEnds ==
    /\ stage = "chunk" /\ Page \notin DOMAIN texts
    /\ stage' = "done"
    /\ UNCHANGED <<layer, found, texts, cursor, buffer, chunks>>

ReadingNext ==
    \/ ExtractPage \/ ExtractEnds
    \/ RecognisePage \/ MergeOcrResults \/ OcrFails
    \/ CheckText
    \/ TakeSentence \/ EndPage \/ ChunkingEnds

-----------------------------------------------------------------------------
(* Properties *)

PartsOf(k) == ToSet(chunks[k].parts)
Tokens(k) == TokensOf(chunks[k].page, chunks[k].parts)
SamePage(k) == k > 1 /\ chunks[k - 1].page = chunks[k].page
Carried(k) == IF SamePage(k) THEN PartsOf(k) \cap PartsOf(k - 1) ELSE {}

\* No text is lost on the way to the chunks, neither by OCR ...
NoTextLost ==
    stage \notin {"extract", "ocr"} =>
        \A p \in DOMAIN layer :
            /\ TextLength(texts[p]) >= TextLength(layer[p])
            /\ ~NeedsOcr(p) => texts[p] = layer[p]

\* ... nor by the packing: every sentence is in a chunk of its page, in order.
EverySentenceOnce ==
    stage = "done" =>
        \A p \in DOMAIN texts : \A i \in DOMAIN texts[p] :
            LET new == {k \in DOMAIN chunks : chunks[k].page = p /\ i \in PartsOf(k) \ Carried(k)} IN
            IF texts[p][i] = Stray THEN new = {} ELSE \E k \in DOMAIN chunks : new = {k}

InOrder ==
    /\ \A k \in DOMAIN chunks : \A m, n \in DOMAIN chunks[k].parts :
          m < n => chunks[k].parts[m] < chunks[k].parts[n]
    /\ \A k \in DOMAIN chunks : k > 1 =>
          \/ chunks[k - 1].page < chunks[k].page
          \/ SamePage(k) /\ Last(chunks[k - 1].parts) < Last(chunks[k].parts)

\* A chunk is larger than its budget only by one sentence: the one it consists
\* of, or the first one after what it carries over.
WithinBudget ==
    \A k \in DOMAIN chunks :
        Tokens(k) > TargetTokens => \E i \in PartsOf(k) : PartsOf(k) \ Carried(k) = {i}

\* Consecutive chunks of a page share the end of the first and the start of the
\* second, except after a single sentence that is larger than the overlap; and a
\* chunk repeats the whole of its predecessor only if that fits in the overlap.
Overlapping ==
    \A k \in DOMAIN chunks : SamePage(k) =>
        LET before == chunks[k - 1].parts
            parts == chunks[k].parts IN
        \E n \in 0..Len(before) :
            /\ n < Len(parts) /\ Carried(k) = {parts[m] : m \in 1..n}
            /\ \A m \in 1..n : parts[m] = before[Len(before) - n + m]
            /\ n = 0 => Len(before) = 1 /\ Tokens(k - 1) > OverlapTokens
            /\ n = Len(before) => Tokens(k - 1) <= OverlapTokens

\* The chunks of a document hold all of its text, in order, within their budget
\* and with the overlap that a citation of one page can rely on.
ChunksFaithful ==
    NoTextLost /\ EverySentenceOnce /\ InOrder /\ WithinBudget /\ Overlapping
=============================================================================
