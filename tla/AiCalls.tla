------------------------------- MODULE AiCalls -------------------------------
(***************************************************************************)
(* The calls of one server process to its models: measured calls and their *)
(* AiRequest rows (lib/ai/index.ts, lib/ai/telemetry.ts, lib/ai/pricing.ts),*)
(* the cache of query embeddings, the provider's own retries                *)
(* (lib/ai/providers/openai.ts) and the embedding model that is loaded on   *)
(* first use (lib/ai/providers/local-embeddings.ts).  Streamed calls are in *)
(* TutorTurn.  Several calls are under way at once, and each await lets the *)
(* others go on.                                                            *)
(***************************************************************************)
EXTENDS Integers, Sequences, SequencesExt, FiniteSets, FiniteSetsExt, Functions

CONSTANTS
    Callers,           \* calls that may be under way at once
    Keys,              \* texts to embed, with their provider and model
    CacheLimit,        \* EMBEDDING_CACHE_LIMIT
    LocalModel,        \* is AI_EMBED_PROVIDER "local"?
    Priced,            \* does the model have a price?
    SdkTries,          \* attempts of the provider's client: maxRetries + 1
    MaxModelCalls,     \* bound on the model calls
    MaxCallFaults      \* bound on transient errors, lost rows and restarts

ASSUME CallAssumption ==
    /\ CacheLimit \in Nat \ {0} /\ SdkTries \in Nat \ {0}
    /\ {MaxModelCalls, MaxCallFaults} \subseteq Nat
    /\ {LocalModel, Priced} \subseteq BOOLEAN

VARIABLES
    call,        \* where each call is
    cache,       \* the embedding cache, oldest entry first
    extractor,   \* the memoised promise of the local model
    telemetry,   \* AiRequest rows, by what they record
    made,        \* history: the model calls made, and how those ended whose row was due
    lastUse,     \* history: the cached texts in the order they were last hit, or first stored
    callFaults   \* faults so far

callVars == <<call, cache, extractor, telemetry, made, lastUse, callFaults>>

-----------------------------------------------------------------------------
NoKey == "no key"
Kinds == {"generate", "structured", "query", "batch"}

\* What a model call comes to: the vectors of an embedding may have the wrong
\* width, and the output of a structured generation may fail its schema.
Results == {"good", "wrong_width", "invalid", "error"}
ResultsOf(kind) ==
    {"good", "error"} \cup (CASE kind = "structured" -> {"invalid"}
                              [] kind = "generate"   -> {}
                              [] OTHER               -> {"wrong_width"})

Uncalled == [at |-> "idle", kind |-> "generate", key |-> NoKey, tries |-> 0, result |-> "error"]
Embeds(p) == call[p].kind \in {"query", "batch"}

CallsInit ==
    /\ call = [p \in Callers |-> Uncalled]
    /\ cache = <<>> /\ lastUse = <<>>
    /\ extractor = "none"
    /\ telemetry = [success |-> 0, failed |-> 0, paid |-> 0, lost |-> 0]
    /\ made = [calls |-> 0, good |-> 0, bad |-> 0, dead |-> 0]
    /\ callFaults = 0

Moved(sequence, key) == Append(RemoveFirst(sequence, key), key)

-----------------------------------------------------------------------------
\* A hit is answered without a call; the entry becomes the newest.
CacheHit(key) ==
    /\ Contains(cache, key)
    /\ cache' = Moved(cache, key)
    /\ lastUse' = Moved(lastUse, key)
    /\ UNCHANGED <<call, extractor, telemetry, made, callFaults>>

\* aiGenerateText, aiGenerateStructured and aiEmbed; only a single text has a key.
StartCall(p, kind, key) ==
    /\ call[p] = Uncalled
    /\ made.calls < MaxModelCalls
    /\ IF kind = "query" THEN key \in Keys /\ ~Contains(cache, key) ELSE key = NoKey
    /\ call' = [call EXCEPT ![p] = [Uncalled EXCEPT !.kind = kind, !.key = key,
                   !.at = IF kind \in {"query", "batch"} /\ LocalModel THEN "load" ELSE "ask"]]
    /\ made' = [made EXCEPT !.calls = @ + 1]
    /\ UNCHANGED <<cache, extractor, telemetry, lastUse, callFaults>>

CallFault == callFaults < MaxCallFaults /\ callFaults' = callFaults + 1
NoCallFault == UNCHANGED callFaults

\* getExtractor: the first call starts to load the model, all wait for that one
\* promise, and it is kept also when it fails.
AwaitModel(p) ==
    /\ call[p].at = "load"
    /\ \/ extractor = "none" /\ extractor' = "loading" /\ UNCHANGED call
       \/ extractor = "loaded" /\ call' = [call EXCEPT ![p].at = "ask"] /\ UNCHANGED extractor
       \/ /\ extractor = "failed"
          /\ call' = [call EXCEPT ![p].at = "record", ![p].result = "error"]
          /\ UNCHANGED extractor
    /\ UNCHANGED <<cache, telemetry, made, lastUse, callFaults>>

ModelLoads ==
    /\ extractor = "loading"
    /\ \/ extractor' = "loaded" /\ NoCallFault
       \/ extractor' = "failed" /\ CallFault
    /\ UNCHANGED <<call, cache, telemetry, made, lastUse>>

\* The client of a hosted model tries a transient failure again, within the call.
TransientError(p) ==
    /\ call[p].at = "ask" /\ ~(Embeds(p) /\ LocalModel)
    /\ CallFault
    /\ call' = IF call[p].tries + 1 < SdkTries
               THEN [call EXCEPT ![p].tries = @ + 1]
               ELSE [call EXCEPT ![p].at = "record", ![p].result = "error"]
    /\ UNCHANGED <<cache, extractor, telemetry, made, lastUse>>

ModelAnswers(p) ==
    /\ call[p].at = "ask"
    /\ \E result \in ResultsOf(call[p].kind) :
          call' = [call EXCEPT ![p].at = "record", ![p].result = result]
    /\ UNCHANGED <<cache, extractor, telemetry, made, lastUse, callFaults>>

-----------------------------------------------------------------------------
\* recordAiRequest: one row, with a cost if the call succeeded and its model has a
\* price.  A row that cannot be stored is logged, and the call goes on.
RecordRequest(result) ==
    \/ /\ telemetry' = IF result = "good"
                       THEN [telemetry EXCEPT !.success = @ + 1, !.paid = IF Priced THEN @ + 1 ELSE @]
                       ELSE [telemetry EXCEPT !.failed = @ + 1]
       /\ NoCallFault
    \/ telemetry' = [telemetry EXCEPT !.lost = @ + 1] /\ CallFault

\* Mutant: an entry is written again as the newest one.
WriteAsNewest(entries, key) ==
    LET written == Moved(entries, key)
    IN  IF Len(written) <= CacheLimit THEN written ELSE Tail(written)

\* writeCachedEmbedding: an entry that another call has stored keeps its place.
WriteCached(entries, key) ==
    LET written == IF Contains(entries, key) THEN entries ELSE Append(entries, key)
    IN  IF Len(written) <= CacheLimit THEN written ELSE Tail(written)

\* The row, which the caller's continuation awaits: other calls may go on, and the
\* process may die, between the two.
RecordCall(p) ==
    LET result == call[p].result IN
    /\ call[p].at = "record"
    /\ RecordRequest(result)
    /\ made' = IF result = "good" THEN [made EXCEPT !.good = @ + 1] ELSE [made EXCEPT !.bad = @ + 1]
    /\ call' = [call EXCEPT ![p].at = "continue"]
    /\ UNCHANGED <<cache, extractor, lastUse>>

\* The continuation: a query's vector is memoised.
CallEnds(p) ==
    LET memoised == call[p].result = "good" /\ call[p].kind = "query"
        key == call[p].key
    IN
    /\ call[p].at = "continue"
    /\ cache' = IF memoised THEN WriteCached(cache, key) ELSE cache
    /\ lastUse' = IF memoised /\ ~Contains(cache, key) THEN Moved(lastUse, key) ELSE lastUse
    /\ call' = [call EXCEPT ![p] = Uncalled]
    /\ UNCHANGED <<extractor, telemetry, made, callFaults>>

\* The calls that have left no row yet.
UnderWay == Cardinality({p \in Callers : call[p].at \notin {"idle", "continue"}})

\* The process is restarted: calls under way end, and leave no row unless it was stored.
ProcessRestarts ==
    /\ CallFault
    /\ made' = [made EXCEPT !.dead = @ + UnderWay]
    /\ call' = [p \in Callers |-> Uncalled]
    /\ cache' = <<>> /\ lastUse' = <<>> /\ extractor' = "none"
    /\ UNCHANGED telemetry

CallsNext ==
    \/ \E key \in Keys : CacheHit(key)
    \/ \E p \in Callers :
          \/ \E kind \in Kinds, key \in Keys \cup {NoKey} : StartCall(p, kind, key)
          \/ AwaitModel(p) \/ TransientError(p) \/ ModelAnswers(p) \/ RecordCall(p) \/ CallEnds(p)
    \/ ModelLoads
    \/ ProcessRestarts

-----------------------------------------------------------------------------
(* Properties *)

\* Every model call leaves one row, as often as its client tried it, also when its
\* caller never gets the answer: only a row that could not be stored is missing, and
\* those of calls that have not ended, or were cut off before their row by a restart.
\* Rows of failures, and of models without a price, cost nothing.
RowPerCall ==
    /\ made.calls = made.good + made.bad + made.dead + UnderWay
    /\ telemetry.success + telemetry.failed + telemetry.lost = made.good + made.bad
    /\ telemetry.success <= made.good /\ telemetry.failed <= made.bad
    /\ telemetry.paid = IF Priced THEN telemetry.success ELSE 0

\* The cache holds each text once, within its limit, and drops the one that was not
\* asked for the longest: what is kept are the texts that were hit, or first stored,
\* last, in that order, whichever overlapping calls have stored them again.
CacheKeepsLatest ==
    /\ Len(cache) <= CacheLimit
    /\ IsInjective(cache)
    /\ IsSuffix(cache, lastUse)

\* Calls fail for want of the local model only after a load has failed; then all of
\* them do, until the process is restarted.
OneLoad ==
    \A p \in Callers :
        /\ call[p].at = "ask" /\ Embeds(p) /\ LocalModel => extractor = "loaded"
        /\ call[p].at \in {"record", "continue"} /\ call[p].result # "error" /\ Embeds(p) /\ LocalModel =>
              extractor = "loaded"

\* The calls of a process, its cache and its records agree.
CallsAccounted == RowPerCall /\ CacheKeepsLatest /\ OneLoad
=============================================================================
