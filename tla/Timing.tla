------------------------------- MODULE Timing -------------------------------
(***************************************************************************)
(* TimingSession and summarise of lib/performance/timing.ts: where the time *)
(* of a request goes.  A session counts the spans that are open and nothing *)
(* else; which span a new one belongs to is known by its caller alone.  The *)
(* tutor opens spans one after another and, in a Promise.all, side by side. *)
(***************************************************************************)
EXTENDS Integers, Sequences, SequencesExt, FiniteSets, Folds, TLC

CONSTANTS
    MaxSpans,   \* bound on the spans of a session
    MaxClock    \* bound on its time, in half hundredths of a millisecond

ASSUME TimingAssumption == {MaxSpans, MaxClock} \subseteq Nat

VARIABLES
    elapsed,    \* performance.now() since the session began
    depth,      \* TimingSession.depth
    open,       \* the spans under way, in the order in which they were opened
    spans,      \* TimingSession.spans, in the order in which they closed
    sideBySide  \* history: two spans of one caller were open at once

timingVars == <<elapsed, depth, open, spans, sideBySide>>

Session == 0   \* the caller of the outermost spans

\* Math.round(x * 100) / 100, in hundredths.
RoundedHalves(halves) == (halves + 1) \div 2
RoundedQuotient(a, n) == (2 * a + n) \div (2 * n)

Opened == {s.id : s \in ToSet(open)}
Began == Cardinality(Opened) + Len(spans)

-----------------------------------------------------------------------------
\* push.  A span's `id`, `within` and `around` are history: which it is, whose it is, and
\* how many there are around it.
Pushed(span) ==
    Append(spans, [id |-> span.id, within |-> span.within, around |-> span.around, depth |-> span.depth,
                   start |-> RoundedHalves(span.start), duration |-> RoundedHalves(elapsed - span.start)])

Around(within) ==
    IF within = Session THEN 0 ELSE 1 + (CHOOSE s \in ToSet(open) : s.id = within).around

\* time and timeSync, before the call: by the session, or by what a span measures.
OpenSpan(within) ==
    /\ Began < MaxSpans
    /\ within \in Opened \cup {Session}
    /\ open' = Append(open, [id |-> Began + 1, within |-> within, around |-> Around(within),
                           start |-> elapsed, depth |-> depth])
    /\ depth' = depth + 1
    /\ sideBySide' = (sideBySide \/ \E s \in ToSet(open) : s.within = within)
    /\ UNCHANGED <<elapsed, spans>>

\* What `finally` puts back.
DepthRestored(span) == span.depth

\* time and timeSync, after it, whether it returned or threw.  A call ends after the
\* calls it waits for.
CloseSpan(k) ==
    /\ \A s \in ToSet(open) : s.within # open[k].id
    /\ depth' = DepthRestored(open[k])
    /\ spans' = Pushed(open[k])
    /\ open' = RemoveAt(open, k)
    /\ UNCHANGED <<elapsed, sideBySide>>

\* mark: a span from the session's beginning, at the depth of the moment.  askTutor
\* marks between its spans.
MarkSpan ==
    /\ Began < MaxSpans /\ open = <<>>
    /\ spans' = Pushed([id |-> Began + 1, within |-> Session, around |-> 0, start |-> 0, depth |-> depth])
    /\ UNCHANGED <<elapsed, depth, open, sideBySide>>

ClockRuns == elapsed < MaxClock /\ elapsed' = elapsed + 1 /\ UNCHANGED <<depth, open, spans, sideBySide>>

TimingInit == elapsed = 0 /\ depth = 0 /\ open = <<>> /\ spans = <<>> /\ sideBySide = FALSE

TimingNext ==
    \/ ClockRuns \/ MarkSpan
    \/ \E within \in 0..MaxSpans : OpenSpan(within)
    \/ \E k \in DOMAIN open : CloseSpan(k)

-----------------------------------------------------------------------------
(* summarise *)

Summarise(samples) ==
    LET sorted == SortSeq(samples, <)
        n == Len(sorted)
        middle == n \div 2
    IN
    IF n = 0
    THEN [min |-> 0, median |-> 0, mean |-> 0, max |-> 0]
    ELSE [min |-> sorted[1], max |-> sorted[n],
          median |-> IF n % 2 = 0 THEN RoundedQuotient(sorted[middle] + sorted[middle + 1], 2) ELSE sorted[middle + 1],
          mean |-> RoundedQuotient(FoldSeq(+, 0, sorted), n)]

-----------------------------------------------------------------------------
(* Properties *)

\* As long as no caller has two spans open at once, the depth of a span is the number of
\* spans around it, and the session is back at its own level when all are closed.  After
\* two spans side by side, as in askTutor, neither holds for the rest of the session.
DepthsTrue ==
    ~sideBySide =>
        /\ \A s \in ToSet(spans) \cup ToSet(open) : s.depth = s.around
        /\ open = <<>> => depth = 0

\* A span lies within the one around it; rounding may add a hundredth to its end.
SpansNested ==
    \A inner, outer \in ToSet(spans) :
        inner.within = outer.id =>
            /\ inner.start >= outer.start
            /\ inner.start + inner.duration <= outer.start + outer.duration + 1

\* The figures of a measurement lie where they must: at least half of the samples on
\* either side of the median, the mean between the extremes.
StatsTrue ==
    spans # <<>> =>
        LET samples == [k \in DOMAIN spans |-> spans[k].duration]
            stats == Summarise(samples)
        IN
        /\ stats.min <= stats.mean /\ stats.mean <= stats.max
        /\ 2 * Cardinality({k \in DOMAIN samples : samples[k] <= stats.median}) >= Len(samples)
        /\ 2 * Cardinality({k \in DOMAIN samples : samples[k] >= stats.median}) >= Len(samples)

\* What a report of a session says of its spans is true.
SpansTrue == DepthsTrue /\ SpansNested /\ StatsTrue
=============================================================================
