-------------------------------- MODULE Usage --------------------------------
(***************************************************************************)
(* The pages that count: an administrator's AI usage (getAiUsage,           *)
(* lib/services/admin.ts), the analytics of a project and of the instance   *)
(* (lib/services/analytics.ts, summarizeAiUsage in lib/ai/telemetry.ts) and *)
(* the day buckets and heatmap they draw (lib/analytics/series.ts).  A page *)
(* is several queries, each of which sees the rows there are when it runs;  *)
(* rows arrive meanwhile, and are never changed.  AiRequest rows stand for  *)
(* activity events as well, with their feature for the event's type.        *)
(***************************************************************************)
EXTENDS Integers, Sequences, SequencesExt, FiniteSets, FiniteSetsExt, Functions

CONSTANTS
    Features,       \* features of AI requests, and types of events
    LatencyOf,      \* of a request that failed, and of one that did not
    DayLength,      \* a day of the clock
    WindowDays,     \* ANALYTICS_WINDOW_DAYS, and the days of the usage page
    MaxEntries,     \* bound on the rows
    MaxHours        \* bound on the clock

ASSUME UsageAssumption ==
    /\ LatencyOf \in [BOOLEAN -> Nat]
    /\ {DayLength, WindowDays} \subseteq Nat \ {0} /\ {MaxEntries, MaxHours} \subseteq Nat

VARIABLES
    hour,      \* the clock
    entries,   \* the rows, in the order of createdAt
    page       \* the page being loaded: what each of its queries saw

usageVars == <<hour, entries, page>>

-----------------------------------------------------------------------------
Queries == {"totals", "failures", "byFeature", "series"}
Unread == -1
NoPage == [at |-> "closed", since |-> 0, before |-> 0, drawn |-> 0, saw |-> [query \in Queries |-> Unread]]

UsageInit == hour = 0 /\ entries = <<>> /\ page = NoPage

\* (What happens once a page is drawn no longer shows on it.)
HourPasses ==
    /\ hour < MaxHours /\ page.at # "drawn"
    /\ hour' = hour + 1
    /\ UNCHANGED <<entries, page>>

EntryArrives ==
    /\ Len(entries) < MaxEntries /\ page.at # "drawn"
    /\ \E feature \in Features, failed \in BOOLEAN :
          entries' = Append(entries, [feature |-> feature, failed |-> failed, at |-> hour])
    /\ UNCHANGED <<hour, page>>

\* The window starts to the millisecond, not at the start of a day.
OpenPage ==
    /\ page.at = "closed"
    /\ page' = [NoPage EXCEPT !.at = "loading", !.since = hour - WindowDays * DayLength,
                              !.before = Len(entries)]
    /\ UNCHANGED <<hour, entries>>

\* The queries run at once; only summarizeAiUsage counts failures after the totals.
RunQuery(query) ==
    /\ page.at = "loading" /\ page.saw[query] = Unread
    /\ page' = [page EXCEPT !.saw[query] = Len(entries)]
    /\ UNCHANGED <<hour, entries>>

DrawPage ==
    /\ page.at = "loading" /\ \A query \in Queries : page.saw[query] # Unread
    /\ page' = [page EXCEPT !.at = "drawn", !.drawn = hour]
    /\ UNCHANGED <<hour, entries>>

UsageNext ==
    \/ HourPasses \/ EntryArrives
    \/ OpenPage \/ DrawPage
    \/ \E query \in Queries : RunQuery(query)

-----------------------------------------------------------------------------
(* What the page says *)

Seen(query) ==
    {n \in 1..page.saw[query] : entries[n].at >= page.since}
Failed(rows) == {n \in rows : entries[n].failed}
OfFeature(rows, feature) == {n \in rows : entries[n].feature = feature}
LatencySum(rows) == FoldSet(LAMBDA n, sum : sum + LatencyOf[entries[n].failed], 0, rows)

TotalCalls == Cardinality(Seen("totals"))
TotalFailures == Cardinality(Failed(Seen("failures")))

\* Grouped by feature and status, then put together again: calls, failures and the
\* sum of the latencies, from the mean of each group times its size.
ByFeature(feature) ==
    LET group(failed) == {n \in OfFeature(Seen("byFeature"), feature) : entries[n].failed = failed} IN
    [calls |-> Cardinality(group(TRUE)) + Cardinality(group(FALSE)),
     failures |-> Cardinality(group(TRUE)),
     latency |-> LatencySum(group(TRUE)) + LatencySum(group(FALSE))]
SumOfFeatures(field) == FoldSet(LAMBDA feature, sum : sum + ByFeature(feature)[field], 0, Features)

\* bucketByDay: the days up to the one it is drawn in, empty ones included.
DayOf(time) == time \div DayLength
FirstDay == DayOf(page.drawn) - (WindowDays - 1)

Buckets ==
    [k \in 1..WindowDays |-> Cardinality({n \in Seen("series") : DayOf(entries[n].at) = FirstDay + k - 1})]
TotalCount == SumFunction(Buckets)

\* buildHeatmap: columns are weeks, rows are weekdays, the first column is padded.
Week == 7
Weekday(day) == day % Week
Peak == Max({1} \cup Range(Buckets))
Level(count) == IF count = 0 THEN 0 ELSE Min({4, (4 * count + Peak - 1) \div Peak})
Heatmap ==
    [k \in 1..WindowDays |->
        LET position == k - 1 + Weekday(FirstDay) IN
        [week |-> position \div Week, weekday |-> position % Week, count |-> Buckets[k], level |-> Level(Buckets[k])]]

-----------------------------------------------------------------------------
(* Properties *)

Arrived == Len(entries) - page.before
Apart(m, n) == IF m >= n THEN m - n ELSE n - m

\* The numbers of one page differ by no more than the rows that arrived while it
\* was loaded, so that without any they are equal; the failures may exceed the calls
\* by as many.
NumbersMatch ==
    /\ Apart(TotalCalls, SumOfFeatures("calls")) <= Arrived
    /\ TotalFailures <= TotalCalls + Arrived
    /\ Apart(TotalFailures, SumOfFeatures("failures")) <= Arrived
    /\ Arrived = 0 => SumOfFeatures("latency") = LatencySum(Seen("totals"))

\* A row of the window is in the bucket of its day; the only rows in none are those
\* of the day on which the window starts, before the first bucket, and those that
\* fell out of the first bucket because midnight passed while the page was loaded.
\* So the total of a project's page (the rows) is at least that of the instance's
\* (the buckets).
BucketsComplete ==
    LET outside == {n \in Seen("series") : DayOf(entries[n].at) < FirstDay} IN
    /\ TotalCount = Cardinality(Seen("series")) - Cardinality(outside)
    /\ \A n \in outside :
          \/ DayOf(entries[n].at) = DayOf(page.since)
          \/ DayOf(page.drawn) > DayOf(page.since + WindowDays * DayLength)

\* Every day is on the row of its weekday, the weeks follow each other, and a day is
\* blank if and only if nothing happened on it.
HeatmapTrue ==
    \A k \in 1..WindowDays :
        /\ Heatmap[k].weekday = Weekday(FirstDay + k - 1)
        /\ k > 1 => Heatmap[k].week = Heatmap[k - 1].week + (IF Heatmap[k].weekday = 0 THEN 1 ELSE 0)
        /\ Heatmap[k].level = 0 <=> Heatmap[k].count = 0
        /\ \A j \in 1..WindowDays : Heatmap[j].count <= Heatmap[k].count => Heatmap[j].level <= Heatmap[k].level

\* A page of numbers says what the rows say.
UsageTrue == page.at = "drawn" => NumbersMatch /\ BucketsComplete /\ HeatmapTrue
=============================================================================
