------------------------------ MODULE AdminDesk ------------------------------
(***************************************************************************)
(* What an administrator looks at while the system goes on: the activity    *)
(* feed, page by page (listActivity in lib/services/admin.ts and            *)
(* app/(app)/admin/activity/page.tsx; the list of users pages the same way),*)
(* the list of jobs with its counts (listJobs, countJobsByStatus) and the   *)
(* health of the queue (getSystemHealth).  Each page makes its queries      *)
(* side by side, on connections of their own.                               *)
(***************************************************************************)
EXTENDS Integers, Sequences, SequencesExt, FiniteSets, FiniteSetsExt

CONSTANTS
    PageSize,       \* PAGE_SIZE of the feed
    Days,           \* the days filter, in ticks
    DeskJobs,       \* the jobs
    ListLimit,      \* rows of the list of jobs
    LockTimeout,    \* JOB_LOCK_TIMEOUT_MS, in ticks
    MaxEvents,      \* bound on the events
    MaxTicks        \* bound on the clock

ASSUME DeskAssumption ==
    /\ {PageSize, ListLimit} \subseteq Nat \ {0}
    /\ {Days, LockTimeout, MaxEvents, MaxTicks} \subseteq Nat
    /\ IsFiniteSet(DeskJobs)

VARIABLES
    clock,      \* the time
    events,     \* ActivityEvent rows: when each was created, oldest first
    feed,       \* the reader of the feed
    queue,      \* the jobs
    listing,    \* the page of jobs being drawn
    health      \* the health that was shown last

deskVars == <<clock, events, feed, queue, listing, health>>

-----------------------------------------------------------------------------
(* The feed *)

Always == -1   \* the beginning of no filter
NoFeed == [at |-> "closed", filtered |-> FALSE, since |-> Always, page |-> 0, left |-> {},
           total |-> 0, seen |-> {}, owed |-> {}, torn |-> FALSE]

\* What a page that is opened now asks for, and the rows that match it.
Since(filtered) == IF filtered THEN clock - Days ELSE Always
Matching(since) == {e \in DOMAIN events : events[e] >= since}

\* Orders of the rows, newest first: rows of one instant come in any order, and in
\* another one with the next query.
NewestFirst(rows) ==
    {order \in SetToSeqs(rows) :
        \A k \in 1..(Len(order) - 1) : events[order[k]] >= events[order[k + 1]]}

\* skip and take.
PageOf(order, page) ==
    {order[n] : n \in {k \in DOMAIN order : (page - 1) * PageSize < k /\ k <= page * PageSize}}

TotalPages(total) == IF total = 0 THEN 1 ELSE (total + PageSize - 1) \div PageSize

OpenFeed(filtered) ==
    /\ feed.at = "closed"
    /\ feed' = [NoFeed EXCEPT !.at = "loading", !.filtered = filtered, !.since = Since(filtered),
                              !.page = 1, !.left = {"total", "rows"}, !.owed = Matching(Since(filtered))]
    /\ UNCHANGED <<clock, events, queue, listing, health>>

\* The two queries of a page, in either order: the count ...
CountRows ==
    /\ "total" \in feed.left
    /\ feed' = [feed EXCEPT !.left = @ \ {"total"}, !.total = Cardinality(Matching(feed.since))]
    /\ UNCHANGED <<clock, events, queue, listing, health>>

\* ... and the rows of the page.
FetchRows ==
    /\ "rows" \in feed.left
    /\ \E order \in NewestFirst(Matching(feed.since)) :
          feed' = [feed EXCEPT !.left = @ \ {"rows"}, !.seen = @ \cup PageOf(order, feed.page)]
    /\ UNCHANGED <<clock, events, queue, listing, health>>

ShowPage ==
    /\ feed.at = "loading" /\ feed.left = {}
    /\ feed' = [feed EXCEPT !.at = "shown"]
    /\ UNCHANGED <<clock, events, queue, listing, health>>

\* The link to the next page is there while the total says that there is one.
HasNext == feed.page < TotalPages(feed.total)
NextPage ==
    /\ feed.at = "shown" /\ HasNext
    /\ feed' = [feed EXCEPT !.at = "loading", !.page = @ + 1, !.left = {"total", "rows"},
                            !.since = Since(feed.filtered)]
    /\ UNCHANGED <<clock, events, queue, listing, health>>

\* recordActivity, anywhere in the system.
EventArrives ==
    /\ Len(events) < MaxEvents
    /\ events' = Append(events, clock)
    /\ feed' = [feed EXCEPT !.torn = @ \/ Cardinality(feed.left) = 1]
    /\ UNCHANGED <<clock, queue, listing, health>>

-----------------------------------------------------------------------------
(* The jobs *)

JobStatuses == <<"PENDING", "RUNNING", "COMPLETED", "FAILED", "DEAD">>
Rank(status) == CHOOSE k \in DOMAIN JobStatuses : JobStatuses[k] = status
NoLock == -1

NoListing == [at |-> "closed", left |-> {}, torn |-> FALSE, rows |-> <<>>,
              counts |-> [s \in ToSet(JobStatuses) |-> 0]]

CountedBy(status) == Cardinality({j \in DeskJobs : queue[j].status = status})

\* What a worker does to a job: claim it, or report on it.
JobMoves(j) ==
    /\ \/ /\ queue[j].status \in {"PENDING", "FAILED"}
          /\ queue' = [queue EXCEPT ![j] = [status |-> "RUNNING", lockedAt |-> clock]]
       \/ /\ queue[j].status = "RUNNING"
          /\ \E status \in {"COMPLETED", "FAILED", "DEAD"} :
                queue' = [queue EXCEPT ![j] = [status |-> status, lockedAt |-> NoLock]]
    /\ listing' = [listing EXCEPT !.torn = @ \/ Cardinality(listing.left) = 1]
    /\ health' = [health EXCEPT !.stale = @ \ {j}]   \* it has moved since
    /\ UNCHANGED <<clock, events, feed>>

\* reclaimStaleJobs, with attempts left or without.
ReclaimStale ==
    LET stale == {j \in DeskJobs : queue[j].status = "RUNNING" /\ queue[j].lockedAt < clock - LockTimeout} IN
    /\ stale # {}
    /\ \E dead \in SUBSET stale :
          queue' = [j \in DeskJobs |->
              IF j \in stale
              THEN [status |-> IF j \in dead THEN "DEAD" ELSE "PENDING", lockedAt |-> NoLock]
              ELSE queue[j]]
    /\ listing' = [listing EXCEPT !.torn = @ \/ Cardinality(listing.left) = 1]
    /\ health' = [health EXCEPT !.reclaimed = TRUE]
    /\ UNCHANGED <<clock, events, feed>>

\* The page of jobs, whose two queries also come in either order.
OpenJobs ==
    /\ listing.at # "loading"
    /\ listing' = [NoListing EXCEPT !.at = "loading", !.left = {"rows", "counts"}]
    /\ UNCHANGED <<clock, events, feed, queue, health>>

\* listJobs: the rows by status, DEAD first, as many as the limit allows.  Which of
\* one status come first is a matter of their age: any.
ListJobs ==
    /\ "rows" \in listing.left
    /\ \E order \in SetToSeqs(DeskJobs) :
          /\ \A k \in 1..(Len(order) - 1) :
                Rank(queue[order[k]].status) >= Rank(queue[order[k + 1]].status)
          /\ listing' = [listing EXCEPT !.left = @ \ {"rows"},
                !.rows = [k \in {n \in DOMAIN order : n <= ListLimit} |-> queue[order[k]].status]]
    /\ UNCHANGED <<clock, events, feed, queue, health>>

\* countJobsByStatus.
CountJobs ==
    /\ "counts" \in listing.left
    /\ listing' = [listing EXCEPT !.left = @ \ {"counts"},
                                  !.counts = [s \in ToSet(JobStatuses) |-> CountedBy(s)]]
    /\ UNCHANGED <<clock, events, feed, queue, health>>

ShowJobs ==
    /\ listing.at = "loading" /\ listing.left = {}
    /\ listing' = [listing EXCEPT !.at = "shown"]
    /\ UNCHANGED <<clock, events, feed, queue, health>>

\* getSystemHealth: the locks that a reclaim would take now.
ReadHealth ==
    /\ health' = [reclaimed |-> FALSE,
                  stale |-> {j \in DeskJobs : queue[j].status = "RUNNING"
                                              /\ queue[j].lockedAt < clock - LockTimeout}]
    /\ UNCHANGED <<clock, events, feed, queue, listing>>

Tick ==
    /\ clock < MaxTicks
    /\ clock' = clock + 1
    /\ feed' = [feed EXCEPT !.owed = {e \in @ : feed.filtered => events[e] >= clock' - Days}]
    /\ UNCHANGED <<events, queue, listing, health>>

-----------------------------------------------------------------------------
DeskInit ==
    /\ clock = 0
    /\ events = <<>> /\ feed = NoFeed
    /\ queue = [j \in DeskJobs |-> [status |-> "PENDING", lockedAt |-> NoLock]]
    /\ listing = NoListing
    /\ health = [reclaimed |-> FALSE, stale |-> {}]

FeedNext ==
    \/ Tick \/ (\E filtered \in BOOLEAN : OpenFeed(filtered)) \/ CountRows \/ FetchRows
    \/ ShowPage \/ NextPage \/ EventArrives

JobsNext ==
    \/ Tick \/ (\E j \in DeskJobs : JobMoves(j)) \/ ReclaimStale
    \/ OpenJobs \/ ListJobs \/ CountJobs \/ ShowJobs \/ ReadHealth

-----------------------------------------------------------------------------
(* Properties *)

\* Two events of one instant on both sides of a page's end may change places between
\* the queries of two pages.
TiesAcrossPages == \E a \in feed.owed, b \in DOMAIN events : a # b /\ events[a] = events[b]

\* Who reads the feed to its last page has seen every event that was there when the
\* first was opened and still matches, whatever arrived in between: arrivals push
\* events to later pages, never past the reader.  A page whose count is older than
\* its rows may end the list too early.
FeedComplete ==
    feed.at = "shown" /\ ~HasNext => feed.owed \subseteq feed.seen \/ feed.torn \/ TiesAcrossPages

\* The list never shows a job and leaves out one that needs the administrator more,
\* and the counts above it are those of the rows, unless a job moved in between.
JobsListed ==
    listing.at = "shown" /\ ~listing.torn =>
        /\ \A s \in ToSet(JobStatuses) :
              LET rows == {k \in DOMAIN listing.rows : listing.rows[k] = s} IN
              /\ Cardinality(rows) <= listing.counts[s]
              /\ Cardinality(rows) < listing.counts[s] =>
                    \A k \in DOMAIN listing.rows : Rank(listing.rows[k]) >= Rank(s)

\* A lock that was shown as stale, and that nobody reported on since, is taken by the
\* next reclaim.
HealthMatchesReclaim ==
    health.reclaimed => \A j \in health.stale : queue[j].status # "RUNNING"

\* What the administrator sees is complete, as of when it was read.
DeskTrue == FeedComplete /\ JobsListed /\ HealthMatchesReclaim
=============================================================================
