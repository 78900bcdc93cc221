----------------------------- MODULE RateLimiter -----------------------------
(***************************************************************************)
(* The fixed-window rate limiter of lib/rate-limit.ts: a map from keys to    *)
(* buckets, one per process, whose expired entries are swept only when the  *)
(* map is full.  A key is <<policy, who>>: the policy's budget, spent by one *)
(* address, account or user.                                                *)
(***************************************************************************)
EXTENDS Integers, Sequences, FiniteSets

CONSTANTS
    Keys,             \* the keys that are called
    Limit,            \* RATE_LIMITS[policy].limit
    WindowMs,         \* RATE_LIMITS[policy].windowMs, 60_000 for every policy
    MaxTrackedKeys,   \* MAX_TRACKED_KEYS
    MaxTime           \* bound on the clock

ASSUME LimiterAssumption ==
    /\ \A k \in Keys : Limit[k[1]] \in Nat \ {0}
    /\ WindowMs \in Nat \ {0}
    /\ MaxTrackedKeys \in Nat
    /\ MaxTime \in Nat

VARIABLES
    now,       \* Date.now()
    buckets,   \* the map
    calls      \* history: for every key its calls since the process started

limiter == <<buckets, calls>>
Time == 0..MaxTime
Bucket == [count : Nat \ {0}, resetAt : Nat]
Call == [at : Nat, allowed : BOOLEAN]

\* Mutant: the window is over one tick early.
OverEarly(b) == b.resetAt <= now + 1

\* A bucket whose window is over counts for nothing.
Over(b) == b.resetAt <= now

Tracked == DOMAIN buckets
Current(k) == k \in Tracked /\ ~Over(buckets[k])

\* sweep, when a new window starts and the map is full.
Swept == IF Cardinality(Tracked) >= MaxTrackedKeys THEN {k \in Tracked : ~Over(buckets[k])} ELSE Tracked

NewWindow == [count |-> 1, resetAt |-> now + WindowMs]

\* rateLimit: the next state of the map.
Counted(k) ==
    IF Current(k)
    THEN [buckets EXCEPT ![k].count = @ + 1]
    ELSE [j \in Swept \cup {k} |-> IF j = k THEN NewWindow ELSE buckets[j]]

\* enforcePolicy: whether a call of k is allowed.
Allowed(k) == Current(k) => buckets[k].count + 1 <= Limit[k[1]]

RateLimit(k) ==
    /\ buckets' = Counted(k)
    /\ calls' = [calls EXCEPT ![k] = Append(@, [at |-> now, allowed |-> Allowed(k)])]

Empty == [k \in {} |-> NewWindow]

LimiterInit ==
    /\ now = 0
    /\ buckets = Empty
    /\ calls = [k \in Keys |-> <<>>]

\* The process starts again, with an empty map.
Restarted ==
    /\ buckets' = Empty
    /\ calls' = [k \in Keys |-> <<>>]

Tick == now < MaxTime /\ now' = now + 1 /\ UNCHANGED limiter

LimiterNext ==
    \/ Tick
    \/ UNCHANGED now /\ (Restarted \/ \E k \in Keys : RateLimit(k))

LimiterSpec == LimiterInit /\ [][LimiterNext]_<<now, limiter>>

-----------------------------------------------------------------------------
(* Properties *)

\* The map holds buckets, and the history the calls.
LimiterTypeOK ==
    /\ now \in Time
    /\ Tracked \subseteq Keys
    /\ \A k \in Tracked : buckets[k] \in Bucket
    /\ calls \in [Keys -> Seq(Call)]

Granted(s, from, to) ==
    {i \in DOMAIN s : s[i].allowed /\ s[i].at \in from..to}

\* A fixed window starts at its first call, so an interval as long as a window
\* can hold one whole budget and all but the first call of another.
NeverTooMany ==
    \A k \in Keys : \A t \in Time :
        Cardinality(Granted(calls[k], t, t + WindowMs - 1)) <= 2 * Limit[k[1]] - 1

\* A call is refused only if the budget was spent within the window before it:
\* "please wait a minute" is enough, however often a caller tries meanwhile.
NeverTooFew ==
    \A k \in Keys : \A i \in DOMAIN calls[k] :
        ~calls[k][i].allowed =>
            Cardinality(Granted(calls[k], calls[k][i].at - WindowMs + 1, calls[k][i].at)) >= Limit[k[1]]

\* "Guards against unbounded memory growth": the map outgrows its bound only by
\* keys that were all live when the last of them was added.
TrackedKeysAreLive ==
    Cardinality(Tracked) > MaxTrackedKeys =>
        \E added \in Tracked : \A k \in Tracked :
            buckets[k].resetAt > buckets[added].resetAt - WindowMs

BudgetKept == NeverTooMany /\ NeverTooFew /\ TrackedKeysAreLive
=============================================================================
