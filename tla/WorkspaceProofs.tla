--------------------------- MODULE WorkspaceProofs ---------------------------
(***************************************************************************)
(* What Workspace's requests keep, whatever overlaps, fails and restarts:   *)
(*   - the budgets of the rate limiter, whose steps are all the requests'   *)
(*     use of it (Named, LimiterUsed);                                      *)
(*   - the sessions: each admits requests until it expires or is revoked    *)
(*     (ServiceInv);                                                        *)
(*   - the activity log: every change of a row is in it once, as its        *)
(*     owner's, because an open transaction has its row and no other        *)
(*     removes that (AuditInv).                                             *)
(***************************************************************************)
EXTENDS Workspace, TLAPS, FiniteSetTheorems

LimitOf(k) == Limit[k[1]]

\* The calls of k that its window has counted and allowed.
Spent(k) == Granted(calls[k], buckets[k].resetAt - WindowMs, buckets[k].resetAt - 1)

(* The parts of the inductive invariant. *)

Typed ==
    /\ now \in Time
    /\ buckets \in [Tracked -> Bucket]
    /\ Tracked \subseteq Keys /\ IsFiniteSet(Tracked)
    /\ calls \in [Keys -> Seq(Call)]

\* No call and no window is of a later time than now.
InThePast ==
    /\ \A k \in Keys : \A i \in DOMAIN calls[k] : calls[k][i].at <= now
    /\ \A k \in Tracked : buckets[k].resetAt <= now + WindowMs

\* A window has allowed as many calls as it has counted, up to the limit.
WindowsCount ==
    \A k \in Tracked :
        \/ buckets[k].count <= Cardinality(Spent(k))
        \/ LimitOf(k) <= Cardinality(Spent(k))

IInv == Typed /\ InThePast /\ WindowsCount /\ NeverTooFew /\ TrackedKeysAreLive

-----------------------------------------------------------------------------
(* Sets of granted calls *)

\* A sequence has finitely many granted calls.
LEMMA GrantedFinite ==
    ASSUME NEW s \in Seq(Call), NEW from \in Int, NEW to \in Int
    PROVE  /\ IsFiniteSet(Granted(s, from, to))
           /\ Cardinality(Granted(s, from, to)) \in Nat
<1>1. DOMAIN s = 1..Len(s) /\ Len(s) \in Nat
  OBVIOUS
<1>2. IsFiniteSet(1..Len(s))
  BY <1>1, FS_Interval
<1>3. Granted(s, from, to) \subseteq 1..Len(s)
  BY <1>1 DEF Granted
<1> QED
  BY <1>2, <1>3, FS_Subset, FS_CardinalityType

\* One more call takes none away.
LEMMA GrantedGrows ==
    ASSUME NEW s \in Seq(Call), NEW c \in Call, NEW from \in Int, NEW to \in Int
    PROVE  Cardinality(Granted(s, from, to)) <= Cardinality(Granted(Append(s, c), from, to))
<1>1. Append(s, c) \in Seq(Call)
  OBVIOUS
<1>2. Granted(s, from, to) \subseteq Granted(Append(s, c), from, to)
  BY DEF Granted
<1> QED
  BY <1>1, <1>2, GrantedFinite, FS_Subset

\* A granted call within the interval is one more.
LEMMA GrantedOneMore ==
    ASSUME NEW s \in Seq(Call), NEW c \in Call, NEW from \in Int, NEW to \in Int,
           c.allowed, c.at \in from..to
    PROVE  Cardinality(Granted(Append(s, c), from, to)) = Cardinality(Granted(s, from, to)) + 1
<1>1. Granted(Append(s, c), from, to) = Granted(s, from, to) \cup {Len(s) + 1}
  BY DEF Granted, Call
<1>2. Len(s) + 1 \notin Granted(s, from, to)
  BY DEF Granted
<1> QED
  BY <1>1, <1>2, GrantedFinite, FS_AddElement

\* An interval that reaches further back, of calls that are not later than its end,
\* holds at least as many.
LEMMA GrantedWithin ==
    ASSUME NEW s \in Seq(Call), NEW from \in Int, NEW to \in Int,
           NEW from1 \in Int, NEW to1 \in Int, from1 <= from,
           \A i \in DOMAIN s : s[i].at <= to1
    PROVE  Cardinality(Granted(s, from, to)) <= Cardinality(Granted(s, from1, to1))
<1>0. \A i \in DOMAIN s : s[i].at \in Nat
  <2>1. \A i \in DOMAIN s : s[i] \in Call
    OBVIOUS
  <2> QED
    BY <2>1 DEF Call
<1>1. Granted(s, from, to) \subseteq Granted(s, from1, to1)
  BY <1>0 DEF Granted
<1> QED
  BY <1>1, GrantedFinite, FS_Subset

-----------------------------------------------------------------------------
(* The steps *)

\* At first nothing is tracked and nothing was called.
LEMMA InitHolds == LimiterInit => IInv
<1> SUFFICES ASSUME LimiterInit PROVE IInv
  OBVIOUS
<1> USE DEF LimiterInit, Empty, Tracked
<1>1. Tracked = {} /\ IsFiniteSet({}) /\ Cardinality({}) = 0
  BY FS_EmptySet
<1>2. Typed
  BY <1>1, LimiterAssumption DEF Typed, Time
<1>3. InThePast /\ WindowsCount /\ NeverTooFew
  BY <1>1 DEF InThePast, WindowsCount, NeverTooFew
<1>4. TrackedKeysAreLive
  BY <1>1, LimiterAssumption DEF TrackedKeysAreLive
<1> QED
  BY <1>2, <1>3, <1>4 DEF IInv

\* Time leaves the windows and the calls behind.
LEMMA TickKeeps == IInv /\ Tick => IInv'
<1> SUFFICES ASSUME IInv, Tick PROVE IInv'
  OBVIOUS
<1> USE DEF IInv, Tick, limiter
<1>1. now \in Nat /\ now' = now + 1 /\ buckets' = buckets /\ calls' = calls /\ Tracked' = Tracked
  BY LimiterAssumption DEF Typed, Time, Tracked
<1>2. Typed'
  BY <1>1, LimiterAssumption DEF Typed, Time
<1>3. InThePast'
  <2>1. \A k \in Keys : \A i \in DOMAIN calls[k] : calls[k][i].at \in Nat
    <3>1. \A k \in Keys : \A i \in DOMAIN calls[k] : calls[k][i] \in Call
      BY DEF Typed
    <3> QED
      BY <3>1 DEF Call
  <2>2. \A k \in Tracked : buckets[k].resetAt \in Nat
    BY DEF Typed, Bucket
  <2> QED
    BY <1>1, <2>1, <2>2, LimiterAssumption DEF InThePast
<1>4. WindowsCount' /\ NeverTooFew' /\ TrackedKeysAreLive'
  BY <1>1 DEF WindowsCount, NeverTooFew, TrackedKeysAreLive, Spent
<1> QED
  BY <1>2, <1>3, <1>4

\* A restart forgets the windows and the calls together.
LEMMA RestartKeeps == IInv /\ Restarted /\ UNCHANGED now => IInv'
<1> SUFFICES ASSUME IInv, Restarted, UNCHANGED now PROVE IInv'
  OBVIOUS
<1> USE DEF Restarted, Empty
<1>1. Tracked' = {} /\ IsFiniteSet({}) /\ Cardinality({}) = 0
  BY FS_EmptySet DEF Tracked
<1>2. Typed'
  BY <1>1 DEF IInv, Typed, Tracked
<1>3. InThePast' /\ WindowsCount' /\ NeverTooFew'
  BY <1>1 DEF InThePast, WindowsCount, NeverTooFew
<1>4. TrackedKeysAreLive'
  BY <1>1, LimiterAssumption DEF TrackedKeysAreLive
<1> QED
  BY <1>2, <1>3, <1>4 DEF IInv

-----------------------------------------------------------------------------
\* A call keeps the types, and appends itself to the calls of its key.
LEMMA CallTyped ==
    ASSUME IInv, NEW k \in Keys, RateLimit(k), UNCHANGED now
    PROVE  /\ Typed'
           /\ calls[k] \in Seq(Call)
           /\ [at |-> now, allowed |-> Allowed(k)] \in Call
           /\ calls'[k] = Append(calls[k], [at |-> now, allowed |-> Allowed(k)])
           /\ \A j \in Keys \ {k} : calls'[j] = calls[j]
<1> DEFINE c == [at |-> now, allowed |-> Allowed(k)]
<1>1. now \in Nat /\ now + WindowMs \in Nat
  BY LimiterAssumption DEF IInv, Typed, Time
<1>2. c \in Call
  BY <1>1 DEF Call, Allowed
<1>3. calls[k] \in Seq(Call)
  BY DEF IInv, Typed
<1>4. calls' = [calls EXCEPT ![k] = Append(@, c)] /\ Append(calls[k], c) \in Seq(Call)
  BY <1>2, <1>3 DEF RateLimit
<1>5. calls' \in [Keys -> Seq(Call)] /\ calls'[k] = Append(calls[k], c) /\ \A j \in Keys \ {k} : calls'[j] = calls[j]
  BY <1>4 DEF IInv, Typed
<1>6. buckets' \in [Tracked' -> Bucket] /\ Tracked' \subseteq Keys /\ IsFiniteSet(Tracked')
  <2>1. CASE Current(k)
    <3>1. buckets' = [buckets EXCEPT ![k].count = @ + 1] /\ k \in Tracked
      BY <2>1 DEF RateLimit, Counted, Current
    <3>2. Tracked' = Tracked /\ buckets' \in [Tracked -> Bucket]
      BY SMTT(30), <3>1 DEF IInv, Typed, Tracked, Bucket
    <3> QED
      BY <3>2 DEF IInv, Typed
  <2>2. CASE ~Current(k)
    <3>1. buckets' = [j \in Swept \cup {k} |-> IF j = k THEN NewWindow ELSE buckets[j]]
      BY <2>2 DEF RateLimit, Counted
    <3>2. Swept \subseteq Tracked
      BY DEF Swept
    <3>3. IsFiniteSet(Swept \cup {k})
      BY <3>2, FS_Subset, FS_AddElement DEF IInv, Typed
    <3>4. NewWindow \in Bucket
      BY <1>1 DEF NewWindow, Bucket
    <3> QED
      BY <3>1, <3>2, <3>3, <3>4 DEF IInv, Typed, Tracked
  <2> QED
    BY <2>1, <2>2
<1> QED
  BY <1>2, <1>3, <1>5, <1>6 DEF IInv, Typed

\* What a call does to the windows: those of others stay or are swept, and its own
\* counts on or begins.
LEMMA CallWindows ==
    ASSUME IInv, NEW k \in Keys, RateLimit(k), UNCHANGED now
    PROVE  /\ k \in Tracked'
           /\ \A j \in Tracked' \ {k} : j \in Tracked /\ buckets'[j] = buckets[j]
           /\ Current(k) =>
                 /\ k \in Tracked /\ Tracked' = Tracked
                 /\ buckets'[k].count = buckets[k].count + 1
                 /\ buckets'[k].resetAt = buckets[k].resetAt
           /\ ~Current(k) => Tracked' = Swept \cup {k} /\ buckets'[k] = NewWindow
<1>1. CASE Current(k)
  <2>1. buckets' = [buckets EXCEPT ![k].count = @ + 1] /\ k \in Tracked
    BY <1>1 DEF RateLimit, Counted, Current
  <2>2. Tracked' = Tracked /\ \A j \in Tracked \ {k} : buckets'[j] = buckets[j]
    BY <2>1 DEF IInv, Typed, Tracked
  <2>3. buckets[k] \in Bucket /\ buckets'[k] = [buckets[k] EXCEPT !.count = @ + 1]
    BY <2>1 DEF IInv, Typed, Tracked
  <2> QED
    BY <1>1, <2>1, <2>2, <2>3 DEF Bucket
<1>2. CASE ~Current(k)
  <2>1. buckets' = [j \in Swept \cup {k} |-> IF j = k THEN NewWindow ELSE buckets[j]]
    BY <1>2 DEF RateLimit, Counted
  <2>2. Swept \subseteq Tracked
    BY DEF Swept
  <2> QED
    BY <1>2, <2>1, <2>2 DEF Tracked
<1> QED
  BY <1>1, <1>2

\* A call is made now, and its window ends no later than a whole one from now.
LEMMA CallKeepsPast ==
    ASSUME IInv, NEW k \in Keys, RateLimit(k), UNCHANGED now
    PROVE  InThePast'
<1>1. now \in Nat
  BY DEF IInv, Typed, Time
<1>2. ASSUME NEW j \in Keys, NEW i \in DOMAIN calls'[j] PROVE calls'[j][i].at <= now'
  <2>1. CASE j # k
    BY <2>1, CallTyped DEF IInv, InThePast
  <2>2. CASE j = k
    <3> DEFINE c == [at |-> now, allowed |-> Allowed(k)]
    <3>1. calls[k] \in Seq(Call) /\ c \in Call /\ calls'[k] = Append(calls[k], c) /\ c.at = now
      BY CallTyped
    <3> HIDE DEF c
    <3>2. calls'[k][i] = c \/ (i \in DOMAIN calls[k] /\ calls'[k][i] = calls[k][i])
      BY <2>2, <3>1
    <3> QED
      BY <1>1, <2>2, <3>1, <3>2 DEF IInv, InThePast
  <2> QED
    BY <2>1, <2>2
<1>3. ASSUME NEW j \in Tracked' PROVE buckets'[j].resetAt <= now' + WindowMs
  <2>1. CASE j # k \/ Current(k)
    BY <2>1, CallWindows DEF IInv, InThePast
  <2>2. CASE j = k /\ ~Current(k)
    BY <1>1, <2>2, CallWindows, LimiterAssumption DEF NewWindow
  <2> QED
    BY <2>1, <2>2
<1> QED
  BY <1>2, <1>3 DEF InThePast

\* A refused call has its whole budget in its window.
LEMMA RefusedIsSpent ==
    ASSUME IInv, NEW k \in Keys, ~Allowed(k)
    PROVE  /\ Current(k)
           /\ buckets[k].resetAt \in Nat
           /\ LimitOf(k) <= Cardinality(Spent(k))
<1>1. Current(k) /\ k \in Tracked /\ ~(buckets[k].count + 1 <= Limit[k[1]])
  BY DEF Allowed, Current
<1>2. buckets[k].count \in Nat /\ buckets[k].resetAt \in Nat /\ Limit[k[1]] \in Nat
  BY <1>1, LimiterAssumption DEF IInv, Typed, Bucket
<1>3. buckets[k].count >= Limit[k[1]]
  BY <1>1, <1>2
<1>4. Cardinality(Spent(k)) \in Nat
  BY <1>2, GrantedFinite, LimiterAssumption DEF Spent, IInv, Typed
<1> QED
  BY <1>1, <1>2, <1>3, <1>4 DEF IInv, WindowsCount, LimitOf

\* A window counts the call it allows.
LEMMA CallKeepsCounts ==
    ASSUME IInv, NEW k \in Keys, RateLimit(k), UNCHANGED now
    PROVE  WindowsCount'
<1> DEFINE c == [at |-> now, allowed |-> Allowed(k)]
<1>0. now \in Nat /\ WindowMs \in Nat \ {0}
  BY LimiterAssumption DEF IInv, Typed, Time
<1> SUFFICES ASSUME NEW j \in Tracked'
             PROVE  \/ buckets'[j].count <= Cardinality(Spent(j)')
                    \/ LimitOf(j) <= Cardinality(Spent(j)')
  BY DEF WindowsCount, LimitOf
<1>1. CASE j # k
  <2>1. Spent(j)' = Spent(j) /\ buckets'[j] = buckets[j] /\ j \in Tracked
    BY ZenonT(60), <1>1, CallTyped, CallWindows DEF Spent, Typed
  <2> QED
    BY <2>1 DEF IInv, WindowsCount
<1>2. CASE j = k /\ Current(k)
  <2>1. /\ buckets[k].resetAt \in Nat /\ buckets[k].count \in Nat /\ k \in Tracked
        /\ buckets[k].resetAt > now /\ buckets[k].resetAt <= now + WindowMs
    BY <1>0, <1>2 DEF Current, Over, IInv, Typed, Bucket, InThePast
  <2> DEFINE from == buckets[k].resetAt - WindowMs
             to == buckets[k].resetAt - 1
  <2>2. from \in Int /\ to \in Int /\ now \in from..to
    BY <1>0, <2>1
  <2>3. /\ calls[k] \in Seq(Call) /\ c \in Call /\ c.at = now
        /\ Spent(k) = Granted(calls[k], from, to)
        /\ Spent(k)' = Granted(Append(calls[k], c), from, to)
    BY <1>2, CallTyped, CallWindows DEF Spent
  <2>8. Append(calls[k], c) \in Seq(Call)
    BY <2>3
  <2> HIDE DEF from, to, c
  <2>4. /\ Cardinality(Spent(k)) <= Cardinality(Spent(k)')
        /\ Cardinality(Spent(k)) \in Nat /\ Cardinality(Spent(k)') \in Nat
    BY <2>2, <2>3, <2>8, GrantedGrows, GrantedFinite
  <2>5. Limit[k[1]] \in Nat
    BY LimiterAssumption
  <2>6. CASE Allowed(k)
    <3>0. c.allowed
      BY <2>6 DEF c, Allowed
    <3>1. Cardinality(Spent(k)') = Cardinality(Spent(k)) + 1
      BY <2>2, <2>3, <3>0, GrantedOneMore
    <3> QED
      BY <1>2, <2>1, <2>4, <2>5, <3>1, CallWindows DEF IInv, WindowsCount, LimitOf
  <2>7. CASE ~Allowed(k)
    BY <1>2, <2>4, <2>5, <2>7, RefusedIsSpent DEF LimitOf
  <2> QED
    BY <2>6, <2>7
<1>3. CASE j = k /\ ~Current(k)
  <2> DEFINE last == now + WindowMs - 1
  <2>1. buckets'[k] = NewWindow /\ Allowed(k) /\ c.allowed = TRUE /\ c.at = now
    BY <1>3, CallWindows DEF Allowed
  <2>2. /\ buckets'[k].resetAt - WindowMs = now /\ buckets'[k].resetAt - 1 = last
        /\ now \in Int /\ last \in Int /\ now \in now..last
    BY <1>0, <2>1 DEF NewWindow
  <2>3. Spent(k)' = Granted(Append(calls[k], c), now, last)
    <3>1. Spent(k)' = Granted(calls'[k], buckets'[k].resetAt - WindowMs, buckets'[k].resetAt - 1)
      BY DEF Spent
    <3>2. calls'[k] = Append(calls[k], c)
      BY CallTyped
    <3> QED
      BY <2>2, <3>1, <3>2
  <2>4. calls[k] \in Seq(Call) /\ c \in Call
    BY CallTyped
  <2> HIDE DEF last, c
  <2>5. Cardinality(Spent(k)') = Cardinality(Granted(calls[k], now, last)) + 1
    <3>1. c.allowed /\ c.at \in now..last
      BY <2>1, <2>2
    <3>2. Cardinality(Granted(Append(calls[k], c), now, last)) = Cardinality(Granted(calls[k], now, last)) + 1
      BY <2>2, <2>4, <3>1, GrantedOneMore
    <3> QED
      BY <2>3, <3>2
  <2>6. Cardinality(Granted(calls[k], now, last)) \in Nat
    BY <2>2, <2>4, GrantedFinite
  <2> QED
    BY <1>3, <2>1, <2>5, <2>6 DEF NewWindow
<1> QED
  BY <1>1, <1>2, <1>3

\* A refused call finds the budget of its window spent.
LEMMA CallKeepsFew ==
    ASSUME IInv, NEW k \in Keys, RateLimit(k), UNCHANGED now
    PROVE  NeverTooFew'
<1> DEFINE c == [at |-> now, allowed |-> Allowed(k)]
<1>0. now \in Nat /\ WindowMs \in Nat \ {0}
  BY LimiterAssumption DEF IInv, Typed, Time
<1>1. calls[k] \in Seq(Call) /\ c \in Call /\ calls'[k] = Append(calls[k], c) /\ c.at = now
  BY CallTyped
<1>2. Append(calls[k], c) \in Seq(Call)
  BY <1>1
<1>3. c.allowed \/ ~Allowed(k)
  BY DEF Allowed
<1> HIDE DEF c
<1> SUFFICES ASSUME NEW j \in Keys, NEW i \in DOMAIN calls'[j], ~calls'[j][i].allowed
             PROVE  Cardinality(Granted(calls'[j], calls'[j][i].at - WindowMs + 1, calls'[j][i].at))
                        >= LimitOf(j)
  BY DEF NeverTooFew, LimitOf
<1>4. LimitOf(k) \in Nat
  BY LimiterAssumption DEF LimitOf
<1>5. CASE j # k
  BY <1>5, CallTyped DEF IInv, NeverTooFew, LimitOf
<1>6. CASE j = k /\ i \in DOMAIN calls[k]
  <2> DEFINE to == calls[k][i].at
             from == to - WindowMs + 1
  <2>1. calls'[k][i] = calls[k][i]
    BY <1>1, <1>6
  <2>2. calls[k][i] \in Call
    BY <1>1, <1>6
  <2>3. to \in Int /\ from \in Int
    BY <1>0, <2>2 DEF Call
  <2>4. Cardinality(Granted(calls[k], from, to)) >= LimitOf(k)
    BY <1>6, <2>1 DEF IInv, NeverTooFew, LimitOf
  <2> HIDE DEF from
  <2>5. /\ Cardinality(Granted(calls[k], from, to)) <= Cardinality(Granted(Append(calls[k], c), from, to))
        /\ Cardinality(Granted(calls[k], from, to)) \in Nat
        /\ Cardinality(Granted(Append(calls[k], c), from, to)) \in Nat
    BY <1>1, <1>2, <2>3, GrantedGrows, GrantedFinite
  <2>6. Cardinality(Granted(calls'[k], from, to)) >= LimitOf(k)
    BY <1>1, <1>4, <2>4, <2>5
  <2> QED
    BY <1>6, <2>1, <2>6 DEF from
<1>7. CASE j = k /\ i \notin DOMAIN calls[k]
  <2> DEFINE from == now - WindowMs + 1
  <2>1. calls'[k][i] = c
    BY <1>1, <1>7
  <2>2. /\ buckets[k].resetAt > now /\ buckets[k].resetAt \in Nat
        /\ LimitOf(k) <= Cardinality(Granted(calls[k], buckets[k].resetAt - WindowMs, buckets[k].resetAt - 1))
    <3>1. ~Allowed(k)
      BY <1>3, <1>7, <2>1
    <3> QED
      BY <1>0, <3>1, RefusedIsSpent DEF Spent, Current, Over
  <2> DEFINE from0 == buckets[k].resetAt - WindowMs
             to0 == buckets[k].resetAt - 1
  <2>3. /\ from0 \in Int /\ to0 \in Int /\ from \in Int /\ now \in Int /\ from <= from0
        /\ LimitOf(k) <= Cardinality(Granted(calls[k], from0, to0))
    BY <1>0, <2>2
  <2>4. \A n \in DOMAIN calls[k] : calls[k][n].at <= now
    BY DEF IInv, InThePast
  <2> HIDE DEF from, from0, to0
  <2>5. /\ Cardinality(Granted(calls[k], from0, to0)) <= Cardinality(Granted(calls[k], from, now))
        /\ Cardinality(Granted(calls[k], from0, to0)) \in Nat
    BY <1>1, <2>3, <2>4, GrantedWithin, GrantedFinite
  <2>6. /\ Cardinality(Granted(calls[k], from, now)) <= Cardinality(Granted(Append(calls[k], c), from, now))
        /\ Cardinality(Granted(calls[k], from, now)) \in Nat
        /\ Cardinality(Granted(Append(calls[k], c), from, now)) \in Nat
    BY <1>1, <1>2, <2>3, GrantedGrows, GrantedFinite
  <2>7. Cardinality(Granted(calls'[k], from, now)) >= LimitOf(k)
    BY <1>1, <1>4, <2>3, <2>5, <2>6
  <2> QED
    BY <1>1, <1>7, <2>1, <2>7 DEF from
<1> QED
  BY <1>5, <1>6, <1>7

\* Only a call that sweeps can leave the map above its bound.
LEMMA CallKeepsLive ==
    ASSUME IInv, NEW k \in Keys, RateLimit(k), UNCHANGED now
    PROVE  TrackedKeysAreLive'
<1>0. now \in Nat /\ WindowMs \in Nat \ {0} /\ MaxTrackedKeys \in Nat
  BY LimiterAssumption DEF IInv, Typed, Time
<1>1. \A j \in Tracked : buckets[j].resetAt \in Nat
  BY DEF IInv, Typed, Bucket
<1> SUFFICES ASSUME Cardinality(Tracked') > MaxTrackedKeys
             PROVE  \E added \in Tracked' : \A j \in Tracked' :
                        buckets'[j].resetAt > buckets'[added].resetAt - WindowMs
  BY DEF TrackedKeysAreLive
<1>2. CASE Current(k)
  <2>1. Tracked' = Tracked /\ \A j \in Tracked : buckets'[j].resetAt = buckets[j].resetAt
    BY <1>2, CallWindows
  <2> QED
    BY <2>1 DEF IInv, TrackedKeysAreLive
<1>3. CASE ~Current(k)
  <2>1. Tracked' = Swept \cup {k} /\ buckets'[k] = NewWindow /\ k \in Tracked'
    BY <1>3, CallWindows
  <2>2. IsFiniteSet(Tracked) /\ Cardinality(Tracked) \in Nat
    BY FS_CardinalityType DEF IInv, Typed
  <2>3. Cardinality(Tracked) >= MaxTrackedKeys
    <3> SUFFICES ASSUME ~(Cardinality(Tracked) >= MaxTrackedKeys) PROVE FALSE
      OBVIOUS
    <3>1. Tracked' = Tracked \cup {k}
      BY <2>1 DEF Swept
    <3>2. Cardinality(Tracked \cup {k}) <= Cardinality(Tracked) + 1
      BY SMTT(30), <2>2, FS_AddElement
    <3> QED
      BY <1>0, <2>2, <3>1, <3>2, FS_AddElement
  <2>4. \A j \in Tracked' \ {k} : buckets'[j].resetAt > now
    BY <1>0, <1>1, <2>1, <2>3, CallWindows DEF Swept, Over
  <2>5. buckets'[k].resetAt = now + WindowMs
    BY <2>1 DEF NewWindow
  <2>6. \A j \in Tracked' : buckets'[j].resetAt > buckets'[k].resetAt - WindowMs
    BY <1>0, <2>4, <2>5
  <2> QED
    BY <2>1, <2>6
<1> QED
  BY <1>2, <1>3

\* The inductive invariant holds throughout.
LEMMA Invariance == LimiterSpec => []IInv
<1>1. IInv /\ [LimiterNext]_<<now, limiter>> => IInv'
  <2> SUFFICES ASSUME IInv, [LimiterNext]_<<now, limiter>> PROVE IInv'
    OBVIOUS
  <2>1. CASE Tick
    BY <2>1, TickKeeps
  <2>2. CASE UNCHANGED now /\ Restarted
    BY <2>2, RestartKeeps
  <2>3. ASSUME NEW k \in Keys, UNCHANGED now, RateLimit(k) PROVE IInv'
    BY <2>3, CallTyped, CallKeepsPast, CallKeepsCounts, CallKeepsFew, CallKeepsLive DEF IInv
  <2>4. CASE UNCHANGED <<now, limiter>>
    BY <2>4 DEF limiter, IInv, Typed, InThePast, WindowsCount, NeverTooFew, TrackedKeysAreLive,
                Spent, Tracked
  <2> QED
    BY <2>1, <2>2, <2>3, <2>4 DEF LimiterNext
<1> QED
  BY InitHolds, <1>1, PTL DEF LimiterSpec

-----------------------------------------------------------------------------
(* The upper bound: a second invariant, on top of the first *)

Start(k) == buckets[k].resetAt - WindowMs

\* The calls granted within a window's length before the window of k, in it, and in
\* it after its first tick; and those granted lately to a key without a window.
Earlier(k) == Granted(calls[k], Start(k) - WindowMs + 1, Start(k) - 1)
Later(k) == Granted(calls[k], Start(k) + 1, buckets[k].resetAt - 1)
Recent(k) == Granted(calls[k], now - WindowMs + 1, now)

WindowBounded(k) ==
    /\ \A i \in DOMAIN calls[k] : calls[k][i].at < buckets[k].resetAt
    /\ Cardinality(Earlier(k)) <= LimitOf(k) - 1
    /\ Cardinality(Spent(k)) <= LimitOf(k)
    /\ Cardinality(Spent(k)) <= buckets[k].count
    /\ Cardinality(Later(k)) <= LimitOf(k) - 1
    /\ Cardinality(Later(k)) <= buckets[k].count - 1

PastBounded(k) ==
    /\ \A i \in DOMAIN calls[k] : calls[k][i].at < now
    /\ Cardinality(Recent(k)) <= LimitOf(k) - 1

Bounded ==
    /\ \A k \in Tracked : WindowBounded(k)
    /\ \A k \in Keys \ Tracked : PastBounded(k)

\* A call outside the interval, or a refused one, changes nothing.
LEMMA GrantedNoMore ==
    ASSUME NEW s \in Seq(Call), NEW c \in Call, NEW from \in Int, NEW to \in Int,
           ~c.allowed \/ c.at \notin from..to
    PROVE  Granted(Append(s, c), from, to) = Granted(s, from, to)
BY DEF Granted, Call

\* One more call is at most one more granted call.
LEMMA GrantedAtMostOneMore ==
    ASSUME NEW s \in Seq(Call), NEW c \in Call, NEW from \in Int, NEW to \in Int
    PROVE  Cardinality(Granted(Append(s, c), from, to)) <= Cardinality(Granted(s, from, to)) + 1
<1>0. Cardinality(Granted(s, from, to)) \in Nat
  BY GrantedFinite
<1>1. CASE ~c.allowed \/ c.at \notin from..to
  BY <1>0, <1>1, GrantedNoMore
<1>2. CASE c.allowed /\ c.at \in from..to
  BY <1>0, <1>2, GrantedOneMore
<1> QED
  BY <1>1, <1>2

\* No call of an interval that starts after all of them.
LEMMA GrantedNone ==
    ASSUME NEW s \in Seq(Call), NEW from \in Int, NEW to \in Int,
           \A i \in DOMAIN s : s[i].at < from
    PROVE  Cardinality(Granted(s, from, to)) = 0
<1>1. \A i \in DOMAIN s : s[i] \in Call
  OBVIOUS
<1>2. \A i \in DOMAIN s : s[i].at \in Nat
  BY <1>1 DEF Call
<1>3. Granted(s, from, to) = {}
  BY <1>2 DEF Granted
<1> QED
  BY <1>3, FS_EmptySet

\* Whoever is to begin a window has been granted less than a budget lately: the first
\* call of a window that is over lies further back than a window's length.
LEMMA RecentIsFew ==
    ASSUME IInv, Bounded, NEW k \in Keys, ~Current(k)
    PROVE  PastBounded(k)
<1>0. now \in Nat /\ WindowMs \in Nat \ {0} /\ LimitOf(k) \in Nat /\ calls[k] \in Seq(Call)
  BY LimiterAssumption DEF IInv, Typed, Time, LimitOf
<1>1. CASE k \notin Tracked
  BY <1>1 DEF Bounded
<1>2. CASE k \in Tracked
  <2> DEFINE reset == buckets[k].resetAt
  <2>1. reset \in Nat /\ reset <= now
    BY <1>2 DEF IInv, Typed, Bucket, Current, Over
  <2>2. WindowBounded(k)
    BY <1>2 DEF Bounded
  <2>3. \A i \in DOMAIN calls[k] : calls[k][i] \in Call
    BY <1>0
  <2>4. \A i \in DOMAIN calls[k] : calls[k][i].at \in Nat /\ calls[k][i].at < reset
    BY <2>2, <2>3 DEF WindowBounded, Call
  <2>5. /\ now - WindowMs + 1 \in Int /\ now \in Int
        /\ reset - WindowMs + 1 \in Int /\ reset - 1 \in Int
        /\ reset - WindowMs + 1 <= now - WindowMs + 1
        /\ \A i \in DOMAIN calls[k] : calls[k][i].at <= reset - 1
    BY SMTT(30), <1>0, <2>1, <2>4
  <2>6. Cardinality(Recent(k)) <= Cardinality(Later(k))
    BY <1>0, <2>5, GrantedWithin DEF Recent, Later, Start
  <2>7. Cardinality(Recent(k)) \in Nat /\ Cardinality(Later(k)) \in Nat
    BY <1>0, <2>5, GrantedFinite DEF Recent, Later, Start
  <2>8. Cardinality(Recent(k)) <= LimitOf(k) - 1
    BY <1>0, <2>2, <2>6, <2>7 DEF WindowBounded
  <2> QED
    BY <1>0, <2>1, <2>4, <2>8 DEF PastBounded
<1> QED
  BY <1>1, <1>2

\* A window that goes on counts its call.
LEMMA CallKeepsWindow ==
    ASSUME IInv, Bounded, NEW k \in Keys, RateLimit(k), UNCHANGED now, Current(k)
    PROVE  WindowBounded(k)'
<1> DEFINE c == [at |-> now, allowed |-> Allowed(k)]
           reset == buckets[k].resetAt
           count == buckets[k].count
<1>0. now \in Nat /\ WindowMs \in Nat \ {0} /\ LimitOf(k) \in Nat \ {0}
  BY LimiterAssumption DEF IInv, Typed, Time, LimitOf
<1>1. /\ k \in Tracked /\ reset \in Nat /\ count \in Nat
      /\ reset > now /\ reset - WindowMs <= now
  BY <1>0 DEF IInv, Typed, Bucket, Current, Over, InThePast
<1>2. calls[k] \in Seq(Call) /\ c \in Call /\ c.at = now /\ calls'[k] = Append(calls[k], c)
  BY CallTyped
<1>3. buckets'[k].resetAt = reset /\ buckets'[k].count = count + 1
  BY CallWindows
<1>4. ~c.allowed \/ (c.allowed /\ count + 1 <= LimitOf(k))
  BY DEF Allowed, LimitOf
<1>5. WindowBounded(k)
  BY <1>1 DEF Bounded
<1> DEFINE first == reset - WindowMs
           from == first - WindowMs + 1
           before == first - 1
           after == first + 1
           last == reset - 1
<1>6. /\ {first, from, before, after, last} \subseteq Int
      /\ now \notin from..before
  BY <1>0, <1>1
<1>7. /\ Earlier(k) = Granted(calls[k], from, before)
      /\ Spent(k) = Granted(calls[k], first, last)
      /\ Later(k) = Granted(calls[k], after, last)
      /\ Earlier(k)' = Granted(Append(calls[k], c), from, before)
      /\ Spent(k)' = Granted(Append(calls[k], c), first, last)
      /\ Later(k)' = Granted(Append(calls[k], c), after, last)
  BY <1>2, <1>3 DEF Earlier, Spent, Later, Start
<1> HIDE DEF c, first, from, before, after, last
<1>8. Append(calls[k], c) \in Seq(Call)
  BY <1>2
<1>9. \A i \in DOMAIN calls'[k] : calls'[k][i].at < reset
  <2>1. ASSUME NEW i \in DOMAIN calls'[k]
        PROVE  calls'[k][i] = c \/ (i \in DOMAIN calls[k] /\ calls'[k][i] = calls[k][i])
    BY <1>2
  <2> QED
    BY <1>1, <1>2, <1>5, <2>1 DEF WindowBounded
<1>10. Cardinality(Earlier(k)') <= LimitOf(k) - 1
  BY <1>2, <1>5, <1>6, <1>7, GrantedNoMore DEF WindowBounded
<1>11. /\ Cardinality(Spent(k)) \in Nat /\ Cardinality(Spent(k)') \in Nat
       /\ Cardinality(Later(k)) \in Nat /\ Cardinality(Later(k)') \in Nat
  BY <1>2, <1>6, <1>7, <1>8, GrantedFinite
<1>12. /\ Cardinality(Spent(k)') <= Cardinality(Spent(k)) + 1
       /\ Cardinality(Later(k)') <= Cardinality(Later(k)) + 1
  BY <1>2, <1>6, <1>7, GrantedAtMostOneMore
<1>13. ~c.allowed => Spent(k)' = Spent(k) /\ Later(k)' = Later(k)
  BY <1>2, <1>6, <1>7, GrantedNoMore
<1>14. /\ Cardinality(Spent(k)) <= LimitOf(k) /\ Cardinality(Spent(k)) <= count
       /\ Cardinality(Later(k)) <= LimitOf(k) - 1 /\ Cardinality(Later(k)) <= count - 1
  BY <1>5 DEF WindowBounded
<1>15. /\ Cardinality(Spent(k)') <= LimitOf(k) /\ Cardinality(Spent(k)') <= count + 1
       /\ Cardinality(Later(k)') <= LimitOf(k) - 1 /\ Cardinality(Later(k)') <= count + 1 - 1
  <2>1. CASE ~c.allowed
    BY <1>0, <1>1, <1>11, <1>13, <1>14, <2>1
  <2>2. CASE c.allowed /\ count + 1 <= LimitOf(k)
    BY <1>0, <1>1, <1>11, <1>12, <1>14, <2>2
  <2> QED
    BY <1>4, <2>1, <2>2
<1>16. \A i \in DOMAIN calls'[k] : calls'[k][i].at < buckets'[k].resetAt
  BY <1>3, <1>9
<1>17. /\ Cardinality(Spent(k)') <= buckets'[k].count
       /\ Cardinality(Later(k)') <= buckets'[k].count - 1
  <2>1. buckets'[k].count - 1 = count + 1 - 1
    BY <1>1, <1>3
  <2> QED
    BY <1>3, <1>15, <2>1
<1> QED
  BY <1>10, <1>15, <1>16, <1>17 DEF WindowBounded, LimitOf

\* A window that begins holds its first call only.
LEMMA CallBeginsWindow ==
    ASSUME IInv, Bounded, NEW k \in Keys, RateLimit(k), UNCHANGED now, ~Current(k)
    PROVE  WindowBounded(k)'
<1> DEFINE c == [at |-> now, allowed |-> Allowed(k)]
           from == now - WindowMs + 1
           last == now + WindowMs - 1
<1>0. now \in Nat /\ WindowMs \in Nat \ {0} /\ LimitOf(k) \in Nat \ {0}
  BY LimiterAssumption DEF IInv, Typed, Time, LimitOf
<1>1. calls[k] \in Seq(Call) /\ c \in Call /\ c.at = now /\ calls'[k] = Append(calls[k], c)
  BY CallTyped
<1>2. buckets'[k].count = 1 /\ buckets'[k].resetAt = now + WindowMs
  BY CallWindows DEF NewWindow
<1>3. PastBounded(k)
  BY RecentIsFew
<1>4. \A i \in DOMAIN calls[k] : calls[k][i].at < now
  BY <1>3 DEF PastBounded
<1>5. {from, last, now, now - 1, now + 1} \subseteq Int /\ now \notin from..(now - 1) /\ now \notin (now + 1)..last
  BY <1>0
<1>6. /\ Recent(k) = Granted(calls[k], from, now)
      /\ Earlier(k)' = Granted(Append(calls[k], c), from, now - 1)
      /\ Spent(k)' = Granted(Append(calls[k], c), now, last)
      /\ Later(k)' = Granted(Append(calls[k], c), now + 1, last)
  <2>1. /\ buckets'[k].resetAt - WindowMs = now
        /\ buckets'[k].resetAt - 1 = last
    BY <1>0, <1>2
  <2> QED
    BY <1>1, <2>1 DEF Recent, Earlier, Spent, Later, Start
<1>7. \A i \in DOMAIN calls[k] : calls[k][i] \in Call
  BY <1>1
<1>8. \A i \in DOMAIN calls[k] : calls[k][i].at <= now /\ calls[k][i].at < now + 1
  BY <1>0, <1>4, <1>7 DEF Call
<1> HIDE DEF c, from, last
<1>9. \A i \in DOMAIN calls'[k] : calls'[k][i].at < now + WindowMs
  <2>1. ASSUME NEW i \in DOMAIN calls'[k]
        PROVE  calls'[k][i] = c \/ (i \in DOMAIN calls[k] /\ calls'[k][i] = calls[k][i])
    BY <1>1
  <2>2. \A i \in DOMAIN calls[k] : calls[k][i].at \in Nat
    BY <1>7 DEF Call
  <2> QED
    BY <1>0, <1>1, <1>4, <2>1, <2>2
<1>10. Cardinality(Earlier(k)') <= LimitOf(k) - 1
  <2>1. Earlier(k)' = Granted(calls[k], from, now - 1)
    BY <1>1, <1>5, <1>6, GrantedNoMore
  <2>2. \A i \in DOMAIN calls[k] : calls[k][i].at <= now
    BY <1>8
  <2>3. Cardinality(Earlier(k)') <= Cardinality(Recent(k))
    <3>1. from \in Int /\ now \in Int /\ now - 1 \in Int /\ from <= from
      BY <1>5
    <3>2. Cardinality(Granted(calls[k], from, now - 1)) <= Cardinality(Granted(calls[k], from, now))
      BY <1>1, <2>2, <3>1, GrantedWithin
    <3> QED
      BY <1>6, <2>1, <3>2
  <2>4. Cardinality(Earlier(k)') \in Nat /\ Cardinality(Recent(k)) \in Nat
    BY <1>1, <1>5, <1>6, <2>1, GrantedFinite
  <2> QED
    BY <1>0, <1>3, <2>3, <2>4 DEF PastBounded
<1>11. Cardinality(Spent(k)') <= 1
  <2>1. Cardinality(Granted(calls[k], now, last)) = 0
    BY <1>1, <1>4, <1>5, GrantedNone
  <2>2. Cardinality(Spent(k)') <= 0 + 1
    BY <1>1, <1>5, <1>6, <2>1, GrantedAtMostOneMore
  <2> QED
    BY <2>2
<1>12. Cardinality(Later(k)') = 0
  <2>1. Later(k)' = Granted(calls[k], now + 1, last)
    BY <1>1, <1>5, <1>6, GrantedNoMore
  <2> QED
    BY <1>1, <1>5, <1>8, <2>1, GrantedNone
<1>13. Cardinality(Spent(k)') \in Nat
  <2>1. Append(calls[k], c) \in Seq(Call)
    BY <1>1
  <2> QED
    BY <1>5, <1>6, <2>1, GrantedFinite
<1> QED
  BY <1>0, <1>2, <1>9, <1>10, <1>11, <1>12, <1>13 DEF WindowBounded, LimitOf

\* A call keeps every key's bounds.
LEMMA CallKeepsBounded ==
    ASSUME IInv, Bounded, NEW k \in Keys, RateLimit(k), UNCHANGED now
    PROVE  Bounded'
<1>1. WindowBounded(k)'
  BY CallKeepsWindow, CallBeginsWindow
<1>2. ASSUME NEW j \in Tracked' \ {k} PROVE WindowBounded(j)'
  <2>1. j \in Tracked /\ j \in Keys /\ buckets'[j] = buckets[j] /\ calls'[j] = calls[j]
    BY <1>2, CallTyped, CallWindows DEF IInv, Typed
  <2>2. WindowBounded(j)
    BY <2>1 DEF Bounded
  <2> QED
    BY <2>1, <2>2 DEF WindowBounded, Earlier, Spent, Later, Start
<1>3. ASSUME NEW j \in Keys \ Tracked' PROVE PastBounded(j)'
  <2>1. j # k
    BY <1>3, CallWindows
  <2>2. calls'[j] = calls[j]
    BY <1>3, <2>1, CallTyped
  <2>3. ~Current(j)
    BY <1>3, CallWindows DEF Current, Swept
  <2>4. PastBounded(j)
    BY <1>3, <2>3, RecentIsFew
  <2> QED
    BY <2>2, <2>4 DEF PastBounded, Recent
<1> QED
  BY <1>1, <1>2, <1>3 DEF Bounded

\* A call keeps every interval within two budgets: one that holds the new call
\* begins after the calls of Earlier.
LEMMA CallKeepsMany ==
    ASSUME IInv, Bounded, NeverTooMany, NEW k \in Keys, RateLimit(k), UNCHANGED now
    PROVE  NeverTooMany'
<1> DEFINE c == [at |-> now, allowed |-> Allowed(k)]
           S == calls'[k]
           reset == buckets'[k].resetAt
<1>0. now \in Nat /\ WindowMs \in Nat \ {0} /\ LimitOf(k) \in Nat \ {0}
  BY LimiterAssumption DEF IInv, Typed, Time, LimitOf
<1>1. calls[k] \in Seq(Call) /\ c \in Call /\ c.at = now /\ S = Append(calls[k], c) /\ S \in Seq(Call)
  BY SMTT(30), CallTyped
<1>2. k \in Tracked' /\ reset \in Nat
  BY CallTyped, CallWindows DEF Typed, Bucket
<1>3. reset - WindowMs <= now /\ \A i \in DOMAIN S : S[i].at <= now
  BY <1>0, <1>2, CallKeepsPast DEF InThePast
<1>4. WindowBounded(k)'
  BY <1>2, CallKeepsBounded DEF Bounded
<1>5. ASSUME NEW t \in Time
      PROVE  Cardinality(Granted(S, t, t + WindowMs - 1)) <= 2 * LimitOf(k) - 1
  <2>0. t \in Int /\ t + WindowMs - 1 \in Int
    BY <1>0 DEF Time
  <2>1. CASE now \notin t..(t + WindowMs - 1)
    <3>1. Granted(S, t, t + WindowMs - 1) = Granted(calls[k], t, t + WindowMs - 1)
      <4> DEFINE until == t + WindowMs - 1
      <4>1. until \in Int /\ c.at \notin t..until
        BY <1>1, <2>0, <2>1
      <4> HIDE DEF until, c, S
      <4>2. Granted(Append(calls[k], c), t, until) = Granted(calls[k], t, until)
        BY <1>1, <2>0, <4>1, GrantedNoMore
      <4> QED
        BY <1>1, <4>2 DEF until
    <3> QED
      BY <3>1 DEF NeverTooMany, LimitOf
  <2>2. CASE now \in t..(t + WindowMs - 1)
    <3> DEFINE first == reset - WindowMs
               A == Granted(S, first - WindowMs + 1, first - 1)
               B == Granted(S, first, reset - 1)
    <3>1. first - WindowMs + 1 \in Int /\ first - 1 \in Int /\ first \in Int /\ reset - 1 \in Int
      BY <1>0, <1>2
    <3>2. A = Earlier(k)' /\ B = Spent(k)'
      BY DEF Earlier, Spent, Start
    <3>3. Cardinality(A) <= LimitOf(k) - 1 /\ Cardinality(B) <= LimitOf(k)
      BY <1>4, <3>2 DEF WindowBounded, LimitOf
    <3>4. /\ IsFiniteSet(A) /\ IsFiniteSet(B) /\ Cardinality(A) \in Nat /\ Cardinality(B) \in Nat
      BY <1>1, <3>1, GrantedFinite
    <3>5. \A i \in DOMAIN S : S[i].at \in Nat /\ S[i].at < reset
      <4>1. \A i \in DOMAIN S : S[i] \in Call
        BY <1>1
      <4> QED
        BY <1>4, <4>1 DEF WindowBounded, Call
    <3>6. t >= first - WindowMs + 1
      BY <1>0, <1>2, <1>3, <2>0, <2>2
    <3>7. Granted(S, t, t + WindowMs - 1) \subseteq A \cup B
      BY <1>0, <1>2, <2>0, <3>5, <3>6 DEF Granted
    <3> DEFINE both == A \cup B
               many == Granted(S, t, t + WindowMs - 1)
    <3>8. /\ IsFiniteSet(both)
          /\ Cardinality(both) = Cardinality(A) + Cardinality(B) - Cardinality(A \cap B)
      BY <3>4, FS_Union
    <3>9. Cardinality(A \cap B) \in Nat /\ Cardinality(both) \in Nat
      BY <3>4, <3>8, FS_Intersection, FS_CardinalityType
    <3>10. Cardinality(many) <= Cardinality(both) /\ Cardinality(many) \in Nat
      BY <3>7, <3>8, FS_Subset, FS_CardinalityType
    <3> HIDE DEF A, B, both, many
    <3>11. Cardinality(many) <= 2 * LimitOf(k) - 1
      BY <1>0, <3>3, <3>4, <3>8, <3>9, <3>10
    <3> QED
      BY <3>11 DEF many
  <2> QED
    BY <2>1, <2>2
<1>6. ASSUME NEW j \in Keys \ {k}, NEW t \in Time
      PROVE  Cardinality(Granted(calls'[j], t, t + WindowMs - 1)) <= 2 * Limit[j[1]] - 1
  <2>1. calls'[j] = calls[j]
    BY <1>6, CallTyped
  <2> QED
    BY <2>1 DEF NeverTooMany
<1>7. ASSUME NEW j \in Keys, NEW t \in Time
      PROVE  Cardinality(Granted(calls'[j], t, t + WindowMs - 1)) <= 2 * Limit[j[1]] - 1
  BY <1>5, <1>6, <1>7 DEF LimitOf
<1> QED
  BY <1>7 DEF NeverTooMany

\* Time that goes on leaves fewer recent calls.
LEMMA TickKeepsBounded == IInv /\ Bounded /\ Tick => Bounded'
<1> SUFFICES ASSUME IInv, Bounded, Tick PROVE Bounded'
  OBVIOUS
<1>1. now \in Nat /\ now' = now + 1 /\ buckets' = buckets /\ calls' = calls /\ Tracked' = Tracked
  BY DEF IInv, Typed, Time, Tracked, Tick, limiter
<1>2. \A k \in Tracked' : WindowBounded(k)'
  BY <1>1 DEF Bounded, WindowBounded, Earlier, Spent, Later, Start
<1>3. ASSUME NEW k \in Keys \ Tracked' PROVE PastBounded(k)'
  <2>0. calls[k] \in Seq(Call) /\ WindowMs \in Nat \ {0} /\ LimitOf(k) \in Nat
    BY <1>3, LimiterAssumption DEF IInv, Typed, LimitOf
  <2>1. PastBounded(k)
    BY <1>1, <1>3 DEF Bounded
  <2>2. \A i \in DOMAIN calls[k] : calls[k][i] \in Call
    BY <2>0
  <2>3. \A i \in DOMAIN calls[k] :
            calls[k][i].at \in Nat /\ calls[k][i].at < now /\ calls[k][i].at < now + 1 /\ calls[k][i].at <= now
    BY <1>1, <2>1, <2>2 DEF PastBounded, Call
  <2> DEFINE from == now - WindowMs + 1
             from1 == now + 1 - WindowMs + 1
  <2>4. from \in Int /\ from1 \in Int /\ now \in Int /\ now + 1 \in Int /\ from <= from1
    BY <1>1, <2>0
  <2>5. Recent(k) = Granted(calls[k], from, now) /\ Recent(k)' = Granted(calls[k], from1, now + 1)
    BY <1>1, <2>0, <2>4, SMT DEF Recent
  <2> HIDE DEF from, from1
  <2>6. Cardinality(Granted(calls[k], from1, now + 1)) <= Cardinality(Granted(calls[k], from, now))
    <3>1. \A i \in DOMAIN calls[k] : calls[k][i].at <= now
      BY <2>3
    <3> QED
      BY <2>0, <2>4, <3>1, GrantedWithin
  <2>7. Cardinality(Recent(k)) \in Nat /\ Cardinality(Recent(k)') \in Nat
    BY <2>0, <2>4, <2>5, GrantedFinite
  <2>8. Cardinality(Recent(k)') <= LimitOf(k) - 1
    BY <2>0, <2>1, <2>5, <2>6, <2>7 DEF PastBounded
  <2> QED
    BY <1>1, <2>3, <2>8 DEF PastBounded, LimitOf
<1> QED
  BY <1>2, <1>3 DEF Bounded

\* A process that starts.
Fresh == buckets = Empty /\ calls = [k \in Keys |-> <<>>] /\ now \in Nat

\* A process that starts has granted nothing.
LEMMA NothingGranted == Fresh => Bounded /\ NeverTooMany
<1> SUFFICES ASSUME Fresh PROVE Bounded /\ NeverTooMany
  OBVIOUS
<1> USE DEF Fresh
<1>1. Tracked = {}
  BY DEF Tracked, Empty
<1>2. ASSUME NEW k \in Keys, NEW from \in Int, NEW to \in Int
      PROVE  Cardinality(Granted(calls[k], from, to)) = 0
  <2>1. Granted(calls[k], from, to) = {}
    BY <1>2 DEF Granted
  <2> QED
    BY <2>1, FS_EmptySet
<1>3. ASSUME NEW k \in Keys PROVE PastBounded(k)
  <2>1. now - WindowMs + 1 \in Int /\ now \in Int /\ LimitOf(k) \in Nat \ {0}
    BY LimiterAssumption DEF LimitOf
  <2>2. Cardinality(Recent(k)) = 0
    BY <1>2, <2>1 DEF Recent
  <2> QED
    BY <2>1, <2>2 DEF PastBounded
<1>4. ASSUME NEW k \in Keys, NEW t \in Time
      PROVE  Cardinality(Granted(calls[k], t, t + WindowMs - 1)) <= 2 * Limit[k[1]] - 1
  <2>1. t \in Int /\ t + WindowMs - 1 \in Int /\ Limit[k[1]] \in Nat \ {0}
    BY LimiterAssumption DEF Time
  <2>2. Cardinality(Granted(calls[k], t, t + WindowMs - 1)) = 0
    BY <1>2, <2>1
  <2> QED
    BY <2>1, <2>2
<1> QED
  BY <1>1, <1>3, <1>4 DEF Bounded, NeverTooMany

\* The upper bound holds throughout.
LEMMA UpperInvariance == LimiterSpec => [](Bounded /\ NeverTooMany)
<1>1. LimiterInit => Bounded /\ NeverTooMany
  BY NothingGranted DEF LimiterInit, Fresh
<1>2. IInv /\ Bounded /\ NeverTooMany /\ [LimiterNext]_<<now, limiter>> => (Bounded /\ NeverTooMany)'
  <2> SUFFICES ASSUME IInv, Bounded, NeverTooMany, [LimiterNext]_<<now, limiter>>
               PROVE  Bounded' /\ NeverTooMany'
    OBVIOUS
  <2>1. CASE Tick
    BY <2>1, TickKeepsBounded DEF NeverTooMany, Tick, limiter
  <2>2. CASE UNCHANGED now /\ Restarted
    <3>1. Fresh'
      BY <2>2 DEF Restarted, Fresh, Empty, IInv, Typed, Time
    <3> QED
      BY <3>1, NothingGranted, PTL
  <2>3. ASSUME NEW k \in Keys, UNCHANGED now, RateLimit(k) PROVE Bounded' /\ NeverTooMany'
    BY <2>3, CallKeepsBounded, CallKeepsMany
  <2>4. CASE UNCHANGED <<now, limiter>>
    BY <2>4 DEF limiter, Bounded, WindowBounded, PastBounded, Earlier, Spent, Later, Recent, Start,
                Tracked, NeverTooMany
  <2> QED
    BY <2>1, <2>2, <2>3, <2>4 DEF LimiterNext
<1> QED
  BY Invariance, <1>1, <1>2, PTL DEF LimiterSpec

-----------------------------------------------------------------------------
(* The theorems *)

\* The map and the history of the limiter keep their types.
THEOREM LimiterTypeCorrect == LimiterSpec => []LimiterTypeOK
<1>1. IInv => LimiterTypeOK
  BY DEF IInv, Typed, LimiterTypeOK
<1> QED
  BY Invariance, <1>1, PTL

\* A call is refused only if its key was granted a whole budget within the window's
\* length before it (rateLimit in lib/rate-limit.ts), for any limit and any window,
\* whatever is swept meanwhile.
THEOREM NeverTooFewCorrect == LimiterSpec => []NeverTooFew
<1>1. IInv => NeverTooFew
  BY DEF IInv
<1> QED
  BY Invariance, <1>1, PTL

\* The map outgrows MAX_TRACKED_KEYS only by keys that were all live when the last of
\* them was added (sweep in lib/rate-limit.ts).
THEOREM TrackedKeysAreLiveCorrect == LimiterSpec => []TrackedKeysAreLive
<1>1. IInv => TrackedKeysAreLive
  BY DEF IInv
<1> QED
  BY Invariance, <1>1, PTL

\* The whole promise of the limiter: an interval as long as a window grants a key at
\* most one budget and all but one call of another, nobody is refused who has not spent
\* a budget, and the map outgrows its bound by live keys alone.
THEOREM BudgetKeptCorrect == LimiterSpec => []BudgetKept
<1>1. IInv /\ NeverTooMany => BudgetKept
  BY DEF IInv, BudgetKept
<1> QED
  BY Invariance, UpperInvariance, <1>1, PTL

-----------------------------------------------------------------------------

\* A request that is being served names an account.
Idle == {"none", "answered", "lost"}
Served(r) ==
    /\ {"at", "email"} \subseteq DOMAIN r
    /\ r.at \in Idle \/ r.email \in Users
Named == DOMAIN request = Requests /\ \A i \in Requests : Served(request[i])

-----------------------------------------------------------------------------
(* What keeps the requests named *)

\* One request that changes.
LEMMA OneChanges ==
    ASSUME Named, NEW i \in Requests, NEW r, Served(r), request' = [request EXCEPT ![i] = r]
    PROVE  Named'
<1>1. DOMAIN request' = Requests
  BY DEF Named
<1>2. ASSUME NEW j \in Requests PROVE Served(request'[j])
  BY DEF Named
<1> QED
  BY <1>1, <1>2 DEF Named

\* A response names nobody, and need not.
LEMMA AnswerKeeps ==
    ASSUME Named, NEW i \in Requests, NEW status, Answer(i, status)
    PROVE  Named'
<1>1. Served(Response(request[i], status, None))
  BY DEF Served, Response, Unsent, Idle
<1>2. request' = [request EXCEPT ![i] = Response(request[i], status, None)]
  BY DEF Answer
<1> QED
  BY <1>1, <1>2, OneChanges

\* A request that goes on keeps its account.
LEMMA GotoKeeps ==
    ASSUME Named, NEW i \in Requests, NEW at, request[i].at \notin Idle, Goto(i, at)
    PROVE  Named'
<1> DEFINE r == [request[i] EXCEPT !.at = at]
<1>1. Served(r)
  BY DEF Named, Served
<1>2. request' = [request EXCEPT ![i] = r]
  BY DEF Goto
<1> QED
  BY <1>1, <1>2, OneChanges

\* Nothing was sent at first.
LEMMA NamedInit == Init => Named
BY DEF Init, Named, Served, Unsent, Idle

\* A form names an account, and so does the request that carries no form.
LEMMA SubmitKeeps == Named /\ Submit => Named'
<1> SUFFICES ASSUME Named, Submit PROVE Named'
  OBVIOUS
<1>1. PICK op \in mix.ops, email \in Users, input \in Inputs, row \in Rows :
        request' = [request EXCEPT ![NextRequest] =
            [Unsent EXCEPT !.at = Entry(op), !.op = op, !.page = "waits", !.email = email,
                           !.input = input, !.row = row, !.token = cookie]]
  BY DEF Submit
<1> DEFINE r == [Unsent EXCEPT !.at = Entry(op), !.op = op, !.page = "waits", !.email = email,
                               !.input = input, !.row = row, !.token = cookie]
<1>2. Served(r)
  BY <1>1 DEF Served, Unsent
<1> HIDE DEF r
<1>3. request' = [request EXCEPT ![NextRequest] = r]
  BY <1>1 DEF r
<1>4. CASE NextRequest \in Requests
  BY <1>2, <1>3, <1>4, OneChanges
<1>5. CASE NextRequest \notin Requests
  BY <1>3, <1>5 DEF Named
<1> QED
  BY <1>4, <1>5

\* What a page does with a response leaves the request where it was.
LEMMA PageKeeps ==
    ASSUME Named, NEW i \in Requests, Deliver(i) \/ GiveUp(i)
    PROVE  Named'
<1> DEFINE r == [request[i] EXCEPT !.page = "over", !.set = None]
<1>1. Served(r)
  BY DEF Named, Served
<1>2. request' = [request EXCEPT ![i] = r]
  BY DEF Deliver, GiveUp, Named
<1> QED
  BY <1>1, <1>2, OneChanges

\* A restart loses the requests under way.
LEMMA RestartKeepsNamed == Named /\ Restart => Named'
<1> SUFFICES ASSUME Named, Restart PROVE Named'
  OBVIOUS
<1>1. request' = [i \in Requests |->
          IF i \in Sent THEN [request[i] EXCEPT !.at = "lost"] ELSE request[i]]
  BY DEF Restart
<1>2. ASSUME NEW i \in Requests PROVE Served(request'[i])
  <2>1. CASE i \in Sent
    BY <1>1, <2>1 DEF Named, Served, Idle
  <2>2. CASE i \notin Sent
    BY <1>1, <2>2 DEF Named
  <2> QED
    BY <2>1, <2>2
<1> QED
  BY <1>1, <1>2 DEF Named

\* The steps of a handler: each answers, goes on, or goes on knowing more.
LEMMA HandlerKeeps ==
    ASSUME Named, NEW i \in Requests, RequestStep(i) \/ DatabaseError(i)
    PROVE  Named'
<1> USE DEF On, Op
<1> DEFINE KeepsName == request[i].at \notin Idle
                        /\ \E r : /\ {"at", "email"} \subseteq DOMAIN r
                                  /\ r.email = request[i].email
                                  /\ request' = [request EXCEPT ![i] = r]
<1>0. ASSUME KeepsName PROVE Named'
  <2>1. PICK r : /\ {"at", "email"} \subseteq DOMAIN r
                 /\ r.email = request[i].email
                 /\ request' = [request EXCEPT ![i] = r]
    BY <1>0
  <2>2. Served(r)
    BY <1>0, <2>1 DEF Named, Served
  <2> QED
    BY <2>1, <2>2, OneChanges
<1> HIDE DEF KeepsName
<1>1. CASE Enter(i)
  <2>1. request[i].at \notin Idle
    BY <1>1 DEF Enter, Idle
  <2>2. Goto(i, "parse") \/ Answer(i, "RATE_LIMITED")
    BY <1>1 DEF Enter
  <2> QED
    BY <2>1, <2>2, GotoKeeps, AnswerKeeps
<1>2. CASE ParseCredentials(i)
  <2>1. request[i].at \notin Idle
    BY <1>2 DEF ParseCredentials, Idle
  <2>2. Goto(i, "authenticate") \/ Answer(i, "RATE_LIMITED") \/ Answer(i, "VALIDATION_ERROR")
    BY <1>2 DEF ParseCredentials
  <2> QED
    BY <2>1, <2>2, GotoKeeps, AnswerKeeps
<1>3. CASE Authenticate(i)
  <2>1. request[i].at \notin Idle
    BY <1>3 DEF Authenticate, Idle
  <2>2. \/ Goto(i, "create") \/ Answer(i, "CONFLICT") \/ Answer(i, "UNAUTHENTICATED")
        \/ request' = [request EXCEPT ![i].at = "session", ![i].user = request[i].email]
    BY <1>3 DEF Authenticate
  <2>3. CASE request' = [request EXCEPT ![i].at = "session", ![i].user = request[i].email]
    <3> DEFINE r == [request[i] EXCEPT !.at = "session", !.user = request[i].email]
    <3>1. {"at", "email"} \subseteq DOMAIN r /\ r.email = request[i].email
      BY DEF Named, Served
    <3>2. request' = [request EXCEPT ![i] = r]
      BY <2>3 DEF Named
    <3> QED
      BY <1>0, <2>1, <3>1, <3>2 DEF KeepsName
  <2> QED
    BY <2>1, <2>2, <2>3, GotoKeeps, AnswerKeeps
<1>4. CASE CreateUser(i)
  <2>1. request[i].at \notin Idle
    BY <1>4 DEF CreateUser, Idle
  <2>2. \/ Answer(i, "INTERNAL_ERROR")
        \/ request' = [request EXCEPT ![i].at = "session", ![i].user = request[i].email]
    BY <1>4 DEF CreateUser
  <2>3. CASE request' = [request EXCEPT ![i].at = "session", ![i].user = request[i].email]
    <3> DEFINE r == [request[i] EXCEPT !.at = "session", !.user = request[i].email]
    <3>1. {"at", "email"} \subseteq DOMAIN r /\ r.email = request[i].email
      BY DEF Named, Served
    <3>2. request' = [request EXCEPT ![i] = r]
      BY <2>3 DEF Named
    <3> QED
      BY <1>0, <2>1, <3>1, <3>2 DEF KeepsName
  <2> QED
    BY <2>1, <2>2, <2>3, AnswerKeeps
<1>5. CASE CreateSession(i)
  <2> DEFINE token == IF request[i].page = "waits" THEN NextToken ELSE None
  <2>1. Served(Response(request[i], "OK", token))
    BY DEF Served, Response, Unsent, Idle
  <2>2. request' = [request EXCEPT ![i] = Response(request[i], "OK", token)]
    BY <1>5 DEF CreateSession, Named
  <2> QED
    BY <2>1, <2>2, OneChanges
<1>6. CASE SignOut(i)
  BY <1>6, AnswerKeeps DEF SignOut
<1>7. CASE Identify(i)
  <2>1. request[i].at \notin Idle
    BY <1>7 DEF Identify, Idle
  <2> DEFINE t == request[i].token
             user == IF t \in DOMAIN issued THEN issued[t].user ELSE Nobody
             next == IF Op(i) = "me" THEN "answered" ELSE AfterIdentify(Op(i))
             right == t \notin revoked /\ issued[t].expires > now
             r == [request[i] EXCEPT !.at = next, !.user = user, !.token = None, !.rightful = right]
  <2>2. \/ Answer(i, "OK") \/ Answer(i, "UNAUTHENTICATED") \/ Goto(i, "expired")
        \/ request' = [request EXCEPT ![i].at = next, ![i].user = user, ![i].token = None,
                                      ![i].rightful = right]
    BY <1>7 DEF Identify
  <2>3. CASE request' = [request EXCEPT ![i].at = next, ![i].user = user, ![i].token = None,
                                        ![i].rightful = right]
    <3> HIDE DEF user, next, right
    <3>1. {"at", "email"} \subseteq DOMAIN r /\ r.email = request[i].email
      BY DEF Named, Served
    <3>2. request' = [request EXCEPT ![i] = r]
      BY <2>3 DEF Named
    <3> QED
      BY <1>0, <2>1, <3>1, <3>2 DEF KeepsName
  <2> QED
    BY <2>1, <2>2, <2>3, GotoKeeps, AnswerKeeps
<1>8. CASE DeleteExpired(i)
  BY <1>8, AnswerKeeps DEF DeleteExpired
<1>9. CASE ParseBody(i) \/ Access(i) \/ First(i) \/ Cascade(i)
  <2>1. request[i].at \notin Idle
    BY <1>9 DEF ParseBody, Access, First, Cascade, Idle
  <2>2. \/ \E at : Goto(i, at)
        \/ \E status : Answer(i, status)
    BY <1>9 DEF ParseBody, Access, First, Cascade
  <2> QED
    BY <2>1, <2>2, GotoKeeps, AnswerKeeps
<1>10. CASE Second(i) \/ DatabaseError(i)
  BY <1>10, AnswerKeeps DEF Second, DatabaseError
<1> QED
  BY <1>1, <1>2, <1>3, <1>4, <1>5, <1>6, <1>7, <1>8, <1>9, <1>10 DEF RequestStep

\* Every step keeps the requests named.
LEMMA NamedStep == Named /\ [Next]_vars => Named'
<1> SUFFICES ASSUME Named, [Next]_vars PROVE Named'
  OBVIOUS
<1>1. ASSUME NEW i \in Requests, BreakDeadlock(i) PROVE Named'
  BY <1>1, AnswerKeeps DEF BreakDeadlock, Others
<1>2. CASE ClockTick \/ UNCHANGED vars
  BY <1>2 DEF ClockTick, vars, Named
<1> QED
  BY <1>1, <1>2, SubmitKeeps, PageKeeps, HandlerKeeps, RestartKeepsNamed DEF Next

-----------------------------------------------------------------------------
(* The steps of the limiter *)

\* A login's second budget is that of the account it names.
LEMMA StepOfLimiter == Named /\ [Next]_vars => [LimiterNext]_<<now, limiter>>
<1> SUFFICES ASSUME Named, [Next]_vars PROVE LimiterNext \/ UNCHANGED <<now, limiter>>
  OBVIOUS
<1>0. PerIp \in Keys /\ Register \in Keys /\ \A u \in Users : Account(u) \in Keys
  BY WorkspaceAssumption
<1>1. ASSUME NEW i \in Requests, Enter(i) PROVE LimiterNext
  BY <1>0, <1>1 DEF Enter, LimiterNext
<1>2. ASSUME NEW i \in Requests, ParseCredentials(i) PROVE LimiterNext \/ UNCHANGED <<now, limiter>>
  <2>1. request[i].email \in Users
    BY <1>2 DEF ParseCredentials, On, Named, Served, Idle
  <2>2. UNCHANGED now /\ (UNCHANGED limiter \/ RateLimit(Account(request[i].email)))
    BY <1>2 DEF ParseCredentials
  <2> QED
    BY <1>0, <2>1, <2>2 DEF LimiterNext
<1>3. ASSUME NEW i \in Requests,
             \/ Deliver(i) \/ GiveUp(i) \/ Authenticate(i) \/ CreateUser(i) \/ CreateSession(i)
             \/ SignOut(i) \/ Identify(i) \/ DeleteExpired(i) \/ ParseBody(i) \/ Access(i)
             \/ First(i) \/ Cascade(i) \/ Second(i) \/ BreakDeadlock(i) \/ DatabaseError(i)
      PROVE  UNCHANGED <<now, limiter>>
  BY <1>3 DEF Deliver, GiveUp, Authenticate, CreateUser, CreateSession, SignOut, Identify,
              DeleteExpired, ParseBody, Access, First, Cascade, Second, BreakDeadlock, DatabaseError
<1>4. CASE Submit
  BY <1>4 DEF Submit
<1>5. CASE Restart
  BY <1>5 DEF Restart, LimiterNext
<1>6. CASE ClockTick
  BY <1>6 DEF ClockTick, LimiterNext
<1>7. CASE UNCHANGED vars
  BY <1>7 DEF vars
<1> QED
  BY <1>1, <1>2, <1>3, <1>4, <1>5, <1>6, <1>7 DEF Next, RequestStep

\* Whatever pages and requests do, what reaches the limiter is what it expects: every
\* behaviour of the requests that sign in, sign up and change spaces (app/api/auth,
\* services/auth.ts) is one of the limiter (lib/rate-limit.ts).
THEOREM LimiterUsed == Spec => LimiterSpec
<1>1. Init => LimiterInit
  BY DEF Init
<1> QED
  BY NamedInit, NamedStep, StepOfLimiter, <1>1, PTL DEF Spec, LimiterSpec

\* Sign-ins and registrations keep their budgets, for any accounts, limits, window and
\* bound on the tracked keys, through concurrent requests, failures and restarts.
THEOREM BudgetKeptByRequests == Spec => []BudgetKept
BY LimiterUsed, BudgetKeptCorrect, PTL

-----------------------------------------------------------------------------
(* What every request is while it is served *)

Closed == {"answered", "lost"}
Open == {i \in Requests : request[i].at \notin Closed}
SpacesEver == {s \in Rows : owner[s] # Nobody}
ProjectsEver == {p \in Rows : home[p] # None}

\* The operation and the user that a request has at a place of its handler.
Placed(r) ==
    /\ r.at \notin Idle => r.email \in Users /\ r.row \in Rows
    /\ r.at \in {"enter", "authenticate", "create"} => r.op \in Credentials
    /\ r.at = "session" => r.op = "logout" \/ (r.op \in Credentials /\ r.user \in Users)
    /\ r.at = "parse" => r.op \in Credentials \/ (r.op \in Changes /\ r.user \in Users)
    /\ r.at \in {"identify", "expired"} => r.op \in Changes \cup {"me"}
    /\ r.at \in {"access", "first", "cascade", "second"} => r.op \in Changes /\ r.user \in Users
    /\ r.at = "access" => r.op # "createSpace"
    /\ r.at = "cascade" => r.op = "deleteSpace"

\* The tokens it holds were issued, and one about to be deleted has expired.
Holding(r) ==
    /\ r.rightful
    /\ r.token \in DOMAIN issued \cup {None} /\ r.set \in DOMAIN issued \cup {None}
    /\ r.at = "expired" => r.token \in DOMAIN issued /\ Expired(r.token)

Sound(r) == r \in Request /\ Placed(r) /\ Holding(r)
AllSound == request \in [Requests -> Request] /\ \A i \in Requests : Sound(request[i])

Stores ==
    /\ now \in Nat
    /\ accounts \subseteq Users
    /\ issued \in Seq([user : Users, expires : Nat])
    /\ revoked \subseteq DOMAIN issued /\ sessions \subseteq DOMAIN issued
    /\ cookie \in DOMAIN issued \cup {None}
    /\ mix \in Mixes /\ faults \in 0..mix.faults

Tables ==
    /\ owner \in [Rows -> Users \cup {Nobody}] /\ home \in [Rows -> Rows \cup {None}]
    /\ spaces \subseteq Rows /\ projects \subseteq Rows
    /\ version.space \in [Rows -> Nat] /\ version.project \in [Rows -> Nat]
    /\ version = [space |-> version.space, project |-> version.project]
    /\ events \subseteq Event

\* A token and a row are made by a request of their own, which ends with it: there is
\* room for one of each as long as a request is open.
Room == Cardinality(Open)
EnoughRoom ==
    /\ Sent = 1..Cardinality(Sent)
    /\ Len(issued) + Room <= MaxRequests + 1
    /\ SpacesEver = 1..Cardinality(SpacesEver) /\ Cardinality(SpacesEver) + Room <= MaxRequests + 1
    /\ ProjectsEver = 1..Cardinality(ProjectsEver) /\ Cardinality(ProjectsEver) + Room <= MaxRequests + 1
    /\ \A r \in Rows : version.space[r] + Room <= MaxRequests /\ version.project[r] + Room <= MaxRequests

\* Signing out is the end of a session, and nothing but time ends one otherwise.
SessionsKept ==
    /\ sessions \cap revoked = {}
    /\ \A t \in DOMAIN issued : issued[t].expires > now /\ t \notin revoked => t \in sessions

ServiceInv == AllSound /\ Stores /\ Tables /\ EnoughRoom /\ SessionsKept

-----------------------------------------------------------------------------
\* Requests and rows can be counted.
LEMMA Countable ==
    /\ IsFiniteSet(Requests) /\ Cardinality(Requests) = MaxRequests
    /\ IsFiniteSet(Rows)
    /\ IsFiniteSet(Open) /\ Cardinality(Open) \in Nat
    /\ IsFiniteSet(Sent) /\ Cardinality(Sent) \in Nat
    /\ IsFiniteSet(SpacesEver) /\ Cardinality(SpacesEver) \in Nat
    /\ IsFiniteSet(ProjectsEver) /\ Cardinality(ProjectsEver) \in Nat
<1>1. IsFiniteSet(Requests) /\ Cardinality(Requests) = MaxRequests
  BY FS_Interval, WorkspaceAssumption DEF Requests
<1>2. IsFiniteSet(Rows)
  BY FS_Interval, WorkspaceAssumption DEF Rows
<1> QED
  BY <1>1, <1>2, FS_Subset, FS_CardinalityType DEF Open, Sent, SpacesEver, ProjectsEver

\* What a response keeps of its request.
LEMMA Responses ==
    ASSUME NEW r \in Request, NEW status \in Status, NEW token \in Tokens \cup {None}, r.rightful,
           NEW b, b = Response(r, status, token)
    PROVE  /\ b \in Request /\ b.at = "answered" /\ b.op = r.op /\ b.rightful
           /\ b.status = status /\ b.set = token /\ b.token = None /\ Placed(b)
<1>1. b = [at |-> "answered", op |-> r.op, page |-> r.page, email |-> Nobody, input |-> "valid",
           token |-> None, user |-> Nobody, row |-> None,
           rightful |-> r.rightful, status |-> status, set |-> token]
  BY DEF Response, Unsent
<1>2. b \in Request
  BY <1>1 DEF Request, Inputs
<1> QED
  BY <1>1, <1>2 DEF Placed, Idle

\* Time and the issued tokens only grow.
Grows ==
    /\ now \in Nat /\ now' \in Nat /\ now <= now'
    /\ DOMAIN issued \subseteq DOMAIN issued'
    /\ \A t \in DOMAIN issued : issued[t].expires \in Nat /\ issued'[t] = issued[t]

LEMMA SoundStays ==
    ASSUME NEW CONSTANT r, Sound(r), Grows
    PROVE  Sound(r)'
<1>1. Holding(r)'
  BY DEF Sound, Grows, Holding, Expired
<1> QED
  BY <1>1 DEF Sound, Placed

\* A request's step: the others stay as they are, and it is open no longer if it ends.
LEMMA OneStep ==
    ASSUME AllSound, NEW i \in Requests, NEW CONSTANT b, Grows, Sound(b)',
           request' = [request EXCEPT ![i] = b],
           b.at = "none" <=> request[i].at = "none",
           request[i].at \in Closed => b.at \in Closed
    PROVE  /\ AllSound'
           /\ Sent' = Sent /\ Open' \subseteq Open
           /\ b.at \in Closed => Open' \subseteq Open \ {i}
<1>1. /\ DOMAIN request' = Requests /\ request'[i] = b
      /\ \A j \in Requests : j # i => request'[j] = request[j]
  BY DEF AllSound
<1>2. ASSUME NEW j \in Requests PROVE Sound(request[j])'
  <2>1. CASE j = i
    BY <1>1, <2>1 DEF Sound, Placed, Holding, Expired
  <2>2. CASE j # i
    <3>1. PICK c : c = request[j]
      OBVIOUS
    <3>2. Sound(c)'
      BY <3>1, SoundStays DEF AllSound
    <3> QED
      BY <1>1, <2>2, <3>1, <3>2 DEF Sound, Placed, Holding, Expired
  <2> QED
    BY <2>1, <2>2
<1>3. AllSound'
  <2>1. b \in Request /\ request \in [Requests -> Request]
    BY DEF AllSound, Sound
  <2>2. request' \in [Requests -> Request]
    BY <2>1
  <2> QED
    BY <1>2, <2>2 DEF AllSound
<1> QED
  BY <1>1, <1>3 DEF Sent, Open, On

\* An answer that carries no token ends a request.
LEMMA AnswerEnds ==
    ASSUME AllSound, NEW i \in Requests, NEW status \in Status, Answer(i, status), Grows,
           request[i].at # "none"
    PROVE  AllSound' /\ Sent' = Sent /\ Open' \subseteq Open \ {i}
<1>1. PICK b : b = Response(request[i], status, None)
  OBVIOUS
<1>2. request[i] \in Request /\ request[i].rightful
  BY DEF AllSound, Sound, Holding
<1>3. b \in Request /\ b.at = "answered" /\ b.rightful /\ b.set = None /\ b.token = None /\ Placed(b)
  BY <1>1, <1>2, Responses
<1>4. Sound(b)'
  BY <1>3 DEF Sound, Placed, Holding
<1>5. request' = [request EXCEPT ![i] = b]
  BY <1>1 DEF Answer
<1> QED
  BY <1>3, <1>4, <1>5, OneStep DEF Closed

\* A request that goes on to a place where its operation and its user belong.
Going == {"parse", "authenticate", "create", "session", "expired", "access", "first", "cascade", "second"}
LEMMA GotoGoes ==
    ASSUME AllSound, NEW i \in Requests, NEW at \in Going, Goto(i, at), Grows,
           request[i].at \notin Idle, Placed([request[i] EXCEPT !.at = at]),
           at = "expired" => request[i].token \in DOMAIN issued /\ Expired(request[i].token)
    PROVE  AllSound' /\ Sent' = Sent /\ Open' \subseteq Open
<1>1. PICK b : b = [request[i] EXCEPT !.at = at]
  OBVIOUS
<1>2. Sound(request[i])
  BY DEF AllSound
<1>3. /\ b \in Request /\ b.at = at /\ b.rightful = request[i].rightful
      /\ b.token = request[i].token /\ b.set = request[i].set
  BY <1>1, <1>2 DEF Sound, Request, Going
<1>4. Sound(b)
  BY <1>1, <1>2, <1>3 DEF Sound, Holding
<1>5. Sound(b)'
  BY <1>4, SoundStays
<1>6. request' = [request EXCEPT ![i] = b]
  BY <1>1 DEF Goto
<1> QED
  BY <1>3, <1>5, <1>6, OneStep DEF Closed, Idle, Going

LEMMA Elements == ASSUME NEW S, NEW s \in Seq(S), NEW t \in DOMAIN s PROVE s[t] \in S
OBVIOUS

\* While nothing is issued, time may stand still.
LEMMA StillGrows ==
    ASSUME ServiceInv, UNCHANGED <<now, issued>>
    PROVE  Grows
<1>1. now \in Nat /\ issued \in Seq([user : Users, expires : Nat])
  BY DEF ServiceInv, Stores
<1>2. \A t \in DOMAIN issued : issued[t] \in [user : Users, expires : Nat]
  BY <1>1, Elements
<1> QED
  BY <1>1, <1>2 DEF Grows

\* The steps of a request that change no session and no row.
LEMMA QuietSteps ==
    ASSUME ServiceInv, NEW i \in Requests,
           \/ Enter(i) \/ ParseCredentials(i) \/ Authenticate(i) \/ CreateUser(i)
           \/ ParseBody(i) \/ Access(i) \/ First(i) \/ Cascade(i)
    PROVE  AllSound' /\ Sent' = Sent /\ Open' \subseteq Open
<1> DEFINE r == request[i]
<1>1. AllSound /\ Sound(r)
  BY DEF ServiceInv, AllSound
<1>2. Grows
  BY StillGrows DEF Enter, ParseCredentials, Authenticate, CreateUser, ParseBody, Access, First, Cascade, session
<1>3. r \in Request /\ Placed(r) /\ r.at \notin Idle
  BY <1>1 DEF Sound, Enter, ParseCredentials, Authenticate, CreateUser, ParseBody, Access, First, Cascade,
              On, Idle
<1>4. ASSUME NEW status \in Status, Answer(i, status)
      PROVE  AllSound' /\ Sent' = Sent /\ Open' \subseteq Open
  BY <1>1, <1>2, <1>3, <1>4, AnswerEnds DEF Idle
<1>5. ASSUME NEW at \in Going \ {"expired"}, Goto(i, at), Placed([r EXCEPT !.at = at])
      PROVE  AllSound' /\ Sent' = Sent /\ Open' \subseteq Open
  BY <1>1, <1>2, <1>3, <1>5, GotoGoes
<1>6. ASSUME NEW at PROVE /\ [r EXCEPT !.at = at].at = at /\ [r EXCEPT !.at = at].op = r.op
                          /\ [r EXCEPT !.at = at].user = r.user /\ [r EXCEPT !.at = at].email = r.email
                          /\ [r EXCEPT !.at = at].row = r.row
  BY <1>3 DEF Request
<1>7. CASE Enter(i)
  <2>1. Placed([r EXCEPT !.at = "parse"])
    <3>1. r.at = "enter"
      BY <1>7 DEF Enter, On
    <3>2. r.op \in Credentials /\ r.email \in Users /\ r.row \in Rows
      BY <1>3, <3>1 DEF Placed
    <3> QED
      BY <1>3, <1>6, <3>2 DEF Placed, Idle
  <2>2. Goto(i, "parse") \/ Answer(i, "RATE_LIMITED")
    BY <1>7 DEF Enter
  <2> QED
    BY <1>4, <1>5, <2>1, <2>2 DEF Going, Status
<1>8. CASE ParseCredentials(i)
  <2>1. Placed([r EXCEPT !.at = "authenticate"])
    BY <1>3, <1>6, <1>8 DEF Placed, ParseCredentials, On, Op, Idle
  <2>2. Goto(i, "authenticate") \/ Answer(i, "RATE_LIMITED") \/ Answer(i, "VALIDATION_ERROR")
    BY <1>8 DEF ParseCredentials
  <2> QED
    BY <1>4, <1>5, <2>1, <2>2 DEF Going, Status
<1>9. ASSUME r.at \in {"authenticate", "create"},
             request' = [request EXCEPT ![i].at = "session", ![i].user = request[i].email]
      PROVE  AllSound' /\ Sent' = Sent /\ Open' \subseteq Open
  <2>1. PICK b : b = [r EXCEPT !.at = "session", !.user = r.email]
    OBVIOUS
  <2>2. request' = [request EXCEPT ![i] = b]
    BY <1>9, <2>1, <1>1 DEF AllSound
  <2>3. r.email \in Users /\ r.row \in Rows /\ r.op \in Credentials
    BY <1>3, <1>9 DEF Placed
  <2>4. /\ b \in Request /\ b.at = "session" /\ b.user = r.email /\ b.op = r.op /\ b.email = r.email
        /\ b.row = r.row /\ b.rightful = r.rightful /\ b.token = r.token /\ b.set = r.set
    BY <1>3, <2>1, <2>3 DEF Request
  <2>5. Sound(b)
    BY <1>1, <2>3, <2>4 DEF Sound, Placed, Holding, Idle
  <2>6. Sound(b)'
    BY <1>2, <2>5, SoundStays
  <2> QED
    BY <1>1, <1>2, <1>9, <2>2, <2>4, <2>6, OneStep DEF Closed
<1>10. CASE Authenticate(i)
  <2>1. Op(i) # "login" => Placed([r EXCEPT !.at = "create"])
    BY <1>3, <1>6, <1>10 DEF Placed, Authenticate, On, Op, Idle
  <2>2. \/ Op(i) # "login" /\ Goto(i, "create")
        \/ Answer(i, "CONFLICT") \/ Answer(i, "UNAUTHENTICATED")
        \/ request' = [request EXCEPT ![i].at = "session", ![i].user = request[i].email]
    BY <1>10 DEF Authenticate
  <2>3. r.at = "authenticate"
    BY <1>10 DEF Authenticate, On
  <2> QED
    BY <1>4, <1>5, <1>9, <2>1, <2>2, <2>3 DEF Going, Status
<1>11. CASE CreateUser(i)
  <2>1. \/ Answer(i, "INTERNAL_ERROR")
        \/ request' = [request EXCEPT ![i].at = "session", ![i].user = request[i].email]
    BY <1>11 DEF CreateUser
  <2>2. r.at = "create"
    BY <1>11 DEF CreateUser, On
  <2> QED
    BY <1>4, <1>9, <2>1, <2>2 DEF Status
<1>12. CASE ParseBody(i)
  <2>1. r.op \in Changes /\ r.user \in Users /\ r.email \in Users /\ r.row \in Rows
    BY <1>3, <1>12 DEF ParseBody, Placed, On, Op, Credentials, Changes, SpaceOps, ProjectOps
  <2>2. Placed([r EXCEPT !.at = "first"]) /\ (r.op # "createSpace" => Placed([r EXCEPT !.at = "access"]))
    BY <1>6, <2>1 DEF Placed, Idle
  <2>3. \/ Answer(i, "VALIDATION_ERROR") \/ Goto(i, "first")
        \/ r.op # "createSpace" /\ Goto(i, "access")
    BY <1>12 DEF ParseBody, Op
  <2> QED
    BY <1>4, <1>5, <2>2, <2>3 DEF Going, Status
<1>13. CASE Access(i) \/ First(i) \/ Cascade(i)
  <2>1. r.op \in Changes /\ r.user \in Users /\ r.email \in Users /\ r.row \in Rows
    BY <1>3, <1>13 DEF Access, First, Cascade, Placed, On
  <2>2. /\ Placed([r EXCEPT !.at = "first"]) /\ Placed([r EXCEPT !.at = "second"])
        /\ r.op = "deleteSpace" => Placed([r EXCEPT !.at = "cascade"])
    BY <1>6, <2>1 DEF Placed, Idle
  <2>3. \/ Answer(i, "NOT_FOUND") \/ Answer(i, "INTERNAL_ERROR")
        \/ Goto(i, "first") \/ Goto(i, "second")
        \/ r.op = "deleteSpace" /\ Goto(i, "cascade")
    <3>1. Access(i) => Goto(i, "first") \/ Answer(i, "NOT_FOUND")
      BY DEF Access
    <3>2. First(i) => \/ Answer(i, "INTERNAL_ERROR") \/ Goto(i, "second")
                      \/ r.op = "deleteSpace" /\ Goto(i, "cascade")
      <4>1. CASE r.op = "deleteSpace"
        BY <4>1 DEF First, Op
      <4>2. CASE r.op # "deleteSpace"
        BY <4>2 DEF First, Op
      <4> QED
        BY <4>1, <4>2
    <3>3. Cascade(i) => Goto(i, "second")
      BY DEF Cascade
    <3> QED
      BY <1>13, <3>1, <3>2, <3>3
  <2> QED
    BY <1>4, <1>5, <2>2, <2>3 DEF Going, Status
<1> QED
  BY <1>7, <1>8, <1>10, <1>11, <1>12, <1>13

\* The steps that answer, or leave the page.
LEMMA LastSteps ==
    ASSUME ServiceInv, NEW i \in Requests, SignOut(i) \/ DeleteExpired(i) \/ Second(i) \/ DatabaseError(i)
    PROVE  AllSound' /\ Sent' = Sent /\ Open' \subseteq Open \ {i} /\ i \in Open
<1>1. AllSound /\ Grows
  BY StillGrows DEF ServiceInv, SignOut, DeleteExpired, Second, DatabaseError, session
<1>2. request[i].at \notin Idle
  BY DEF SignOut, DeleteExpired, Second, DatabaseError, On, Writes, Idle
<1>3. PICK status \in Status : Answer(i, status)
  BY DEF SignOut, DeleteExpired, Second, DatabaseError, Status
<1> QED
  BY <1>1, <1>2, <1>3, AnswerEnds DEF Idle, Open, Closed

LEMMA BreakSteps ==
    ASSUME ServiceInv, NEW i \in Requests, BreakDeadlock(i)
    PROVE  AllSound' /\ Sent' = Sent /\ Open' \subseteq Open
<1>1. AllSound /\ Grows
  BY StillGrows DEF ServiceInv, BreakDeadlock, session
<1>2. PICK j \in {i} \cup Others(i) : Answer(j, "INTERNAL_ERROR")
  BY DEF BreakDeadlock
<1>3. j \in Requests /\ request[j].at # "none"
  BY DEF BreakDeadlock, Deadlocked, On, Others, InTransaction
<1> QED
  BY <1>1, <1>2, <1>3, AnswerEnds DEF Status

LEMMA PageSteps ==
    ASSUME ServiceInv, NEW i \in Requests, Deliver(i) \/ GiveUp(i)
    PROVE  AllSound' /\ Sent' = Sent /\ Open' \subseteq Open
<1> DEFINE r == request[i]
<1>1. AllSound /\ Grows /\ Sound(r)
  BY StillGrows DEF ServiceInv, AllSound, Deliver, GiveUp, session
<1>2. PICK b : b = [r EXCEPT !.page = "over", !.set = None]
  OBVIOUS
<1>3. request' = [request EXCEPT ![i] = b]
  BY <1>1, <1>2 DEF Deliver, GiveUp, AllSound
<1>4. /\ b \in Request /\ b.at = r.at /\ b.op = r.op /\ b.user = r.user /\ b.email = r.email /\ b.row = r.row
      /\ b.rightful = r.rightful /\ b.token = r.token /\ b.set = None
  BY <1>1, <1>2 DEF Sound, Request
<1>5. Placed(b)
  BY <1>1, <1>4 DEF Sound, Placed
<1>6. Sound(b)
  BY <1>1, <1>4, <1>5 DEF Sound, Holding
<1>7. Sound(b)'
  BY <1>1, <1>6, SoundStays
<1> QED
  BY <1>1, <1>3, <1>4, <1>7, OneStep

\* A session that has neither expired nor been revoked admits its user.
LEMMA IdentifySteps ==
    ASSUME ServiceInv, NEW i \in Requests, Identify(i)
    PROVE  AllSound' /\ Sent' = Sent /\ Open' \subseteq Open
<1> DEFINE r == request[i]
           t == r.token
<1>1. AllSound /\ Grows /\ Sound(r)
  BY StillGrows DEF ServiceInv, AllSound, Identify, session
<1>2. r.at = "identify" /\ r.op \in Changes \cup {"me"} /\ r.email \in Users /\ r.row \in Rows
  BY <1>1 DEF Identify, On, Sound, Placed, Idle
<1>3. r \in Request
  BY <1>1 DEF Sound
<1>4. CASE t \notin sessions
  <2>1. Answer(i, "OK") \/ Answer(i, "UNAUTHENTICATED")
    BY <1>4 DEF Identify
  <2> QED
    BY <1>1, <1>2, <2>1, AnswerEnds DEF Status
<1>5. CASE t \in sessions /\ Expired(t)
  <2>1. Goto(i, "expired")
    BY <1>5 DEF Identify
  <2>2. t \in DOMAIN issued
    BY <1>5 DEF ServiceInv, Stores
  <2>3. Placed([r EXCEPT !.at = "expired"])
    <3>1. PICK b : b = [r EXCEPT !.at = "expired"]
      OBVIOUS
    <3>2. b.at = "expired" /\ b.op = r.op /\ b.email = r.email /\ b.row = r.row
      BY <1>3, <3>1 DEF Request
    <3> QED
      BY <1>2, <3>1, <3>2 DEF Placed
  <2> QED
    BY <1>1, <1>2, <1>5, <2>1, <2>2, <2>3, GotoGoes DEF Going, Idle
<1>6. CASE t \in sessions /\ ~Expired(t)
  <2>1. t \in DOMAIN issued /\ t \notin revoked /\ issued \in Seq([user : Users, expires : Nat]) /\ now \in Nat
    BY <1>6 DEF ServiceInv, Stores, SessionsKept
  <2>2. issued[t] \in [user : Users, expires : Nat]
    BY <2>1, Elements
  <2>3. issued[t].expires > now
    BY <1>6, <2>1, <2>2 DEF Expired
  <2>4. PICK next : next = IF r.op = "me" THEN "answered" ELSE AfterIdentify(r.op)
    OBVIOUS
  <2>5. PICK b : b = [r EXCEPT !.at = next, !.user = issued[t].user, !.token = None, !.rightful = TRUE]
    OBVIOUS
  <2>6. request' = [request EXCEPT ![i] = b]
    BY <1>1, <1>6, <2>1, <2>3, <2>4, <2>5 DEF Identify, AllSound, Op
  <2>7. next \in {"answered", "access", "parse"} /\ (next = "answered" \/ r.op \in Changes)
        /\ (next = "access" => r.op # "createSpace")
    BY <1>2, <2>4 DEF AfterIdentify
  <2>8. /\ b \in Request /\ b.at = next /\ b.op = r.op /\ b.user = issued[t].user /\ b.email = r.email
        /\ b.row = r.row /\ b.rightful /\ b.token = None /\ b.set = r.set
    BY <1>3, <2>2, <2>5, <2>7 DEF Request
  <2>9. b.user \in Users
    BY <2>2, <2>8
  <2>10. Placed(b)
    BY <1>2, <2>7, <2>8, <2>9 DEF Placed, Idle
  <2>11. Sound(b)
    BY <1>1, <2>7, <2>8, <2>10 DEF Sound, Holding
  <2>12. Sound(b)'
    BY <1>1, <2>11, SoundStays
  <2> QED
    BY <1>1, <1>2, <2>6, <2>7, <2>8, <2>12, OneStep DEF Closed
<1> QED
  BY <1>4, <1>5, <1>6

\* A sign-in ends with a session of its own.
LEMMA SignInSteps ==
    ASSUME ServiceInv, NEW i \in Requests, CreateSession(i)
    PROVE  /\ AllSound' /\ Sent' = Sent /\ Open' \subseteq Open \ {i} /\ i \in Open
           /\ Grows /\ NextToken \in Nat \ {0} /\ DOMAIN issued' = DOMAIN issued \cup {NextToken}
           /\ NextToken \notin DOMAIN issued /\ Len(issued') = Len(issued) + 1
           /\ issued' \in Seq([user : Users, expires : Nat])
<1> DEFINE r == request[i]
<1>1. AllSound /\ Sound(r) /\ now \in Nat /\ now' = now /\ issued \in Seq([user : Users, expires : Nat])
  BY DEF ServiceInv, AllSound, Stores, CreateSession
<1>2. r \in Request /\ r.at = "session" /\ r.user \in Users
  BY <1>1 DEF CreateSession, On, Op, Sound, Placed, Credentials
<1>3. PICK new : new = [user |-> r.user, expires |-> now + Ttl]
  OBVIOUS
<1>4. new \in [user : Users, expires : Nat] /\ issued' = Append(issued, new)
  BY <1>1, <1>2, <1>3, WorkspaceAssumption DEF CreateSession
<1>5. /\ issued' \in Seq([user : Users, expires : Nat]) /\ Len(issued') = Len(issued) + 1
      /\ DOMAIN issued = 1..Len(issued) /\ Len(issued) \in Nat /\ DOMAIN issued' = 1..(Len(issued) + 1)
      /\ \A t \in DOMAIN issued : issued'[t] = issued[t]
  BY <1>1, <1>4
<1>6. /\ NextToken \in Nat \ {0} /\ DOMAIN issued' = DOMAIN issued \cup {NextToken}
      /\ NextToken \notin DOMAIN issued
  BY <1>5 DEF NextToken
<1>7. Grows
  <2>1. \A t \in DOMAIN issued : issued[t] \in [user : Users, expires : Nat]
    BY <1>1, Elements
  <2> QED
    BY <1>1, <1>5, <1>6, <2>1 DEF Grows
<1>8. i \in Open
  BY <1>2 DEF Open, Closed
<1>9. NextToken \in Tokens
  <2>1. Cardinality(Open) \in Nat /\ Cardinality(Open) # 0
    BY <1>8, Countable, FS_EmptySet
  <2>2. Len(issued) + Cardinality(Open) <= MaxRequests + 1
    BY DEF ServiceInv, EnoughRoom, Room
  <2> QED
    BY <1>5, <2>1, <2>2, WorkspaceAssumption DEF NextToken, Tokens
<1>10. PICK token \in {NextToken, None} : token = IF r.page = "waits" THEN NextToken ELSE None
  OBVIOUS
<1>11. PICK b : b = Response(r, "OK", token)
  OBVIOUS
<1>12. request' = [request EXCEPT ![i] = b]
  BY <1>1, <1>10, <1>11 DEF CreateSession, AllSound
<1>13. token \in Tokens \cup {None} /\ r.rightful
  BY <1>1, <1>9 DEF Sound, Holding
<1>14. b \in Request /\ b.at = "answered" /\ b.rightful /\ b.set = token /\ b.token = None /\ Placed(b)
  BY <1>2, <1>11, <1>13, Responses DEF Status
<1>15. Sound(b)'
  BY <1>6, <1>14 DEF Sound, Placed, Holding
<1> QED
  BY <1>1, <1>2, <1>5, <1>6, <1>7, <1>8, <1>12, <1>14, <1>15, OneStep DEF Closed

\* A request is sent by the first that was not.
LEMMA SubmitSteps ==
    ASSUME ServiceInv, Submit
    PROVE  /\ AllSound' /\ Open' \subseteq Open
           /\ Sent' = Sent \cup {NextRequest} /\ NextRequest \notin Sent
<1>1. PICK op \in mix.ops, email \in Users, input \in Inputs, row \in Rows :
        request' = [request EXCEPT ![NextRequest] =
            [Unsent EXCEPT !.at = Entry(op), !.op = op, !.page = "waits", !.email = email,
                           !.input = input, !.row = row, !.token = cookie]]
  BY DEF Submit
<1>2. AllSound /\ Grows /\ op \in Operations /\ cookie \in DOMAIN issued \cup {None}
  BY StillGrows, MixAssumption DEF ServiceInv, Stores, Submit, session
<1>3. NextRequest \in Requests /\ NextRequest \notin Sent
  <2>1. Cardinality(Sent) \in Nat /\ Sent = 1..Cardinality(Sent)
    BY Countable DEF ServiceInv, EnoughRoom
  <2>2. NextRequest <= mix.requests /\ mix.requests \in 0..MaxRequests
    BY WorkspaceAssumption DEF Submit, ServiceInv, Stores
  <2> QED
    BY <2>1, <2>2, WorkspaceAssumption DEF NextRequest, Requests
<1>4. PICK at : at = Entry(op)
  OBVIOUS
<1>5. at \in {"enter", "session", "identify"} /\ (at = "enter" => op \in Credentials)
      /\ (at = "session" => op = "logout") /\ (at = "identify" => op \in Changes \cup {"me"})
  BY <1>2, <1>4 DEF Entry, Operations
<1>6. PICK b : b = [Unsent EXCEPT !.at = at, !.op = op, !.page = "waits", !.email = email,
                                  !.input = input, !.row = row, !.token = cookie]
  OBVIOUS
<1>7. request' = [request EXCEPT ![NextRequest] = b]
  BY <1>1, <1>4, <1>6
<1>8. DOMAIN issued \subseteq Tokens
  <2>1. issued \in Seq([user : Users, expires : Nat]) /\ Len(issued) + Room <= MaxRequests + 1
    BY DEF ServiceInv, Stores, EnoughRoom
  <2>2. DOMAIN issued = 1..Len(issued) /\ Len(issued) \in Nat /\ Room \in Nat
    BY <2>1, Countable DEF Room
  <2> QED
    BY <2>1, <2>2, WorkspaceAssumption DEF Tokens
<1>9. /\ b \in Request /\ b.at = at /\ b.op = op /\ b.email = email /\ b.row = row /\ b.token = cookie
      /\ b.rightful /\ b.set = None
  <2>1. Unsent \in Request /\ Unsent.rightful = TRUE /\ Unsent.set = None
    BY DEF Unsent, Request, Operations, Status, Inputs
  <2>2. cookie \in Tokens \cup {None}
    BY <1>2, <1>8
  <2> QED
    BY ZenonT(60), <1>2, <1>5, <1>6, <2>1, <2>2 DEF Request
<1>10. Sound(b)
  BY <1>2, <1>5, <1>9 DEF Sound, Placed, Holding
<1>11. Sound(b)'
  BY <1>2, <1>10, SoundStays
<1>12. /\ DOMAIN request' = Requests /\ request'[NextRequest] = b
       /\ \A j \in Requests : j # NextRequest => request'[j] = request[j]
  BY <1>2, <1>3, <1>7 DEF AllSound
<1>13. ASSUME NEW j \in Requests PROVE Sound(request[j])'
  <2>1. CASE j = NextRequest
    BY <1>11, <1>12, <2>1 DEF Sound, Placed, Holding, Expired
  <2>2. CASE j # NextRequest
    <3>1. PICK c : c = request[j]
      OBVIOUS
    <3>2. Sound(c)'
      BY <1>2, <3>1, SoundStays DEF AllSound
    <3> QED
      BY <1>12, <2>2, <3>1, <3>2 DEF Sound, Placed, Holding, Expired
  <2> QED
    BY <2>1, <2>2
<1>14. AllSound'
  <2>1. request' \in [Requests -> Request]
    BY <1>2, <1>7, <1>9 DEF AllSound
  <2> QED
    BY <1>13, <2>1 DEF AllSound
<1>15. b.at # "none" /\ b.at \notin Closed
  BY <1>5, <1>9 DEF Closed
<1>16. request[NextRequest].at = "none"
  BY <1>3 DEF Sent, On
<1>17. Open' \subseteq Open
  BY <1>12, <1>16 DEF Open, Closed
<1>18. Sent' = Sent \cup {NextRequest}
  BY <1>3, <1>12, <1>15 DEF Sent, On
<1> QED
  BY <1>3, <1>14, <1>17, <1>18

\* A restart loses every request, and time leaves them alone.
LEMMA RestartSteps ==
    ASSUME ServiceInv, Restart
    PROVE  AllSound' /\ Sent' = Sent /\ Open' \subseteq Open
<1>1. AllSound /\ Grows
  BY StillGrows DEF ServiceInv, Restart, session
<1>2. request' = [i \in Requests |->
          IF i \in Sent THEN [request[i] EXCEPT !.at = "lost"] ELSE request[i]]
  BY DEF Restart
<1>3. ASSUME NEW j \in Requests PROVE Sound(request[j])' /\ (request'[j].at = "none" <=> request[j].at = "none")
                                       /\ (request'[j].at \notin Closed => request[j].at \notin Closed)
  <2>1. PICK c : c = request'[j]
    OBVIOUS
  <2>2. Sound(request[j])
    BY <1>1 DEF AllSound
  <2>3. CASE j \in Sent
    <3>1. c = [request[j] EXCEPT !.at = "lost"]
      BY <1>2, <2>1, <2>3
    <3>2. c \in Request /\ c.at = "lost" /\ c.rightful = request[j].rightful
          /\ c.token = request[j].token /\ c.set = request[j].set
      BY <2>2, <3>1 DEF Sound, Request
    <3>3. Sound(c)
      BY <2>2, <3>2 DEF Sound, Placed, Holding, Idle
    <3>4. Sound(c)'
      BY <1>1, <3>3, SoundStays
    <3> QED
      BY <2>1, <2>3, <3>2, <3>4 DEF Sound, Placed, Holding, Expired, Sent, On, Closed
  <2>4. CASE j \notin Sent
    <3>1. c = request[j]
      BY <1>2, <2>1, <2>4
    <3>2. Sound(c)'
      BY <1>1, <2>2, <3>1, SoundStays
    <3> QED
      BY <2>1, <3>1, <3>2 DEF Sound, Placed, Holding, Expired
  <2> QED
    BY <2>3, <2>4
<1>4. request' \in [Requests -> Request]
  <2>1. \A j \in Requests : request'[j] \in Request
    BY <1>3 DEF Sound
  <2> QED
    BY <1>2, <2>1
<1> QED
  BY <1>3, <1>4 DEF AllSound, Sent, Open, On

LEMMA TickSteps ==
    ASSUME ServiceInv, ClockTick
    PROVE  AllSound' /\ Sent' = Sent /\ Open' \subseteq Open /\ Grows /\ now' = now + 1
<1>1. AllSound /\ UNCHANGED <<request, issued>> /\ now \in Nat /\ now' = now + 1
  BY DEF ServiceInv, Stores, ClockTick, Tick, session
<1>2. Grows
  <2>1. issued \in Seq([user : Users, expires : Nat])
    BY DEF ServiceInv, Stores
  <2>2. \A t \in DOMAIN issued : issued[t] \in [user : Users, expires : Nat]
    BY <2>1, Elements
  <2> QED
    BY <1>1, <2>2 DEF Grows
<1>3. ASSUME NEW j \in Requests PROVE Sound(request[j])'
  <2>1. PICK c : c = request[j]
    OBVIOUS
  <2>2. Sound(c)'
    BY <1>1, <1>2, <2>1, SoundStays DEF AllSound
  <2> QED
    BY <1>1, <2>1, <2>2 DEF Sound, Placed, Holding, Expired
<1> QED
  BY <1>1, <1>2, <1>3 DEF AllSound, Sent, Open, On

-----------------------------------------------------------------------------
(* What is stored *)

\* Requests that end make room.
LEMMA RoomLeft ==
    ASSUME ServiceInv, Open' \subseteq Open
    PROVE  /\ Room \in Nat /\ Room' \in Nat /\ Room' <= Room
           /\ \A i \in Open : Room \in Nat \ {0} /\ (Open' \subseteq Open \ {i} => Room' + 1 <= Room)
<1>1. IsFiniteSet(Open) /\ Room \in Nat
  BY Countable DEF Room
<1>2. Room' \in Nat /\ Room' <= Room
  <2>1. IsFiniteSet(Open') /\ Cardinality(Open') <= Cardinality(Open)
    BY <1>1, FS_Subset
  <2> QED
    BY <1>1, <2>1, FS_CardinalityType DEF Room
<1>3. ASSUME NEW i \in Open
      PROVE  Room \in Nat \ {0} /\ (Open' \subseteq Open \ {i} => Room' + 1 <= Room)
  <2>1. IsFiniteSet(Open \ {i}) /\ Cardinality(Open \ {i}) = Room - 1 /\ Cardinality(Open \ {i}) \in Nat
    BY <1>1, FS_RemoveElement, FS_CardinalityType DEF Room
  <2>2. Open' \subseteq Open \ {i} => Cardinality(Open') <= Cardinality(Open \ {i})
    BY <2>1, FS_Subset
  <2>3. PICK k, before, after : /\ k = Cardinality(Open \ {i})
                                /\ before = Room /\ after = Room'
    OBVIOUS
  <2>4. /\ k \in Nat /\ before \in Nat /\ after \in Nat /\ k = before - 1
        /\ Open' \subseteq Open \ {i} => after <= k
    BY <1>1, <1>2, <2>1, <2>2, <2>3 DEF Room
  <2>5. before \in Nat \ {0} /\ (Open' \subseteq Open \ {i} => after + 1 <= before)
    BY <2>4
  <2> QED
    BY <2>3, <2>5
<1> QED
  BY <1>1, <1>2, <1>3

LEMMA ForgetTyped ==
    ASSUME NEW kept, kept \subseteq Event, NEW gone, NEW goneProjects
    PROVE  Forget(kept, gone, goneProjects) \subseteq Event
<1>1. ASSUME NEW e \in kept
      PROVE  [e EXCEPT !.space = IF @ \in gone THEN None ELSE @,
                       !.project = IF @ \in goneProjects THEN None ELSE @] \in Event
  BY DEF Event
<1> QED
  BY <1>1 DEF Forget

\* Creating a row takes the next number, which there is while the request is open.
LEMMA NewRows ==
    ASSUME ServiceInv, NEW i \in Open
    PROVE  /\ NewRow([r \in Rows |-> owner[r] # Nobody]) = Cardinality(SpacesEver) + 1
           /\ Cardinality(SpacesEver) + 1 \in Rows \ SpacesEver
           /\ NewRow([r \in Rows |-> home[r] # None]) = Cardinality(ProjectsEver) + 1
           /\ Cardinality(ProjectsEver) + 1 \in Rows \ ProjectsEver
<1>1. {r \in Rows : [q \in Rows |-> owner[q] # Nobody][r]} = SpacesEver
  BY DEF SpacesEver
<1>2. {r \in Rows : [q \in Rows |-> home[q] # None][r]} = ProjectsEver
  BY DEF ProjectsEver
<1>3. Room \in Nat \ {0}
  <2>1. Cardinality(Open) # 0 /\ Cardinality(Open) \in Nat
    BY Countable, FS_EmptySet
  <2> QED
    BY <2>1 DEF Room
<1>4. PICK n, m : n = Cardinality(SpacesEver) /\ m = Cardinality(ProjectsEver)
  OBVIOUS
<1>5. /\ n \in Nat /\ SpacesEver = 1..n /\ n + Room <= MaxRequests + 1
      /\ m \in Nat /\ ProjectsEver = 1..m /\ m + Room <= MaxRequests + 1
  BY <1>4, Countable DEF ServiceInv, EnoughRoom
<1>6. n + 1 \in Rows \ SpacesEver /\ m + 1 \in Rows \ ProjectsEver
  BY <1>3, <1>5, WorkspaceAssumption DEF Rows
<1> QED
  BY <1>1, <1>2, <1>4, <1>6 DEF NewRow

\* A change keeps the types, and adds to one of the counts.
LEMMA ChangeCounts ==
    ASSUME ServiceInv, NEW i \in Requests, On(i, "second"), Change(i)
    PROVE  /\ Tables'
           /\ \/ SpacesEver' = SpacesEver
              \/ SpacesEver' = SpacesEver \cup {Cardinality(SpacesEver) + 1}
           /\ \/ ProjectsEver' = ProjectsEver
              \/ ProjectsEver' = ProjectsEver \cup {Cardinality(ProjectsEver) + 1}
           /\ \A r \in Rows : /\ version'.space[r] <= version.space[r] + 1
                             /\ version'.project[r] <= version.project[r] + 1
<1> DEFINE row == request[i].row
           user == request[i].user
<1>1. i \in Open /\ row \in Rows /\ user \in Users /\ Op(i) \in Changes /\ user # Nobody
  BY WorkspaceAssumption DEF ServiceInv, AllSound, Sound, Placed, On, Op, Open, Closed, Idle
<1>2. Tables
  BY DEF ServiceInv
<1>3. ASSUME NEW about \in Rows, NEW space \in Rows \cup {None}, NEW project \in Rows \cup {None}
      PROVE  EventOf(i, about, space, project) \in Event
  BY <1>1 DEF EventOf, Event
<1>4. CASE CreateSpace(i)
  <2>1. PICK s \in Rows \ SpacesEver : /\ s = Cardinality(SpacesEver) + 1
                                     /\ s = NewRow([r \in Rows |-> owner[r] # Nobody])
    BY <1>1, NewRows
  <2>2. /\ spaces' = spaces \cup {s} /\ owner' = [owner EXCEPT ![s] = user]
        /\ events' = events \cup {EventOf(i, s, s, None)}
        /\ UNCHANGED <<home, projects, version>>
    BY <1>4, <2>1 DEF CreateSpace
  <2>3. EventOf(i, s, s, None) \in Event
    BY <1>3, <2>1
  <2>4. Tables'
    BY <1>1, <1>2, <2>1, <2>2, <2>3 DEF Tables
  <2>5. SpacesEver' = SpacesEver \cup {s} /\ ProjectsEver' = ProjectsEver
    BY <1>1, <1>2, <2>1, <2>2 DEF Tables, SpacesEver, ProjectsEver
  <2> QED
    BY <1>2, <2>1, <2>2, <2>4, <2>5 DEF Tables
<1>5. CASE CreateProject(i)
  <2>1. PICK p \in Rows \ ProjectsEver : /\ p = Cardinality(ProjectsEver) + 1
                                       /\ p = NewRow([r \in Rows |-> home[r] # None])
    BY <1>1, NewRows
  <2>2. /\ projects' = projects \cup {p} /\ home' = [home EXCEPT ![p] = row]
        /\ events' = events \cup {EventOf(i, p, row, p)}
        /\ UNCHANGED <<owner, spaces, version>>
    BY <1>5, <2>1 DEF CreateProject
  <2>3. EventOf(i, p, row, p) \in Event
    BY <1>1, <1>3, <2>1
  <2>4. Tables'
    BY <1>1, <1>2, <2>1, <2>2, <2>3 DEF Tables
  <2>5. row # None
    BY <1>1, WorkspaceAssumption DEF Rows, None
  <2>6. ProjectsEver' = ProjectsEver \cup {p} /\ SpacesEver' = SpacesEver
    BY <1>1, <1>2, <2>1, <2>2, <2>5 DEF Tables, SpacesEver, ProjectsEver
  <2> QED
    BY <1>2, <2>1, <2>2, <2>4, <2>6 DEF Tables
<1>6. CASE UpdateSpace(i)
  <2>1. /\ version' = [version EXCEPT !.space[row] = @ + 1]
        /\ events' = events \cup {EventOf(i, row, row, None)}
        /\ UNCHANGED <<owner, home, spaces, projects>>
    BY <1>6 DEF UpdateSpace
  <2>2. /\ version'.space = [version.space EXCEPT ![row] = version.space[row] + 1]
        /\ version'.project = version.project
        /\ version' = [space |-> version'.space, project |-> version'.project]
    BY <1>2, <2>1 DEF Tables
  <2>3. EventOf(i, row, row, None) \in Event
    BY <1>1, <1>3
  <2>4. Tables'
    BY <1>1, <1>2, <2>1, <2>2, <2>3 DEF Tables
  <2>5. ProjectsEver' = ProjectsEver /\ SpacesEver' = SpacesEver
    BY <2>1 DEF SpacesEver, ProjectsEver
  <2> QED
    BY <1>1, <1>2, <2>2, <2>4, <2>5 DEF Tables
<1>7. CASE UpdateProject(i)
  <2>1. /\ version' = [version EXCEPT !.project[row] = @ + 1]
        /\ events' = events \cup {EventOf(i, row, home[row], row)}
        /\ UNCHANGED <<owner, home, spaces, projects>>
    BY <1>7 DEF UpdateProject
  <2>2. /\ version'.project = [version.project EXCEPT ![row] = version.project[row] + 1]
        /\ version'.space = version.space
        /\ version' = [space |-> version'.space, project |-> version'.project]
    BY <1>2, <2>1 DEF Tables
  <2>3. EventOf(i, row, home[row], row) \in Event
    BY <1>1, <1>2, <1>3 DEF Tables
  <2>4. Tables'
    BY <1>1, <1>2, <2>1, <2>2, <2>3 DEF Tables
  <2>5. ProjectsEver' = ProjectsEver /\ SpacesEver' = SpacesEver
    BY <2>1 DEF SpacesEver, ProjectsEver
  <2> QED
    BY <1>1, <1>2, <2>2, <2>4, <2>5 DEF Tables
<1>8. CASE DeleteSpace(i) \/ DeleteProject(i)
  <2>1. PICK e \in Event :
            \E gone, goneProjects : events' = Forget(events, gone, goneProjects) \cup {e}
    <3>1. /\ EventOf(i, row, None, None) \in Event
          /\ EventOf(i, row, home[row], None) \in Event
      BY <1>1, <1>2, <1>3 DEF Tables
    <3>2. CASE DeleteSpace(i)
      <4>1. PICK inside : events' = Forget(events, {row}, inside) \cup {EventOf(i, row, None, None)}
        BY <3>2 DEF DeleteSpace
      <4> QED
        BY <3>1, <4>1
    <3>3. CASE DeleteProject(i)
      <4>1. events' = Forget(events, {}, {row}) \cup {EventOf(i, row, home[row], None)}
        BY <3>3 DEF DeleteProject
      <4> QED
        BY <3>1, <4>1
    <3> QED
      BY <1>8, <3>2, <3>3
  <2>2. UNCHANGED <<owner, home, version>> /\ spaces' \subseteq spaces /\ projects' \subseteq projects
    BY <1>8 DEF DeleteSpace, DeleteProject
  <2>3. events' \subseteq Event
    BY <1>2, <2>1, ForgetTyped DEF Tables
  <2>4. Tables'
    BY <1>2, <2>2, <2>3 DEF Tables
  <2>5. ProjectsEver' = ProjectsEver /\ SpacesEver' = SpacesEver
    BY <2>2 DEF SpacesEver, ProjectsEver
  <2> QED
    BY <1>2, <2>2, <2>4, <2>5 DEF Tables
<1> QED
  BY <1>4, <1>5, <1>6, <1>7, <1>8 DEF Change

\* The numbers in use, when one is added at most.
LEMMA NextNumber ==
    ASSUME NEW S, IsFiniteSet(S), S = 1..Cardinality(S), NEW T, T = S \/ T = S \cup {Cardinality(S) + 1}
    PROVE  /\ T = 1..Cardinality(T) /\ Cardinality(S) \in Nat
           /\ Cardinality(T) \in Nat /\ Cardinality(T) <= Cardinality(S) + 1
           /\ T = S => Cardinality(T) = Cardinality(S)
<1>1. Cardinality(S) \in Nat
  BY FS_CardinalityType
<1>2. CASE T = S
  BY <1>1, <1>2
<1>3. CASE T = S \cup {Cardinality(S) + 1}
  <2>1. PICK n \in Nat : n = Cardinality(S)
    BY <1>1
  <2>2. T = 1..(n + 1) /\ T = S \cup {n + 1} /\ n + 1 \notin S
    BY <1>3, <2>1
  <2>3. Cardinality(T) = n + 1
    BY <2>1, <2>2, FS_AddElement
  <2>4. T # S
    BY <2>2
  <2> QED
    BY <2>1, <2>2, <2>3, <2>4
<1> QED
  BY <1>2, <1>3

\* The requests sent are the first ones.
LEMMA SentInOrder ==
    ASSUME ServiceInv, Sent' = Sent \/ Sent' = Sent \cup {NextRequest}
    PROVE  Sent' = 1..Cardinality(Sent')
BY Countable, NextNumber DEF ServiceInv, EnoughRoom, NextRequest

\* A step that neither issues a token nor changes a row leaves room.
LEMMA RoomKept ==
    ASSUME ServiceInv, Open' \subseteq Open, Sent' = Sent \/ Sent' = Sent \cup {NextRequest},
           UNCHANGED <<issued, rows>>
    PROVE  EnoughRoom'
<1>1. Sent' = 1..Cardinality(Sent')
  BY SentInOrder
<1>2. PICK before, after : before = Room /\ after = Room'
  OBVIOUS
<1>3. before \in Nat /\ after \in Nat /\ after <= before
  BY <1>2, RoomLeft
<1>4. SpacesEver' = SpacesEver /\ ProjectsEver' = ProjectsEver
  BY DEF SpacesEver, ProjectsEver, rows
<1>5. Len(issued) \in Nat /\ Cardinality(SpacesEver) \in Nat /\ Cardinality(ProjectsEver) \in Nat
  BY Countable DEF ServiceInv, Stores
<1>6. \A r \in Rows : version.space[r] \in Nat /\ version.project[r] \in Nat
  BY DEF ServiceInv, Tables
<1>7. EnoughRoom
  BY DEF ServiceInv
<1>8. Len(issued') + after <= MaxRequests + 1
  BY <1>2, <1>3, <1>5, <1>7, WorkspaceAssumption DEF EnoughRoom
<1>9. /\ SpacesEver' = 1..Cardinality(SpacesEver') /\ Cardinality(SpacesEver') + after <= MaxRequests + 1
      /\ ProjectsEver' = 1..Cardinality(ProjectsEver') /\ Cardinality(ProjectsEver') + after <= MaxRequests + 1
  BY <1>2, <1>3, <1>4, <1>5, <1>7, WorkspaceAssumption DEF EnoughRoom
<1>10. \A r \in Rows : version'.space[r] + after <= MaxRequests /\ version'.project[r] + after <= MaxRequests
  BY <1>2, <1>3, <1>6, <1>7, WorkspaceAssumption DEF EnoughRoom, rows
<1> QED
  BY <1>1, <1>2, <1>8, <1>9, <1>10 DEF EnoughRoom

\* A request that ends with a token or a row takes the room that it had.
LEMMA RoomTaken ==
    ASSUME ServiceInv, NEW i \in Open, Open' \subseteq Open \ {i}, Sent' = Sent,
           issued' = issued \/ (Len(issued') = Len(issued) + 1 /\ UNCHANGED rows),
           \/ SpacesEver' = SpacesEver \/ SpacesEver' = SpacesEver \cup {Cardinality(SpacesEver) + 1},
           \/ ProjectsEver' = ProjectsEver \/ ProjectsEver' = ProjectsEver \cup {Cardinality(ProjectsEver) + 1},
           Tables',
           \A r \in Rows : /\ version'.space[r] <= version.space[r] + 1
                           /\ version'.project[r] <= version.project[r] + 1
    PROVE  EnoughRoom'
<1>1. Sent' = 1..Cardinality(Sent')
  BY SentInOrder
<1>2. PICK before, after : before = Room /\ after = Room'
  OBVIOUS
<1>3. before \in Nat /\ after \in Nat /\ after + 1 <= before
  BY <1>2, RoomLeft
<1>4. PICK n, m, length : n = Cardinality(SpacesEver') /\ m = Cardinality(ProjectsEver') /\ length = Len(issued')
  OBVIOUS
<1>5. EnoughRoom
  BY DEF ServiceInv
<1>6. /\ Cardinality(SpacesEver) \in Nat /\ n \in Nat /\ n <= Cardinality(SpacesEver) + 1
      /\ SpacesEver' = 1..n
  BY <1>4, <1>5, Countable, NextNumber DEF EnoughRoom
<1>7. /\ Cardinality(ProjectsEver) \in Nat /\ m \in Nat /\ m <= Cardinality(ProjectsEver) + 1
      /\ ProjectsEver' = 1..m
  BY <1>4, <1>5, Countable, NextNumber DEF EnoughRoom
<1>8. length \in Nat /\ Len(issued) \in Nat /\ length <= Len(issued) + 1
  BY <1>4 DEF ServiceInv, Stores
<1>9. n + after <= MaxRequests + 1 /\ m + after <= MaxRequests + 1 /\ length + after <= MaxRequests + 1
  <2>1. PICK n0, m0, length0 : /\ n0 = Cardinality(SpacesEver) /\ m0 = Cardinality(ProjectsEver)
                               /\ length0 = Len(issued)
    OBVIOUS
  <2>2. /\ n0 + before <= MaxRequests + 1 /\ m0 + before <= MaxRequests + 1
        /\ length0 + before <= MaxRequests + 1
    BY <1>2, <1>5, <2>1 DEF EnoughRoom
  <2>3. /\ n0 \in Nat /\ m0 \in Nat /\ length0 \in Nat
        /\ n <= n0 + 1 /\ m <= m0 + 1 /\ length <= length0 + 1
    BY <1>6, <1>7, <1>8, <2>1
  <2> QED
    BY SMTT(30), <1>3, <1>6, <1>7, <1>8, <2>2, <2>3, WorkspaceAssumption
<1>10. ASSUME NEW r \in Rows
       PROVE  version'.space[r] + after <= MaxRequests /\ version'.project[r] + after <= MaxRequests
  <2>1. PICK a, b, c, d : /\ a = version.space[r] /\ b = version'.space[r]
                          /\ c = version.project[r] /\ d = version'.project[r]
    OBVIOUS
  <2>2. a \in Nat /\ b \in Nat /\ c \in Nat /\ d \in Nat
    BY <2>1 DEF ServiceInv, Tables
  <2>3. b <= a + 1 /\ d <= c + 1 /\ a + before <= MaxRequests /\ c + before <= MaxRequests
    BY <1>2, <1>5, <2>1 DEF EnoughRoom
  <2>4. b + after <= MaxRequests /\ d + after <= MaxRequests
    BY <1>3, <2>2, <2>3, WorkspaceAssumption
  <2> QED
    BY <2>1, <2>4
<1> QED
  BY <1>1, <1>2, <1>4, <1>6, <1>7, <1>9, <1>10 DEF EnoughRoom

-----------------------------------------------------------------------------
(* Every step keeps the invariant *)

LEMMA ServiceInit == Init => ServiceInv
<1> SUFFICES ASSUME Init PROVE ServiceInv
  OBVIOUS
<1>1. FirstUser \in Users
  BY WorkspaceAssumption DEF FirstUser
<1>2. AllSound
  <2>1. Unsent \in Request
    BY DEF Unsent, Request, Operations, Status, Inputs
  <2>2. Sound(Unsent)
    BY <2>1 DEF Unsent, Sound, Placed, Holding, Idle
  <2> QED
    BY <2>1, <2>2 DEF Init, AllSound
<1>3. PICK whose \in Users \cup {Nobody} :
          /\ accounts = {FirstUser, whose} \ {Nobody}
          /\ cookie = IF whose = Nobody THEN None ELSE 1
          /\ issued = IF whose = Nobody THEN <<>> ELSE <<[user |-> whose, expires |-> Ttl]>>
  BY DEF Init
<1>4. /\ issued \in Seq([user : Users, expires : Nat]) /\ Len(issued) \in {0, 1}
      /\ DOMAIN issued = IF whose = Nobody THEN {} ELSE {1}
  <2>1. CASE whose = Nobody
    BY <1>3, <2>1
  <2>2. CASE whose # Nobody
    BY <1>3, <2>2, WorkspaceAssumption
  <2> QED
    BY <2>1, <2>2
<1>5. Stores
  BY <1>1, <1>3, <1>4, WorkspaceAssumption DEF Init, LimiterInit, Stores
<1>6. Tables
  <2>1. 1 \in Rows
    BY WorkspaceAssumption DEF Rows
  <2>2. events \subseteq Event
    BY <1>1, <2>1 DEF Init, Created, Event, Changes, SpaceOps, ProjectOps
  <2> QED
    BY <1>1, <2>1, <2>2, WorkspaceAssumption DEF Init, Tables
<1>7. EnoughRoom
  <2>1. Sent = {} /\ Open = Requests
    BY DEF Init, Sent, Open, On, Unsent, Closed
  <2>2. SpacesEver = {1} /\ ProjectsEver = {1}
    BY <1>1, WorkspaceAssumption DEF Init, SpacesEver, ProjectsEver, Rows, None
  <2>3. /\ Cardinality(Sent) = 0 /\ Cardinality(SpacesEver) = 1 /\ Cardinality(ProjectsEver) = 1
        /\ Room = MaxRequests
    BY <2>1, <2>2, Countable, FS_EmptySet, FS_Singleton DEF Room
  <2>5. Sent = 1..0 /\ SpacesEver = 1..1 /\ ProjectsEver = 1..1
    BY <2>1, <2>2
  <2>4. \A r \in Rows : version.space[r] = 0 /\ version.project[r] = 0
    BY DEF Init
  <2>6. PICK length : length = Len(issued)
    OBVIOUS
  <2>7. /\ length + Room <= MaxRequests + 1 /\ 1 + Room <= MaxRequests + 1
        /\ \A r \in Rows : version.space[r] + Room <= MaxRequests /\ version.project[r] + Room <= MaxRequests
    <3>1. MaxRequests \in Nat /\ length \in {0, 1}
      BY <1>4, <2>6, WorkspaceAssumption
    <3>2. length + MaxRequests <= MaxRequests + 1 /\ 1 + MaxRequests <= MaxRequests + 1
      BY <3>1
    <3>3. 0 + MaxRequests <= MaxRequests
      BY <3>1
    <3> QED
      BY <2>3, <2>4, <3>2, <3>3
  <2> QED
    BY <2>3, <2>5, <2>6, <2>7 DEF EnoughRoom
<1>8. SessionsKept
  BY DEF Init, SessionsKept
<1> QED
  BY <1>2, <1>5, <1>6, <1>7, <1>8 DEF ServiceInv

\* The steps that issue no token and change no row: the rest of the invariant is about
\* the sessions.
LEMMA SessionSteps ==
    ASSUME ServiceInv, Next, UNCHANGED <<issued, rows>>,
           AllSound', Open' \subseteq Open, Sent' = Sent \/ Sent' = Sent \cup {NextRequest},
           Stores', SessionsKept'
    PROVE  ServiceInv'
<1>1. EnoughRoom'
  BY RoomKept
<1>2. Tables'
  BY DEF ServiceInv, Tables, rows
<1> QED
  BY <1>1, <1>2 DEF ServiceInv

LEMMA RequestKeeps ==
    ASSUME ServiceInv, Next, NEW i \in Requests,
           \/ Enter(i) \/ ParseCredentials(i) \/ Authenticate(i) \/ CreateUser(i)
           \/ ParseBody(i) \/ Access(i) \/ First(i) \/ Cascade(i)
           \/ Identify(i) \/ BreakDeadlock(i) \/ GiveUp(i) \/ Deliver(i)
    PROVE  ServiceInv'
<1>1. AllSound' /\ Sent' = Sent /\ Open' \subseteq Open
  BY QuietSteps, IdentifySteps, BreakSteps, PageSteps
<1>2. UNCHANGED <<now, issued, revoked, sessions, rows, mix, faults>>
  BY DEF Enter, ParseCredentials, Authenticate, CreateUser, ParseBody, Access, First, Cascade,
         Identify, BreakDeadlock, GiveUp, Deliver, session
<1>3. accounts' \subseteq Users
  <2>1. CASE CreateUser(i)
    <3>1. request[i].email \in Users
      BY <2>1 DEF ServiceInv, AllSound, Sound, Placed, CreateUser, On, Idle
    <3> QED
      BY <2>1, <3>1 DEF CreateUser, ServiceInv, Stores
  <2>2. CASE ~CreateUser(i)
    BY <2>2 DEF Enter, ParseCredentials, Authenticate, ParseBody, Access, First, Cascade,
                Identify, BreakDeadlock, GiveUp, Deliver, session, ServiceInv, Stores
  <2> QED
    BY <2>1, <2>2
<1>4. cookie' \in DOMAIN issued \cup {None}
  <2>1. CASE Deliver(i)
    <3>1. request[i].set \in DOMAIN issued \cup {None}
      BY DEF ServiceInv, AllSound, Sound, Holding
    <3> QED
      BY <2>1, <3>1 DEF Deliver, CookieAfter, ServiceInv, Stores
  <2>2. CASE ~Deliver(i)
    BY <2>2 DEF Enter, ParseCredentials, Authenticate, CreateUser, ParseBody, Access, First, Cascade,
                Identify, BreakDeadlock, GiveUp, ServiceInv, Stores
  <2> QED
    BY <2>1, <2>2
<1>5. Stores'
  BY <1>2, <1>3, <1>4 DEF ServiceInv, Stores
<1>6. SessionsKept'
  BY <1>2 DEF ServiceInv, SessionsKept
<1> QED
  BY <1>1, <1>2, <1>5, <1>6, SessionSteps

\* A revoked session is gone, an expired one may be removed, and a new one is kept.
LEMMA SessionKeeps ==
    ASSUME ServiceInv, Next, NEW i \in Requests, CreateSession(i) \/ SignOut(i) \/ DeleteExpired(i)
    PROVE  ServiceInv'
<1>1. Stores /\ SessionsKept
  BY DEF ServiceInv
<1>2. request[i].token \in DOMAIN issued \cup {None}
  BY DEF ServiceInv, AllSound, Sound, Holding
<1>3. CASE SignOut(i)
  <2>1. AllSound' /\ Sent' = Sent /\ Open' \subseteq Open
    BY <1>3, LastSteps
  <2>2. /\ UNCHANGED <<now, accounts, issued, rows, cookie, mix, faults>>
        /\ sessions' = sessions \ {request[i].token}
        /\ revoked' = revoked \cup ({request[i].token} \ {None})
    BY <1>3 DEF SignOut
  <2>3. Stores'
    BY <1>1, <1>2, <2>2 DEF Stores
  <2>4. None \notin DOMAIN issued
    BY <1>1 DEF Stores, None
  <2>5. SessionsKept'
    BY <1>1, <1>2, <2>2, <2>4 DEF SessionsKept, Stores
  <2> QED
    BY <2>1, <2>2, <2>3, <2>5, SessionSteps
<1>4. CASE DeleteExpired(i)
  <2>1. AllSound' /\ Sent' = Sent /\ Open' \subseteq Open
    BY <1>4, LastSteps
  <2>2. /\ UNCHANGED <<now, accounts, issued, revoked, rows, cookie, mix, faults>>
        /\ sessions' = sessions \ {request[i].token}
    BY <1>4 DEF DeleteExpired
  <2>3. Stores'
    BY <1>1, <2>2 DEF Stores
  <2>4. request[i].token \in DOMAIN issued /\ Expired(request[i].token)
    BY <1>4 DEF ServiceInv, AllSound, Sound, Holding, DeleteExpired, On
  <2>5. issued[request[i].token] \in [user : Users, expires : Nat]
    BY <1>1, <2>4, Elements DEF Stores
  <2>6. SessionsKept'
    BY <1>1, <2>2, <2>4, <2>5 DEF SessionsKept, Stores, Expired
  <2> QED
    BY <2>1, <2>2, <2>3, <2>6, SessionSteps
<1>5. CASE CreateSession(i)
  <2>1. /\ AllSound' /\ Sent' = Sent /\ Open' \subseteq Open \ {i} /\ i \in Open
        /\ Grows /\ DOMAIN issued' = DOMAIN issued \cup {NextToken}
        /\ NextToken \notin DOMAIN issued /\ Len(issued') = Len(issued) + 1
        /\ issued' \in Seq([user : Users, expires : Nat])
    BY <1>5, SignInSteps
  <2>2. /\ UNCHANGED <<now, accounts, revoked, rows, cookie, mix, faults>>
        /\ sessions' = (sessions \ Stale(request[i].user)) \cup {NextToken}
    BY <1>5 DEF CreateSession
  <2>3. Stores'
    BY <1>1, <2>1, <2>2 DEF Stores
  <2>4. ASSUME NEW t \in Stale(request[i].user) PROVE t \in DOMAIN issued /\ ~(issued[t].expires > now)
    <3>1. t \in DOMAIN issued /\ issued[t].expires < now
      BY <1>1 DEF Stale, Stores
    <3>2. issued[t] \in [user : Users, expires : Nat] /\ now \in Nat
      BY <1>1, <3>1, Elements DEF Stores
    <3> QED
      BY <3>1, <3>2
  <2>5. SessionsKept'
    BY <1>1, <2>1, <2>2, <2>4 DEF SessionsKept, Stores, Grows
  <2>6. Tables'
    BY <2>2 DEF ServiceInv, Tables, rows
  <2>7. SpacesEver' = SpacesEver /\ ProjectsEver' = ProjectsEver
    BY <2>2 DEF SpacesEver, ProjectsEver, rows
  <2>8. \A r \in Rows : /\ version'.space[r] <= version.space[r] + 1
                        /\ version'.project[r] <= version.project[r] + 1
    BY <2>2 DEF ServiceInv, Tables, rows
  <2>9. EnoughRoom'
    BY <2>1, <2>2, <2>6, <2>7, <2>8, RoomTaken
  <2> QED
    BY <2>1, <2>3, <2>5, <2>6, <2>9 DEF ServiceInv
<1> QED
  BY <1>3, <1>4, <1>5

\* A transaction commits, or a statement of any kind fails.
LEMMA TransactionKeeps ==
    ASSUME ServiceInv, Next, NEW i \in Requests, Second(i) \/ DatabaseError(i)
    PROVE  ServiceInv'
<1>1. AllSound' /\ Sent' = Sent /\ Open' \subseteq Open \ {i} /\ i \in Open
  BY LastSteps
<1>2. UNCHANGED <<now, session, cookie, mix>> /\ faults' \in 0..mix.faults
  <2>1. faults \in 0..mix.faults /\ mix.faults \in Nat
    BY WorkspaceAssumption DEF ServiceInv, Stores
  <2> QED
    BY <2>1 DEF Second, DatabaseError, Fault
<1>3. Stores'
  BY <1>2 DEF ServiceInv, Stores, session
<1>4. SessionsKept'
  BY <1>2 DEF ServiceInv, SessionsKept, session
<1>5. CASE UNCHANGED rows
  BY <1>1, <1>2, <1>3, <1>4, <1>5, SessionSteps DEF session
<1>6. CASE On(i, "second") /\ Change(i)
  <2>1. EnoughRoom' /\ Tables'
    BY <1>1, <1>2, <1>6, ChangeCounts, RoomTaken DEF session
  <2> QED
    BY <1>1, <1>3, <1>4, <2>1 DEF ServiceInv
<1>7. UNCHANGED rows \/ (On(i, "second") /\ Change(i))
  BY DEF Second, DatabaseError
<1> QED
  BY <1>5, <1>6, <1>7

LEMMA ServiceStep == ServiceInv /\ [Next]_vars => ServiceInv'
<1> SUFFICES ASSUME ServiceInv, [Next]_vars PROVE ServiceInv'
  OBVIOUS
<1>1. Stores /\ SessionsKept
  BY DEF ServiceInv
<1>2. CASE Submit
  <2>1. /\ AllSound' /\ Open' \subseteq Open /\ Sent' = Sent \cup {NextRequest}
    BY <1>2, SubmitSteps
  <2>2. UNCHANGED <<now, session, rows, cookie, mix, faults>>
    BY <1>2 DEF Submit
  <2>3. Stores' /\ SessionsKept'
    BY <1>1, <2>2 DEF Stores, SessionsKept, session
  <2>4. UNCHANGED <<issued, rows>> /\ Next
    BY <1>2, <2>2 DEF session, Next
  <2> QED
    BY <2>1, <2>3, <2>4, SessionSteps
<1>3. CASE Restart
  <2>1. /\ AllSound' /\ Open' \subseteq Open /\ Sent' = Sent
    BY <1>3, RestartSteps
  <2>2. UNCHANGED <<now, session, rows, cookie, mix>> /\ faults' \in 0..mix.faults
    BY <1>1, <1>3, WorkspaceAssumption DEF Restart, Fault, Stores
  <2>3. Stores' /\ SessionsKept'
    BY <1>1, <2>2 DEF Stores, SessionsKept, session
  <2>4. UNCHANGED <<issued, rows>> /\ Next
    BY <1>3, <2>2 DEF session, Next
  <2> QED
    BY <2>1, <2>3, <2>4, SessionSteps
<1>4. CASE ClockTick
  <2>1. /\ AllSound' /\ Open' \subseteq Open /\ Sent' = Sent /\ Grows /\ now' = now + 1
    BY <1>4, TickSteps
  <2>2. UNCHANGED <<session, rows, cookie, mix, faults>>
    BY <1>4 DEF ClockTick
  <2>3. Stores' /\ SessionsKept'
    BY <1>1, <2>1, <2>2 DEF Stores, SessionsKept, session, Grows
  <2>4. UNCHANGED <<issued, rows>> /\ Next
    BY <1>4, <2>2 DEF session, Next
  <2> QED
    BY <2>1, <2>3, <2>4, SessionSteps
<1>5. CASE UNCHANGED vars
  <2>1. UNCHANGED <<now, session, rows, cookie, mix, request, faults>>
    BY <1>5 DEF vars
  <2>2. AllSound'
    <3>1. ASSUME NEW j \in Requests PROVE Sound(request[j])'
      BY <2>1 DEF ServiceInv, AllSound, Sound, Placed, Holding, Expired, session
    <3> QED
      BY <2>1, <3>1 DEF ServiceInv, AllSound
  <2>3. Stores' /\ SessionsKept' /\ Tables'
    BY <1>1, <2>1 DEF ServiceInv, Stores, SessionsKept, Tables, session, rows
  <2>4. EnoughRoom'
    BY <2>1, RoomKept DEF Sent, On, Open, session
  <2> QED
    BY <2>2, <2>3, <2>4 DEF ServiceInv
<1>6. ASSUME NEW i \in Requests,
             \/ Enter(i) \/ ParseCredentials(i) \/ Authenticate(i) \/ CreateUser(i)
             \/ ParseBody(i) \/ Access(i) \/ First(i) \/ Cascade(i)
             \/ Identify(i) \/ BreakDeadlock(i) \/ GiveUp(i) \/ Deliver(i)
             \/ CreateSession(i) \/ SignOut(i) \/ DeleteExpired(i) \/ Second(i) \/ DatabaseError(i)
      PROVE  ServiceInv'
  <2>1. Next
    BY <1>6 DEF Next, RequestStep
  <2> QED
    BY <1>6, <2>1, RequestKeeps, SessionKeeps, TransactionKeeps
<1> QED
  BY <1>2, <1>3, <1>4, <1>5, <1>6 DEF Next, RequestStep

LEMMA ServiceCorrect == Spec => []ServiceInv
BY ServiceInit, ServiceStep, PTL DEF Spec

LEMMA ServiceTypes == ServiceInv /\ LimiterTypeOK => TypeOK
<1> SUFFICES ASSUME ServiceInv, LimiterTypeOK PROVE TypeOK
  OBVIOUS
<1>1. DOMAIN issued \subseteq Tokens
  <2>1. issued \in Seq([user : Users, expires : Nat]) /\ Len(issued) + Room <= MaxRequests + 1
    BY DEF ServiceInv, Stores, EnoughRoom
  <2>2. DOMAIN issued = 1..Len(issued) /\ Len(issued) \in Nat /\ Room \in Nat
    BY <2>1, Countable DEF Room
  <2> QED
    BY <2>1, <2>2, WorkspaceAssumption DEF Tokens
<1>2. version \in [{"space", "project"} -> [Rows -> 0..MaxRequests]]
  <2>1. Room \in Nat
    BY Countable DEF Room
  <2>2. ASSUME NEW r \in Rows PROVE version.space[r] \in 0..MaxRequests /\ version.project[r] \in 0..MaxRequests
    <3>1. PICK a, b, c : a = version.space[r] /\ b = version.project[r] /\ c = Room
      OBVIOUS
    <3>2. a \in Nat /\ b \in Nat /\ c \in Nat /\ a + c <= MaxRequests /\ b + c <= MaxRequests
      BY <2>1, <3>1 DEF ServiceInv, Tables, EnoughRoom
    <3> QED
      BY <3>1, <3>2, WorkspaceAssumption
  <2>3. version.space \in [Rows -> 0..MaxRequests] /\ version.project \in [Rows -> 0..MaxRequests]
    BY <2>2 DEF ServiceInv, Tables
  <2>4. version = [space |-> version.space, project |-> version.project]
    BY DEF ServiceInv, Tables
  <2> QED
    BY <2>3, <2>4
<1>3. request \in [Requests -> Request]
  BY DEF ServiceInv, AllSound, Sound
<1> QED
  BY <1>1, <1>2, <1>3 DEF ServiceInv, Stores, Tables, TypeOK

\* A session admits requests until it expires or is revoked, whichever sign-ins, sign-outs
\* and clean-ups overlap (lib/auth/session.ts), for any users, time to live and requests.
THEOREM SessionsRightfulCorrect == Spec => []SessionsRightful
<1>1. ServiceInv /\ LimiterTypeOK => SessionsRightful
  BY ServiceTypes DEF ServiceInv, AllSound, Sound, Holding, SessionsKept, SessionsRightful
<1> QED
  BY <1>1, ServiceCorrect, LimiterUsed, LimiterTypeCorrect, PTL

-----------------------------------------------------------------------------
(* The activity log, by what its events are about *)

\* How many of some events are about a row; what a deletion leaves of an event; and that
\* a request has one event at most.
About(E, type, row) == {e \in E : e.type = type /\ e.about = row}
Count(E, type, row) == Cardinality(About(E, type, row))
Forgot(e, gone, goneProjects) ==
    [e EXCEPT !.space = IF @ \in gone THEN None ELSE @,
              !.project = IF @ \in goneProjects THEN None ELSE @]
Single(E) == \A e, f \in E : e.by = f.by /\ (e.by # None \/ e.type = f.type) => e = f

LEMMA ForgotKeeps ==
    ASSUME NEW e \in Event, NEW gone, NEW goneProjects
    PROVE  LET f == Forgot(e, gone, goneProjects) IN
           /\ f \in Event /\ f.type = e.type /\ f.by = e.by /\ f.user = e.user /\ f.about = e.about
           /\ f.space = (IF e.space \in gone THEN None ELSE e.space)
           /\ f.project = (IF e.project \in goneProjects THEN None ELSE e.project)
BY DEF Forgot, Event

\* A deletion leaves as many events about a row as there were, and a new one adds one.
LEMMA Counting ==
    ASSUME NEW E \in SUBSET Event, IsFiniteSet(E), Single(E),
           NEW new \in Event, new.by # None, \A e \in E : e.by # new.by,
           NEW gone, NEW goneProjects, NEW type, NEW row,
           NEW F, F = Forget(E, gone, goneProjects) \cup {new}
    PROVE  /\ IsFiniteSet(F) /\ F \subseteq Event /\ Single(F)
           /\ Count(E, type, row) \in Nat
           /\ Count(F, type, row) = Count(E, type, row) +
                 (IF new.type = type /\ new.about = row THEN 1 ELSE 0)
<1> DEFINE Kept == Forget(E, gone, goneProjects)
           keep(e) == Forgot(e, gone, goneProjects)
<1>1. Kept = {keep(e) : e \in E}
  BY DEF Forget, Forgot
<1>2. ASSUME NEW e \in E
      PROVE  keep(e) \in Event /\ keep(e).type = e.type /\ keep(e).by = e.by /\ keep(e).about = e.about
  BY ForgotKeeps
<1> HIDE DEF keep, Kept
<1>3. \A e, f \in E : keep(e) = keep(f) => e = f
  BY <1>2 DEF Single
<1>4. IsFiniteSet(Kept)
  <2>1. PICK keeping : keeping = [e \in E |-> keep(e)]
    OBVIOUS
  <2>2. keeping \in Surjection(E, Kept)
    BY <1>1, <2>1 DEF Surjection
  <2> QED
    BY <2>2, FS_Surjection
<1>5. F = Kept \cup {new} /\ new \notin Kept
  BY <1>1, <1>2 DEF Kept
<1>6. IsFiniteSet(F) /\ F \subseteq Event
  BY <1>1, <1>2, <1>4, <1>5, FS_AddElement
<1>7. Single(F)
  BY <1>1, <1>2, <1>3, <1>5 DEF Single
<1>8. /\ Count(E, type, row) \in Nat
      /\ Count(F, type, row) = Count(E, type, row) +
            (IF new.type = type /\ new.about = row THEN 1 ELSE 0)
  <2> DEFINE S == About(E, type, row)
             T == About(Kept, type, row)
  <2>1. IsFiniteSet(S) /\ Cardinality(S) \in Nat
    BY FS_Subset, FS_CardinalityType DEF About
  <2>2. PICK keeping : keeping = [e \in S |-> keep(e)]
    OBVIOUS
  <2>3. keeping \in [S -> T]
    BY <1>1, <1>2, <2>2 DEF About
  <2>4. \A f \in T : \E e \in S : keeping[e] = f
    BY <1>1, <1>2, <2>2 DEF About
  <2>5. \A e, f \in S : keeping[e] = keeping[f] => e = f
    BY <1>3, <2>2 DEF About
  <2>6. keeping \in Bijection(S, T)
    BY <2>3, <2>4, <2>5 DEF Bijection, Surjection, Injection, IsInjective
  <2>7. IsFiniteSet(T) /\ Cardinality(T) = Cardinality(S)
    BY <2>1, <2>6, FS_Bijection DEF ExistsBijection
  <2>8. CASE new.type = type /\ new.about = row
    <3>1. About(F, type, row) = T \cup {new} /\ new \notin T
      BY <1>5, <2>8 DEF About
    <3>2. Cardinality(T \cup {new}) = Cardinality(T) + 1
      BY <2>7, <3>1, FS_AddElement
    <3> QED
      BY <2>1, <2>7, <2>8, <3>1, <3>2 DEF Count
  <2>9. CASE ~(new.type = type /\ new.about = row)
    <3>1. About(F, type, row) = T
      BY <1>5, <2>9 DEF About
    <3> QED
      BY <2>1, <2>7, <2>9, <3>1 DEF Count
  <2> QED
    BY <2>1, <2>8, <2>9 DEF Count
<1> QED
  BY <1>6, <1>7, <1>8

-----------------------------------------------------------------------------
(* The transactions and their locks *)

Changing == {"first", "cascade", "second"}
ProjectWork == {"updateProject", "deleteProject"}

\* The row is the user's: asked before the transaction, and true ever after.
Owns(r) ==
    \/ r.op = "createSpace"
    \/ r.op \in {"updateSpace", "deleteSpace", "createProject"} /\ owner[r.row] = r.user
    \/ r.op \in ProjectWork /\ home[r.row] \in Rows /\ owner[home[r.row]] = r.user

\* The row of an open transaction is there.
HasRow(r) ==
    \/ r.op = "createSpace"
    \/ r.op \in {"updateSpace", "deleteSpace", "createProject"} /\ r.row \in spaces
    \/ r.op \in ProjectWork /\ r.row \in projects

\* Two open transactions do not meet.
Apart(r, q) ==
    /\ r.op = "deleteSpace" /\ q.op \in {"updateSpace", "deleteSpace", "createProject"} => q.row # r.row
    /\ r.op = "deleteSpace" /\ r.at = "second" /\ q.op \in ProjectWork => home[q.row] # r.row
    /\ r.op \in ProjectWork /\ q.op \in ProjectWork => q.row # r.row

Transaction == {"cascade", "second"}
Locked ==
    \A i \in Requests :
        /\ request[i].at \in Changing => Owns(request[i])
        /\ request[i].at \in Transaction => HasRow(request[i])
        /\ \A j \in Requests \ {i} :
              request[i].at \in Transaction /\ request[j].at \in Transaction => Apart(request[i], request[j])

\* A project is in a space, and a space has an owner.
Homes ==
    /\ \A p \in projects : home[p] \in spaces
    /\ \A s \in spaces : owner[s] # Nobody
    /\ \A p \in Rows : home[p] # None => owner[home[p]] # Nobody

-----------------------------------------------------------------------------
(* The events *)

SpaceCounts(s) ==
    /\ Count(events, "createSpace", s) = IF owner[s] # Nobody THEN 1 ELSE 0
    /\ Count(events, "updateSpace", s) = version.space[s]
    /\ Count(events, "deleteSpace", s) = IF owner[s] # Nobody /\ s \notin spaces THEN 1 ELSE 0
ProjectCounts(p) ==
    /\ Count(events, "createProject", p) = IF home[p] # None THEN 1 ELSE 0
    /\ Count(events, "updateProject", p) = version.project[p]
    /\ Count(events, "deleteProject", p) <= 1
    /\ p \in projects \/ home[p] = None => Count(events, "deleteProject", p) = 0
    /\ p \notin projects /\ home[p] \in spaces => Count(events, "deleteProject", p) = 1

\* What an event refers to is there, and its user is the owner of what it is about.
Refer(e) ==
    /\ e.space \in spaces \cup {None} /\ e.project \in projects \cup {None}
    /\ e.type \in SpaceOps => e.user = owner[e.about]
    /\ e.type \in ProjectOps => home[e.about] \in Rows /\ e.user = owner[home[e.about]]

\* An event is of a request that has ended, and who was told of a change left one.
Told(i) ==
    request[i].at = "answered" /\ request[i].status = "OK" /\ request[i].op \in Changes =>
        \E e \in events : e.by = i
Recorded ==
    /\ IsFiniteSet(events) /\ Single(events)
    /\ \A e \in events : Refer(e) /\ (e.by # None => request[e.by].at \in Closed)
    /\ \A r \in Rows : SpaceCounts(r) /\ ProjectCounts(r)
    /\ \A i \in Requests : Told(i)

AuditInv == ServiceInv /\ Homes /\ Locked /\ Recorded

-----------------------------------------------------------------------------
(* The steps that change no row *)

\* Nobody comes nearer to a transaction, and no one is told of a change.
Calm ==
    \A j \in Requests :
        /\ request'[j].at \in Changing =>
              /\ request'[j].at = request[j].at /\ request'[j].op = request[j].op
              /\ request'[j].row = request[j].row /\ request'[j].user = request[j].user
        /\ request[j].at \in Closed => request'[j].at \in Closed
        /\ request'[j].at = "answered" /\ request'[j].status = "OK" /\ request'[j].op \in Changes =>
              request[j].at = "answered" /\ request[j].status = "OK" /\ request[j].op \in Changes

LEMMA RecordedStays ==
    ASSUME Recorded, UNCHANGED rows,
           \A j \in Requests :
               /\ request[j].at \in Closed => request'[j].at \in Closed
               /\ request'[j].at = "answered" /\ request'[j].status = "OK" /\ request'[j].op \in Changes =>
                     request[j].at = "answered" /\ request[j].status = "OK" /\ request[j].op \in Changes,
           events \subseteq Event
    PROVE  Recorded'
<1>1. \A e \in events : e.by \in Requests \cup {None}
  BY DEF Event
<1>2. \A e \in events : Refer(e)' /\ (e.by # None => request'[e.by].at \in Closed)
  BY <1>1 DEF Recorded, Refer, rows
<1>3. \A r \in Rows : SpaceCounts(r)' /\ ProjectCounts(r)'
  BY DEF Recorded, SpaceCounts, ProjectCounts, rows
<1>4. \A i \in Requests : Told(i)'
  BY DEF Recorded, Told, rows
<1>5. IsFiniteSet(events') /\ Single(events')
  BY DEF Recorded, rows
<1> QED
  BY <1>2, <1>3, <1>4, <1>5 DEF Recorded, Single, rows

LEMMA CalmSteps ==
    ASSUME AuditInv, ServiceInv', UNCHANGED rows, Calm
    PROVE  AuditInv'
<1>1. Homes'
  BY DEF AuditInv, Homes, rows
<1>2. events \subseteq Event
  BY DEF AuditInv, ServiceInv, Tables
<1>3. Recorded'
  BY <1>2, RecordedStays DEF AuditInv, Calm
<1>4. Locked'
  BY DEF AuditInv, Locked, Calm, Owns, HasRow, Apart, Changing, Transaction, rows
<1> QED
  BY <1>1, <1>3, <1>4 DEF AuditInv

\* One request that changes, to a record that is calm.
CalmlyBecomes(r, b) ==
    /\ b.at \in Changing =>
          b.at = r.at /\ b.op = r.op /\ b.row = r.row /\ b.user = r.user
    /\ r.at \in Closed => b.at \in Closed
    /\ b.at = "answered" /\ b.status = "OK" /\ b.op \in Changes =>
          r.at = "answered" /\ r.status = "OK" /\ r.op \in Changes

LEMMA OneCalm ==
    ASSUME AllSound, NEW i \in Requests, NEW b, request' = [request EXCEPT ![i] = b],
           CalmlyBecomes(request[i], b)
    PROVE  Calm
<1>1. request'[i] = b /\ \A j \in Requests : j # i => request'[j] = request[j]
  BY DEF AllSound
<1> QED
  BY <1>1 DEF Calm, CalmlyBecomes

LEMMA AnswerCalm ==
    ASSUME AllSound, NEW i \in Requests, NEW status \in Status, Answer(i, status),
           status = "OK" => request[i].op \notin Changes
    PROVE  Calm
<1>1. PICK b : b = Response(request[i], status, None)
  OBVIOUS
<1>2. request[i] \in Request /\ request[i].rightful
  BY DEF AllSound, Sound, Holding
<1>3. b.at = "answered" /\ b.status = status /\ b.op = request[i].op
  BY <1>1, <1>2, Responses
<1>4. request' = [request EXCEPT ![i] = b]
  BY <1>1 DEF Answer
<1> QED
  BY <1>3, <1>4, OneCalm DEF CalmlyBecomes, Changing, Closed

LEMMA GotoCalm ==
    ASSUME AllSound, NEW i \in Requests, NEW at \in Going \ Changing, Goto(i, at), request[i].at \notin Idle
    PROVE  Calm
<1>1. PICK b : b = [request[i] EXCEPT !.at = at]
  OBVIOUS
<1>2. b.at = at
  BY <1>1 DEF AllSound, Sound, Request
<1>3. request' = [request EXCEPT ![i] = b]
  BY <1>1 DEF Goto
<1> QED
  BY <1>2, <1>3, OneCalm DEF CalmlyBecomes, Changing, Closed, Idle, Going

LEMMA CalmRequests ==
    ASSUME ServiceInv, NEW i \in Requests,
           \/ Enter(i) \/ ParseCredentials(i) \/ Authenticate(i) \/ CreateUser(i) \/ CreateSession(i)
           \/ SignOut(i) \/ Identify(i) \/ DeleteExpired(i) \/ BreakDeadlock(i)
    PROVE  Calm
<1> DEFINE r == request[i]
<1>1. AllSound /\ Sound(r) /\ r \in Request
  BY DEF ServiceInv, AllSound, Sound
<1>2. ASSUME NEW status \in Status \ {"OK"}, Answer(i, status) PROVE Calm
  BY <1>1, <1>2, AnswerCalm
<1>3. ASSUME NEW at \in Going \ Changing, Goto(i, at), r.at \notin Idle PROVE Calm
  BY <1>1, <1>3, GotoCalm
<1>4. CASE Enter(i) \/ ParseCredentials(i)
  <2>1. r.at \notin Idle
    BY <1>4 DEF Enter, ParseCredentials, On, Idle
  <2>2. \/ Goto(i, "parse") \/ Goto(i, "authenticate")
        \/ Answer(i, "RATE_LIMITED") \/ Answer(i, "VALIDATION_ERROR")
    BY <1>4 DEF Enter, ParseCredentials
  <2> QED
    BY <1>2, <1>3, <2>1, <2>2 DEF Going, Changing, Status
<1>5. ASSUME r.at \in {"authenticate", "create"},
             request' = [request EXCEPT ![i].at = "session", ![i].user = request[i].email]
      PROVE  Calm
  <2>1. PICK b : b = [r EXCEPT !.at = "session", !.user = r.email]
    OBVIOUS
  <2>2. request' = [request EXCEPT ![i] = b]
    BY <1>5, <2>1, <1>1 DEF AllSound
  <2>3. b.at = "session"
    BY <1>1, <2>1 DEF Request
  <2> QED
    BY <1>1, <1>5, <2>2, <2>3, OneCalm DEF CalmlyBecomes, Changing, Closed
<1>6. CASE Authenticate(i)
  <2>1. r.at = "authenticate"
    BY <1>6 DEF Authenticate, On
  <2>2. \/ Goto(i, "create")
        \/ Answer(i, "CONFLICT") \/ Answer(i, "UNAUTHENTICATED")
        \/ request' = [request EXCEPT ![i].at = "session", ![i].user = request[i].email]
    BY <1>6 DEF Authenticate
  <2> QED
    BY <1>2, <1>3, <1>5, <2>1, <2>2 DEF Going, Changing, Status, Idle
<1>7. CASE CreateUser(i)
  <2>1. r.at = "create"
    BY <1>7 DEF CreateUser, On
  <2>2. \/ Answer(i, "INTERNAL_ERROR")
        \/ request' = [request EXCEPT ![i].at = "session", ![i].user = request[i].email]
    BY <1>7 DEF CreateUser
  <2> QED
    BY <1>2, <1>5, <2>1, <2>2 DEF Status
<1>8. CASE CreateSession(i)
  <2>1. PICK token \in {NextToken, None} : token = IF r.page = "waits" THEN NextToken ELSE None
    OBVIOUS
  <2>2. PICK b : b = Response(r, "OK", token)
    OBVIOUS
  <2>3. b.at = "answered" /\ b.op = r.op
    BY <2>2 DEF Response, Unsent
  <2>4. request' = [request EXCEPT ![i] = b]
    BY <1>1, <1>8, <2>1, <2>2 DEF CreateSession, AllSound
  <2>5. r.op \notin Changes
    BY <1>8 DEF CreateSession, Op, Credentials, Changes, SpaceOps, ProjectOps
  <2> QED
    BY <1>1, <2>3, <2>4, <2>5, OneCalm DEF CalmlyBecomes, Changing, Closed
<1>9. CASE SignOut(i)
  <2>1. r.op \notin Changes /\ Answer(i, "OK")
    BY <1>9 DEF SignOut, Op, Changes, SpaceOps, ProjectOps
  <2> QED
    BY <1>1, <2>1, AnswerCalm DEF Status
<1>10. CASE DeleteExpired(i)
  <2>1. \/ r.op = "me" /\ Answer(i, "OK")
        \/ Answer(i, "UNAUTHENTICATED")
    BY <1>10 DEF DeleteExpired, Op
  <2> QED
    BY <1>1, <1>2, <2>1, AnswerCalm DEF Status, Changes, SpaceOps, ProjectOps
<1>11. CASE BreakDeadlock(i)
  <2>1. PICK j \in Requests : Answer(j, "INTERNAL_ERROR")
    BY <1>11 DEF BreakDeadlock, Others
  <2> QED
    BY <1>1, <2>1, AnswerCalm DEF Status
<1>12. CASE Identify(i)
  <2> DEFINE t == r.token
             user == IF t \in DOMAIN issued THEN issued[t].user ELSE Nobody
             right == t \notin revoked /\ issued[t].expires > now
  <2>1. r.at = "identify"
    BY <1>12 DEF Identify, On
  <2>2. PICK next : next = IF r.op = "me" THEN "answered" ELSE AfterIdentify(r.op)
    OBVIOUS
  <2>3. next \in {"answered", "access", "parse"} /\ (next = "answered" => r.op \notin Changes)
    BY <2>2 DEF AfterIdentify, Changes, SpaceOps, ProjectOps
  <2>4. \/ r.op = "me" /\ Answer(i, "OK")
        \/ Answer(i, "UNAUTHENTICATED")
        \/ Goto(i, "expired")
        \/ request' = [request EXCEPT ![i].at = next, ![i].user = user, ![i].token = None,
                                      ![i].rightful = right]
    BY <1>12, <2>2 DEF Identify, Op
  <2>5. ASSUME request' = [request EXCEPT ![i].at = next, ![i].user = user, ![i].token = None,
                                          ![i].rightful = right]
        PROVE  Calm
    <3> HIDE DEF user, right
    <3>1. PICK b : b = [r EXCEPT !.at = next, !.user = user, !.token = None, !.rightful = right]
      OBVIOUS
    <3>2. request' = [request EXCEPT ![i] = b]
      BY <1>1, <2>5, <3>1 DEF AllSound
    <3>3. b.at = next /\ b.op = r.op
      BY <1>1, <3>1 DEF Request
    <3> QED
      BY <1>1, <2>1, <2>3, <3>2, <3>3, OneCalm DEF CalmlyBecomes, Changing, Closed
  <2>6. "me" \notin Changes
    BY DEF Changes, SpaceOps, ProjectOps
  <2> QED
    BY <1>1, <1>2, <1>3, <2>1, <2>4, <2>5, <2>6, AnswerCalm DEF Status, Going, Changing, Idle
<1> QED
  BY <1>4, <1>6, <1>7, <1>8, <1>9, <1>10, <1>11, <1>12

\* Neither do the pages, a restart or time.
LEMMA CalmPages ==
    ASSUME ServiceInv, Submit \/ Restart \/ \E i \in Requests : Deliver(i) \/ GiveUp(i)
    PROVE  Calm
<1>1. AllSound
  BY DEF ServiceInv
<1>2. ASSUME NEW i \in Requests, Deliver(i) \/ GiveUp(i) PROVE Calm
  <2>1. PICK b : b = [request[i] EXCEPT !.page = "over", !.set = None]
    OBVIOUS
  <2>2. request' = [request EXCEPT ![i] = b]
    BY <1>1, <1>2, <2>1 DEF Deliver, GiveUp, AllSound
  <2>3. /\ b.at = request[i].at /\ b.op = request[i].op /\ b.user = request[i].user
        /\ b.row = request[i].row /\ b.status = request[i].status
    BY <1>1, <2>1 DEF AllSound, Sound, Request
  <2> QED
    BY <1>1, <2>2, <2>3, OneCalm DEF CalmlyBecomes
<1>3. CASE Submit
  <2>1. PICK op \in mix.ops, email \in Users, input \in Inputs, row \in Rows :
          request' = [request EXCEPT ![NextRequest] =
              [Unsent EXCEPT !.at = Entry(op), !.op = op, !.page = "waits", !.email = email,
                             !.input = input, !.row = row, !.token = cookie]]
    BY <1>3 DEF Submit
  <2>2. PICK b : b = [Unsent EXCEPT !.at = Entry(op), !.op = op, !.page = "waits", !.email = email,
                                    !.input = input, !.row = row, !.token = cookie]
    OBVIOUS
  <2>3. b.at = Entry(op)
    BY <2>2 DEF Unsent
  <2>4. Entry(op) \in {"enter", "session", "identify"}
    BY DEF Entry
  <2>5. request' = [request EXCEPT ![NextRequest] = b]
    BY <2>1, <2>2
  <2>6. NextRequest \notin Sent
    BY <1>3, SubmitSteps
  <2>7. CASE NextRequest \in Requests
    <3>1. request[NextRequest].at = "none"
      BY <2>6, <2>7 DEF Sent, On
    <3> QED
      BY <1>1, <2>3, <2>4, <2>5, <2>7, <3>1, OneCalm DEF CalmlyBecomes, Changing, Closed
  <2>8. CASE NextRequest \notin Requests
    <3>1. request' = request
      BY <1>1, <2>5, <2>8 DEF AllSound
    <3> QED
      BY <3>1 DEF Calm
  <2> QED
    BY <2>7, <2>8
<1>4. CASE Restart
  <2>1. request' = [i \in Requests |->
            IF i \in Sent THEN [request[i] EXCEPT !.at = "lost"] ELSE request[i]]
    BY <1>4 DEF Restart
  <2>2. ASSUME NEW j \in Requests
        PROVE  request'[j].at = "lost" \/ (request'[j] = request[j] /\ request[j].at = "none")
    <3>1. CASE j \in Sent
      <4>1. request[j] \in Request
        BY <1>1 DEF AllSound
      <4> QED
        BY <2>1, <3>1, <4>1 DEF Request
    <3>2. CASE j \notin Sent
      BY <2>1, <3>2 DEF Sent, On
    <3> QED
      BY <3>1, <3>2
  <2> QED
    BY <2>2 DEF Calm, Changing, Closed
<1> QED
  BY <1>2, <1>3, <1>4

-----------------------------------------------------------------------------
(* The way into a transaction *)

\* A request that moves on, with a row of its user's, and locks that nobody else holds.
LEMMA LockKeeps ==
    ASSUME AuditInv, ServiceInv', UNCHANGED rows, NEW i \in Requests, NEW at \in {"access"} \cup Changing,
           Goto(i, at), request[i].at \notin Idle,
           NEW b, b = [request[i] EXCEPT !.at = at],
           at \in Changing => Owns(b),
           at \in Transaction =>
               /\ HasRow(b)
               /\ \A j \in Requests \ {i} :
                     request[j].at \in Transaction => Apart(b, request[j]) /\ Apart(request[j], b)
    PROVE  AuditInv'
<1>1. AllSound
  BY DEF AuditInv, ServiceInv
<1>2. /\ request' = [request EXCEPT ![i] = b] /\ b.at = at
  BY <1>1 DEF Goto, AllSound, Sound, Request
<1>3. request'[i] = b /\ \A j \in Requests : j # i => request'[j] = request[j]
  BY <1>1, <1>2 DEF AllSound
<1>4. Homes'
  BY DEF AuditInv, Homes, rows
<1>5. Recorded'
  <2>1. events \subseteq Event
    BY DEF AuditInv, ServiceInv, Tables
  <2>2. \A j \in Requests :
               /\ request[j].at \in Closed => request'[j].at \in Closed
               /\ request'[j].at = "answered" /\ request'[j].status = "OK" /\ request'[j].op \in Changes =>
                     request[j].at = "answered" /\ request[j].status = "OK" /\ request[j].op \in Changes
    BY <1>2, <1>3 DEF Closed, Idle, Changing
  <2> QED
    BY <2>1, <2>2, RecordedStays DEF AuditInv
<1>6. Locked'
  <2>1. ASSUME NEW j \in Requests
        PROVE  /\ request'[j].at \in Changing => Owns(request'[j])
               /\ request'[j].at \in Transaction => HasRow(request'[j])
    BY <1>2, <1>3 DEF AuditInv, Locked
  <2>2. ASSUME NEW j \in Requests, NEW k \in Requests \ {j},
               request'[j].at \in Transaction, request'[k].at \in Transaction
        PROVE  Apart(request'[j], request'[k])
    BY <1>2, <1>3, <2>2 DEF AuditInv, Locked
  <2> QED
    BY <2>1, <2>2 DEF Locked, Owns, HasRow, Apart, rows
<1> QED
  BY <1>4, <1>5, <1>6 DEF AuditInv

\* One that is asked for its row, or opens its transaction, holds nothing yet.
LEMMA Entering ==
    ASSUME AuditInv, ServiceInv', UNCHANGED rows, NEW i \in Requests, NEW at \in {"access", "first"},
           Goto(i, at), request[i].at \notin Idle,
           at = "first" => Owns([request[i] EXCEPT !.at = at])
    PROVE  AuditInv'
<1>1. PICK b : b = [request[i] EXCEPT !.at = at]
  OBVIOUS
<1>2. at \in {"access"} \cup Changing /\ at \notin Transaction /\ (at \in Changing => Owns(b))
  BY <1>1 DEF Changing, Transaction
<1> QED
  BY <1>1, <1>2, LockKeeps

LEMMA EnterTransaction ==
    ASSUME AuditInv, ServiceInv', NEW i \in Requests, ParseBody(i) \/ Access(i) \/ First(i) \/ Cascade(i)
    PROVE  AuditInv'
<1> DEFINE r == request[i]
<1>1. AllSound /\ Placed(r) /\ r \in Request
  BY DEF AuditInv, ServiceInv, AllSound, Sound
<1>2. UNCHANGED rows
  BY DEF ParseBody, Access, First, Cascade
<1>3. r.at \notin Idle /\ r.op \in Changes /\ r.row \in Rows
  <2>1. r.at \in {"parse", "access", "first", "cascade"} /\ (r.at = "parse" => r.op \in Changes)
    BY DEF ParseBody, Access, First, Cascade, On, Op
  <2> QED
    BY <1>1, <2>1 DEF Placed, Idle
<1>4. ASSUME NEW status \in Status \ {"OK"}, Answer(i, status) PROVE AuditInv'
  <2>1. Calm
    BY <1>1, <1>4, AnswerCalm
  <2> QED
    BY <1>2, <2>1, CalmSteps
<1>5. ASSUME NEW at PROVE /\ [r EXCEPT !.at = at].at = at /\ [r EXCEPT !.at = at].op = r.op
                          /\ [r EXCEPT !.at = at].user = r.user /\ [r EXCEPT !.at = at].row = r.row
  BY <1>1 DEF Request
<1>6. r.op \in {"createSpace", "updateSpace", "deleteSpace", "createProject"} \cup ProjectWork
  BY <1>3 DEF Changes, SpaceOps, ProjectOps, ProjectWork
<1>7. CASE ParseBody(i)
  <2>1. \/ Answer(i, "VALIDATION_ERROR") \/ Goto(i, "access")
        \/ r.op = "createSpace" /\ Goto(i, "first")
    BY <1>7 DEF ParseBody, Op
  <2>2. ASSUME NEW at \in {"access", "first"}, Goto(i, at), at = "first" => Owns([r EXCEPT !.at = at])
        PROVE  AuditInv'
    BY <1>2, <1>3, <2>2, Entering
  <2>3. Owns([r EXCEPT !.at = "first"]) \/ r.op # "createSpace"
    BY <1>5 DEF Owns
  <2> QED
    BY <1>4, <2>1, <2>2, <2>3 DEF Status
<1>8. CASE Access(i)
  <2>1. CASE Finds(i)
    <3>1. Goto(i, "first") /\ r.at = "access"
      BY <1>8, <2>1 DEF Access, On
    <3>2. r.op # "createSpace"
      BY <1>1, <3>1 DEF Placed
    <3>3. CASE r.op \in {"updateSpace", "deleteSpace", "createProject"}
      <4>1. owner[r.row] = r.user
        BY <2>1, <3>3 DEF Finds, OnSpace, Op
      <4>2. Owns([r EXCEPT !.at = "first"])
        BY <1>5, <3>3, <4>1 DEF Owns
      <4> QED
        BY <1>2, <1>3, <3>1, <4>2, Entering
    <3>4. CASE r.op \in ProjectWork
      <4>1. r.row \in projects /\ owner[home[r.row]] = r.user
        BY <2>1, <3>4 DEF Finds, OnSpace, Op, ProjectWork
      <4>2. home[r.row] \in Rows
        BY <4>1 DEF AuditInv, Homes, ServiceInv, Tables
      <4>3. Owns([r EXCEPT !.at = "first"])
        BY <1>5, <3>4, <4>1, <4>2 DEF Owns
      <4> QED
        BY <1>2, <1>3, <3>1, <4>3, Entering
    <3> QED
      BY <1>6, <3>2, <3>3, <3>4
  <2>2. CASE ~Finds(i)
    BY <1>4, <1>8, <2>2 DEF Access, Status
  <2> QED
    BY <2>1, <2>2
<1>9. CASE First(i)
  <2>1. r.at = "first" /\ Owns(r)
    BY <1>9 DEF First, On, AuditInv, Locked, Changing
  <2>2. CASE ~RowIsThere(i)
    BY <1>4, <1>9, <2>2 DEF First, Status
  <2>3. CASE RowIsThere(i)
    <3>1. PICK at : at = IF r.op = "deleteSpace" THEN "cascade" ELSE "second"
      OBVIOUS
    <3>2. at \in Transaction /\ Goto(i, at)
      BY <1>9, <2>3, <3>1 DEF First, Op, Transaction
    <3>3. PICK b : b = [r EXCEPT !.at = at]
      OBVIOUS
    <3>4. b.at = at /\ b.op = r.op /\ b.user = r.user /\ b.row = r.row
      BY <1>5, <3>3
    <3>5. Owns(b)
      BY <2>1, <3>4 DEF Owns
    <3>6. HasRow(b)
      BY <1>6, <2>3, <3>4 DEF RowIsThere, HasRow, OnSpace, Op, ProjectWork
    <3>7. ASSUME NEW j \in Requests \ {i}, request[j].at \in Transaction
          PROVE  Apart(b, request[j]) /\ Apart(request[j], b)
      <4>1. j \in Others(i)
        BY <3>7 DEF Others, InTransaction, Transaction
      <4>2. ASSUME r.op \in {"updateSpace", "deleteSpace", "createProject"}
            PROVE  /\ request[j].op = "deleteSpace" => request[j].row # r.row
                   /\ r.op = "deleteSpace" /\ request[j].op \in {"createProject", "updateSpace"} => request[j].row # r.row
        <5>1. SpaceFree(i, r.row)
          BY <1>9, <4>2 DEF First, RowFree, OnSpace, Op
        <5>2. /\ r.row \notin Deletes(j)
              /\ r.op = "deleteSpace" => r.row \notin Refers(j)
          BY <4>1, <5>1 DEF SpaceFree, Op
        <5> QED
          BY <5>2 DEF Deletes, Refers, Op
      <4>3. ASSUME r.op \in ProjectWork
            PROVE  /\ request[j].op \in ProjectWork => request[j].row # r.row
                   /\ request[j].op = "deleteSpace" /\ request[j].at = "second" => home[r.row] # request[j].row
        <5>1. ProjectFree(i, r.row)
          BY <1>9, <4>3 DEF First, RowFree, Op, ProjectWork
        <5>2. r.row \notin HoldsProjects(j)
          BY <4>1, <5>1 DEF ProjectFree
        <5>3. r.row \in projects
          BY <2>3, <4>3 DEF RowIsThere, OnSpace, Op, ProjectWork
        <5> QED
          BY <5>2, <5>3 DEF HoldsProjects, Op, On, ProjectWork
      <4>4. r.op = "deleteSpace" => at = "cascade"
        BY <3>1
      <4>5. r.op \in ProjectWork => r.op \notin {"updateSpace", "deleteSpace", "createProject"}
        BY DEF ProjectWork
      <4> QED
        BY <3>4, <4>2, <4>3, <4>4, <4>5 DEF Apart
    <3> QED
      BY <1>2, <1>3, <3>2, <3>3, <3>5, <3>6, <3>7, LockKeeps DEF Changing, Transaction
  <2> QED
    BY <2>2, <2>3
<1>10. CASE Cascade(i)
  <2>1. r.at = "cascade" /\ Goto(i, "second") /\ r.op = "deleteSpace"
    BY <1>1, <1>10 DEF Cascade, On, Placed
  <2>2. Owns(r) /\ HasRow(r)
    BY <2>1 DEF AuditInv, Locked, Changing, Transaction
  <2>3. PICK b : b = [r EXCEPT !.at = "second"]
    OBVIOUS
  <2>4. b.at = "second" /\ b.op = r.op /\ b.user = r.user /\ b.row = r.row
    BY <1>5, <2>3
  <2>5. Owns(b) /\ HasRow(b)
    BY <2>2, <2>4 DEF Owns, HasRow
  <2>6. ASSUME NEW j \in Requests \ {i}, request[j].at \in Transaction
        PROVE  Apart(b, request[j]) /\ Apart(request[j], b)
    <3>1. Apart(r, request[j]) /\ Apart(request[j], r)
      BY <2>1, <2>6 DEF AuditInv, Locked, Transaction
    <3>2. request[j].op \in ProjectWork => home[request[j].row] # r.row
      <4>1. SUFFICES ASSUME request[j].op \in ProjectWork, home[request[j].row] = r.row PROVE FALSE
        OBVIOUS
      <4>2. HasRow(request[j])
        BY <2>6 DEF AuditInv, Locked
      <4>3. request[j].row \in projects
        BY <4>1, <4>2 DEF HasRow, ProjectWork
      <4>4. ProjectFree(i, request[j].row)
        BY <1>10, <4>1, <4>3 DEF Cascade, ContentsFree
      <4>5. request[j].row \notin HoldsProjects(j)
        BY <2>6, <4>4 DEF ProjectFree, Others, InTransaction, Transaction
      <4> QED
        BY <4>1, <4>5 DEF HoldsProjects, Op, ProjectWork
    <3>3. r.op \notin ProjectWork
      BY <2>1 DEF ProjectWork
    <3> QED
      BY <2>1, <2>4, <3>1, <3>2, <3>3 DEF Apart
  <2> QED
    BY <1>2, <1>3, <2>1, <2>3, <2>5, <2>6, LockKeeps DEF Changing, Transaction
<1> QED
  BY <1>7, <1>8, <1>9, <1>10

-----------------------------------------------------------------------------
(* A commit *)

\* The owner of a space and the space of a project stay what they are.
RowsGrow ==
    /\ \A s \in Rows : owner[s] # Nobody => owner'[s] = owner[s]
    /\ \A p \in Rows : home[p] # None => home'[p] = home[p]

\* A commit that removes rows leaves those of another transaction.
Spares(q, gone, goneProjects) ==
    /\ q.op \in {"updateSpace", "deleteSpace", "createProject"} => q.row \notin gone
    /\ q.op \in ProjectWork => q.row \notin goneProjects

\* Who is asked for a row, has one of the rows there are.
LEMMA OwnsKept ==
    ASSUME AuditInv, RowsGrow, NEW CONSTANT r, r.row \in Rows, r.user \in Users, Owns(r)
    PROVE  Owns(r)'
<1>1. Nobody \notin Users /\ None \notin Rows
  BY WorkspaceAssumption DEF Rows, None
<1>2. CASE r.op \in {"updateSpace", "deleteSpace", "createProject"} /\ owner[r.row] = r.user
  BY <1>1, <1>2 DEF Owns, RowsGrow
<1>3. CASE r.op \in ProjectWork /\ home[r.row] \in Rows /\ owner[home[r.row]] = r.user
  <2>1. home'[r.row] = home[r.row]
    BY <1>1, <1>3 DEF RowsGrow
  <2>2. owner'[home[r.row]] = owner[home[r.row]]
    BY <1>1, <1>3 DEF RowsGrow
  <2> QED
    BY <1>3, <2>1, <2>2 DEF Owns
<1> QED
  BY <1>2, <1>3 DEF Owns

\* What a deletion leaves of an event refers to what is there.
LEMMA ReferKept ==
    ASSUME AuditInv, RowsGrow, NEW CONSTANT gone, NEW CONSTANT goneProjects,
           spaces \ gone \subseteq spaces', projects \ goneProjects \subseteq projects',
           NEW CONSTANT e, e \in events, NEW CONSTANT f, f = Forgot(e, gone, goneProjects)
    PROVE  Refer(f)'
<1>1. e \in Event /\ Refer(e)
  BY DEF AuditInv, ServiceInv, Tables, Recorded
<1>2. /\ f.type = e.type /\ f.user = e.user /\ f.about = e.about
      /\ f.space = (IF e.space \in gone THEN None ELSE e.space)
      /\ f.project = (IF e.project \in goneProjects THEN None ELSE e.project)
  BY <1>1, ForgotKeeps
<1>3. e.user \in Users /\ e.about \in Rows /\ Nobody \notin Users /\ None \notin Rows
  BY <1>1, WorkspaceAssumption DEF Event, Rows, None
<1>4. f.space \in spaces' \cup {None} /\ f.project \in projects' \cup {None}
  BY <1>1, <1>2 DEF Refer
<1>5. e.type \in SpaceOps => e.user = owner'[e.about]
  BY <1>1, <1>3 DEF Refer, RowsGrow
<1>6. e.type \in ProjectOps => home'[e.about] \in Rows /\ e.user = owner'[home'[e.about]]
  <2>1. e.type \in ProjectOps => home[e.about] \in Rows /\ e.user = owner[home[e.about]]
    BY <1>1 DEF Refer
  <2>2. e.type \in ProjectOps => home'[e.about] = home[e.about]
    BY <1>3, <2>1 DEF RowsGrow
  <2> QED
    BY <1>3, <2>1, <2>2 DEF RowsGrow
<1> QED
  BY <1>2, <1>4, <1>5, <1>6 DEF Refer

\* A commit whose event refers to what is there, and whose counts are right, keeps the
\* invariant when it spares the rows of the others.
LEMMA Committing ==
    ASSUME AuditInv, ServiceInv', NEW i \in Requests, On(i, "second"), NEW status \in Status, Answer(i, status),
           NEW CONSTANT gone, NEW CONSTANT goneProjects, NEW CONSTANT new, new \in Event, new.by = i,
           events' = Forget(events, gone, goneProjects) \cup {new}, RowsGrow,
           spaces \ gone \subseteq spaces', projects \ goneProjects \subseteq projects',
           \A j \in Requests \ {i} :
               request[j].at \in Transaction => Spares(request[j], gone, goneProjects),
           Homes', Refer(new)', \A r \in Rows : SpaceCounts(r)' /\ ProjectCounts(r)'
    PROVE  AuditInv'
<1>1. AllSound /\ events \subseteq Event /\ Recorded /\ Locked
  BY DEF AuditInv, ServiceInv, Tables
<1>2. i # None /\ request[i].at \notin Closed
  BY WorkspaceAssumption DEF Requests, None, On, Closed
<1>3. \A e \in events : e.by # i
  BY <1>1, <1>2 DEF Recorded
<1>4. PICK b : b = Response(request[i], status, None)
  OBVIOUS
<1>5. /\ request' = [request EXCEPT ![i] = b] /\ b.at = "answered"
      /\ request'[i] = b /\ \A j \in Requests : j # i => request'[j] = request[j]
  BY <1>1, <1>4, Responses DEF Answer, AllSound, Sound, Holding
<1>6. IsFiniteSet(events') /\ Single(events')
  <2>1. PICK E : E = events
    OBVIOUS
  <2>2. PICK F : F = events'
    OBVIOUS
  <2>3. IsFiniteSet(F) /\ Single(F)
    BY <1>1, <1>2, <1>3, <2>1, <2>2, Counting DEF Recorded
  <2> QED
    BY <2>2, <2>3
<1>7. ASSUME NEW f \in events' PROVE Refer(f)' /\ (f.by # None => request'[f.by].at \in Closed)
  <2>1. CASE f = new
    BY <1>5, <2>1 DEF Closed
  <2>2. CASE f # new
    <3>1. PICK e \in events : f = Forgot(e, gone, goneProjects)
      BY <2>2 DEF Forget, Forgot
    <3>2. e \in Event /\ f.by = e.by
      BY <1>1, <3>1, ForgotKeeps
    <3>3. e.by # None => request[e.by].at \in Closed /\ e.by \in Requests
      BY <1>1, <3>2 DEF Recorded, Event
    <3>4. PICK g, h : g = f /\ h = e
      OBVIOUS
    <3>5. Refer(g)'
      BY <3>1, <3>4, ReferKept
    <3>6. Refer(f)'
      BY <3>4, <3>5 DEF Refer
    <3> QED
      BY <1>2, <1>5, <3>2, <3>3, <3>6
  <2> QED
    BY <2>1, <2>2
<1>8. ASSUME NEW j \in Requests PROVE Told(j)'
  <2>1. CASE j = i
    BY <2>1 DEF Told
  <2>2. CASE j # i
    <3>1. ASSUME NEW e \in events, e.by = j
          PROVE  \E f \in events' : f.by = j
      <4>1. Forgot(e, gone, goneProjects) \in events'
        BY DEF Forget, Forgot
      <4>2. Forgot(e, gone, goneProjects).by = j
        BY <1>1, <3>1, ForgotKeeps
      <4> QED
        BY <4>1, <4>2
    <3> QED
      BY <1>1, <1>5, <2>2, <3>1 DEF Recorded, Told
  <2> QED
    BY <2>1, <2>2
<1>9. Recorded'
  BY <1>6, <1>7, <1>8 DEF Recorded, Single
<1>10. ASSUME NEW j \in Requests, j # i, request[j].at \in Changing
       PROVE  /\ Owns(request[j])' /\ request[j].row \in Rows
              /\ request[j].at \in Transaction => HasRow(request[j])'
  <2>1. PICK q : q = request[j]
    OBVIOUS
  <2>2. q.row \in Rows /\ q.user \in Users /\ Owns(q) /\ request'[j] = q
    BY <1>1, <1>5, <1>10, <2>1 DEF AllSound, Sound, Placed, Changing, Locked, Idle
  <2>3. Owns(q)'
    BY <2>2, OwnsKept
  <2>4. q.at \in Transaction => HasRow(q) /\ Spares(q, gone, goneProjects)
    BY <1>1, <1>10, <2>1 DEF Locked
  <2>5. q.at \in Transaction => HasRow(q)'
    BY <2>4 DEF HasRow, Spares
  <2> QED
    BY <1>10, <2>1, <2>2, <2>3, <2>5 DEF Owns, HasRow
<1>11. Locked'
  <2>1. ASSUME NEW j \in Requests
        PROVE  /\ request'[j].at \in Changing => Owns(request[j])'
               /\ request'[j].at \in Transaction => HasRow(request[j])'
    <3>1. CASE j = i
      BY <1>5, <3>1 DEF Changing, Transaction
    <3>2. CASE j # i
      BY <1>5, <1>10, <3>2 DEF Owns, HasRow, Changing, Transaction
    <3> QED
      BY <3>1, <3>2
  <2>2. ASSUME NEW j \in Requests, NEW k \in Requests \ {j},
               request'[j].at \in Transaction, request'[k].at \in Transaction
        PROVE  Apart(request[j], request[k])'
    <3>1. j # i /\ k # i
      BY <1>5, <2>2 DEF Transaction
    <3>2. /\ request'[j] = request[j] /\ request'[k] = request[k]
          /\ Apart(request[j], request[k]) /\ HasRow(request[k])
      BY <1>1, <1>5, <2>2, <3>1 DEF Locked
    <3>3. request[k].op \in ProjectWork => home'[request[k].row] = home[request[k].row]
      <4>1. request[k].row \in Rows
        BY <1>10, <2>2, <3>1, <3>2 DEF Transaction, Changing
      <4>2. request[k].op \in ProjectWork => request[k].row \in projects
        BY <3>2 DEF HasRow, ProjectWork
      <4>3. \A p \in projects : home[p] # None
        BY WorkspaceAssumption DEF AuditInv, Homes, ServiceInv, Tables, Rows, None
      <4> QED
        BY <4>1, <4>2, <4>3 DEF RowsGrow
    <3> QED
      BY <3>2, <3>3 DEF Apart
  <2> QED
    BY <2>1, <2>2 DEF Locked, Owns, HasRow, Apart
<1> QED
  BY <1>9, <1>11 DEF AuditInv

\* What a request knows when it commits.
LEMMA AtCommit ==
    ASSUME AuditInv, NEW i \in Requests, On(i, "second"), NEW r, r = request[i]
    PROVE  /\ r.row \in Rows /\ r.user \in Users /\ r.op \in Changes /\ Owns(r) /\ HasRow(r)
           /\ r.user # Nobody /\ None \notin Rows /\ Tables /\ Homes /\ Op(i) = r.op
           /\ \A j \in Requests \ {i} : request[j].at \in Transaction => Apart(r, request[j])
           /\ \A s \in Rows : SpaceCounts(s) /\ ProjectCounts(s)
           /\ i \in Open
BY WorkspaceAssumption DEF AuditInv, ServiceInv, AllSound, Sound, Placed, On, Op, Idle, Locked, Changing, Transaction,
   Rows, None, Recorded, Open, Closed

\* The events that are counted after a commit.
OneMore(new) ==
    \A type, row :
        /\ Count(events, type, row) \in Nat
        /\ Count(events', type, row) = Count(events, type, row) +
              (IF new.type = type /\ new.about = row THEN 1 ELSE 0)
LEMMA CountsThen ==
    ASSUME AuditInv, NEW i \in Requests, On(i, "second"), NEW CONSTANT gone, NEW CONSTANT goneProjects,
           NEW CONSTANT new, new \in Event, new.by = i,
           events' = Forget(events, gone, goneProjects) \cup {new}
    PROVE  OneMore(new)
<1> SUFFICES ASSUME NEW type, NEW row
             PROVE  /\ Count(events, type, row) \in Nat
                    /\ Count(events', type, row) = Count(events, type, row) +
                          (IF new.type = type /\ new.about = row THEN 1 ELSE 0)
  BY DEF OneMore
<1>1. events \subseteq Event /\ Recorded
  BY DEF AuditInv, ServiceInv, Tables
<1>2. i # None /\ request[i].at \notin Closed
  BY WorkspaceAssumption DEF Requests, None, On, Closed
<1>3. \A e \in events : e.by # i
  BY <1>1, <1>2 DEF Recorded
<1>4. PICK E : E = events
  OBVIOUS
<1>5. PICK F : F = events'
  OBVIOUS
<1>6. /\ E \in SUBSET Event /\ IsFiniteSet(E) /\ Single(E) /\ \A e \in E : e.by # new.by
      /\ new.by # None /\ F = Forget(E, gone, goneProjects) \cup {new}
  BY <1>1, <1>2, <1>3, <1>4, <1>5 DEF Recorded
<1>7. /\ Count(E, type, row) \in Nat
      /\ Count(F, type, row) = Count(E, type, row) +
            (IF new.type = type /\ new.about = row THEN 1 ELSE 0)
  BY <1>6, Counting
<1> QED
  BY <1>4, <1>5, <1>7

LEMMA ForgetNothing == ASSUME NEW E \in SUBSET Event PROVE Forget(E, {}, {}) = E
<1>1. ASSUME NEW e \in E PROVE Forgot(e, {}, {}) = e
  BY DEF Forgot, Event
<1> QED
  BY <1>1 DEF Forget, Forgot

LEMMA CommitsSpace ==
    ASSUME AuditInv, ServiceInv', NEW i \in Requests, On(i, "second"), NEW status \in Status, Answer(i, status),
           CreateSpace(i)
    PROVE  AuditInv'
<1>1. PICK r : r = request[i]
  OBVIOUS
<1>2. /\ r.row \in Rows /\ r.user \in Users /\ r.user # Nobody /\ None \notin Rows /\ Tables /\ Homes
      /\ \A s \in Rows : SpaceCounts(s) /\ ProjectCounts(s)
      /\ i \in Open
  BY <1>1, AtCommit
<1>3a. PICK s : s = NewRow([q \in Rows |-> owner[q] # Nobody])
  OBVIOUS
<1>3. s \in Rows \ SpacesEver /\ s = NewRow([q \in Rows |-> owner[q] # Nobody])
  BY <1>2, <1>3a, NewRows DEF AuditInv
<1>4. PICK new : new = EventOf(i, s, s, None)
  OBVIOUS
<1>5. /\ spaces' = spaces \cup {s} /\ owner' = [owner EXCEPT ![s] = r.user]
      /\ events' = events \cup {new} /\ UNCHANGED <<home, projects, version>> /\ r.op = "createSpace"
  BY <1>1, <1>3, <1>4 DEF CreateSpace, Op
<1>6. /\ new.type = "createSpace" /\ new.about = s /\ new.by = i /\ new.user = r.user
      /\ new.space = s /\ new.project = None
  BY <1>1, <1>4, <1>5 DEF EventOf, Op
<1>7. new \in Event
  BY <1>1, <1>2, <1>3, <1>4, <1>5 DEF EventOf, Event, Op, Changes, SpaceOps
<1>8. events' = Forget(events, {}, {}) \cup {new}
  BY <1>2, <1>5, ForgetNothing DEF Tables
<1>9. ASSUME NEW type, NEW row
      PROVE  /\ Count(events, type, row) \in Nat
             /\ Count(events', type, row) = Count(events, type, row) +
                   (IF type = "createSpace" /\ row = s THEN 1 ELSE 0)
  <2>1. PICK none : none = {}
    OBVIOUS
  <2>2. events' = Forget(events, none, none) \cup {new}
    BY <1>8, <2>1
  <2>3. new \in Event /\ new.by = i
    BY <1>6, <1>7
  <2>4. OneMore(new)
    BY <2>2, <2>3, CountsThen
  <2> QED
    BY <1>6, <2>4 DEF OneMore
<1>10. owner[s] = Nobody /\ s \notin spaces /\ \A p \in Rows : home[p] # s
  BY <1>2, <1>3 DEF SpacesEver, Homes
<1>11. owner'[s] = r.user /\ \A q \in Rows : q # s => owner'[q] = owner[q]
  BY <1>2, <1>3, <1>5 DEF Tables
<1>12. RowsGrow
  BY <1>5, <1>10, <1>11 DEF RowsGrow
<1>13. Homes'
  BY <1>2, <1>3, <1>5, <1>10, <1>11 DEF Homes, Tables
<1>14. Refer(new)'
  BY <1>3, <1>5, <1>6, <1>11 DEF Refer, SpaceOps, ProjectOps
<1>15. ASSUME NEW q \in Rows PROVE SpaceCounts(q)'
  <2>1. SpaceCounts(q)
    BY <1>2
  <2>2. /\ Count(events', "updateSpace", q) = Count(events, "updateSpace", q)
        /\ Count(events', "deleteSpace", q) = Count(events, "deleteSpace", q)
        /\ Count(events', "createSpace", q) = Count(events, "createSpace", q) + (IF q = s THEN 1 ELSE 0)
    BY <1>6, <1>9
  <2>3. CASE q = s
    BY <1>2, <1>5, <1>10, <1>11, <2>1, <2>2, <2>3 DEF SpaceCounts
  <2>4. CASE q # s
    <3>1. Count(events', "createSpace", q) = Count(events, "createSpace", q)
      BY <1>6, <1>9, <2>4
    <3> QED
      BY <1>5, <1>11, <2>1, <2>2, <2>4, <3>1 DEF SpaceCounts
  <2> QED
    BY <2>3, <2>4
<1>16. ASSUME NEW p \in Rows PROVE ProjectCounts(p)'
  <2>1. ProjectCounts(p)
    BY <1>2
  <2>2. /\ Count(events', "createProject", p) = Count(events, "createProject", p)
        /\ Count(events', "updateProject", p) = Count(events, "updateProject", p)
        /\ Count(events', "deleteProject", p) = Count(events, "deleteProject", p)
    BY <1>6, <1>9
  <2> QED
    BY <1>5, <1>10, <2>1, <2>2 DEF ProjectCounts
<1>17. \A q : Spares(q, {}, {})
  BY DEF Spares
<1> QED
  BY <1>5, <1>6, <1>7, <1>8, <1>12, <1>13, <1>14, <1>15, <1>16, <1>17, Committing

LEMMA CommitsUpdate ==
    ASSUME AuditInv, ServiceInv', NEW i \in Requests, On(i, "second"), NEW status \in Status, Answer(i, status),
           UpdateSpace(i) \/ UpdateProject(i)
    PROVE  AuditInv'
<1>1. PICK r : r = request[i]
  OBVIOUS
<1>2. /\ r.row \in Rows /\ r.user \in Users /\ r.user # Nobody /\ None \notin Rows /\ Tables /\ Homes
      /\ Owns(r) /\ HasRow(r)
      /\ \A s \in Rows : SpaceCounts(s) /\ ProjectCounts(s)
  BY <1>1, AtCommit
<1>3. UNCHANGED <<owner, home, spaces, projects>>
  BY DEF UpdateSpace, UpdateProject
<1>4. RowsGrow /\ Homes'
  BY <1>2, <1>3 DEF RowsGrow, Homes
<1>5. \A q : Spares(q, {}, {})
  BY DEF Spares
<1>6. CASE UpdateSpace(i)
  <2>1. PICK new : new = EventOf(i, r.row, r.row, None)
    OBVIOUS
  <2>2. /\ events' = events \cup {new} /\ r.op = "updateSpace"
        /\ version' = [version EXCEPT !.space[r.row] = @ + 1]
    BY <1>1, <1>6, <2>1 DEF UpdateSpace, Op
  <2>3. /\ new.type = "updateSpace" /\ new.about = r.row /\ new.by = i /\ new.user = r.user
        /\ new.space = r.row /\ new.project = None /\ new \in Event
    BY <1>1, <1>2, <2>1, <2>2 DEF EventOf, Op, Event, Changes, SpaceOps
  <2>4. events' = Forget(events, {}, {}) \cup {new}
    BY <1>2, <2>2, ForgetNothing DEF Tables
  <2>5. \A type, row :
            /\ Count(events, type, row) \in Nat
            /\ Count(events', type, row) = Count(events, type, row) +
                  (IF type = "updateSpace" /\ row = r.row THEN 1 ELSE 0)
    <3>1. OneMore(new)
      BY <2>3, <2>4, CountsThen
    <3> QED
      BY <2>3, <3>1 DEF OneMore
  <2>6. owner[r.row] = r.user /\ r.row \in spaces
    BY <1>2, <2>2 DEF Owns, HasRow, ProjectWork
  <2>7. Refer(new)'
    BY <1>3, <2>3, <2>6 DEF Refer, SpaceOps, ProjectOps
  <2>8. /\ version'.project = version.project /\ version'.space[r.row] = version.space[r.row] + 1
        /\ \A q \in Rows : q # r.row => version'.space[q] = version.space[q]
    BY <1>2, <2>2 DEF Tables
  <2>9. ASSUME NEW q \in Rows PROVE SpaceCounts(q)' /\ ProjectCounts(q)'
    <3>1. SpaceCounts(q) /\ ProjectCounts(q)
      BY <1>2
    <3>2. /\ Count(events', "createSpace", q) = Count(events, "createSpace", q)
          /\ Count(events', "deleteSpace", q) = Count(events, "deleteSpace", q)
          /\ Count(events', "createProject", q) = Count(events, "createProject", q)
          /\ Count(events', "updateProject", q) = Count(events, "updateProject", q)
          /\ Count(events', "deleteProject", q) = Count(events, "deleteProject", q)
      BY <2>5
    <3>3. Count(events', "updateSpace", q) = version'.space[q]
      BY <2>5, <2>8, <3>1 DEF SpaceCounts
    <3> QED
      BY <1>3, <2>8, <3>1, <3>2, <3>3 DEF SpaceCounts, ProjectCounts
  <2> QED
    BY <1>3, <1>4, <1>5, <2>3, <2>4, <2>7, <2>9, Committing
<1>7. CASE UpdateProject(i)
  <2>1. PICK new : new = EventOf(i, r.row, home[r.row], r.row)
    OBVIOUS
  <2>2. /\ events' = events \cup {new} /\ r.op = "updateProject"
        /\ version' = [version EXCEPT !.project[r.row] = @ + 1]
    BY <1>1, <1>7, <2>1 DEF UpdateProject, Op
  <2>6. owner[home[r.row]] = r.user /\ r.row \in projects /\ home[r.row] \in spaces /\ home[r.row] \in Rows
    BY <1>2, <2>2 DEF Owns, HasRow, ProjectWork, Homes, Tables
  <2>3. /\ new.type = "updateProject" /\ new.about = r.row /\ new.by = i /\ new.user = r.user
        /\ new.space = home[r.row] /\ new.project = r.row /\ new \in Event
    BY <1>1, <1>2, <2>1, <2>2, <2>6 DEF EventOf, Op, Event, Changes, ProjectOps
  <2>4. events' = Forget(events, {}, {}) \cup {new}
    BY <1>2, <2>2, ForgetNothing DEF Tables
  <2>5. \A type, row :
            /\ Count(events, type, row) \in Nat
            /\ Count(events', type, row) = Count(events, type, row) +
                  (IF type = "updateProject" /\ row = r.row THEN 1 ELSE 0)
    <3>1. OneMore(new)
      BY <2>3, <2>4, CountsThen
    <3> QED
      BY <2>3, <3>1 DEF OneMore
  <2>7. Refer(new)'
    BY <1>3, <2>3, <2>6 DEF Refer, SpaceOps, ProjectOps
  <2>8. /\ version'.space = version.space /\ version'.project[r.row] = version.project[r.row] + 1
        /\ \A q \in Rows : q # r.row => version'.project[q] = version.project[q]
    BY <1>2, <2>2 DEF Tables
  <2>9. ASSUME NEW q \in Rows PROVE SpaceCounts(q)' /\ ProjectCounts(q)'
    <3>1. SpaceCounts(q) /\ ProjectCounts(q)
      BY <1>2
    <3>2. /\ Count(events', "createSpace", q) = Count(events, "createSpace", q)
          /\ Count(events', "updateSpace", q) = Count(events, "updateSpace", q)
          /\ Count(events', "deleteSpace", q) = Count(events, "deleteSpace", q)
          /\ Count(events', "createProject", q) = Count(events, "createProject", q)
          /\ Count(events', "deleteProject", q) = Count(events, "deleteProject", q)
      BY <2>5
    <3>3. Count(events', "updateProject", q) = version'.project[q]
      BY <2>5, <2>8, <3>1 DEF ProjectCounts
    <3> QED
      BY <1>3, <2>8, <3>1, <3>2, <3>3 DEF SpaceCounts, ProjectCounts
  <2> QED
    BY <1>3, <1>4, <1>5, <2>3, <2>4, <2>7, <2>9, Committing
<1> QED
  BY <1>6, <1>7

LEMMA CommitsProject ==
    ASSUME AuditInv, ServiceInv', NEW i \in Requests, On(i, "second"), NEW status \in Status, Answer(i, status),
           CreateProject(i)
    PROVE  AuditInv'
<1>1. PICK r : r = request[i]
  OBVIOUS
<1>2. /\ r.row \in Rows /\ r.user \in Users /\ r.user # Nobody /\ None \notin Rows /\ Tables /\ Homes
      /\ Owns(r) /\ HasRow(r)
      /\ \A s \in Rows : SpaceCounts(s) /\ ProjectCounts(s)
      /\ i \in Open
  BY <1>1, AtCommit
<1>3a. PICK p : p = NewRow([q \in Rows |-> home[q] # None])
  OBVIOUS
<1>3. p \in Rows \ ProjectsEver /\ p = NewRow([q \in Rows |-> home[q] # None])
  BY <1>2, <1>3a, NewRows DEF AuditInv
<1>4. PICK new : new = EventOf(i, p, r.row, p)
  OBVIOUS
<1>5. /\ projects' = projects \cup {p} /\ home' = [home EXCEPT ![p] = r.row]
      /\ events' = events \cup {new} /\ UNCHANGED <<owner, spaces, version>> /\ r.op = "createProject"
  BY <1>1, <1>3, <1>4 DEF CreateProject, Op
<1>6. /\ new.type = "createProject" /\ new.about = p /\ new.by = i /\ new.user = r.user
      /\ new.space = r.row /\ new.project = p
  BY <1>1, <1>4, <1>5 DEF EventOf, Op
<1>7. new \in Event
  BY <1>1, <1>2, <1>3, <1>4, <1>5 DEF EventOf, Event, Op, Changes, ProjectOps
<1>8. events' = Forget(events, {}, {}) \cup {new}
  BY <1>2, <1>5, ForgetNothing DEF Tables
<1>9. ASSUME NEW type, NEW row
      PROVE  /\ Count(events, type, row) \in Nat
             /\ Count(events', type, row) = Count(events, type, row) +
                   (IF type = "createProject" /\ row = p THEN 1 ELSE 0)
  <2>1. PICK none : none = {}
    OBVIOUS
  <2>2. events' = Forget(events, none, none) \cup {new}
    BY <1>8, <2>1
  <2>3. new \in Event /\ new.by = i
    BY <1>6, <1>7
  <2>4. OneMore(new)
    BY <2>2, <2>3, CountsThen
  <2> QED
    BY <1>6, <2>4 DEF OneMore
<1>10. home[p] = None /\ p \notin projects
  BY <1>2, <1>3 DEF ProjectsEver, Homes, Tables
<1>11. home'[p] = r.row /\ \A q \in Rows : q # p => home'[q] = home[q]
  BY <1>2, <1>3, <1>5 DEF Tables
<1>12. RowsGrow
  BY <1>5, <1>10, <1>11 DEF RowsGrow
<1>13. owner[r.row] = r.user /\ r.row \in spaces
  BY <1>2, <1>5 DEF Owns, HasRow, ProjectWork
<1>14. Homes'
  BY <1>2, <1>3, <1>5, <1>11, <1>13 DEF Homes, Tables
<1>15. Refer(new)'
  BY <1>2, <1>3, <1>5, <1>6, <1>11, <1>13 DEF Refer, SpaceOps, ProjectOps
<1>16. ASSUME NEW q \in Rows PROVE SpaceCounts(q)'
  <2>1. SpaceCounts(q)
    BY <1>2
  <2>2. /\ Count(events', "updateSpace", q) = Count(events, "updateSpace", q)
        /\ Count(events', "deleteSpace", q) = Count(events, "deleteSpace", q)
        /\ Count(events', "createSpace", q) = Count(events, "createSpace", q)
    BY <1>9
  <2> QED
    BY <1>5, <2>1, <2>2 DEF SpaceCounts
<1>17. ASSUME NEW q \in Rows PROVE ProjectCounts(q)'
  <2>1. ProjectCounts(q)
    BY <1>2
  <2>2. /\ Count(events', "updateProject", q) = Count(events, "updateProject", q)
        /\ Count(events', "deleteProject", q) = Count(events, "deleteProject", q)
        /\ Count(events', "createProject", q) = Count(events, "createProject", q) + (IF q = p THEN 1 ELSE 0)
    BY <1>9
  <2>3. CASE q = p
    BY <1>2, <1>5, <1>10, <1>11, <2>1, <2>2, <2>3 DEF ProjectCounts
  <2>4. CASE q # p
    <3>1. Count(events', "createProject", q) = Count(events, "createProject", q)
      BY <1>9, <2>4
    <3> QED
      BY <1>5, <1>11, <2>1, <2>2, <2>4, <3>1 DEF ProjectCounts
  <2> QED
    BY <2>3, <2>4
<1>18. \A q : Spares(q, {}, {})
  BY DEF Spares
<1> QED
  BY <1>5, <1>6, <1>7, <1>8, <1>12, <1>14, <1>15, <1>16, <1>17, <1>18, Committing

LEMMA CommitsDeletion ==
    ASSUME AuditInv, ServiceInv', NEW i \in Requests, On(i, "second"), NEW status \in Status, Answer(i, status),
           DeleteSpace(i) \/ DeleteProject(i)
    PROVE  AuditInv'
<1>1. PICK r : r = request[i]
  OBVIOUS
<1>2. /\ r.row \in Rows /\ r.user \in Users /\ r.user # Nobody /\ None \notin Rows /\ Tables /\ Homes
      /\ Owns(r) /\ HasRow(r)
      /\ \A s \in Rows : SpaceCounts(s) /\ ProjectCounts(s)
      /\ \A j \in Requests \ {i} : request[j].at \in Transaction => Apart(r, request[j])
  BY <1>1, AtCommit
<1>3. UNCHANGED <<owner, home, version>> /\ r.at = "second"
  BY <1>1 DEF DeleteSpace, DeleteProject, On
<1>4. RowsGrow
  BY <1>3 DEF RowsGrow
<1>5. CASE DeleteSpace(i)
  <2>1. PICK inside : inside = {p \in projects : home[p] = r.row}
    OBVIOUS
  <2>2. PICK new : new = EventOf(i, r.row, None, None)
    OBVIOUS
  <2>3. /\ events' = Forget(events, {r.row}, inside) \cup {new} /\ r.op = "deleteSpace"
        /\ spaces' = spaces \ {r.row} /\ projects' = projects \ inside
    BY <1>1, <1>5, <2>1, <2>2 DEF DeleteSpace, Op
  <2>4. /\ new.type = "deleteSpace" /\ new.about = r.row /\ new.by = i /\ new.user = r.user
        /\ new.space = None /\ new.project = None /\ new \in Event
    BY <1>1, <1>2, <2>2, <2>3 DEF EventOf, Op, Event, Changes, SpaceOps
  <2>5. ASSUME NEW type, NEW row
        PROVE  /\ Count(events, type, row) \in Nat
               /\ Count(events', type, row) = Count(events, type, row) +
                     (IF new.type = type /\ new.about = row THEN 1 ELSE 0)
    <3>1. OneMore(new)
      BY <2>3, <2>4, CountsThen
    <3> QED
      BY <3>1 DEF OneMore
  <2>6. owner[r.row] = r.user /\ r.row \in spaces
    BY <1>2, <2>3 DEF Owns, HasRow, ProjectWork
  <2>7. Refer(new)'
    BY <1>3, <2>4, <2>6 DEF Refer, SpaceOps, ProjectOps
  <2>8. Homes'
    BY <1>2, <1>3, <2>1, <2>3 DEF Homes
  <2>9. ASSUME NEW q \in Rows PROVE SpaceCounts(q)'
    <3>1. SpaceCounts(q)
      BY <1>2
    <3>2. /\ Count(events', "createSpace", q) = Count(events, "createSpace", q)
          /\ Count(events', "updateSpace", q) = Count(events, "updateSpace", q)
      BY <2>4, <2>5
    <3>3. CASE q = r.row
      <4>1. Count(events', "deleteSpace", q) = 1
        BY <1>2, <2>4, <2>5, <2>6, <3>1, <3>3 DEF SpaceCounts
      <4> QED
        BY <1>2, <1>3, <2>3, <2>6, <3>1, <3>2, <3>3, <4>1 DEF SpaceCounts
    <3>4. CASE q # r.row
      <4>1. Count(events', "deleteSpace", q) = Count(events, "deleteSpace", q)
        BY <2>4, <2>5, <3>4
      <4> QED
        BY <1>3, <2>3, <3>1, <3>2, <3>4, <4>1 DEF SpaceCounts
    <3> QED
      BY <3>3, <3>4
  <2>10. ASSUME NEW q \in Rows PROVE ProjectCounts(q)'
    <3>1. ProjectCounts(q)
      BY <1>2
    <3>2. /\ Count(events', "createProject", q) = Count(events, "createProject", q)
          /\ Count(events', "updateProject", q) = Count(events, "updateProject", q)
          /\ Count(events', "deleteProject", q) = Count(events, "deleteProject", q)
      BY <2>4, <2>5
    <3> QED
      BY <1>3, <2>1, <2>3, <3>1, <3>2 DEF ProjectCounts
  <2>11. ASSUME NEW j \in Requests \ {i}, request[j].at \in Transaction
         PROVE  Spares(request[j], {r.row}, inside)
    <3>1. Apart(r, request[j])
      BY <1>2, <2>11
    <3> QED
      BY <1>3, <2>1, <2>3, <3>1 DEF Apart, Spares
  <2>12. spaces \ {r.row} \subseteq spaces' /\ projects \ inside \subseteq projects'
    BY <2>3
  <2> QED
    BY <1>4, <2>3, <2>4, <2>7, <2>8, <2>9, <2>10, <2>11, <2>12, Committing
<1>6. CASE DeleteProject(i)
  <2>1. PICK new : new = EventOf(i, r.row, home[r.row], None)
    OBVIOUS
  <2>2. PICK none : none = {}
    OBVIOUS
  <2>3. /\ events' = Forget(events, none, {r.row}) \cup {new} /\ r.op = "deleteProject"
        /\ projects' = projects \ {r.row} /\ spaces' = spaces
    BY <1>1, <1>6, <2>1, <2>2 DEF DeleteProject, Op
  <2>4. /\ owner[home[r.row]] = r.user /\ r.row \in projects
        /\ home[r.row] \in spaces /\ home[r.row] \in Rows /\ home[r.row] # None
    BY <1>2, <2>3 DEF Owns, HasRow, ProjectWork, Homes, Tables
  <2>5. /\ new.type = "deleteProject" /\ new.about = r.row /\ new.by = i /\ new.user = r.user
        /\ new.space = home[r.row] /\ new.project = None /\ new \in Event
    BY <1>1, <1>2, <2>1, <2>3, <2>4 DEF EventOf, Op, Event, Changes, ProjectOps
  <2>6. ASSUME NEW type, NEW row
        PROVE  /\ Count(events, type, row) \in Nat
               /\ Count(events', type, row) = Count(events, type, row) +
                     (IF new.type = type /\ new.about = row THEN 1 ELSE 0)
    <3>1. events' = Forget(events, none, {r.row}) \cup {new}
      BY <2>3
    <3>2. new \in Event /\ new.by = i
      BY <2>5
    <3>3. OneMore(new)
      BY <3>1, <3>2, CountsThen
    <3> QED
      BY <3>3 DEF OneMore
  <2>7. Refer(new)'
    BY <1>3, <2>3, <2>4, <2>5 DEF Refer, SpaceOps, ProjectOps
  <2>8. Homes'
    BY <1>2, <1>3, <2>3 DEF Homes
  <2>9. ASSUME NEW q \in Rows PROVE SpaceCounts(q)'
    <3>1. SpaceCounts(q)
      BY <1>2
    <3>2. /\ Count(events', "createSpace", q) = Count(events, "createSpace", q)
          /\ Count(events', "updateSpace", q) = Count(events, "updateSpace", q)
          /\ Count(events', "deleteSpace", q) = Count(events, "deleteSpace", q)
      BY <2>5, <2>6
    <3> QED
      BY <1>3, <2>3, <3>1, <3>2 DEF SpaceCounts
  <2>10. ASSUME NEW q \in Rows PROVE ProjectCounts(q)'
    <3>1. ProjectCounts(q)
      BY <1>2
    <3>2. /\ Count(events', "createProject", q) = Count(events, "createProject", q)
          /\ Count(events', "updateProject", q) = Count(events, "updateProject", q)
      BY <2>5, <2>6
    <3>3. CASE q = r.row
      <4>1. Count(events', "deleteProject", q) = 1
        BY <2>4, <2>5, <2>6, <3>1, <3>3 DEF ProjectCounts
      <4> QED
        BY <1>3, <2>3, <2>4, <3>1, <3>2, <3>3, <4>1 DEF ProjectCounts
    <3>4. CASE q # r.row
      <4>1. Count(events', "deleteProject", q) = Count(events, "deleteProject", q)
        BY <2>5, <2>6, <3>4
      <4> QED
        BY <1>3, <2>3, <3>1, <3>2, <3>4, <4>1 DEF ProjectCounts
    <3> QED
      BY <3>3, <3>4
  <2>11. ASSUME NEW j \in Requests \ {i}, request[j].at \in Transaction
         PROVE  Spares(request[j], none, {r.row})
    <3>1. Apart(r, request[j])
      BY <1>2, <2>11
    <3> QED
      BY <2>2, <2>3, <3>1 DEF Apart, Spares, ProjectWork
  <2>12. spaces \ none \subseteq spaces' /\ projects \ {r.row} \subseteq projects'
    BY <2>2, <2>3
  <2> QED
    BY <1>4, <2>3, <2>5, <2>7, <2>8, <2>9, <2>10, <2>11, <2>12, Committing
<1> QED
  BY <1>5, <1>6

LEMMA Commits ==
    ASSUME AuditInv, ServiceInv', NEW i \in Requests, On(i, "second"), NEW status \in Status, Answer(i, status),
           Change(i)
    PROVE  AuditInv'
BY CommitsSpace, CommitsProject, CommitsUpdate, CommitsDeletion DEF Change

-----------------------------------------------------------------------------
(* The log is complete *)

LEMMA AuditInit == Init => AuditInv
<1> SUFFICES ASSUME Init PROVE AuditInv
  OBVIOUS
<1>1. ServiceInv
  BY ServiceInit
<1>2. FirstUser \in Users /\ FirstUser # Nobody
  BY WorkspaceAssumption DEF FirstUser
<1>3. 1 \in Rows /\ None \notin Rows /\ None # 1
  BY WorkspaceAssumption DEF Rows, None
<1>4. /\ spaces = {1} /\ projects = {1}
      /\ owner = [s \in Rows |-> IF s = 1 THEN FirstUser ELSE Nobody]
      /\ home = [p \in Rows |-> IF p = 1 THEN 1 ELSE None]
      /\ version = [space |-> [r \in Rows |-> 0], project |-> [r \in Rows |-> 0]]
      /\ request = [i \in Requests |-> Unsent]
  BY DEF Init
<1>5. PICK a, b : /\ a = Created("createSpace", FirstUser, 1, 1, None)
                  /\ b = Created("createProject", FirstUser, 1, 1, 1)
  OBVIOUS
<1>6. events = {a, b}
  BY <1>5 DEF Init
<1>7. /\ a.type = "createSpace" /\ a.by = None /\ a.user = FirstUser /\ a.about = 1
      /\ a.space = 1 /\ a.project = None
      /\ b.type = "createProject" /\ b.by = None /\ b.user = FirstUser /\ b.about = 1
      /\ b.space = 1 /\ b.project = 1
  BY <1>5 DEF Created
<1>8. Homes
  BY <1>2, <1>3, <1>4 DEF Homes
<1>9. Locked
  BY <1>4 DEF Locked, Unsent, Changing, Transaction
<1>10. IsFiniteSet(events) /\ Single(events)
  <2>1. IsFiniteSet({a}) /\ IsFiniteSet({a} \cup {b})
    BY FS_Singleton, FS_AddElement
  <2>2. events = {a} \cup {b}
    BY <1>6
  <2> QED
    BY <1>6, <1>7, <2>1, <2>2 DEF Single
<1>11. \A e \in events : Refer(e) /\ (e.by # None => request[e.by].at \in Closed)
  BY <1>3, <1>4, <1>6, <1>7 DEF Refer, SpaceOps, ProjectOps
<1>12. ASSUME NEW r \in Rows PROVE SpaceCounts(r) /\ ProjectCounts(r)
  <2>1. ASSUME NEW type, type # "createSpace", type # "createProject" PROVE Count(events, type, r) = 0
    <3>1. About(events, type, r) = {}
      BY <1>6, <1>7, <2>1 DEF About
    <3> QED
      BY <3>1, FS_EmptySet DEF Count
  <2>2. CASE r = 1
    <3>1. About(events, "createSpace", r) = {a} /\ About(events, "createProject", r) = {b}
      BY <1>6, <1>7, <2>2 DEF About
    <3>2. Count(events, "createSpace", r) = 1 /\ Count(events, "createProject", r) = 1
      BY <3>1, FS_Singleton DEF Count
    <3> QED
      BY <1>2, <1>3, <1>4, <2>1, <2>2, <3>2 DEF SpaceCounts, ProjectCounts
  <2>3. CASE r # 1
    <3>1. About(events, "createSpace", r) = {} /\ About(events, "createProject", r) = {}
      BY <1>6, <1>7, <2>3 DEF About
    <3>2. Count(events, "createSpace", r) = 0 /\ Count(events, "createProject", r) = 0
      BY <3>1, FS_EmptySet DEF Count
    <3> QED
      BY <1>2, <1>3, <1>4, <2>1, <2>3, <3>2 DEF SpaceCounts, ProjectCounts
  <2> QED
    BY <2>2, <2>3
<1>13. \A i \in Requests : Told(i)
  BY <1>4 DEF Told, Unsent
<1> QED
  BY <1>1, <1>8, <1>9, <1>10, <1>11, <1>12, <1>13 DEF AuditInv, Recorded

LEMMA AuditStep == AuditInv /\ [Next]_vars => AuditInv'
<1> SUFFICES ASSUME AuditInv, [Next]_vars PROVE AuditInv'
  OBVIOUS
<1>1. ServiceInv /\ ServiceInv' /\ AllSound
  BY ServiceStep DEF AuditInv, ServiceInv
<1>2. ASSUME Submit \/ Restart \/ \E i \in Requests : Deliver(i) \/ GiveUp(i)
      PROVE  AuditInv'
  <2>1. UNCHANGED rows
    BY <1>2 DEF Submit, Restart, Deliver, GiveUp
  <2> QED
    BY <1>1, <1>2, <2>1, CalmPages, CalmSteps
<1>3. CASE ClockTick \/ UNCHANGED vars
  <2>1. UNCHANGED <<rows, request>>
    BY <1>3 DEF ClockTick, vars
  <2>2. Calm
    BY <2>1 DEF Calm
  <2> QED
    BY <1>1, <2>1, <2>2, CalmSteps
<1>4. ASSUME NEW i \in Requests,
             \/ Enter(i) \/ ParseCredentials(i) \/ Authenticate(i) \/ CreateUser(i) \/ CreateSession(i)
             \/ SignOut(i) \/ Identify(i) \/ DeleteExpired(i) \/ BreakDeadlock(i)
      PROVE  AuditInv'
  <2>1. UNCHANGED rows
    BY <1>4 DEF Enter, ParseCredentials, Authenticate, CreateUser, CreateSession, SignOut, Identify,
                DeleteExpired, BreakDeadlock
  <2> QED
    BY <1>1, <1>4, <2>1, CalmRequests, CalmSteps
<1>5. ASSUME NEW i \in Requests, ParseBody(i) \/ Access(i) \/ First(i) \/ Cascade(i)
      PROVE  AuditInv'
  BY <1>1, <1>5, EnterTransaction
<1>6. ASSUME NEW i \in Requests, Second(i)
      PROVE  AuditInv'
  BY <1>1, <1>6, Commits DEF Second, Status
<1>7. ASSUME NEW i \in Requests, DatabaseError(i)
      PROVE  AuditInv'
  <2>1. Answer(i, "INTERNAL_ERROR") /\ "INTERNAL_ERROR" \in Status
    BY <1>7 DEF DatabaseError, Status
  <2>2. CASE UNCHANGED rows
    BY <1>1, <2>1, <2>2, AnswerCalm, CalmSteps
  <2>3. CASE On(i, "second") /\ Change(i)
    BY <1>1, <2>1, <2>3, Commits
  <2> QED
    BY <1>7, <2>2, <2>3 DEF DatabaseError
<1> QED
  BY <1>2, <1>3, <1>4, <1>5, <1>6, <1>7 DEF Next, RequestStep

LEMMA AuditCorrect == Spec => []AuditInv
BY AuditInit, AuditStep, PTL DEF Spec

\* What the log says of a row or a request.
LEMMA LogTold == AuditInv => AuditTrail
<1> SUFFICES ASSUME AuditInv PROVE AuditTrail
  OBVIOUS
<1>1. Recorded /\ Tables /\ Homes
  BY DEF AuditInv, ServiceInv
<1>2. ASSUME NEW type, NEW row
      PROVE  /\ Cardinality(EventsOf(type, row)) = Count(events, type, row)
             /\ Count(events, type, row) = 0 <=> EventsOf(type, row) = {}
  <2>1. EventsOf(type, row) = About(events, type, row)
    BY DEF EventsOf, About
  <2>2. IsFiniteSet(About(events, type, row))
    BY <1>1, FS_Subset DEF Recorded, About
  <2> QED
    BY <2>1, <2>2, FS_EmptySet DEF Count
<1>3. ASSUME NEW s \in Rows
      PROVE  /\ Cardinality(EventsOf("createSpace", s)) = IF owner[s] # Nobody THEN 1 ELSE 0
             /\ Cardinality(EventsOf("updateSpace", s)) = version.space[s]
             /\ Cardinality(EventsOf("deleteSpace", s)) =
                   IF owner[s] # Nobody /\ s \notin spaces THEN 1 ELSE 0
  BY <1>1, <1>2 DEF Recorded, SpaceCounts
<1>4. ASSUME NEW p \in Rows
      PROVE  /\ Cardinality(EventsOf("createProject", p)) = IF home[p] # None THEN 1 ELSE 0
             /\ Cardinality(EventsOf("updateProject", p)) = version.project[p]
             /\ Cardinality(EventsOf("deleteProject", p)) <= 1
             /\ p \in projects \/ home[p] = None => EventsOf("deleteProject", p) = {}
             /\ p \notin projects /\ home[p] \in spaces => EventsOf("deleteProject", p) # {}
  <2>1. ProjectCounts(p)
    BY <1>1 DEF Recorded
  <2> QED
    BY <1>2, <2>1 DEF ProjectCounts
<1>5. ASSUME NEW e \in events
      PROVE  /\ e.space \in spaces \cup {None} /\ e.project \in projects \cup {None}
             /\ e.user = owner[IF e.type \in SpaceOps THEN e.about ELSE home[e.about]]
  <2>1. e.type \in SpaceOps \cup ProjectOps /\ Refer(e)
    BY <1>1 DEF Recorded, Tables, Event, Changes
  <2> QED
    BY <2>1 DEF Refer
<1>6. ASSUME NEW i \in Requests, On(i, "answered"), request[i].status = "OK", Op(i) \in Changes
      PROVE  Cardinality({e \in events : e.by = i}) = 1
  <2>1. PICK e \in events : e.by = i
    BY <1>1, <1>6 DEF Recorded, Told, On, Op
  <2>2. i # None
    BY WorkspaceAssumption DEF Requests, None
  <2>3. {f \in events : f.by = i} = {e}
    BY <1>1, <2>1, <2>2 DEF Recorded, Single
  <2> QED
    BY <2>3, FS_Singleton
<1> QED
  BY <1>3, <1>4, <1>5, <1>6 DEF AuditTrail

\* Every change of a space or a project is in the activity log exactly once, as its owner's,
\* and nothing else is, whichever requests overlap and whatever fails (lib/services/spaces.ts and
\* projects.ts, recordActivity in lib/analytics/events.ts), for any users and any number of requests.
THEOREM AuditTrailCorrect == Spec => []AuditTrail
BY LogTold, AuditCorrect, PTL

-----------------------------------------------------------------------------
(* Nobody waits in a ring *)

\* A request that is past its first statement waits only for the deletion of the space its
\* project is in, or, as that deletion, for such a project; the two are a deadlock that is found.
LEMMA TransactionMoves ==
    ASSUME AuditInv, NEW i \in Requests, InTransaction(i)
    PROVE  SomebodyUnblocked
<1>1. AllSound /\ Tables /\ Locked
  BY DEF AuditInv, ServiceInv
<1>2. \A k \in Requests : Placed(request[k])
  BY <1>1 DEF AllSound, Sound
<1>3. \A k \in Requests : InTransaction(k) => k \in InFlight /\ HasRow(request[k]) /\ request[k].op \in Changes
  BY <1>1, <1>2 DEF InTransaction, InFlight, Locked, Transaction, Placed
<1>4. \A k, j \in Requests : k # j /\ InTransaction(k) /\ InTransaction(j) => Apart(request[k], request[j])
  BY <1>1 DEF Locked, InTransaction, Transaction
<1>5. ASSUME NEW k \in Requests, InTransaction(k), On(k, "second"), ~EventFree(k)
      PROVE  \E j \in InFlight : Unblocked(j)
  <2>1. request[k].op \in ProjectWork /\ ~SpaceFree(k, home[request[k].row])
    BY <1>5 DEF EventFree, Op, ProjectWork
  <2>2. PICK j \in Others(k) : home[request[k].row] \in Deletes(j)
    BY <2>1 DEF SpaceFree, Op, ProjectWork
  <2>3. /\ j \in Requests /\ j # k /\ InTransaction(j)
        /\ request[j].op = "deleteSpace" /\ request[j].row = home[request[k].row]
    BY <2>2 DEF Others, Deletes, Op
  <2>4. On(j, "cascade")
    BY <1>4, <1>5, <2>1, <2>3 DEF Apart, InTransaction, On
  <2>5. Deadlocked(j)
    BY <1>5, <2>1, <2>3, <2>4 DEF Deadlocked, Others, Op, ProjectWork
  <2> QED
    BY <1>3, <2>3, <2>4, <2>5 DEF Unblocked
<1>6. ASSUME On(i, "cascade"), ~ContentsFree(i), ~Deadlocked(i)
      PROVE  FALSE
  <2>1. request[i].op = "deleteSpace"
    BY <1>2, <1>6 DEF Placed, On
  <2>2. PICK p \in projects : home[p] = request[i].row /\ ~ProjectFree(i, p)
    BY <1>6 DEF ContentsFree
  <2>3. PICK j \in Others(i) : p \in HoldsProjects(j)
    BY <2>2 DEF ProjectFree
  <2>4. j \in Requests /\ j # i /\ InTransaction(j)
    BY <2>3 DEF Others
  <2>5. Apart(request[i], request[j])
    BY <1>4, <2>4
  <2>6. CASE request[j].op \in ProjectWork
    <3>1. request[j].row = p
      BY <2>3, <2>6 DEF HoldsProjects, Op, ProjectWork
    <3>2. On(j, "second")
      BY <1>2, <2>4, <2>6 DEF InTransaction, On, Placed, ProjectWork
    <3> QED
      BY <1>6, <2>2, <2>3, <2>6, <3>1, <3>2 DEF Deadlocked, Op, ProjectWork
  <2>7. CASE request[j].op \notin ProjectWork
    <3>1. request[j].op = "deleteSpace" /\ home[p] = request[j].row
      BY <2>3, <2>7 DEF HoldsProjects, Op, ProjectWork
    <3> QED
      BY <2>1, <2>2, <2>5, <3>1 DEF Apart
  <2> QED
    BY <2>6, <2>7
<1> QED
  BY <1>3, <1>5, <1>6 DEF SomebodyUnblocked, Unblocked, InTransaction, On

\* A request at its first statement waits only for requests that are past theirs.
LEMMA SomebodyGoesOn == AuditInv => SomebodyUnblocked
<1> SUFFICES ASSUME AuditInv, NEW i \in InFlight, ~Unblocked(i) PROVE SomebodyUnblocked
  BY DEF SomebodyUnblocked
<1>1. i \in Requests
  BY DEF InFlight
<1>2. CASE InTransaction(i)
  BY <1>1, <1>2, TransactionMoves
<1>3. CASE ~InTransaction(i)
  <2>1. On(i, "first") /\ ~RowFree(i)
    BY <1>3 DEF Unblocked, InTransaction, On
  <2>2. PICK j \in Others(i) : TRUE
    BY <2>1 DEF RowFree, SpaceFree, ProjectFree
  <2> QED
    BY <2>2, TransactionMoves DEF Others
<1> QED
  BY <1>2, <1>3

\* Requests that change spaces and projects never wait for one another in a ring that the
\* database does not break: while any request is in flight, one is not kept from going on by the
\* others (lib/services/spaces.ts and projects.ts), for any users and any number of requests.
THEOREM SomebodyUnblockedCorrect == Spec => []SomebodyUnblocked
BY SomebodyGoesOn, AuditCorrect, PTL
=============================================================================
