---------------------------- MODULE LibraryProofs ----------------------------
(***************************************************************************)
(* Theorems about parts of the library that share no state: AiCalls,        *)
(* EvalRun, Fixture, QuizBuilder and Concepts, whose lemmas are here, and   *)
(* Forms, AdminDesk, Storage, Reading, Timing and Prompts, whose lemmas are *)
(* in PartProofs.                                                           *)
(* Each part has its invariant, with a lemma for its beginning, one for its *)
(* steps and one for what it means; the theorems at the end are about the   *)
(* specification the parts are checked in.                                  *)
(***************************************************************************)
EXTENDS MCLibrary, PartProofs

-----------------------------------------------------------------------------
(* The calls of models *)

RowDue == {"load", "ask", "record"}   \* a row is due
Busy == {p \in Callers : call[p].at \notin {"idle", "continue"}}
Calls == [at : {"idle", "continue"} \cup RowDue, kind : Kinds, key : Keys \cup {NoKey}, tries : Nat,
          result : Results]
CallsTyped ==
    /\ call \in [Callers -> Calls] /\ IsFiniteSet(Busy)
    /\ telemetry \in [success : Nat, failed : Nat, paid : Nat, lost : Nat]
    /\ made \in [calls : Nat, good : Nat, bad : Nat, dead : Nat]
CallsInv == CallsTyped /\ RowPerCall /\ OneLoad

\* Before any call nothing is owed and no model is loaded.
LEMMA CallsStart == CallsInit => CallsInv
<1> SUFFICES ASSUME CallsInit PROVE CallsInv
  OBVIOUS
<1>1. Uncalled \in Calls /\ Uncalled.at = "idle"
  BY DEF Uncalled, Calls, Kinds, Results
<1>2. Busy = {} /\ IsFiniteSet(Busy) /\ UnderWay = 0
  <2>1. Busy = {}
    BY <1>1 DEF CallsInit, Busy
  <2> QED
    BY <2>1, FS_EmptySet DEF UnderWay, Busy
<1>3. CallsTyped
  BY <1>1, <1>2 DEF CallsInit, CallsTyped
<1> QED
  BY <1>1, <1>2, <1>3 DEF CallsInit, CallsInv, RowPerCall, OneLoad

\* A call that goes on is still under way.
LEMMA CallGoesOn ==
    ASSUME CallsInv, NEW p \in Callers, NEW c \in Calls, call[p].at \in RowDue, c.at \in RowDue,
           call' = [call EXCEPT ![p] = c]
    PROVE  /\ call' \in [Callers -> Calls] /\ call'[p] = c /\ \A q \in Callers : q # p => call'[q] = call[q]
           /\ Busy' = Busy /\ IsFiniteSet(Busy') /\ UnderWay' = UnderWay
<1>1. call \in [Callers -> Calls] /\ IsFiniteSet(Busy)
  BY DEF CallsInv, CallsTyped
<1>3. call' \in [Callers -> Calls] /\ call'[p] = c /\ \A q \in Callers : q # p => call'[q] = call[q]
  BY <1>1
<1>4. Busy' = Busy
  BY <1>3 DEF Busy, RowDue
<1> QED
  BY <1>1, <1>3, <1>4 DEF UnderWay, Busy

\* One more, or one less.
LEMMA Counted ==
    ASSUME CallsInv, NEW p \in Callers, NEW c \in Calls, call' = [call EXCEPT ![p] = c]
    PROVE  /\ call' \in [Callers -> Calls] /\ call'[p] = c /\ \A q \in Callers : q # p => call'[q] = call[q]
           /\ IsFiniteSet(Busy') /\ UnderWay \in Nat
           /\ call[p].at = "idle" /\ c.at \in RowDue => UnderWay' = UnderWay + 1
           /\ call[p].at \in RowDue /\ c.at = "continue" => UnderWay' = UnderWay - 1
           /\ call[p].at = "continue" /\ c.at = "idle" => UnderWay' = UnderWay
<1>1. call \in [Callers -> Calls] /\ IsFiniteSet(Busy)
  BY DEF CallsInv, CallsTyped
<1>2. call' \in [Callers -> Calls] /\ call'[p] = c /\ \A q \in Callers : q # p => call'[q] = call[q]
  BY <1>1
<1>3. Busy' = IF c.at \in {"idle", "continue"} THEN Busy \ {p} ELSE Busy \cup {p}
  BY <1>2 DEF Busy
<1>4. UnderWay = Cardinality(Busy) /\ UnderWay' = Cardinality(Busy')
  BY DEF UnderWay, Busy
<1>5. /\ p \in Busy <=> call[p].at \notin {"idle", "continue"}
      /\ RowDue \cap {"idle", "continue"} = {}
  BY DEF Busy, RowDue
<1> QED
  BY <1>1, <1>2, <1>3, <1>4, <1>5, FS_AddElement, FS_RemoveElement, FS_CardinalityType

\* Every step of a call keeps its row, and the one load of the local model.
LEMMA CallsMove == CallsInv /\ [CallsNext]_callVars => CallsInv'
<1> SUFFICES ASSUME CallsInv, [CallsNext]_callVars PROVE CallsInv'
  OBVIOUS
<1>1. /\ CallsTyped /\ RowPerCall /\ OneLoad /\ IsFiniteSet(Busy) /\ call \in [Callers -> Calls]
      /\ UnderWay \in Nat
  <2>1. CallsTyped /\ RowPerCall /\ OneLoad /\ IsFiniteSet(Busy) /\ call \in [Callers -> Calls]
    BY DEF CallsInv, CallsTyped
  <2> QED
    BY <2>1, FS_CardinalityType DEF UnderWay, Busy
<1>2. ASSUME UNCHANGED <<call, extractor, telemetry, made>> PROVE CallsInv'
  BY <1>1, <1>2 DEF CallsInv, CallsTyped, RowPerCall, OneLoad, Busy, UnderWay, Embeds
<1>3. ASSUME NEW p \in Callers, NEW kind \in Kinds, NEW key \in Keys \cup {NoKey}, StartCall(p, kind, key)
      PROVE  CallsInv'
  <2> DEFINE c == [Uncalled EXCEPT !.kind = kind, !.key = key,
                   !.at = IF kind \in {"query", "batch"} /\ LocalModel THEN "load" ELSE "ask"]
  <2>1. /\ c \in Calls /\ c.at \in RowDue /\ call[p].at = "idle" /\ call' = [call EXCEPT ![p] = c]
        /\ c.at = "load" \/ (c.at = "ask" /\ ~(c.kind \in {"query", "batch"} /\ LocalModel))
    <3>1. call[p].at = "idle" /\ call' = [call EXCEPT ![p] = c]
      BY <1>3 DEF StartCall, Uncalled
    <3>2. /\ c.at = IF kind \in {"query", "batch"} /\ LocalModel THEN "load" ELSE "ask"
          /\ c \in [at : {"load", "ask"}, kind : Kinds, key : Keys \cup {NoKey}, tries : Nat, result : {"error"}]
          /\ c.kind = kind
      BY DEF Uncalled
    <3> HIDE DEF c
    <3>3. c \in Calls /\ c.at \in RowDue
      BY <3>2 DEF Calls, RowDue, Results
    <3> QED
      BY <3>1, <3>2, <3>3
  <2> HIDE DEF c
  <2>2. /\ call' \in [Callers -> Calls] /\ call'[p] = c /\ \A q \in Callers : q # p => call'[q] = call[q]
        /\ IsFiniteSet(Busy') /\ UnderWay' = UnderWay + 1
    BY <2>1, Counted
  <2>3. /\ made' = [made EXCEPT !.calls = @ + 1] /\ UNCHANGED <<extractor, telemetry>>
    BY <1>3 DEF StartCall
  <2>4. CallsTyped' /\ RowPerCall'
    BY <1>1, <2>2, <2>3 DEF CallsTyped, RowPerCall
  <2>5. OneLoad'
    BY <1>1, <2>1, <2>2, <2>3 DEF OneLoad, Embeds
  <2> QED
    BY <2>4, <2>5 DEF CallsInv
<1>4. ASSUME NEW p \in Callers, AwaitModel(p) \/ TransientError(p) \/ ModelAnswers(p)
      PROVE  CallsInv'
  <2>1. UNCHANGED <<telemetry, made>>
    BY <1>4 DEF AwaitModel, TransientError, ModelAnswers
  <2>2. CASE UNCHANGED call /\ extractor = "none" /\ extractor' = "loading"
    <3>1. Busy' = Busy /\ UnderWay' = UnderWay
      BY <2>2 DEF Busy, UnderWay
    <3> QED
      BY <1>1, <2>1, <2>2, <3>1 DEF CallsInv, CallsTyped, RowPerCall, OneLoad, Embeds
  <2>3. ASSUME NEW c \in Calls, call' = [call EXCEPT ![p] = c], UNCHANGED extractor,
               call[p].at \in RowDue, c.at \in RowDue, c.kind = call[p].kind,
               \/ c.at = "ask" /\ (extractor = "loaded" \/ call[p].at = "ask")
               \/ c.at = "record" /\ (c.result = "error" \/ call[p].at = "ask")
        PROVE  CallsInv'
    <3>1. /\ call' \in [Callers -> Calls] /\ call'[p] = c /\ \A q \in Callers : q # p => call'[q] = call[q]
          /\ Busy' = Busy /\ IsFiniteSet(Busy') /\ UnderWay' = UnderWay
      BY <2>3, CallGoesOn
    <3>2. CallsTyped' /\ RowPerCall'
      BY <1>1, <2>1, <3>1 DEF CallsTyped, RowPerCall
    <3>3. OneLoad'
      BY <1>1, <2>3, <3>1 DEF OneLoad, Embeds
    <3> QED
      BY <3>2, <3>3 DEF CallsInv
  <2>4. CASE AwaitModel(p)
    <3>1. CASE extractor = "none"
      BY <2>2, <2>4, <3>1 DEF AwaitModel
    <3>2. CASE extractor = "loaded"
      <4> DEFINE c == [call[p] EXCEPT !.at = "ask"]
      <4>1. c \in Calls /\ c.at = "ask" /\ c.at \in RowDue /\ c.kind = call[p].kind
        BY <1>1 DEF Calls, RowDue
      <4>2. call' = [call EXCEPT ![p] = c] /\ UNCHANGED extractor /\ call[p].at = "load" /\ call[p].at \in RowDue
        BY <2>4, <3>2 DEF AwaitModel, RowDue
      <4> QED
        BY <2>3, <3>2, <4>1, <4>2
    <3>3. CASE extractor = "failed"
      <4> DEFINE c == [call[p] EXCEPT !.at = "record", !.result = "error"]
      <4>1. c \in Calls /\ c.at = "record" /\ c.at \in RowDue /\ c.kind = call[p].kind /\ c.result = "error"
        BY <1>1 DEF Calls, Results, RowDue
      <4>2. call' = [call EXCEPT ![p] = c] /\ UNCHANGED extractor /\ call[p].at \in RowDue
        BY <1>1, <2>4, <3>3 DEF AwaitModel, RowDue
      <4> QED
        BY <2>3, <4>1, <4>2
    <3> QED
      BY <2>4, <3>1, <3>2, <3>3 DEF AwaitModel
  <2>5. CASE TransientError(p)
    <3>1. call[p].at = "ask" /\ call[p].at \in RowDue /\ call[p] \in Calls /\ UNCHANGED extractor
      BY <1>1, <2>5 DEF TransientError, RowDue
    <3>2. CASE call[p].tries + 1 < SdkTries
      <4> DEFINE c == [call[p] EXCEPT !.tries = @ + 1]
      <4>1. c \in Calls /\ c.kind = call[p].kind /\ c.at = "ask" /\ c.at \in RowDue
        BY <3>1 DEF Calls
      <4>2. call' = [call EXCEPT ![p] = c]
        BY <1>1, <2>5, <3>2 DEF TransientError
      <4> QED
        BY <2>3, <3>1, <4>1, <4>2
    <3>3. CASE ~(call[p].tries + 1 < SdkTries)
      <4> DEFINE c == [call[p] EXCEPT !.at = "record", !.result = "error"]
      <4>1. c \in Calls /\ c.kind = call[p].kind /\ c.at = "record" /\ c.at \in RowDue /\ c.result = "error"
        BY <3>1 DEF Calls, Results, RowDue
      <4>2. call' = [call EXCEPT ![p] = c]
        BY <1>1, <2>5, <3>3 DEF TransientError
      <4> QED
        BY <2>3, <3>1, <4>1, <4>2
    <3> QED
      BY <3>2, <3>3
  <2>6. CASE ModelAnswers(p)
    <3>1. PICK result \in ResultsOf(call[p].kind) :
             call' = [call EXCEPT ![p].at = "record", ![p].result = result]
      BY <2>6 DEF ModelAnswers
    <3> DEFINE c == [call[p] EXCEPT !.at = "record", !.result = result]
    <3>2. result \in Results
      BY DEF ResultsOf, Results
    <3>3. c \in Calls /\ c.kind = call[p].kind /\ c.at = "record" /\ c.at \in RowDue
      BY <1>1, <3>2 DEF Calls, RowDue
    <3>4. call' = [call EXCEPT ![p] = c] /\ UNCHANGED extractor /\ call[p].at = "ask" /\ call[p].at \in RowDue
      BY <1>1, <2>6, <3>1 DEF ModelAnswers, RowDue
    <3> QED
      BY <2>3, <3>3, <3>4
  <2> QED
    BY <1>4, <2>4, <2>5, <2>6
<1>5. ASSUME NEW p \in Callers, RecordCall(p) PROVE CallsInv'
  <2> DEFINE c == [call[p] EXCEPT !.at = "continue"]
  <2>1. /\ call[p].at = "record" /\ call' = [call EXCEPT ![p] = c] /\ UNCHANGED extractor
        /\ RecordRequest(call[p].result)
        /\ made' = IF call[p].result = "good" THEN [made EXCEPT !.good = @ + 1] ELSE [made EXCEPT !.bad = @ + 1]
    BY <1>1, <1>5 DEF RecordCall
  <2>2. c \in Calls /\ call[p].at \in RowDue /\ c.at = "continue" /\ c.kind = call[p].kind /\ c.result = call[p].result
    BY <1>1, <2>1 DEF Calls, RowDue
  <2> HIDE DEF c
  <2>3. /\ call' \in [Callers -> Calls] /\ call'[p] = c /\ \A q \in Callers : q # p => call'[q] = call[q]
        /\ IsFiniteSet(Busy') /\ UnderWay' = UnderWay - 1
    BY <2>1, <2>2, Counted
  <2>4. CallsTyped' /\ RowPerCall'
    <3>1. Priced \in BOOLEAN
      BY CallAssumption
    <3>2. CASE call[p].result = "good"
      <4>1. \/ telemetry' = [telemetry EXCEPT !.success = @ + 1, !.paid = IF Priced THEN @ + 1 ELSE @]
            \/ telemetry' = [telemetry EXCEPT !.lost = @ + 1]
        BY <2>1, <3>2 DEF RecordRequest
      <4>2. made' = [made EXCEPT !.good = @ + 1]
        BY <2>1, <3>2
      <4>3. telemetry = [success |-> telemetry.success, failed |-> telemetry.failed,
                         paid |-> telemetry.paid, lost |-> telemetry.lost]
        BY <1>1 DEF CallsTyped
      <4>4. \/ Priced /\ telemetry' = [success |-> telemetry.success + 1, failed |-> telemetry.failed,
                                       paid |-> telemetry.paid + 1, lost |-> telemetry.lost]
            \/ ~Priced /\ telemetry' = [success |-> telemetry.success + 1, failed |-> telemetry.failed,
                                        paid |-> telemetry.paid, lost |-> telemetry.lost]
            \/ telemetry' = [telemetry EXCEPT !.lost = @ + 1]
        <5>1. CASE Priced
          BY <4>1, <4>3, <5>1
        <5>2. CASE ~Priced
          BY <4>1, <4>3, <5>2
        <5> QED
          BY <3>1, <5>1, <5>2
      <4>5. CallsTyped'
        BY <1>1, <2>3, <4>2, <4>4 DEF CallsTyped
      <4>6. RowPerCall'
        BY <1>1, <2>3, <4>2, <4>4 DEF CallsTyped, RowPerCall
      <4> QED
        BY <4>5, <4>6
    <3>3. CASE call[p].result # "good"
      <4>1. \/ telemetry' = [telemetry EXCEPT !.failed = @ + 1]
            \/ telemetry' = [telemetry EXCEPT !.lost = @ + 1]
        BY <2>1, <3>3 DEF RecordRequest
      <4>2. made' = [made EXCEPT !.bad = @ + 1]
        BY <2>1, <3>3
      <4> QED
        BY <1>1, <2>3, <4>1, <4>2 DEF CallsTyped, RowPerCall
    <3> QED
      BY <3>2, <3>3
  <2>5. OneLoad'
    BY <1>1, <2>1, <2>2, <2>3 DEF OneLoad, Embeds
  <2> QED
    BY <2>4, <2>5 DEF CallsInv
<1>6. CASE ModelLoads
  <2>1. Busy' = Busy /\ UnderWay' = UnderWay /\ UNCHANGED <<call, telemetry, made>> /\ extractor = "loading"
    BY <1>6 DEF ModelLoads, Busy, UnderWay
  <2> QED
    BY <1>1, <2>1 DEF CallsInv, CallsTyped, RowPerCall, OneLoad, Embeds
<1>8. ASSUME NEW p \in Callers, CallEnds(p) PROVE CallsInv'
  <2>1. call[p].at = "continue" /\ call' = [call EXCEPT ![p] = Uncalled] /\ UNCHANGED <<extractor, telemetry, made>>
    BY <1>8 DEF CallEnds
  <2>2. Uncalled \in Calls /\ Uncalled.at = "idle"
    BY DEF Uncalled, Calls, Kinds, Results
  <2>3. /\ call' \in [Callers -> Calls] /\ call'[p] = Uncalled /\ \A q \in Callers : q # p => call'[q] = call[q]
        /\ IsFiniteSet(Busy') /\ UnderWay' = UnderWay
    BY <2>1, <2>2, Counted
  <2>4. CallsTyped' /\ RowPerCall'
    BY <1>1, <2>1, <2>3 DEF CallsTyped, RowPerCall
  <2>5. OneLoad'
    BY <1>1, <2>1, <2>2, <2>3 DEF OneLoad, Embeds
  <2> QED
    BY <2>4, <2>5 DEF CallsInv
<1>7. CASE ProcessRestarts
  <2>1. /\ made' = [made EXCEPT !.dead = @ + UnderWay] /\ call' = [p \in Callers |-> Uncalled]
        /\ UNCHANGED telemetry
    BY <1>7 DEF ProcessRestarts
  <2>2. Uncalled \in Calls /\ Uncalled.at = "idle"
    BY DEF Uncalled, Calls, Kinds, Results
  <2>3. Busy' = {}
    BY <2>1, <2>2 DEF Busy
  <2>4. IsFiniteSet(Busy') /\ UnderWay' = 0
    BY <2>3, FS_EmptySet DEF UnderWay, Busy
  <2> QED
    BY <1>1, <2>1, <2>2, <2>4 DEF CallsInv, CallsTyped, RowPerCall, OneLoad, Embeds
<1> QED
  BY <1>2, <1>3, <1>4, <1>5, <1>6, <1>7, <1>8 DEF CallsNext, CacheHit, callVars

-----------------------------------------------------------------------------
(* The cache *)

\* One sequence is the end of another.
Ends(s, t) == Len(s) <= Len(t) /\ \A i \in 1..Len(s) : s[i] = t[i + Len(t) - Len(s)]

\* To be the end of a sequence, by positions, is to be its suffix.
LEMMA EndsMeans ==
    ASSUME NEW S, NEW s \in Seq(S), NEW t \in Seq(S), Ends(s, t)
    PROVE  IsSuffix(s, t)
<1> DEFINE r == Reverse(s)
           q == Reverse(t)
<1>1. Len(s) \in Nat /\ Len(t) \in Nat /\ Len(s) <= Len(t)
  BY DEF Ends
<1>2. /\ r \in Seq(S) /\ Len(r) = Len(s) /\ \A i \in 1..Len(s) : r[i] = s[Len(s) - i + 1]
      /\ q \in Seq(S) /\ Len(q) = Len(t) /\ \A i \in 1..Len(t) : q[i] = t[Len(t) - i + 1]
  BY <1>1 DEF Reverse
<1>3. ASSUME NEW i \in 1..Len(s) PROVE r[i] = q[i]
  <2>1. Len(s) - i + 1 \in 1..Len(s) /\ i \in 1..Len(t)
    BY <1>1
  <2>2. s[Len(s) - i + 1] = t[(Len(s) - i + 1) + Len(t) - Len(s)]
    BY <2>1 DEF Ends
  <2>3. (Len(s) - i + 1) + Len(t) - Len(s) = Len(t) - i + 1
    BY <1>1
  <2> QED
    BY <1>2, <2>1, <2>2, <2>3
<1> HIDE DEF r, q
<1>4. SubSeq(r, 1, Len(r)) = SubSeq(q, 1, Len(r))
  BY <1>1, <1>2, <1>3
<1> QED
  BY <1>1, <1>2, <1>4 DEF IsSuffix, IsPrefix, r, q

\* An entry is taken from its place to the end.
LEMMA MovedToEnd ==
    ASSUME NEW S, NEW s \in Seq(S), IsInjective(s), NEW j \in 1..Len(s)
    PROVE  LET m == Moved(s, s[j]) IN
           /\ m \in Seq(S) /\ Len(m) = Len(s) /\ m[Len(s)] = s[j]
           /\ \A i \in 1..(j - 1) : m[i] = s[i]
           /\ \A i \in j..(Len(s) - 1) : m[i] = s[i + 1]
<1> DEFINE I == {i \in 1..Len(s) : s[i] = s[j]}
           b == SubSeq(s, 1, j - 1) \o SubSeq(s, j + 1, Len(s))
<1>1. I = {j}
  BY DEF IsInjective
<1>2. Min(I) = j
  BY <1>1 DEF Min
<1>3. SelectInSeq(s, LAMBDA v : v = s[j]) = j
  BY <1>1, <1>2 DEF SelectInSeq
<1>4. RemoveFirst(s, s[j]) = b
  BY <1>3 DEF RemoveFirst, RemoveAt
<1> DEFINE p == SubSeq(s, 1, j - 1)
           q == SubSeq(s, j + 1, Len(s))
<1>5. p \in Seq(S) /\ Len(p) = j - 1 /\ \A i \in 1..(j - 1) : p[i] = s[i]
  OBVIOUS
<1>6. q \in Seq(S) /\ Len(q) = Len(s) - j /\ \A i \in 1..(Len(s) - j) : q[i] = s[j + i]
  OBVIOUS
<1> HIDE DEF p, q
<1>7. b = p \o q
  BY DEF p, q
<1> HIDE DEF b
<1>8. b \in Seq(S) /\ Len(b) = Len(s) - 1 /\ \A i \in 1..(j - 1) : b[i] = s[i]
  BY <1>5, <1>6, <1>7
<1>9. ASSUME NEW i \in j..(Len(s) - 1) PROVE b[i] = s[i + 1]
  <2>1. i - (j - 1) \in 1..(Len(s) - j) /\ j + (i - (j - 1)) = i + 1
    OBVIOUS
  <2>2. b[i] = q[i - (j - 1)]
    BY <1>5, <1>6, <1>7, <2>1
  <2> QED
    BY <1>6, <2>1, <2>2
<1>10. Moved(s, s[j]) = Append(b, s[j])
  BY <1>4 DEF Moved
<1> QED
  BY <1>8, <1>9, <1>10

\* A key that becomes the newest is still there once.
LEMMA MovedStaysInjective ==
    ASSUME NEW S, NEW s \in Seq(S), IsInjective(s), NEW key \in S
    PROVE  Moved(s, key) \in Seq(S) /\ IsInjective(Moved(s, key))
<1>1. CASE \E j \in 1..Len(s) : s[j] = key
  <2>1. PICK j \in 1..Len(s) : s[j] = key
    BY <1>1
  <2> DEFINE m == Moved(s, key)
  <2>2. /\ m \in Seq(S) /\ Len(m) = Len(s) /\ m[Len(s)] = s[j]
        /\ \A i \in 1..(j - 1) : m[i] = s[i]
        /\ \A i \in j..(Len(s) - 1) : m[i] = s[i + 1]
    BY <2>1, MovedToEnd
  <2> HIDE DEF m
  <2>3. Len(s) \in Nat /\ DOMAIN m = 1..Len(s) /\ DOMAIN s = 1..Len(s)
    BY <2>2
  <2> DEFINE was(i) == IF i < j THEN i ELSE IF i < Len(s) THEN i + 1 ELSE j
  <2>4. ASSUME NEW i \in 1..Len(s) PROVE was(i) \in 1..Len(s) /\ m[i] = s[was(i)]
    BY <2>2, <2>3
  <2>5. ASSUME NEW a \in 1..Len(s), NEW b \in 1..Len(s), m[a] = m[b] PROVE a = b
    <3>1. was(a) = was(b)
      BY <2>3, <2>4, <2>5 DEF IsInjective
    <3> QED
      BY <2>3, <3>1
  <2> QED
    BY <2>2, <2>3, <2>5 DEF IsInjective, m
<1>2. CASE ~\E j \in 1..Len(s) : s[j] = key
  <2>1. Moved(s, key) = Append(s, key)
    BY <1>2 DEF Moved, RemoveFirst
  <2> QED
    BY <1>2, <2>1 DEF IsInjective
<1> QED
  BY <1>1, <1>2

\* The cache is the end of the texts in the order of their use.
CacheInv ==
    /\ cache \in Seq(Keys) /\ lastUse \in Seq(Keys)
    /\ Len(cache) <= CacheLimit /\ IsInjective(cache) /\ IsInjective(lastUse)
    /\ Ends(cache, lastUse)

\* A hit keeps the cache the end of the order of use.
LEMMA HitKeeps ==
    ASSUME CacheInv, NEW key \in Keys, Contains(cache, key),
           cache' = Moved(cache, key), lastUse' = Moved(lastUse, key)
    PROVE  CacheInv'
<1> DEFINE e == Len(lastUse) - Len(cache)
<1>1. /\ Len(cache) \in Nat /\ Len(lastUse) \in Nat /\ e \in Nat /\ Len(lastUse) = Len(cache) + e
      /\ \A i \in 1..Len(cache) : cache[i] = lastUse[i + e]
  BY DEF CacheInv, Ends
<1> HIDE DEF e
<1>2. PICK j \in 1..Len(cache) : cache[j] = key
  BY DEF Contains
<1>3. j + e \in 1..Len(lastUse) /\ lastUse[j + e] = key
  BY <1>1, <1>2
<1>4. /\ cache' \in Seq(Keys) /\ Len(cache') = Len(cache) /\ cache'[Len(cache)] = key
      /\ \A i \in 1..(j - 1) : cache'[i] = cache[i]
      /\ \A i \in j..(Len(cache) - 1) : cache'[i] = cache[i + 1]
  BY <1>2, MovedToEnd DEF CacheInv
<1>5. /\ lastUse' \in Seq(Keys) /\ Len(lastUse') = Len(lastUse) /\ lastUse'[Len(lastUse)] = key
      /\ \A i \in 1..((j + e) - 1) : lastUse'[i] = lastUse[i]
      /\ \A i \in (j + e)..(Len(lastUse) - 1) : lastUse'[i] = lastUse[i + 1]
  BY <1>3, MovedToEnd DEF CacheInv
<1>6. ASSUME NEW i \in 1..Len(cache) PROVE cache'[i] = lastUse'[i + e]
  <2>1. CASE i < j
    BY <1>1, <1>4, <1>5, <2>1
  <2>2. CASE i >= j /\ i < Len(cache)
    <3>1. i + e \in (j + e)..(Len(lastUse) - 1) /\ i + 1 \in 1..Len(cache) /\ (i + e) + 1 = (i + 1) + e
      BY <1>1, <2>2
    <3> QED
      BY <1>1, <1>4, <1>5, <2>2, <3>1
  <2>3. CASE i = Len(cache)
    BY <1>1, <1>4, <1>5, <2>3
  <2> QED
    BY <1>1, <2>1, <2>2, <2>3
<1>7. Ends(cache', lastUse')
  <2>1. \A i \in 1..Len(cache') : i + Len(lastUse') - Len(cache') = i + e
    BY <1>1, <1>4, <1>5
  <2> QED
    BY <1>1, <1>4, <1>5, <1>6, <2>1 DEF Ends
<1>8. IsInjective(cache') /\ IsInjective(lastUse')
  BY MovedStaysInjective DEF CacheInv
<1> QED
  BY <1>4, <1>5, <1>7, <1>8 DEF CacheInv

\* A write that evicts the oldest keeps the cache the end of the order of use.
LEMMA WriteKeeps ==
    ASSUME CacheInv, NEW key \in Keys, ~Contains(cache, key),
           cache' = WriteCached(cache, key), lastUse' = Moved(lastUse, key)
    PROVE  CacheInv'
<1> DEFINE n == Len(cache)
           longer == Append(cache, key)
<1>1. /\ n \in Nat /\ Len(lastUse) \in Nat /\ n <= Len(lastUse) /\ CacheLimit \in Nat \ {0}
      /\ \A i \in 1..n : cache[i] = lastUse[i + Len(lastUse) - n]
  BY CallAssumption DEF CacheInv, Ends
<1>2. lastUse' \in Seq(Keys) /\ IsInjective(lastUse')
  BY MovedStaysInjective DEF CacheInv
<1>3. longer \in Seq(Keys) /\ Len(longer) = n + 1 /\ longer[n + 1] = key /\ \A i \in 1..n : longer[i] = cache[i]
  BY <1>1 DEF CacheInv
<1>4. IsInjective(longer)
  BY <1>1, <1>3 DEF IsInjective, Contains, CacheInv
<1>5. /\ Len(lastUse') \in Nat /\ n + 1 <= Len(lastUse') /\ lastUse'[Len(lastUse')] = key
      /\ \A i \in 1..n : lastUse'[i + Len(lastUse') - (n + 1)] = cache[i]
  <2>1. CASE \E j \in 1..Len(lastUse) : lastUse[j] = key
    <3>1. PICK j \in 1..Len(lastUse) : lastUse[j] = key
      BY <2>1
    <3>2. /\ Len(lastUse') = Len(lastUse) /\ lastUse'[Len(lastUse)] = key
          /\ \A i \in j..(Len(lastUse) - 1) : lastUse'[i] = lastUse[i + 1]
      BY <3>1, MovedToEnd DEF CacheInv
    <3>3. j <= Len(lastUse) - n
      <4>1. SUFFICES ASSUME j > Len(lastUse) - n PROVE FALSE
        BY <1>1
      <4>2. j - (Len(lastUse) - n) \in 1..n /\ (j - (Len(lastUse) - n)) + Len(lastUse) - n = j
        BY <1>1, <4>1
      <4> QED
        BY <1>1, <3>1, <4>2 DEF Contains
    <3>4. ASSUME NEW i \in 1..n PROVE lastUse'[i + Len(lastUse') - (n + 1)] = cache[i]
      <4>1. /\ i + Len(lastUse) - (n + 1) \in j..(Len(lastUse) - 1)
            /\ (i + Len(lastUse) - (n + 1)) + 1 = i + Len(lastUse) - n
        BY <1>1, <3>3
      <4> QED
        BY <1>1, <3>2, <4>1
    <3> QED
      BY <1>1, <3>2, <3>3, <3>4
  <2>2. CASE ~\E j \in 1..Len(lastUse) : lastUse[j] = key
    <3>1. lastUse' = Append(lastUse, key)
      BY <2>2 DEF Moved, RemoveFirst
    <3>2. /\ Len(lastUse') = Len(lastUse) + 1 /\ lastUse'[Len(lastUse) + 1] = key
          /\ \A i \in 1..Len(lastUse) : lastUse'[i] = lastUse[i]
      BY <1>1, <3>1 DEF CacheInv
    <3>3. ASSUME NEW i \in 1..n PROVE lastUse'[i + Len(lastUse') - (n + 1)] = cache[i]
      <4>1. i + Len(lastUse) - n \in 1..Len(lastUse) /\ i + (Len(lastUse) + 1) - (n + 1) = i + Len(lastUse) - n
        BY <1>1
      <4> QED
        BY <1>1, <3>2, <4>1
    <3> QED
      BY <1>1, <3>2, <3>3
  <2> QED
    BY <2>1, <2>2
<1>6. Ends(longer, lastUse')
  <2>1. ASSUME NEW i \in 1..(n + 1) PROVE longer[i] = lastUse'[i + Len(lastUse') - (n + 1)]
    <3>1. CASE i = n + 1
      <4>1. i + Len(lastUse') - (n + 1) = Len(lastUse')
        BY <1>1, <1>5, <3>1
      <4> QED
        BY <1>3, <1>5, <3>1, <4>1
    <3>2. CASE i \in 1..n
      BY <1>3, <1>5, <3>2
    <3> QED
      BY <1>1, <3>1, <3>2
  <2> QED
    BY <1>3, <1>5, <2>1 DEF Ends
<1>7. cache' = IF n + 1 <= CacheLimit THEN longer ELSE Tail(longer)
  BY <1>3 DEF WriteCached
<1> HIDE DEF longer, n
<1>8. CASE n + 1 <= CacheLimit
  BY <1>1, <1>2, <1>3, <1>4, <1>6, <1>7, <1>8 DEF CacheInv
<1>9. CASE ~(n + 1 <= CacheLimit)
  <2>1. /\ cache' \in Seq(Keys) /\ Len(cache') = n
        /\ \A i \in 1..n : cache'[i] = longer[i + 1]
    BY <1>1, <1>3, <1>7, <1>9
  <2>2. Len(cache') <= CacheLimit
    BY <2>1 DEF CacheInv, n
  <2>3. IsInjective(cache')
    <3>1. DOMAIN cache' = 1..n /\ DOMAIN longer = 1..(n + 1)
      BY <1>1, <1>3, <2>1
    <3>2. ASSUME NEW a \in 1..n, NEW b \in 1..n, cache'[a] = cache'[b] PROVE a = b
      <4>1. a + 1 \in 1..(n + 1) /\ b + 1 \in 1..(n + 1) /\ longer[a + 1] = longer[b + 1]
        BY <1>1, <2>1, <3>2
      <4>2. a + 1 = b + 1
        BY <1>4, <3>1, <4>1 DEF IsInjective
      <4> QED
        BY <1>1, <4>2
    <3> QED
      BY <3>1, <3>2 DEF IsInjective
  <2>4. Ends(cache', lastUse')
    <3>1. ASSUME NEW i \in 1..n PROVE cache'[i] = lastUse'[i + Len(lastUse') - n]
      <4>1. i + 1 \in 1..(n + 1) /\ (i + 1) + Len(lastUse') - (n + 1) = i + Len(lastUse') - n
        BY <1>1, <1>5
      <4>2. longer[i + 1] = lastUse'[(i + 1) + Len(lastUse') - (n + 1)]
        BY <1>3, <1>6, <4>1 DEF Ends
      <4> QED
        BY <2>1, <4>1, <4>2
    <3> QED
      BY <1>1, <1>5, <2>1, <3>1 DEF Ends
  <2> QED
    BY <1>2, <2>1, <2>2, <2>3, <2>4 DEF CacheInv
<1> QED
  BY <1>8, <1>9

\* A query has a text to embed.
Keyed == \A p \in Callers : call[p].kind = "query" => call[p].key \in Keys

\* An empty cache is the end of no uses.
LEMMA CacheStart == CallsInit => Keyed /\ CacheInv
<1> SUFFICES ASSUME CallsInit PROVE Keyed /\ CacheInv
  OBVIOUS
<1>1. Keyed
  BY DEF CallsInit, Keyed, Uncalled
<1>2. cache = <<>> /\ lastUse = <<>> /\ CacheLimit \in Nat
  BY CallAssumption DEF CallsInit
<1> QED
  BY <1>1, <1>2 DEF CacheInv, IsInjective, Ends

\* Every step of a call keeps the cache the end of the order of use.
LEMMA CacheMove == CallsInv /\ Keyed /\ CacheInv /\ [CallsNext]_callVars => Keyed' /\ CacheInv'
<1> SUFFICES ASSUME CallsInv, Keyed, CacheInv, [CallsNext]_callVars PROVE Keyed' /\ CacheInv'
  OBVIOUS
<1>1. call \in [Callers -> Calls]
  BY DEF CallsInv, CallsTyped
<1>2. ASSUME UNCHANGED <<cache, lastUse>> PROVE CacheInv'
  BY <1>2 DEF CacheInv, Ends, IsInjective
<1>3. ASSUME UNCHANGED call PROVE Keyed'
  BY <1>3 DEF Keyed
<1>4. ASSUME NEW p \in Callers, NEW c, call' = [call EXCEPT ![p] = c], c.kind = "query" => c.key \in Keys
      PROVE  Keyed'
  BY <1>1, <1>4 DEF Keyed
<1>5. Uncalled.kind # "query"
  BY DEF Uncalled
<1>6. CASE UNCHANGED callVars
  BY <1>2, <1>3, <1>6 DEF callVars
<1>7. ASSUME NEW key \in Keys, CacheHit(key) PROVE Keyed' /\ CacheInv'
  <2>1. /\ Contains(cache, key) /\ cache' = Moved(cache, key) /\ lastUse' = Moved(lastUse, key)
        /\ UNCHANGED call
    BY <1>7 DEF CacheHit
  <2> QED
    BY <1>3, <2>1, HitKeeps
<1>8. ASSUME NEW p \in Callers, NEW kind \in Kinds, NEW key \in Keys \cup {NoKey}, StartCall(p, kind, key)
      PROVE  Keyed' /\ CacheInv'
  <2> DEFINE c == [Uncalled EXCEPT !.kind = kind, !.key = key,
                   !.at = IF kind \in {"query", "batch"} /\ LocalModel THEN "load" ELSE "ask"]
  <2>1. call' = [call EXCEPT ![p] = c] /\ (kind = "query" => key \in Keys) /\ UNCHANGED <<cache, lastUse>>
    BY <1>8 DEF StartCall
  <2>2. c.kind = kind /\ c.key = key
    BY DEF Uncalled
  <2> HIDE DEF c
  <2> QED
    BY <1>2, <1>4, <2>1, <2>2
<1>9. ASSUME NEW p \in Callers, AwaitModel(p) \/ TransientError(p) \/ ModelAnswers(p)
      PROVE  Keyed' /\ CacheInv'
  <2>1. UNCHANGED <<cache, lastUse>>
    BY <1>9 DEF AwaitModel, TransientError, ModelAnswers
  <2>2. \A q \in Callers : call'[q].kind = call[q].kind /\ call'[q].key = call[q].key
    <3>1. CASE AwaitModel(p)
      BY <1>1, <3>1 DEF AwaitModel, Calls
    <3>2. CASE TransientError(p)
      BY <1>1, <3>2 DEF TransientError, Calls
    <3>3. CASE ModelAnswers(p)
      BY <1>1, <3>3 DEF ModelAnswers, Calls
    <3> QED
      BY <1>9, <3>1, <3>2, <3>3
  <2>3. Keyed'
    BY <2>2 DEF Keyed
  <2> QED
    BY <1>2, <2>1, <2>3
<1>10. ASSUME NEW p \in Callers, CallEnds(p) PROVE Keyed' /\ CacheInv'
  <2> DEFINE key == call[p].key
             memoised == call[p].result = "good" /\ call[p].kind = "query"
  <2>1. /\ call' = [call EXCEPT ![p] = Uncalled]
        /\ cache' = IF memoised THEN WriteCached(cache, key) ELSE cache
        /\ lastUse' = IF memoised /\ ~Contains(cache, key) THEN Moved(lastUse, key) ELSE lastUse
    BY <1>10 DEF CallEnds
  <2>2. Keyed'
    BY <1>4, <1>5, <2>1
  <2>3. CASE ~memoised
    BY <1>2, <2>1, <2>2, <2>3
  <2>4. CASE memoised /\ Contains(cache, key)
    <3>1. WriteCached(cache, key) = cache
      BY <2>4 DEF WriteCached, CacheInv
    <3> QED
      BY <1>2, <2>1, <2>2, <2>4, <3>1
  <2>5. CASE memoised /\ ~Contains(cache, key)
    <3>1. key \in Keys
      BY <2>5 DEF Keyed
    <3> QED
      BY <2>1, <2>2, <2>5, <3>1, WriteKeeps
  <2> QED
    BY <2>3, <2>4, <2>5
<1>11. CASE ModelLoads
  BY <1>2, <1>3, <1>11 DEF ModelLoads
<1>13. ASSUME NEW p \in Callers, RecordCall(p) PROVE Keyed' /\ CacheInv'
  <2>1. call' = [call EXCEPT ![p] = [call[p] EXCEPT !.at = "continue"]] /\ UNCHANGED <<cache, lastUse>>
    BY <1>1, <1>13 DEF RecordCall
  <2>2. \A q \in Callers : call'[q].kind = call[q].kind /\ call'[q].key = call[q].key
    BY <1>1, <2>1 DEF Calls
  <2>3. Keyed'
    BY <2>2 DEF Keyed
  <2> QED
    BY <1>2, <2>1, <2>3
<1>12. CASE ProcessRestarts
  <2>1. cache' = <<>> /\ lastUse' = <<>> /\ CacheLimit \in Nat /\ call' = [p \in Callers |-> Uncalled]
    BY <1>12, CallAssumption DEF ProcessRestarts
  <2>2. CacheInv'
    BY <2>1 DEF CacheInv, IsInjective, Ends
  <2> QED
    BY <1>5, <2>1, <2>2 DEF Keyed
<1> QED
  BY <1>6, <1>7, <1>8, <1>9, <1>10, <1>11, <1>12, <1>13 DEF CallsNext

\* Both say that the calls are accounted for.
LEMMA CallsMean == CallsInv /\ CacheInv => CallsAccounted
<1> SUFFICES ASSUME CallsInv, CacheInv PROVE CallsAccounted
  OBVIOUS
<1>1. IsSuffix(cache, lastUse)
  BY EndsMeans DEF CacheInv
<1> QED
  BY <1>1 DEF CallsAccounted, CallsInv, CacheInv, CacheKeepsLatest

-----------------------------------------------------------------------------
(* The evaluation *)

Check == [suite : Suites, kind : {"assertion", "metric"}, passed : BOOLEAN]

\* Some assertion failed; some assertion was made in a suite.
Fails(checks) == \E k \in DOMAIN checks : checks[k].kind = "assertion" /\ ~checks[k].passed
Covers(checks, suite) == \E k \in DOMAIN checks : checks[k].kind = "assertion" /\ checks[k].suite = suite

\* The checks of some kinds and suites, and those of them with one verdict.
ChecksOf(checks, kinds, suites) == {k \in DOMAIN checks : checks[k].kind \in kinds /\ checks[k].suite \in suites}
With(checks, kinds, suites, passed) == {k \in ChecksOf(checks, kinds, suites) : checks[k].passed = passed}
Size(tally) == tally.passed + tally.failed

\* The fields of the checks have their types, and there are finitely many.
LEMMA FieldsOfCheck ==
    ASSUME NEW checks \in Seq(Check)
    PROVE  /\ Len(checks) \in Nat /\ DOMAIN checks = 1..Len(checks)
           /\ IsFiniteSet(DOMAIN checks) /\ Cardinality(DOMAIN checks) = Len(checks)
           /\ \A k \in DOMAIN checks :
                 /\ checks[k].suite \in Suites /\ checks[k].kind \in {"assertion", "metric"}
                 /\ checks[k].passed \in BOOLEAN
<1>1. Len(checks) \in Nat /\ DOMAIN checks = 1..Len(checks) /\ \A k \in DOMAIN checks : checks[k] \in Check
  OBVIOUS
<1>2. \A c \in Check : c.suite \in Suites /\ c.kind \in {"assertion", "metric"} /\ c.passed \in BOOLEAN
  BY DEF Check
<1>3. IsFiniteSet(1..Len(checks)) /\ Cardinality(1..Len(checks)) = Len(checks)
  BY <1>1, FS_Interval
<1> QED
  BY <1>1, <1>2, <1>3

\* Disjoint sets are counted apart.
LEMMA Disjoint ==
    ASSUME NEW A, NEW B, IsFiniteSet(A), IsFiniteSet(B), A \cap B = {}
    PROVE  /\ IsFiniteSet(A \cup B) /\ Cardinality(A) \in Nat /\ Cardinality(B) \in Nat
           /\ Cardinality(A \cup B) = Cardinality(A) + Cardinality(B)
<1>1. Cardinality(A \cap B) = 0
  BY FS_EmptySet
<1>2. Cardinality(A) \in Nat /\ Cardinality(B) \in Nat
  BY FS_CardinalityType
<1> QED
  <2>1. /\ IsFiniteSet(A \cup B)
        /\ Cardinality(A \cup B) = Cardinality(A) + Cardinality(B) - Cardinality(A \cap B)
    BY FS_Union
  <2> QED
    BY <1>1, <1>2, <2>1

\* What a tally counts.
LEMMA Counts ==
    ASSUME NEW checks \in Seq(Check), NEW kinds, NEW suites
    PROVE  /\ Tally(checks, kinds, suites).failed = 0 <=> With(checks, kinds, suites, FALSE) = {}
           /\ IsFiniteSet(ChecksOf(checks, kinds, suites))
           /\ Size(Tally(checks, kinds, suites)) = Cardinality(ChecksOf(checks, kinds, suites))
<1> DEFINE good == With(checks, kinds, suites, TRUE)
           bad == With(checks, kinds, suites, FALSE)
           all == ChecksOf(checks, kinds, suites)
<1>1. IsFiniteSet(all)
  BY FieldsOfCheck, FS_Subset DEF ChecksOf
<1>2. IsFiniteSet(good) /\ IsFiniteSet(bad)
  BY <1>1, FS_Subset DEF With
<1>3. \A k \in all : checks[k].passed \in BOOLEAN
  BY FieldsOfCheck DEF ChecksOf
<1>4. good \cap bad = {} /\ all = good \cup bad
  BY <1>3 DEF With
<1>5. Tally(checks, kinds, suites) = [passed |-> Cardinality(good), failed |-> Cardinality(bad)]
  <2>1. good = {k \in DOMAIN checks : checks[k].kind \in kinds /\ checks[k].suite \in suites /\ checks[k].passed = TRUE}
    BY DEF With, ChecksOf
  <2>2. bad = {k \in DOMAIN checks : checks[k].kind \in kinds /\ checks[k].suite \in suites /\ checks[k].passed = FALSE}
    BY DEF With, ChecksOf
  <2> QED
    BY <2>1, <2>2 DEF Tally
<1> HIDE DEF good, bad, all
<1>6. Cardinality(bad) = 0 <=> bad = {}
  BY <1>2, FS_EmptySet
<1>7. Cardinality(all) = Cardinality(good) + Cardinality(bad)
  BY <1>2, <1>4, Disjoint
<1>8. Cardinality(good) \in Nat /\ Cardinality(bad) \in Nat
  BY <1>2, FS_CardinalityType
<1>9. Tally(checks, kinds, suites).passed = Cardinality(good) /\ Tally(checks, kinds, suites).failed = Cardinality(bad)
  BY <1>5
<1>10. Size(Tally(checks, kinds, suites)) = Cardinality(all)
  BY <1>7, <1>9 DEF Size
<1> QED
  BY <1>1, <1>6, <1>9, <1>10 DEF all, bad

\* What a report says of its checks is what they say, and its sums agree.
LEMMA OkMeans ==
    ASSUME NEW checks \in Seq(Check)
    PROVE  Ok(checks) <=> (\E suite \in Suites : Covers(checks, suite)) /\ ~Fails(checks)
<1> DEFINE tally == OfKind("assertion", checks)
           all == ChecksOf(checks, {"assertion"}, Suites)
           bad == With(checks, {"assertion"}, Suites, FALSE)
<1>1. tally.passed + tally.failed = Cardinality(all) /\ (tally.failed = 0 <=> bad = {}) /\ IsFiniteSet(all)
  BY Counts DEF OfKind, Size
<1>2. Cardinality(all) > 0 <=> all # {}
  <2> HIDE DEF all
  <2> QED
    BY <1>1, FS_EmptySet, FS_CardinalityType
<1>3. all # {} <=> \E suite \in Suites : Covers(checks, suite)
  BY FieldsOfCheck DEF Covers, ChecksOf
<1>4. bad = {} <=> ~Fails(checks)
  BY FieldsOfCheck DEF Fails, With, ChecksOf
<1> HIDE DEF all, bad
<1> QED
  BY <1>1, <1>2, <1>3, <1>4 DEF Ok

\* The tallies add up, whatever the checks are.
LEMMA TalliesAdd ==
    ASSUME NEW checks \in Seq(Check), NEW r, r = ReportOf(checks)
    PROVE  /\ Size(r.assertions) + Size(r.metrics) = Len(r.checks)
           /\ Size(r.suites["tutor"]) + Size(r.suites["retrieval"])
                 + Size(r.suites["assessment"]) + Size(r.suites["recommendations"]) = Len(r.checks)
<1> DEFINE kinds == {"assertion", "metric"}
           a == ChecksOf(checks, {"assertion"}, Suites)
           m == ChecksOf(checks, {"metric"}, Suites)
           tutor == ChecksOf(checks, kinds, {"tutor"})
           retrieval == ChecksOf(checks, kinds, {"retrieval"})
           assessment == ChecksOf(checks, kinds, {"assessment"})
           suggested == ChecksOf(checks, kinds, {"recommendations"})
<1>1. /\ r.checks = checks
      /\ r.assertions = Tally(checks, {"assertion"}, Suites) /\ r.metrics = Tally(checks, {"metric"}, Suites)
      /\ \A suite \in Suites : r.suites[suite] = Tally(checks, kinds, {suite})
  BY DEF ReportOf, OfKind
<1>2. /\ Size(r.assertions) = Cardinality(a) /\ Size(r.metrics) = Cardinality(m)
      /\ Size(r.suites["tutor"]) = Cardinality(tutor) /\ Size(r.suites["retrieval"]) = Cardinality(retrieval)
      /\ Size(r.suites["assessment"]) = Cardinality(assessment)
      /\ Size(r.suites["recommendations"]) = Cardinality(suggested)
  <2>1. {"tutor", "retrieval", "assessment", "recommendations"} = Suites
    BY DEF Suites
  <2>2. \A ks, ss : Size(Tally(checks, ks, ss)) = Cardinality(ChecksOf(checks, ks, ss))
    BY Counts
  <2> QED
    BY <1>1, <2>1, <2>2
<1>3. /\ IsFiniteSet(a) /\ IsFiniteSet(m) /\ IsFiniteSet(tutor) /\ IsFiniteSet(retrieval)
      /\ IsFiniteSet(assessment) /\ IsFiniteSet(suggested)
  BY Counts
<1>4. a \cap m = {} /\ tutor \cap retrieval = {} /\ assessment \cap suggested = {}
      /\ (tutor \cup retrieval) \cap (assessment \cup suggested) = {}
  BY DEF ChecksOf
<1>5. DOMAIN checks = a \cup m /\ DOMAIN checks = (tutor \cup retrieval) \cup (assessment \cup suggested)
  BY FieldsOfCheck DEF ChecksOf, Suites
<1>6. Cardinality(DOMAIN checks) = Len(checks)
  BY FieldsOfCheck
<1> HIDE DEF a, m, tutor, retrieval, assessment, suggested
<1>7. Len(checks) = Cardinality(a) + Cardinality(m)
  BY <1>3, <1>4, <1>5, <1>6, Disjoint
<1>8. /\ IsFiniteSet(tutor \cup retrieval) /\ Cardinality(tutor \cup retrieval) = Cardinality(tutor) + Cardinality(retrieval)
      /\ IsFiniteSet(assessment \cup suggested)
      /\ Cardinality(assessment \cup suggested) = Cardinality(assessment) + Cardinality(suggested)
      /\ Cardinality(tutor) \in Nat /\ Cardinality(retrieval) \in Nat
      /\ Cardinality(assessment) \in Nat /\ Cardinality(suggested) \in Nat
  BY <1>3, <1>4, Disjoint
<1>9. Len(checks) = Cardinality(tutor \cup retrieval) + Cardinality(assessment \cup suggested)
  BY <1>4, <1>5, <1>6, <1>8, Disjoint
<1> QED
  BY <1>1, <1>2, <1>7, <1>8, <1>9

\* Of checks that are joined, some fail, or cover a suite, where some of either do.
LEMMA ChecksJoined ==
    ASSUME NEW s \in Seq(Check), NEW t \in Seq(Check)
    PROVE  /\ s \o t \in Seq(Check)
           /\ Fails(s \o t) <=> Fails(s) \/ Fails(t)
           /\ \A suite : Covers(s \o t, suite) <=> Covers(s, suite) \/ Covers(t, suite)
<1> DEFINE c == s \o t
<1>1. /\ c \in Seq(Check) /\ Len(c) = Len(s) + Len(t) /\ Len(s) \in Nat /\ Len(t) \in Nat
      /\ DOMAIN c = 1..(Len(s) + Len(t)) /\ DOMAIN s = 1..Len(s) /\ DOMAIN t = 1..Len(t)
      /\ \A k \in DOMAIN s : c[k] = s[k]
      /\ \A k \in DOMAIN t : c[Len(s) + k] = t[k]
  OBVIOUS
<1> HIDE DEF c
<1>2. \A k \in DOMAIN s : k \in DOMAIN c
  BY <1>1
<1>3. \A k \in DOMAIN t : Len(s) + k \in DOMAIN c
  BY <1>1
<1>4. ASSUME NEW k \in DOMAIN c
      PROVE  (\E i \in DOMAIN s : c[k] = s[i]) \/ (\E i \in DOMAIN t : c[k] = t[i])
  <2>1. CASE k <= Len(s)
    BY <1>1, <2>1
  <2>2. CASE ~(k <= Len(s))
    <3>1. k - Len(s) \in DOMAIN t /\ Len(s) + (k - Len(s)) = k
      BY <1>1, <2>2
    <3> QED
      BY <1>1, <3>1
  <2> QED
    BY <2>1, <2>2
<1>5. Fails(c) <=> Fails(s) \/ Fails(t)
  BY <1>1, <1>2, <1>3, <1>4 DEF Fails
<1>6. ASSUME NEW suite PROVE Covers(c, suite) <=> Covers(s, suite) \/ Covers(t, suite)
  <2>1. Covers(c, suite) => Covers(s, suite) \/ Covers(t, suite)
    BY <1>4 DEF Covers
  <2>2. Covers(s, suite) => Covers(c, suite)
    BY <1>1, <1>2 DEF Covers
  <2>3. Covers(t, suite) => Covers(c, suite)
    BY <1>1, <1>3 DEF Covers
  <2> QED
    BY <2>1, <2>2, <2>3
<1> QED
  BY <1>1, <1>5, <1>6 DEF c

\* A row of one check, or of two, fails and covers what they do.
LEMMA FewChecks ==
    /\ <<>> \in Seq(Check) /\ ~Fails(<<>>)
    /\ \A a \in Check :
          /\ <<a>> \in Seq(Check)
          /\ Fails(<<a>>) <=> a.kind = "assertion" /\ ~a.passed
          /\ \A suite : Covers(<<a>>, suite) <=> a.kind = "assertion" /\ a.suite = suite
    /\ \A a, b \in Check :
          /\ <<a, b>> \in Seq(Check)
          /\ Fails(<<a, b>>) <=> Fails(<<a>>) \/ Fails(<<b>>)
          /\ \A suite : Covers(<<a, b>>, suite) <=> Covers(<<a>>, suite) \/ Covers(<<b>>, suite)
    /\ \A a, b, c \in Check :
          /\ <<a, b, c>> \in Seq(Check)
          /\ Fails(<<a, b, c>>) <=> Fails(<<a>>) \/ Fails(<<b>>) \/ Fails(<<c>>)
          /\ \A suite : Covers(<<a, b, c>>, suite) <=> Covers(<<a>>, suite) \/ Covers(<<b>>, suite) \/ Covers(<<c>>, suite)
    /\ \A suite \in Suites, passed \in BOOLEAN :
          /\ Assertion(suite, passed) \in Check /\ Assertion(suite, passed).kind = "assertion"
          /\ Assertion(suite, passed).suite = suite /\ Assertion(suite, passed).passed = passed
          /\ Metric(suite, passed) \in Check /\ Metric(suite, passed).kind = "metric"
<1>1. <<>> \in Seq(Check) /\ ~Fails(<<>>)
  BY DEF Fails
<1>2. ASSUME NEW a \in Check
      PROVE  /\ <<a>> \in Seq(Check)
             /\ Fails(<<a>>) <=> a.kind = "assertion" /\ ~a.passed
             /\ \A suite : Covers(<<a>>, suite) <=> a.kind = "assertion" /\ a.suite = suite
  <2>1. <<a>> \in Seq(Check) /\ DOMAIN <<a>> = {1} /\ <<a>>[1] = a
    OBVIOUS
  <2> QED
    BY <2>1 DEF Fails, Covers
<1>3. ASSUME NEW a \in Check, NEW b \in Check
      PROVE  /\ <<a, b>> \in Seq(Check)
             /\ Fails(<<a, b>>) <=> Fails(<<a>>) \/ Fails(<<b>>)
             /\ \A suite : Covers(<<a, b>>, suite) <=> Covers(<<a>>, suite) \/ Covers(<<b>>, suite)
  <2>1. <<a, b>> \in Seq(Check) /\ DOMAIN <<a, b>> = {1, 2} /\ <<a, b>>[1] = a /\ <<a, b>>[2] = b
    OBVIOUS
  <2>2. DOMAIN <<a>> = {1} /\ <<a>>[1] = a /\ DOMAIN <<b>> = {1} /\ <<b>>[1] = b
    OBVIOUS
  <2> QED
    BY <2>1, <2>2 DEF Fails, Covers
<1>4. ASSUME NEW a \in Check, NEW b \in Check, NEW c \in Check
      PROVE  /\ <<a, b, c>> \in Seq(Check)
             /\ Fails(<<a, b, c>>) <=> Fails(<<a>>) \/ Fails(<<b>>) \/ Fails(<<c>>)
             /\ \A suite : Covers(<<a, b, c>>, suite) <=> Covers(<<a>>, suite) \/ Covers(<<b>>, suite) \/ Covers(<<c>>, suite)
  <2>1. /\ <<a, b, c>> \in Seq(Check) /\ DOMAIN <<a, b, c>> = {1, 2, 3}
        /\ <<a, b, c>>[1] = a /\ <<a, b, c>>[2] = b /\ <<a, b, c>>[3] = c
    OBVIOUS
  <2>2. /\ DOMAIN <<a>> = {1} /\ <<a>>[1] = a /\ DOMAIN <<b>> = {1} /\ <<b>>[1] = b
        /\ DOMAIN <<c>> = {1} /\ <<c>>[1] = c
    OBVIOUS
  <2> QED
    BY <2>1, <2>2 DEF Fails, Covers
<1>5. ASSUME NEW suite \in Suites, NEW passed \in BOOLEAN
      PROVE  /\ Assertion(suite, passed) \in Check /\ Assertion(suite, passed).kind = "assertion"
             /\ Assertion(suite, passed).suite = suite /\ Assertion(suite, passed).passed = passed
             /\ Metric(suite, passed) \in Check /\ Metric(suite, passed).kind = "metric"
  BY DEF Assertion, Metric, Check
<1> QED
  BY <1>1, <1>2, <1>3, <1>4, <1>5

\* So does a row of three.
LEMMA SomeChecks ==
    ASSUME NEW suite \in Suites, NEW p \in BOOLEAN, NEW q \in BOOLEAN
    PROVE  /\ Assertion(suite, p) \in Check
           /\ <<Assertion(suite, p)>> \in Seq(Check) /\ (Fails(<<Assertion(suite, p)>>) <=> ~p)
           /\ \A s : Covers(<<Assertion(suite, p)>>, s) <=> s = suite
           /\ <<Metric(suite, p)>> \in Seq(Check) /\ ~Fails(<<Metric(suite, p)>>)
           /\ <<Assertion(suite, p), Assertion(suite, q)>> \in Seq(Check)
           /\ Fails(<<Assertion(suite, p), Assertion(suite, q)>>) <=> ~p \/ ~q
           /\ <<Assertion(suite, p), Assertion(suite, q), Assertion(suite, TRUE)>> \in Seq(Check)
           /\ Fails(<<Assertion(suite, p), Assertion(suite, q), Assertion(suite, TRUE)>>) <=> ~p \/ ~q
           /\ \A s : Covers(<<Assertion(suite, p), Assertion(suite, q), Assertion(suite, TRUE)>>, s) <=> s = suite
<1> DEFINE a == Assertion(suite, p)
           b == Assertion(suite, q)
           c == Assertion(suite, TRUE)
           m == Metric(suite, p)
<1>1. /\ a \in Check /\ b \in Check /\ c \in Check /\ m \in Check
      /\ a.kind = "assertion" /\ b.kind = "assertion" /\ c.kind = "assertion" /\ m.kind = "metric"
      /\ a.suite = suite /\ b.suite = suite /\ c.suite = suite
      /\ a.passed = p /\ b.passed = q /\ c.passed = TRUE
  BY FewChecks
<1> HIDE DEF a, b, c, m
<1>2. /\ <<a>> \in Seq(Check) /\ (Fails(<<a>>) <=> ~p) /\ (Fails(<<b>>) <=> ~q) /\ ~Fails(<<c>>)
      /\ <<m>> \in Seq(Check) /\ ~Fails(<<m>>)
      /\ \A s : Covers(<<a>>, s) <=> s = suite
      /\ \A s : Covers(<<b>>, s) <=> s = suite
      /\ \A s : Covers(<<c>>, s) <=> s = suite
  <2>1. ASSUME NEW x \in Check
        PROVE  /\ <<x>> \in Seq(Check) /\ (Fails(<<x>>) <=> x.kind = "assertion" /\ ~x.passed)
               /\ \A s : Covers(<<x>>, s) <=> x.kind = "assertion" /\ x.suite = s
    BY FewChecks
  <2>2. <<a>> \in Seq(Check) /\ (Fails(<<a>>) <=> ~p) /\ \A s : Covers(<<a>>, s) <=> s = suite
    BY <1>1, <2>1
  <2>3. (Fails(<<b>>) <=> ~q) /\ \A s : Covers(<<b>>, s) <=> s = suite
    BY <1>1, <2>1
  <2>4. ~Fails(<<c>>) /\ \A s : Covers(<<c>>, s) <=> s = suite
    BY <1>1, <2>1
  <2>5. <<m>> \in Seq(Check) /\ ~Fails(<<m>>)
    BY <1>1, <2>1
  <2> QED
    BY <2>2, <2>3, <2>4, <2>5
<1>3. /\ <<a, b>> \in Seq(Check) /\ (Fails(<<a, b>>) <=> Fails(<<a>>) \/ Fails(<<b>>))
  BY <1>1, FewChecks
<1>4. <<a, b, c>> \in Seq(Check) /\ (Fails(<<a, b, c>>) <=> Fails(<<a>>) \/ Fails(<<b>>) \/ Fails(<<c>>))
  BY <1>1, FewChecks
<1>5. ASSUME NEW s PROVE Covers(<<a, b, c>>, s) <=> s = suite
  <2>1. Covers(<<a, b, c>>, s) <=> Covers(<<a>>, s) \/ Covers(<<b>>, s) \/ Covers(<<c>>, s)
    BY ZenonT(60), <1>1, FewChecks
  <2> QED
    BY <1>2, <2>1
<1> QED
  BY <1>1, <1>2, <1>3, <1>4, <1>5 DEF a, b, c, m

\* The steps by which an assertion of a suite has been made.
EvalSteps ==
    {"idle", "ask", "grade answer", "ask off topic", "retrieve", "scope", "chunks", "no hits", "quiz",
     "check quiz", "recommend", "list", "grade recommendation", "report"}
After(suite) ==
    CASE suite = "tutor" -> EvalSteps \ {"idle", "ask"}
      [] suite = "retrieval" -> EvalSteps \ {"idle", "ask", "grade answer", "ask off topic", "retrieve"}
      [] suite = "assessment" -> {"check quiz", "recommend", "list", "grade recommendation", "report"}
      [] suite = "recommendations" -> {"grade recommendation", "report"}

\* What is wrong and fails at the next step only.
Owed ==
    {w \in {"no choice", "no recommendation"} :
        \/ w = "no choice" /\ run.at = "check quiz" /\ run.planned = "none"
        \/ w = "no recommendation" /\ run.at = "list" /\ run.created = 0}

\* What a step finds, unless the project has moved.
Expected ==
    /\ run.at = "no hits" => facts.wrong # {}
    /\ run.at = "check quiz" => IF run.planned = "none" THEN facts.wrong # {}
                                ELSE run.planned = project.difficulty \/ facts.moved # {}
    /\ run.at = "list" => IF run.created = 0 THEN facts.wrong # {}
                          ELSE project.open > 0 \/ facts.moved # {}

EvalTyped ==
    /\ project \in [ready : BOOLEAN, difficulty : Difficulties, open : Nat]
    /\ run \in [at : EvalSteps, checks : Seq(Check), planned : Difficulties \cup {"none"}, created : Nat]
    /\ run.at = "idle" => run = NoRun
    /\ facts = [wrong |-> facts.wrong, moved |-> facts.moved]

RunHonest ==
    run.at # "idle" =>
        /\ \A suite \in Suites : run.at \in After(suite) => Covers(run.checks, suite) \/ Fails(run.checks)
        /\ facts.wrong \ Owed # {} => Fails(run.checks)
        /\ Fails(run.checks) => facts.wrong \cup facts.moved # {}
        /\ Expected

JobHonest(job) ==
    LET r == job.report IN
    job.status = "COMPLETED" =>
        /\ r.ok => job.facts.wrong = {} /\ \A suite \in Suites : Covers(r.checks, suite)
        /\ ~r.ok => job.facts.wrong \cup job.facts.moved # {}
        /\ Size(r.assertions) + Size(r.metrics) = Len(r.checks)
        /\ Size(r.suites["tutor"]) + Size(r.suites["retrieval"])
              + Size(r.suites["assessment"]) + Size(r.suites["recommendations"]) = Len(r.checks)

JobsHonest == jobs \in Seq(ToSet(jobs)) /\ \A job \in ToSet(jobs) : JobHonest(job)
EvalInv == EvalTyped /\ RunHonest /\ JobsHonest

\* Before the first run nothing is claimed.
LEMMA EvalStarts == EvalInit => EvalInv
<1> SUFFICES ASSUME EvalInit PROVE EvalInv
  OBVIOUS
<1>1. run = NoRun /\ run.at = "idle" /\ NoFacts = [wrong |-> NoFacts.wrong, moved |-> NoFacts.moved]
  BY DEF EvalInit, NoRun, NoFacts
<1>2. (CHOOSE d \in Difficulties : TRUE) \in Difficulties
  BY EvalAssumption
<1>3. NoRun \in [at : EvalSteps, checks : Seq(Check), planned : Difficulties \cup {"none"}, created : Nat]
  BY DEF NoRun, EvalSteps
<1>4. EvalTyped
  BY <1>1, <1>2, <1>3 DEF EvalInit, EvalTyped
<1>5. jobs = <<>> /\ jobs \in Seq({}) /\ ToSet(jobs) = {}
  BY DEF EvalInit, ToSet
<1> QED
  BY <1>1, <1>4, <1>5 DEF EvalInv, RunHonest, JobsHonest

\* The run goes on with more checks, and what was wrong.
LEMMA EvalGoesOn ==
    ASSUME EvalInv, run.at # "idle", NEW step \in EvalSteps \ {"idle"}, NEW added \in Seq(Check),
           NEW planned \in Difficulties \cup {"none"}, NEW created \in Nat, NEW what,
           run' = [at |-> step, checks |-> run.checks \o added, planned |-> planned, created |-> created],
           facts' = [wrong |-> facts.wrong \cup what, moved |-> facts.moved],
           project' \in [ready : BOOLEAN, difficulty : Difficulties, open : Nat], UNCHANGED jobs,
           \A suite \in Suites : step \in After(suite) /\ run.at \notin After(suite) =>
              Covers(added, suite) \/ Fails(added),
           what \ Owed' # {} \/ Owed # {} => Fails(added),
           Fails(added) => facts.wrong \cup what \cup facts.moved # {},
           Expected'
    PROVE  EvalInv'
<1>1. run.checks \in Seq(Check)
  BY DEF EvalInv, EvalTyped
<1>2. /\ run.checks \o added \in Seq(Check)
      /\ Fails(run.checks \o added) <=> Fails(run.checks) \/ Fails(added)
      /\ \A suite : Covers(run.checks \o added, suite) <=> Covers(run.checks, suite) \/ Covers(added, suite)
  BY <1>1, ChecksJoined
<1>3. run'.at = step /\ run'.checks = run.checks \o added /\ facts'.wrong = facts.wrong \cup what /\ facts'.moved = facts.moved
  OBVIOUS
<1>4. EvalTyped'
  BY <1>2 DEF EvalTyped
<1>5. /\ \A suite \in Suites : run.at \in After(suite) => Covers(run.checks, suite) \/ Fails(run.checks)
      /\ facts.wrong \ Owed # {} => Fails(run.checks)
      /\ Fails(run.checks) => facts.wrong \cup facts.moved # {}
  BY DEF EvalInv, RunHonest
<1>6. \A suite \in Suites : run'.at \in After(suite) => Covers(run'.checks, suite) \/ Fails(run'.checks)
  BY <1>2, <1>3, <1>5
<1>7. facts'.wrong \ Owed' # {} => Fails(run'.checks)
  BY <1>2, <1>3, <1>5
<1>8. Fails(run'.checks) => facts'.wrong \cup facts'.moved # {}
  BY <1>2, <1>3, <1>5
<1>9. RunHonest'
  BY <1>6, <1>7, <1>8 DEF RunHonest
<1>10. JobsHonest'
  BY DEF EvalInv, JobsHonest
<1> QED
  BY <1>4, <1>9, <1>10 DEF EvalInv

\* A job that says what its run found joins the others.
LEMMA JobAdded ==
    ASSUME JobsHonest, NEW job, JobHonest(job), jobs' = Append(jobs, job)
    PROVE  JobsHonest'
<1> DEFINE all == ToSet(jobs) \cup {job}
<1>1. jobs \in Seq(all) /\ jobs' \in Seq(all) /\ Len(jobs') = Len(jobs) + 1 /\ jobs'[Len(jobs) + 1] = job
      /\ \A k \in DOMAIN jobs : jobs'[k] = jobs[k]
  BY DEF JobsHonest
<1>2. /\ Len(jobs) \in Nat /\ DOMAIN jobs = 1..Len(jobs) /\ DOMAIN jobs' = 1..(Len(jobs) + 1)
      /\ \A k \in DOMAIN jobs' : k \in DOMAIN jobs \/ k = Len(jobs) + 1
  BY <1>1
<1>3. ToSet(jobs) = {jobs[k] : k \in DOMAIN jobs} /\ ToSet(jobs') = {jobs'[k] : k \in DOMAIN jobs'}
  BY DEF ToSet
<1> HIDE DEF all
<1>4. \A x \in ToSet(jobs') : x \in all
  BY <1>1, <1>2, <1>3 DEF all
<1>5. \A x \in all : x \in ToSet(jobs')
  <2> SUFFICES ASSUME NEW x \in all PROVE x \in ToSet(jobs')
    OBVIOUS
  <2>1. CASE x = job
    BY <1>1, <1>2, <1>3, <2>1
  <2>2. CASE x \in ToSet(jobs)
    <3>1. PICK k \in DOMAIN jobs : x = jobs[k]
      BY <1>3, <2>2
    <3> QED
      BY <1>1, <1>2, <1>3, <3>1
  <2> QED
    BY <2>1, <2>2 DEF all
<1>6. ToSet(jobs') = all
  BY <1>4, <1>5
<1> QED
  BY <1>1, <1>6 DEF JobsHonest, all

\* The steps that only make checks.
LEMMA EvalStep ==
    ASSUME EvalInv, NEW step \in EvalSteps \ {"idle", "no hits", "check quiz", "list"},
           run.at \notin {"idle"}, Owed = {},
           NEW added \in Seq(Check), NEW what, GoesOn(step, added), Wrong(what),
           UNCHANGED <<project, jobs>>,
           \A suite \in Suites : step \in After(suite) /\ run.at \notin After(suite) =>
              Covers(added, suite) \/ Fails(added),
           what # {} <=> Fails(added)
    PROVE  EvalInv'
<1>1. /\ run = [at |-> run.at, checks |-> run.checks, planned |-> run.planned, created |-> run.created]
      /\ facts = [wrong |-> facts.wrong, moved |-> facts.moved]
      /\ run.planned \in Difficulties \cup {"none"} /\ run.created \in Nat
      /\ project \in [ready : BOOLEAN, difficulty : Difficulties, open : Nat]
  BY DEF EvalInv, EvalTyped
<1>2. /\ run' = [at |-> step, checks |-> run.checks \o added, planned |-> run.planned, created |-> run.created]
      /\ facts' = [wrong |-> facts.wrong \cup what, moved |-> facts.moved]
  BY <1>1 DEF GoesOn, Wrong
<1>3. run'.at \notin {"no hits", "check quiz", "list"}
  BY <1>2
<1>4. Expected' /\ Owed' = {}
  BY <1>3 DEF Expected, Owed
<1> QED
  BY ZenonT(60), <1>1, <1>2, <1>4, EvalGoesOn

\* A step of one suite keeps what the run has made in the others.
LEMMA SuitesAfter ==
    /\ After("tutor") = EvalSteps \ {"idle", "ask"}
    /\ After("retrieval") = EvalSteps \ {"idle", "ask", "grade answer", "ask off topic", "retrieve"}
    /\ After("assessment") = {"check quiz", "recommend", "list", "grade recommendation", "report"}
    /\ After("recommendations") = {"grade recommendation", "report"}
    /\ \A suite \in Suites : suite \in {"tutor", "retrieval", "assessment", "recommendations"}
    /\ {"tutor", "retrieval", "assessment", "recommendations"} \subseteq Suites
BY DEF After, Suites

\* A run begins.
LEMMA RunStarts == EvalInv /\ StartRun => EvalInv'
<1> SUFFICES ASSUME EvalInv, StartRun PROVE EvalInv'
  OBVIOUS
<1> DEFINE a == Assertion("tutor", FALSE)
<1>1. /\ project \in [ready : BOOLEAN, difficulty : Difficulties, open : Nat] /\ JobsHonest
      /\ UNCHANGED <<project, jobs>>
  BY DEF EvalInv, EvalTyped, StartRun
<1>2. /\ <<a>> \in Seq(Check) /\ Fails(<<a>>) /\ <<>> \in Seq(Check) /\ ~Fails(<<>>)
  BY FewChecks, SuitesAfter
<1> HIDE DEF a
<1>3. /\ run' = [at |-> IF project.ready THEN "ask" ELSE "quiz",
                 checks |-> IF project.ready THEN <<>> ELSE <<a>>, planned |-> "none", created |-> 0]
      /\ facts' = [wrong |-> IF project.ready THEN {} ELSE {"material"}, moved |-> {}]
  BY DEF StartRun, NoRun, NoFacts, a
<1>4. EvalTyped'
  BY <1>1, <1>2, <1>3 DEF EvalTyped, EvalSteps
<1>5. Owed' = {} /\ Expected'
  BY <1>3 DEF Owed, Expected
<1>6. RunHonest'
  <2>1. CASE project.ready
    <3>1. run'.at = "ask" /\ run'.checks = <<>> /\ facts'.wrong = {}
      BY <1>3, <2>1
    <3>2. \A suite \in Suites : "ask" \notin After(suite)
      BY DEF After, Suites
    <3> QED
      BY <1>2, <1>5, <3>1, <3>2 DEF RunHonest
  <2>2. CASE ~project.ready
    <3>1. run'.at = "quiz" /\ run'.checks = <<a>> /\ facts'.wrong = {"material"}
      BY <1>3, <2>2
    <3> QED
      BY <1>2, <1>5, <3>1 DEF RunHonest
  <2> QED
    BY <2>1, <2>2
<1> QED
  BY <1>1, <1>4, <1>6 DEF EvalInv, JobsHonest

\* A run ends.
LEMMA RunEnds == EvalInv /\ (RunFails \/ StoreReport) => EvalInv'
<1> SUFFICES ASSUME EvalInv, RunFails \/ StoreReport PROVE EvalInv'
  OBVIOUS
<1>1. /\ project \in [ready : BOOLEAN, difficulty : Difficulties, open : Nat] /\ JobsHonest
      /\ UNCHANGED project /\ run' = NoRun /\ facts' = NoFacts /\ run.checks \in Seq(Check)
  BY DEF EvalInv, EvalTyped, RunFails, StoreReport
<1>2. /\ NoRun \in [at : EvalSteps, checks : Seq(Check), planned : Difficulties \cup {"none"}, created : Nat]
      /\ NoRun.at = "idle"
  BY DEF NoRun, EvalSteps
<1>3. EvalTyped' /\ RunHonest'
  BY <1>1, <1>2 DEF EvalTyped, RunHonest, NoFacts
<1>4. JobsHonest'
  <2>1. CASE RunFails
    <3> DEFINE job == [status |-> "DEAD", report |-> NoReport, facts |-> facts]
    <3>1. jobs' = Append(jobs, job) /\ JobHonest(job)
      BY <2>1 DEF RunFails, JobHonest
    <3> QED
      BY <1>1, <3>1, JobAdded
  <2>2. CASE StoreReport
    <3> DEFINE r == ReportOf(run.checks)
               job == [status |-> "COMPLETED", report |-> r, facts |-> facts]
    <3>1. jobs' = Append(jobs, job) /\ run.at = "report"
      BY <2>2 DEF StoreReport
    <3>2. /\ \A suite \in Suites : Covers(run.checks, suite) \/ Fails(run.checks)
          /\ facts.wrong \ Owed # {} => Fails(run.checks)
          /\ Fails(run.checks) => facts.wrong \cup facts.moved # {}
      <4>1. \A suite \in Suites : run.at \in After(suite)
        BY <3>1, SuitesAfter DEF EvalSteps
      <4> QED
        BY <3>1, <4>1 DEF EvalInv, RunHonest
    <3>3. Owed = {}
      BY <3>1 DEF Owed
    <3>4. r.checks = run.checks /\ r.ok = Ok(run.checks)
      BY DEF ReportOf
    <3>5. Ok(run.checks) <=> (\E suite \in Suites : Covers(run.checks, suite)) /\ ~Fails(run.checks)
      BY <1>1, OkMeans
    <3>6. "tutor" \in Suites
      BY DEF Suites
    <3>7. /\ r.ok => facts.wrong = {} /\ \A suite \in Suites : Covers(r.checks, suite)
          /\ ~r.ok => facts.wrong \cup facts.moved # {}
      BY <3>2, <3>3, <3>4, <3>5, <3>6
    <3>8. /\ Size(r.assertions) + Size(r.metrics) = Len(r.checks)
          /\ Size(r.suites["tutor"]) + Size(r.suites["retrieval"])
                + Size(r.suites["assessment"]) + Size(r.suites["recommendations"]) = Len(r.checks)
      BY <1>1, TalliesAdd
    <3>9. job.report = r /\ job.facts = facts
      OBVIOUS
    <3> HIDE DEF r
    <3>10. JobHonest(job)
      BY <3>7, <3>8 DEF JobHonest
    <3> QED
      BY <1>1, <3>1, <3>10, JobAdded
  <2> QED
    BY <2>1, <2>2
<1> QED
  BY <1>3, <1>4 DEF EvalInv

\* The project moves; a run that is under way knows.
LEMMA ProjectMoves == EvalInv /\ (EvalMaterialChanges \/ EvalMasteryMoves \/ RecommendationDismissed) => EvalInv'
<1> SUFFICES ASSUME EvalInv, EvalMaterialChanges \/ EvalMasteryMoves \/ RecommendationDismissed PROVE EvalInv'
  OBVIOUS
<1>1. EvalTyped /\ RunHonest /\ JobsHonest /\ UNCHANGED <<run, jobs>>
  BY DEF EvalInv, EvalMaterialChanges, EvalMasteryMoves, RecommendationDismissed
<1>2. PICK what : Moves(what)
  BY DEF EvalMaterialChanges, EvalMasteryMoves, RecommendationDismissed
<1>3. facts' = IF run = NoRun THEN facts ELSE [wrong |-> facts.wrong, moved |-> facts.moved \cup {what}]
  <2>1. facts = [wrong |-> facts.wrong, moved |-> facts.moved]
    BY <1>1 DEF EvalTyped
  <2>2. facts' = IF run = NoRun THEN facts ELSE [facts EXCEPT !.moved = facts.moved \cup {what}]
    BY <1>2 DEF Moves
  <2> QED
    BY <2>1, <2>2
<1>4. project' \in [ready : BOOLEAN, difficulty : Difficulties, open : Nat]
  <2>1. CASE EvalMaterialChanges
    BY <1>1, <2>1 DEF EvalMaterialChanges, EvalTyped
  <2>2. CASE EvalMasteryMoves
    BY <1>1, <2>2 DEF EvalMasteryMoves, EvalTyped
  <2>3. CASE RecommendationDismissed
    BY <1>1, <2>3 DEF RecommendationDismissed, EvalTyped
  <2> QED
    BY <2>1, <2>2, <2>3
<1>5. EvalTyped'
  <2>1. facts' = [wrong |-> facts'.wrong, moved |-> facts'.moved]
    BY <1>1, <1>3 DEF EvalTyped
  <2> QED
    BY <1>1, <1>4, <2>1 DEF EvalTyped
<1>6. RunHonest'
  <2>1. SUFFICES ASSUME run.at # "idle" PROVE RunHonest'
    BY <1>1 DEF RunHonest
  <2>2. facts'.wrong = facts.wrong /\ facts'.moved = facts.moved \cup {what} /\ run # NoRun
    BY <1>3, <2>1 DEF NoRun
  <2>3. Owed' = Owed
    BY <1>1 DEF Owed
  <2>4. Expected'
    BY <1>1, <2>1, <2>2 DEF RunHonest, Expected
  <2> QED
    BY <1>1, <2>1, <2>2, <2>3, <2>4 DEF RunHonest
<1> QED
  BY <1>1, <1>5, <1>6 DEF EvalInv, JobsHonest

\* A run goes on.
LEMMA TutorSuite == EvalInv /\ (AskAboutPassage \/ GradeAnswer \/ AskOffTopic) => EvalInv'
<1> SUFFICES ASSUME EvalInv, AskAboutPassage \/ GradeAnswer \/ AskOffTopic PROVE EvalInv'
  OBVIOUS
<1>1. /\ Owed = {} /\ UNCHANGED <<project, jobs>> /\ run.at # "idle"
  BY DEF Owed, AskAboutPassage, GradeAnswer, AskOffTopic
<1>2. /\ facts = [wrong |-> facts.wrong, moved |-> facts.moved]
      /\ "tutor" \in Suites /\ TRUE \in BOOLEAN /\ FALSE \in BOOLEAN
      /\ {"ask off topic", "grade answer", "retrieve"} \subseteq EvalSteps \ {"idle", "no hits", "check quiz", "list"}
  BY DEF EvalInv, EvalTyped, Suites, EvalSteps
<1>3. CASE AskAboutPassage
  <2>1. PICK cited \in {"own", "other", "none"}, text \in BOOLEAN :
          /\ GoesOn(IF text THEN "grade answer" ELSE "ask off topic",
                    <<Assertion("tutor", cited = "own")>>
                        \o (IF text THEN <<>> ELSE <<Assertion("tutor", FALSE)>>))
          /\ Wrong((IF cited = "own" THEN {} ELSE {"citation"}) \cup (IF text THEN {} ELSE {"answer"}))
    BY <1>3 DEF AskAboutPassage
  <2> DEFINE a == <<Assertion("tutor", cited = "own")>>
             b == IF text THEN <<>> ELSE <<Assertion("tutor", FALSE)>>
             step == IF text THEN "grade answer" ELSE "ask off topic"
             what == (IF cited = "own" THEN {} ELSE {"citation"}) \cup (IF text THEN {} ELSE {"answer"})
  <2>2. /\ a \in Seq(Check) /\ (Fails(a) <=> cited # "own") /\ \A suite : Covers(a, suite) <=> suite = "tutor"
        /\ b \in Seq(Check) /\ (Fails(b) <=> ~text)
    <3>1. a = IF cited = "own" THEN <<Assertion("tutor", TRUE)>> ELSE <<Assertion("tutor", FALSE)>>
      BY DEF Assertion
    <3>2. a \in Seq(Check) /\ (Fails(a) <=> cited # "own") /\ \A suite : Covers(a, suite) <=> suite = "tutor"
      <4> HIDE DEF a
      <4> QED
        BY <1>2, <3>1, SomeChecks
    <3>3. <<Assertion("tutor", FALSE)>> \in Seq(Check) /\ Fails(<<Assertion("tutor", FALSE)>>)
      BY <1>2, SomeChecks
    <3>4. b \in Seq(Check) /\ (Fails(b) <=> ~text)
      BY <3>3, FewChecks
    <3> QED
      BY <3>2, <3>4
  <2>3. step \in EvalSteps \ {"idle", "no hits", "check quiz", "list"} /\ step \in {"grade answer", "ask off topic"}
    BY <1>2
  <2>4. what # {} <=> cited # "own" \/ ~text
    OBVIOUS
  <2>5. GoesOn(step, a \o b) /\ Wrong(what)
    BY <2>1
  <2> HIDE DEF a, b, step, what
  <2>6. /\ a \o b \in Seq(Check) /\ (what # {} <=> Fails(a \o b))
        /\ \A suite \in Suites : step \in After(suite) /\ run.at \notin After(suite) => Covers(a \o b, suite)
    BY <2>2, <2>3, <2>4, ChecksJoined, SuitesAfter
  <2> QED
    BY <1>1, <2>3, <2>5, <2>6, EvalStep
<1>4. CASE GradeAnswer
  <2>1. PICK adequate \in BOOLEAN : GoesOn("ask off topic", <<Metric("tutor", adequate)>>)
    BY <1>4 DEF GradeAnswer
  <2> DEFINE added == <<Metric("tutor", adequate)>>
  <2>2. added \in Seq(Check) /\ ~Fails(added)
    BY <1>2, FewChecks, SomeChecks
  <2>3. Wrong({}) /\ run.at = "grade answer"
    BY <1>2, <1>4 DEF Wrong, GradeAnswer
  <2>4. \A suite \in Suites : "ask off topic" \in After(suite) => run.at \in After(suite)
    BY <2>3 DEF After, Suites, EvalSteps
  <2> QED
    BY <1>1, <1>2, <2>1, <2>2, <2>3, <2>4, EvalStep
<1>5. CASE AskOffTopic
  <2>1. PICK refused \in BOOLEAN : /\ GoesOn("retrieve", <<Assertion("tutor", refused)>>)
                                   /\ Wrong(IF refused THEN {} ELSE {"refusal"})
    BY <1>5 DEF AskOffTopic
  <2> DEFINE added == <<Assertion("tutor", refused)>>
             what == IF refused THEN {} ELSE {"refusal"}
  <2>2. added \in Seq(Check) /\ (what # {} <=> Fails(added))
    BY <1>2, FewChecks, SomeChecks
  <2>3. GoesOn("retrieve", added) /\ Wrong(what) /\ run.at = "ask off topic"
    BY <1>5, <2>1 DEF AskOffTopic
  <2>4. \A suite \in Suites : "retrieve" \in After(suite) => run.at \in After(suite)
    BY <2>3 DEF After, Suites, EvalSteps
  <2> HIDE DEF added, what
  <2> QED
    BY <1>1, <1>2, <2>2, <2>3, <2>4, EvalStep
<1> QED
  BY <1>3, <1>4, <1>5

\* The steps of the retrieval suite keep it.
LEMMA RetrievalSuite == EvalInv /\ (RetrievePassage \/ CheckMaterials \/ CheckChunks \/ CheckNoHits) => EvalInv'
<1> SUFFICES ASSUME EvalInv, RetrievePassage \/ CheckMaterials \/ CheckChunks \/ CheckNoHits PROVE EvalInv'
  OBVIOUS
<1>1. /\ Owed = {} /\ UNCHANGED <<project, jobs>> /\ run.at # "idle"
  BY DEF Owed, RetrievePassage, CheckMaterials, CheckChunks, CheckNoHits
<1>2. /\ facts = [wrong |-> facts.wrong, moved |-> facts.moved]
      /\ run = [at |-> run.at, checks |-> run.checks, planned |-> run.planned, created |-> run.created]
      /\ run.planned \in Difficulties \cup {"none"} /\ run.created \in Nat
      /\ project \in [ready : BOOLEAN, difficulty : Difficulties, open : Nat]
      /\ "retrieval" \in Suites /\ {"scope", "chunks", "no hits", "quiz"} \subseteq EvalSteps \ {"idle"}
  BY DEF EvalInv, EvalTyped, Suites, EvalSteps
<1>3. CASE RetrievePassage
  <2>1. PICK top \in {"own", "other", "none"} :
          /\ GoesOn(IF top = "none" THEN "no hits" ELSE "scope", <<Assertion("retrieval", top = "own")>>)
          /\ Wrong(IF top = "own" THEN {} ELSE {"ranking"})
    BY <1>3 DEF RetrievePassage
  <2> DEFINE added == <<Assertion("retrieval", top = "own")>>
             what == IF top = "own" THEN {} ELSE {"ranking"}
             step == IF top = "none" THEN "no hits" ELSE "scope"
  <2>2. /\ added \in Seq(Check) /\ (what # {} <=> Fails(added)) /\ \A suite : Covers(added, suite) <=> suite = "retrieval"
    <3>1. added = IF top = "own" THEN <<Assertion("retrieval", TRUE)>> ELSE <<Assertion("retrieval", FALSE)>>
      BY DEF Assertion
    <3>2. added \in Seq(Check) /\ (Fails(added) <=> top # "own") /\ \A suite : Covers(added, suite) <=> suite = "retrieval"
      <4> HIDE DEF added
      <4> QED
        BY <1>2, <3>1, SomeChecks
    <3> QED
      BY <3>1, <3>2
  <2>3. /\ run.at = "retrieve" /\ step \in EvalSteps \ {"idle"} /\ step \in {"scope", "no hits"}
        /\ step = "no hits" => what # {}
    BY <1>2, <1>3 DEF RetrievePassage
  <2>4. /\ run' = [at |-> step, checks |-> run.checks \o added, planned |-> run.planned, created |-> run.created]
        /\ facts' = [wrong |-> facts.wrong \cup what, moved |-> facts.moved]
    BY <1>2, <2>1 DEF GoesOn, Wrong
  <2> HIDE DEF added, what, step
  <2>5. Expected' /\ Owed' = {}
    BY <2>3, <2>4 DEF Expected, Owed
  <2>6. \A suite \in Suites : step \in After(suite) /\ run.at \notin After(suite) => Covers(added, suite)
    BY <2>2, <2>3, SuitesAfter DEF EvalSteps
  <2>7. Fails(added) => facts.wrong \cup what \cup facts.moved # {}
    BY <2>2
  <2> QED
    BY ZenonT(60), <1>1, <1>2, <2>2, <2>3, <2>4, <2>5, <2>6, <2>7, EvalGoesOn
<1>4. ASSUME NEW step \in {"chunks", "quiz"}, NEW added \in Seq(Check), GoesOn(step, added), UNCHANGED facts,
             run.at \in {"scope", "chunks", "no hits"}, Fails(added) => facts.moved # {}
      PROVE  EvalInv'
  <2>1. /\ run' = [at |-> step, checks |-> run.checks \o added, planned |-> run.planned, created |-> run.created]
        /\ facts' = [wrong |-> facts.wrong \cup {}, moved |-> facts.moved]
        /\ step \in EvalSteps \ {"idle"}
    BY <1>2, <1>4 DEF GoesOn
  <2>2. Expected' /\ Owed' = {}
    BY <2>1, <1>4 DEF Expected, Owed
  <2>3. \A suite \in Suites : step \in After(suite) => run.at \in After(suite)
    BY <1>4 DEF After, Suites, EvalSteps
  <2>4. Fails(added) => facts.wrong \cup {} \cup facts.moved # {}
    BY <1>4
  <2> QED
    BY ZenonT(60), <1>1, <1>2, <1>4, <2>1, <2>2, <2>3, <2>4, EvalGoesOn
<1>5. CASE CheckMaterials \/ CheckChunks
  <2>1. PICK there \in BOOLEAN, step \in {"chunks", "quiz"} :
          /\ "material" \notin facts.moved => there
          /\ GoesOn(step, <<Assertion("retrieval", there)>>)
    BY <1>5 DEF CheckMaterials, CheckChunks
  <2> DEFINE added == <<Assertion("retrieval", there)>>
  <2>2. added \in Seq(Check) /\ (~there <=> Fails(added))
    BY <1>2, FewChecks, SomeChecks
  <2>3. UNCHANGED facts /\ run.at \in {"scope", "chunks"} /\ GoesOn(step, added)
    BY <1>5, <2>1 DEF CheckMaterials, CheckChunks
  <2>4. Fails(added) => facts.moved # {}
    BY <2>1, <2>2
  <2> HIDE DEF added
  <2> QED
    BY <1>4, <2>2, <2>3, <2>4
<1>6. CASE CheckNoHits
  <2> DEFINE added == <<Assertion("retrieval", TRUE), Assertion("retrieval", TRUE)>>
  <2>1. added \in Seq(Check) /\ ~Fails(added)
    BY <1>2, FewChecks, SomeChecks
  <2>2. UNCHANGED facts /\ run.at = "no hits" /\ GoesOn("quiz", added)
    BY <1>6 DEF CheckNoHits
  <2> HIDE DEF added
  <2> QED
    BY <1>4, <2>1, <2>2
<1> QED
  BY <1>3, <1>5, <1>6

\* The steps of the assessment suite keep it.
LEMMA AssessmentSuite == EvalInv /\ (StartEvalQuiz \/ CheckQuiz) => EvalInv'
<1> SUFFICES ASSUME EvalInv, StartEvalQuiz \/ CheckQuiz PROVE EvalInv'
  OBVIOUS
<1>1. /\ UNCHANGED <<project, jobs>> /\ run.at # "idle" /\ run.created \in Nat
      /\ facts = [wrong |-> facts.wrong, moved |-> facts.moved]
      /\ run = [at |-> run.at, checks |-> run.checks, planned |-> run.planned, created |-> run.created]
      /\ run.planned \in Difficulties \cup {"none"} /\ project.difficulty \in Difficulties
      /\ project \in [ready : BOOLEAN, difficulty : Difficulties, open : Nat] /\ run.checks \in Seq(Check)
  BY DEF EvalInv, EvalTyped, StartEvalQuiz, CheckQuiz
<1>2. "assessment" \in Suites /\ {"check quiz", "recommend"} \subseteq EvalSteps \ {"idle"}
  BY DEF Suites, EvalSteps
<1>3. CASE StartEvalQuiz
  <2>1. PICK choice \in BOOLEAN :
          /\ run' = [run EXCEPT !.at = "check quiz",
                                !.planned = IF choice THEN project.difficulty ELSE "none",
                                !.checks = Append(@, Assertion("assessment", TRUE))]
          /\ Wrong(IF choice THEN {} ELSE {"no choice"})
    BY <1>3 DEF StartEvalQuiz
  <2> DEFINE added == <<Assertion("assessment", TRUE)>>
             what == IF choice THEN {} ELSE {"no choice"}
             planned == IF choice THEN project.difficulty ELSE "none"
  <2>2. /\ added \in Seq(Check) /\ ~Fails(added) /\ \A suite : Covers(added, suite) <=> suite = "assessment"
        /\ Assertion("assessment", TRUE) \in Check
    BY <1>2, FewChecks, SomeChecks
  <2>3. /\ run' = [at |-> "check quiz", checks |-> run.checks \o added, planned |-> planned, created |-> run.created]
        /\ facts' = [wrong |-> facts.wrong \cup what, moved |-> facts.moved]
    <3>1. Append(run.checks, Assertion("assessment", TRUE)) = run.checks \o added
      BY <1>1, <2>2, AppendIsConcat
    <3>2. run' = [run EXCEPT !.at = "check quiz", !.planned = planned, !.checks = run.checks \o added]
      BY <2>1, <3>1
    <3> HIDE DEF planned, added
    <3> QED
      BY <1>1, <2>1, <3>2 DEF Wrong
  <2>4. planned \in Difficulties \cup {"none"} /\ (planned = "none" <=> ~choice) /\ (choice => planned = project.difficulty)
    BY <1>1, EvalAssumption
  <2>5. run.at = "quiz" /\ Owed = {}
    BY <1>3 DEF StartEvalQuiz, Owed
  <2>6. Owed' = what
    BY <2>3, <2>4 DEF Owed
  <2>7. Expected'
    BY <1>1, <2>3, <2>4 DEF Expected
  <2>8. \A suite \in Suites : "check quiz" \in After(suite) /\ run.at \notin After(suite) => Covers(added, suite)
    <3>1. \A suite \in Suites : "check quiz" \in After(suite) => run.at \in After(suite) \/ suite = "assessment"
      BY <2>5 DEF After, Suites, EvalSteps
    <3> QED
      BY <2>2, <3>1
  <2> HIDE DEF added, what, planned
  <2> QED
    BY ZenonT(60), <1>1, <1>2, <2>2, <2>3, <2>4, <2>5, <2>6, <2>7, <2>8, EvalGoesOn
<1>4. CASE CheckQuiz
  <2>0. PICK keyed \in BOOLEAN :
          /\ GoesOn("recommend", <<Assertion("assessment", keyed /\ run.planned # "none"),
                                   Assertion("assessment", run.planned = project.difficulty)>>)
          /\ Wrong(IF keyed THEN {} ELSE {"key"})
    BY <1>4 DEF CheckQuiz
  <2> DEFINE usable == keyed /\ run.planned # "none"
             added == <<Assertion("assessment", usable), Assertion("assessment", run.planned = project.difficulty)>>
             what == IF keyed THEN {} ELSE {"key"}
  <2>1. /\ added \in Seq(Check)
        /\ Fails(added) <=> ~keyed \/ run.planned = "none" \/ run.planned # project.difficulty
    <3>1. usable \in BOOLEAN /\ (run.planned = project.difficulty) \in BOOLEAN
      OBVIOUS
    <3>2. added \in Seq(Check) /\ (Fails(added) <=> ~usable \/ run.planned # project.difficulty)
      <4> HIDE DEF usable
      <4> QED
        BY <1>2, <3>1, SomeChecks
    <3> QED
      BY <3>2
  <2>2. run.at = "check quiz" /\ GoesOn("recommend", added) /\ Wrong(what) /\ (what # {} <=> ~keyed)
    BY <1>4, <2>0 DEF CheckQuiz
  <2> HIDE DEF added, what, usable
  <2>3. /\ run' = [at |-> "recommend", checks |-> run.checks \o added, planned |-> run.planned, created |-> run.created]
        /\ facts' = [wrong |-> facts.wrong \cup what, moved |-> facts.moved]
    BY <1>1, <2>2 DEF GoesOn, Wrong
  <2>4. Expected' /\ Owed' = {}
    BY <2>3 DEF Expected, Owed
  <2>5. \A suite \in Suites : "recommend" \in After(suite) => run.at \in After(suite)
    BY <2>2 DEF After, Suites, EvalSteps
  <2>6. Fails(added) => facts.wrong \cup what \cup facts.moved # {}
    BY <2>1, <2>2 DEF EvalInv, RunHonest, Expected
  <2>7. Owed # {} \/ what # {} => Fails(added)
    BY <2>1, <2>2 DEF Owed
  <2> QED
    BY ZenonT(60), <1>1, <1>2, <2>1, <2>3, <2>4, <2>5, <2>6, <2>7, EvalGoesOn
<1> QED
  BY <1>3, <1>4

\* The steps of the recommendation suite keep it.
LEMMA AdviceSuite == EvalInv /\ (Recommend \/ ListOpen \/ GradeRecommendation) => EvalInv'
<1> SUFFICES ASSUME EvalInv, Recommend \/ ListOpen \/ GradeRecommendation PROVE EvalInv'
  OBVIOUS
<1>1. /\ UNCHANGED jobs /\ run.at # "idle" /\ run.created \in Nat /\ MaxRecommendations \in Nat
      /\ facts = [wrong |-> facts.wrong, moved |-> facts.moved]
      /\ run = [at |-> run.at, checks |-> run.checks, planned |-> run.planned, created |-> run.created]
      /\ run.planned \in Difficulties \cup {"none"} /\ project.open \in Nat
      /\ project \in [ready : BOOLEAN, difficulty : Difficulties, open : Nat] /\ run.checks \in Seq(Check)
  BY EvalAssumption DEF EvalInv, EvalTyped, Recommend, ListOpen, GradeRecommendation
<1>2. /\ "recommendations" \in Suites /\ TRUE \in BOOLEAN
      /\ {"list", "grade recommendation", "report"} \subseteq EvalSteps \ {"idle"}
      /\ "report" \in EvalSteps \ {"idle", "no hits", "check quiz", "list"}
  BY DEF Suites, EvalSteps
<1>3. CASE Recommend
  <2>1. PICK created \in 0..MaxRecommendations :
          /\ run' = [run EXCEPT !.at = "list", !.created = created]
          /\ project' = IF created = 0 THEN project ELSE [project EXCEPT !.open = created]
          /\ Wrong(IF created = 0 THEN {"no recommendation"} ELSE {})
    BY <1>3 DEF Recommend
  <2> DEFINE what == IF created = 0 THEN {"no recommendation"} ELSE {}
  <2>2. created \in Nat /\ <<>> \in Seq(Check) /\ ~Fails(<<>>)
    BY <1>1, FewChecks
  <2>3. /\ run' = [at |-> "list", checks |-> run.checks \o <<>>, planned |-> run.planned, created |-> created]
        /\ facts' = [wrong |-> facts.wrong \cup what, moved |-> facts.moved]
    <3>1. run.checks \o <<>> = run.checks
      BY <1>1
    <3>2. run' = [at |-> "list", checks |-> run.checks, planned |-> run.planned, created |-> created]
      BY <1>1, <2>1
    <3> QED
      BY <1>1, <2>1, <3>1, <3>2 DEF Wrong
  <2>4. project' \in [ready : BOOLEAN, difficulty : Difficulties, open : Nat] /\ (created # 0 => project'.open = created)
    BY <1>1, <2>1, <2>2
  <2>5. run.at = "recommend" /\ Owed = {}
    BY <1>3 DEF Recommend, Owed
  <2>6. Owed' = what
    BY <2>3 DEF Owed
  <2>7. Expected'
    <3>1. run'.at = "list" /\ run'.created = created /\ what \subseteq facts'.wrong
      BY <2>3
    <3>2. CASE created = 0
      BY <3>1, <3>2 DEF Expected
    <3>3. CASE created # 0
      BY <2>2, <2>4, <3>1, <3>3 DEF Expected
    <3> QED
      BY <3>2, <3>3
  <2>8. \A suite \in Suites : "list" \in After(suite) => run.at \in After(suite)
    BY <2>5 DEF After, Suites, EvalSteps
  <2> HIDE DEF what
  <2> QED
    BY <1>1, <1>2, <2>2, <2>3, <2>4, <2>5, <2>6, <2>7, <2>8, EvalGoesOn
<1>4. CASE ListOpen
  <2>1. PICK reasoned \in BOOLEAN :
          /\ project.open = 0 => reasoned
          /\ GoesOn(IF project.open > 0 THEN "grade recommendation" ELSE "report",
                    <<Assertion("recommendations", run.created > 0 /\ project.open > 0),
                      Assertion("recommendations", project.open > 0 /\ reasoned),
                      Assertion("recommendations", TRUE)>>)
          /\ Wrong(IF reasoned THEN {} ELSE {"blank reason"})
    BY <1>4 DEF ListOpen
  <2> DEFINE listed == run.created > 0 /\ project.open > 0
             good == project.open > 0 /\ reasoned
             added == <<Assertion("recommendations", listed), Assertion("recommendations", good),
                        Assertion("recommendations", TRUE)>>
             what == IF reasoned THEN {} ELSE {"blank reason"}
             step == IF project.open > 0 THEN "grade recommendation" ELSE "report"
  <2>2. /\ added \in Seq(Check) /\ (Fails(added) <=> ~listed \/ ~good)
        /\ \A suite : Covers(added, suite) <=> suite = "recommendations"
    <3>1. listed \in BOOLEAN /\ good \in BOOLEAN
      OBVIOUS
    <3> HIDE DEF listed, good
    <3> QED
      BY <1>2, <3>1, SomeChecks
  <2>3. step \in {"grade recommendation", "report"} /\ run.at = "list" /\ UNCHANGED project
    BY <1>4 DEF ListOpen
  <2>4. GoesOn(step, added) /\ Wrong(what)
    BY <2>1
  <2>5. Fails(added) => facts.wrong \cup what \cup facts.moved # {}
    <3>1. run.created = 0 => facts.wrong # {}
      BY <1>1, <2>3 DEF EvalInv, RunHonest, Expected
    <3>2. run.created # 0 => project.open > 0 \/ facts.moved # {}
      BY <1>1, <2>3 DEF EvalInv, RunHonest, Expected
    <3>3. ~reasoned => what # {}
      OBVIOUS
    <3>4. ~listed => run.created = 0 \/ project.open = 0
      BY <1>1
    <3>5. ~good => ~reasoned \/ project.open = 0
      BY <1>1
    <3>6. project.open = 0 => ~(project.open > 0)
      BY <1>1
    <3> HIDE DEF listed, good, what, added
    <3> QED
      BY <2>2, <3>1, <3>2, <3>3, <3>4, <3>5, <3>6
  <2>6. what # {} => Fails(added)
    BY <2>2
  <2>7. Owed # {} => Fails(added)
    <3>1. Owed # {} => run.created = 0
      BY <2>3 DEF Owed
    <3>2. run.created = 0 => ~listed
      OBVIOUS
    <3> QED
      BY <2>2, <3>1, <3>2
  <2> HIDE DEF added, what, step
  <2>8. /\ run' = [at |-> step, checks |-> run.checks \o added, planned |-> run.planned, created |-> run.created]
        /\ facts' = [wrong |-> facts.wrong \cup what, moved |-> facts.moved]
    BY <1>1, <2>4 DEF GoesOn, Wrong
  <2>9. Expected' /\ Owed' = {}
    BY <2>3, <2>8 DEF Expected, Owed
  <2>10. \A suite \in Suites : step \in After(suite) /\ run.at \notin After(suite) => Covers(added, suite)
    BY <2>2, <2>3, SuitesAfter DEF EvalSteps
  <2>11. step \in EvalSteps \ {"idle"}
    BY <1>2, <2>3
  <2> QED
    BY ZenonT(60), <1>1, <2>2, <2>3, <2>5, <2>6, <2>7, <2>8, <2>9, <2>10, <2>11, EvalGoesOn
<1>5. CASE GradeRecommendation
  <2>1. PICK adequate \in BOOLEAN : GoesOn("report", <<Metric("recommendations", adequate)>>)
    BY <1>5 DEF GradeRecommendation
  <2> DEFINE added == <<Metric("recommendations", adequate)>>
  <2>2. added \in Seq(Check) /\ ~Fails(added)
    BY <1>2, FewChecks, SomeChecks
  <2>3. Wrong({}) /\ run.at = "grade recommendation" /\ Owed = {} /\ UNCHANGED project
    BY <1>1, <1>5 DEF Wrong, GradeRecommendation, Owed
  <2>4. \A suite \in Suites : "report" \in After(suite) => run.at \in After(suite)
    BY <2>3 DEF After, Suites, EvalSteps
  <2> HIDE DEF added
  <2> QED
    BY <1>1, <1>2, <2>1, <2>2, <2>3, <2>4, EvalStep DEF added
<1> QED
  BY <1>3, <1>4, <1>5

\* Every step of a run, and of the project meanwhile, keeps it.
LEMMA EvalMoves == EvalInv /\ [EvalNext]_evalVars => EvalInv'
<1> SUFFICES ASSUME EvalInv, [EvalNext]_evalVars PROVE EvalInv'
  OBVIOUS
<1>1. CASE UNCHANGED evalVars
  BY <1>1 DEF evalVars, EvalInv, EvalTyped, RunHonest, JobsHonest, Owed, Expected
<1>2. CASE EvalNext
  BY <1>2, RunStarts, RunEnds, ProjectMoves, TutorSuite, RetrievalSuite, AssessmentSuite, AdviceSuite DEF EvalNext
<1> QED
  BY <1>1, <1>2

\* It says that the report is honest.
LEMMA EvalMeans == EvalInv => ReportHonest
<1> SUFFICES ASSUME EvalInv PROVE ReportHonest
  OBVIOUS
<1>1. \A job \in Completed : JobHonest(job) /\ job.status = "COMPLETED"
  BY DEF EvalInv, JobsHonest, Completed
<1>2. PassesMean
  BY <1>1 DEF PassesMean, JobHonest, Covers
<1>3. FailuresMean
  BY <1>1 DEF FailuresMean, JobHonest
<1>4. TalliesAgree
  BY <1>1 DEF TalliesAgree, JobHonest, Size
<1> QED
  BY <1>2, <1>3, <1>4 DEF ReportHonest

-----------------------------------------------------------------------------
(* The script of the evaluation *)

\* The steps that have a project, a material or a job to work on.
OnMaterial == {"enqueueMaterial", "process", "processing"}
BeforeDeletion == {"process", "processing", "deleteJob"}
Provided == {"deleteJob", "countEvidence", "seed", "refreshMastery", "enqueueEvaluation", "reclaim"}
OnProject == {"countReady", "createMaterial", "drain"} \cup OnMaterial \cup Provided
InSpace == {"findProject", "createProject"}
Steps == {"createUser", "findSpace", "createSpace", "notStarted"} \cup InSpace \cup OnProject \cup Over

TaskStatuses == {"PENDING", "RUNNING", "FAILED", "COMPLETED", "DEAD", "deleted"}
Holders == Runs \cup {Worker, Nobody}
ScriptRow == [at : Steps, space : Nat, project : Nat, material : Nat, task : Nat]
ProjectRow == [space : Nat, evidence : Nat, counted : Nat]
DocumentRow == [project : Nat, status : {"QUEUED", "PROCESSING", "READY", "FAILED"}]
TaskRow == [kind : {"material", "evaluation"}, about : Nat, status : TaskStatuses, left : Int,
            turn : Nat, backoff : BOOLEAN, holder : Holders, tried : Holders]
MishapKinds == {"overlap", "worker", "notRefreshed", "givenUpEarly"}
FixtureTyped ==
    /\ projects \in Seq(ProjectRow) /\ documents \in Seq(DocumentRow) /\ tasks \in Seq(TaskRow)
    /\ spaces \in Nat /\ script \in [Runs -> ScriptRow] /\ mishaps \subseteq MishapKinds

\* What a run has got there, and what the rows are about.
RunRefers(r) ==
    /\ script[r].at \in InSpace => script[r].space \in 1..spaces
    /\ script[r].at \in OnProject => script[r].project \in DOMAIN projects
    /\ script[r].at \in OnMaterial => script[r].material \in DOMAIN documents
    /\ script[r].at \in BeforeDeletion \cup {"reclaim", "drain"} => script[r].task \in DOMAIN tasks
TaskRefers(k) ==
    /\ tasks[k].kind = "material" => tasks[k].about \in DOMAIN documents
    /\ tasks[k].kind = "evaluation" => tasks[k].about \in DOMAIN projects
RefersRight ==
    /\ \A p \in DOMAIN projects : projects[p].space \in 1..spaces
    /\ \A m \in DOMAIN documents : documents[m].project \in DOMAIN projects
    /\ \A k \in DOMAIN tasks : TaskRefers(k)
    /\ \A r \in Runs : RunRefers(r)

\* Runs that do not overlap: what the one that is under way finds.
OneAlive == \A r, s \in Runs : Alive(r) /\ Alive(s) => r = s
OneProject ==
    /\ spaces <= 1 /\ Len(projects) <= 1
    /\ \A p \in DOMAIN projects : projects[p].evidence <= 1
OwnProject ==
    \A r \in Runs :
        /\ script[r].at = "createSpace" => spaces = 0
        /\ script[r].at = "createProject" => projects = <<>>
        /\ script[r].at = "seed" => projects[script[r].project].evidence = 0
Refreshed ==
    "notRefreshed" \notin mishaps => \A p \in DOMAIN projects :
        \/ projects[p].counted = projects[p].evidence
        \/ \E r \in Runs : script[r].at = "refreshMastery"
AloneTrue == OneAlive /\ OneProject /\ OwnProject /\ Refreshed

\* The jobs, when no two processes are at work: nobody has two, and each is with who had
\* it last.
HeldTrue ==
    \A k \in DOMAIN tasks :
        /\ tasks[k].holder # Worker
        /\ tasks[k].status = "RUNNING" <=> tasks[k].holder # Nobody
        /\ tasks[k].status = "RUNNING" => tasks[k].tried = tasks[k].holder
TasksApart ==
    \A j, k \in DOMAIN tasks :
        tasks[j].status = "RUNNING" /\ tasks[k].status = "RUNNING" /\ tasks[j].holder = tasks[k].holder => j = k

\* The material that an evaluation needs is there, or the run that drains the queue has
\* it in hand or has failed at it.
Ready(p) == ThereAndReady(p) # {}
InHand(r) == \E k \in HeldBy(r) : tasks[k].kind = "material"
Tried(r) ==
    \E k \in DOMAIN tasks : /\ tasks[k].kind = "material" /\ tasks[k].tried = r
                            /\ tasks[k].status \in {"FAILED", "DEAD"}
ReadyOnly(S) == \A m \in DOMAIN documents : documents[m].status = "READY" => m \in S
RunTrue(r) ==
    /\ script[r].at \in {"createMaterial"} \cup OnMaterial => ReadyOnly({})
    /\ script[r].at \in BeforeDeletion =>
          /\ tasks[script[r].task].kind = "material" /\ tasks[script[r].task].status = "PENDING"
          /\ tasks[script[r].task].about = script[r].material
    /\ script[r].at = "deleteJob" => ReadyOnly({script[r].material})
    /\ script[r].at \in Provided => Ready(script[r].project)
    /\ script[r].at \in {"reclaim", "drain"} => tasks[script[r].task].holder \in {r, Nobody}
    /\ script[r].at = "drain" => Ready(script[r].project) \/ InHand(r) \/ Tried(r)

CalmTrue == Calm => HeldTrue /\ TasksApart /\ \A r \in Runs : RunTrue(r)
LoneTrue == "overlap" \notin mishaps => AloneTrue
FixtureInv == FixtureTyped /\ RefersRight /\ LoneTrue /\ CalmTrue /\ SameInputs /\ GivenUpRightly

\* Before the script is started there is nothing to be wrong.
LEMMA FixtureStarts == FixtureInit => FixtureInv
<1> SUFFICES ASSUME FixtureInit PROVE FixtureInv
  OBVIOUS
<1>1. NotStarted \in ScriptRow /\ NotStarted.at = "notStarted"
  BY DEF NotStarted, ScriptRow, Steps
<1>2. /\ projects = <<>> /\ documents = <<>> /\ tasks = <<>> /\ mishaps = {} /\ spaces = 0
      /\ script = [r \in Runs |-> NotStarted] /\ DOMAIN tasks = {} /\ DOMAIN documents = {} /\ DOMAIN projects = {}
  BY DEF FixtureInit
<1>3. \A r \in Runs : script[r].at = "notStarted" /\ ~Alive(r)
  BY <1>1, <1>2 DEF Alive
<1>4. FixtureTyped
  <2>1. script \in [Runs -> ScriptRow]
    BY <1>1, <1>2
  <2>2. \A S : <<>> \in Seq(S)
    OBVIOUS
  <2> QED
    BY <1>2, <2>1, <2>2 DEF FixtureTyped
<1>5. RefersRight
  BY <1>2, <1>3 DEF RefersRight, RunRefers, OnProject, OnMaterial, BeforeDeletion, Provided, InSpace
<1>6. AloneTrue
  <2>1. Len(projects) <= 1
    BY <1>2
  <2>2. \A r \in Runs : script[r].at \notin {"createSpace", "createProject", "seed"}
    BY <1>3
  <2> QED
    BY <1>2, <1>3, <2>1, <2>2 DEF AloneTrue, OneAlive, OneProject, OwnProject, Refreshed
<1>7. HeldTrue /\ TasksApart /\ SameInputs
  BY <1>2 DEF HeldTrue, TasksApart, SameInputs
<1>8. \A r \in Runs : RunTrue(r)
  BY <1>3 DEF RunTrue, BeforeDeletion, Provided, OnMaterial
<1> QED
  BY <1>2, <1>4, <1>5, <1>6, <1>7, <1>8 DEF FixtureInv, GivenUpRightly, LoneTrue, CalmTrue

-----------------------------------------------------------------------------
\* One row, or one run, changes.
LEMMA OneRun ==
    ASSUME FixtureTyped, NEW r \in Runs, NEW c \in ScriptRow, script' = [script EXCEPT ![r] = c]
    PROVE  script' \in [Runs -> ScriptRow] /\ script'[r] = c /\ \A s \in Runs \ {r} : script'[s] = script[s]
BY DEF FixtureTyped

\* One job changes.
LEMMA OneTask ==
    ASSUME FixtureTyped, NEW k \in DOMAIN tasks, NEW c \in TaskRow, tasks' = [tasks EXCEPT ![k] = c]
    PROVE  /\ tasks' \in Seq(TaskRow) /\ DOMAIN tasks' = DOMAIN tasks /\ tasks'[k] = c
           /\ \A j \in DOMAIN tasks : j # k => tasks'[j] = tasks[j]
BY DEF FixtureTyped

\* One document changes its status, and no other does.
LEMMA OneDocument ==
    ASSUME FixtureTyped, NEW m \in DOMAIN documents, NEW reached \in {"QUEUED", "PROCESSING", "READY", "FAILED"},
           documents' = [documents EXCEPT ![m].status = reached]
    PROVE  /\ documents' \in Seq(DocumentRow) /\ DOMAIN documents' = DOMAIN documents
           /\ documents'[m].status = reached
           /\ \A n \in DOMAIN documents : documents'[n].project = documents[n].project
           /\ \A n \in DOMAIN documents : n # m => documents'[n] = documents[n]
<1> DEFINE c == [documents[m] EXCEPT !.status = reached]
<1>1. documents \in Seq(DocumentRow) /\ documents[m] \in DocumentRow
  BY DEF FixtureTyped
<1>2. c \in DocumentRow /\ c.status = reached /\ c.project = documents[m].project
  BY <1>1 DEF DocumentRow
<1>3. documents' = [documents EXCEPT ![m] = c]
  BY <1>1
<1> HIDE DEF c
<1> QED
  BY <1>1, <1>2, <1>3

\* The fields of a job have their types.
LEMMA TaskFields ==
    ASSUME FixtureTyped, NEW k \in DOMAIN tasks
    PROVE  /\ tasks[k] \in TaskRow
           /\ tasks[k].kind \in {"material", "evaluation"} /\ tasks[k].about \in Nat /\ tasks[k].status \in TaskStatuses
           /\ tasks[k].left \in Int /\ tasks[k].turn \in Nat /\ tasks[k].backoff \in BOOLEAN
           /\ tasks[k].holder \in Holders /\ tasks[k].tried \in Holders
           /\ tasks[k] = [kind |-> tasks[k].kind, about |-> tasks[k].about, status |-> tasks[k].status,
                          left |-> tasks[k].left, turn |-> tasks[k].turn, backoff |-> tasks[k].backoff,
                          holder |-> tasks[k].holder, tried |-> tasks[k].tried]
<1>1. tasks[k] \in TaskRow
  BY DEF FixtureTyped
<1> QED
  BY <1>1 DEF TaskRow

\* The fields of a run have their types.
LEMMA ScriptFields ==
    ASSUME FixtureTyped, NEW r \in Runs
    PROVE  /\ script[r] \in ScriptRow /\ script[r].at \in Steps /\ script[r].space \in Nat
           /\ script[r].project \in Nat /\ script[r].material \in Nat /\ script[r].task \in Nat
           /\ script[r] = [at |-> script[r].at, space |-> script[r].space, project |-> script[r].project,
                           material |-> script[r].material, task |-> script[r].task]
<1>1. script[r] \in ScriptRow
  BY DEF FixtureTyped
<1> QED
  BY <1>1 DEF ScriptRow

\* References stay good when rows are added and keep what they are about.
LEMMA RefersKept ==
    ASSUME RefersRight, 1..spaces \subseteq 1..spaces',
           DOMAIN projects \subseteq DOMAIN projects', DOMAIN documents \subseteq DOMAIN documents',
           DOMAIN tasks \subseteq DOMAIN tasks',
           \A p \in DOMAIN projects' :
              \/ p \in DOMAIN projects /\ projects'[p].space = projects[p].space
              \/ projects'[p].space \in 1..spaces',
           \A m \in DOMAIN documents' :
              \/ m \in DOMAIN documents /\ documents'[m].project = documents[m].project
              \/ documents'[m].project \in DOMAIN projects',
           \A k \in DOMAIN tasks' :
              \/ k \in DOMAIN tasks /\ tasks'[k].kind = tasks[k].kind /\ tasks'[k].about = tasks[k].about
              \/ TaskRefers(k)',
           \A s \in Runs : script'[s] = script[s] \/ RunRefers(s)'
    PROVE  RefersRight'
<1>1. \A m \in DOMAIN documents' : documents'[m].project \in DOMAIN projects'
  BY DEF RefersRight
<1>2. \A k \in DOMAIN tasks' : TaskRefers(k)'
  BY DEF RefersRight, TaskRefers
<1>3. ASSUME NEW s \in Runs PROVE RunRefers(s)'
  <2>1. CASE script'[s] = script[s]
    <3>1. RunRefers(s)
      BY DEF RefersRight
    <3> QED
      BY <2>1, <3>1 DEF RunRefers
  <2> QED
    BY <2>1
<1>4. \A p \in DOMAIN projects' : projects'[p].space \in 1..spaces'
  BY DEF RefersRight
<1> QED
  BY <1>1, <1>2, <1>3, <1>4 DEF RefersRight

-----------------------------------------------------------------------------
\* A run that is under way is the only one, as long as none overlaps it.
LEMMA OthersRest ==
    ASSUME OneAlive, NEW r \in Runs, Alive(r) \/ \A s \in Runs : ~Alive(s),
           \A s \in Runs \ {r} : script'[s] = script[s]
    PROVE  OneAlive' /\ \A s \in Runs \ {r} : RunTrue(s)' /\ script'[s].at \in Over \cup {"notStarted"}
                                                 /\ script[s].at = script'[s].at
<1>1. ASSUME NEW s \in Runs \ {r}
      PROVE  ~Alive(s) /\ ~Alive(s)' /\ RunTrue(s)' /\ script'[s].at \in Over \cup {"notStarted"}
                /\ script[s].at = script'[s].at
  <2>1. ~Alive(s)
    BY DEF OneAlive
  <2>2. ~Alive(s)' /\ script'[s].at \in Over \cup {"notStarted"} /\ script[s].at = script'[s].at
    BY <2>1 DEF Alive
  <2>3. script'[s].at \notin {"createMaterial", "drain"} \cup OnMaterial \cup BeforeDeletion \cup Provided
    BY <2>2 DEF Over, OnMaterial, BeforeDeletion, Provided
  <2>4. RunTrue(s)'
    BY <2>3 DEF RunTrue, BeforeDeletion, Provided
  <2> QED
    BY <2>1, <2>2, <2>4
<1>2. OneAlive'
  BY <1>1 DEF OneAlive
<1> QED
  BY <1>1, <1>2

\* A run goes on, and changes no space or project.
LEMMA AloneGoesOn ==
    ASSUME LoneTrue, FixtureTyped, NEW r \in Runs, NEW c \in ScriptRow, script' = [script EXCEPT ![r] = c],
           UNCHANGED projects, UNCHANGED spaces, mishaps \subseteq mishaps',
           "overlap" \notin mishaps' =>
              /\ Alive(r) \/ \A s \in Runs : ~Alive(s)
              /\ c.at = "createSpace" => spaces = 0
              /\ c.at = "createProject" => projects = <<>>
              /\ c.at = "seed" => projects[c.project].evidence = 0
              /\ script[r].at = "refreshMastery" => "notRefreshed" \in mishaps'
    PROVE  LoneTrue'
<1> SUFFICES ASSUME "overlap" \notin mishaps' PROVE AloneTrue'
  BY DEF LoneTrue
<1>1. script'[r] = c /\ \A s \in Runs \ {r} : script'[s] = script[s]
  BY OneRun
<1>2. AloneTrue
  BY DEF LoneTrue
<1>3. OneAlive' /\ \A s \in Runs \ {r} : script'[s].at \in Over \cup {"notStarted"}
  BY <1>1, <1>2, OthersRest DEF AloneTrue
<1>4. OneProject'
  BY <1>2 DEF AloneTrue, OneProject
<1>5. \A s \in Runs : s # r => script'[s].at \notin {"createSpace", "createProject", "seed", "refreshMastery"}
  BY <1>3 DEF Over
<1>6. OwnProject'
  BY <1>1, <1>5 DEF OwnProject
<1>7. Refreshed'
  <2> SUFFICES ASSUME "notRefreshed" \notin mishaps', NEW p \in DOMAIN projects
               PROVE  projects[p].counted = projects[p].evidence
    BY DEF Refreshed
  <2>1. "notRefreshed" \notin mishaps /\ script[r].at # "refreshMastery"
    OBVIOUS
  <2>2. \A s \in Runs : script[s].at # "refreshMastery"
    BY <1>1, <1>5, <2>1
  <2> QED
    BY <1>2, <2>1, <2>2 DEF AloneTrue, Refreshed
<1> QED
  BY <1>3, <1>4, <1>6, <1>7 DEF AloneTrue

\* A run goes on, and changes no row.
LEMMA RunGoesOn ==
    ASSUME FixtureInv, NEW r \in Runs, NEW c \in ScriptRow, script' = [script EXCEPT ![r] = c],
           UNCHANGED <<spaces, projects, documents, tasks>>,
           mishaps \subseteq mishaps', mishaps' \subseteq MishapKinds, GivenUpRightly',
           c.at \in InSpace => c.space \in 1..spaces,
           c.at \in OnProject => c.project \in DOMAIN projects,
           c.at \notin OnMaterial \cup {"deleteJob", "reclaim", "drain"},
           "overlap" \notin mishaps' =>
              /\ Alive(r) \/ \A s \in Runs : ~Alive(s)
              /\ c.at = "createSpace" => spaces = 0
              /\ c.at = "createProject" => projects = <<>>
              /\ c.at = "seed" => projects[c.project].evidence = 0
              /\ script[r].at = "refreshMastery" => "notRefreshed" \in mishaps',
           Calm => /\ c.at = "createMaterial" => ReadyOnly({})
                   /\ c.at \in Provided => Ready(c.project)
    PROVE  FixtureInv'
<1>1. /\ FixtureTyped /\ RefersRight /\ script' \in [Runs -> ScriptRow] /\ script'[r] = c
      /\ \A s \in Runs \ {r} : script'[s] = script[s]
  BY OneRun DEF FixtureInv
<1>2. UNCHANGED spaces /\ UNCHANGED projects /\ UNCHANGED documents /\ UNCHANGED tasks
  OBVIOUS
<1>3. FixtureTyped'
  BY <1>1, <1>2 DEF FixtureTyped
<1>4. RefersRight'
  <2>1. RunRefers(r)'
    BY <1>1, <1>2 DEF RunRefers, OnMaterial, BeforeDeletion
  <2> QED
    BY <1>1, <1>2, <2>1, RefersKept
<1>5. LoneTrue'
  BY <1>1, <1>2, AloneGoesOn DEF FixtureInv
<1>6. ASSUME Calm' PROVE HeldTrue' /\ TasksApart' /\ \A s \in Runs : RunTrue(s)'
  <2>1. /\ Calm /\ HeldTrue /\ TasksApart /\ OneAlive /\ "overlap" \notin mishaps'
    BY <1>6 DEF FixtureInv, Calm, CalmTrue, LoneTrue, AloneTrue
  <2>2. HeldTrue' /\ TasksApart'
    BY <1>2, <2>1 DEF HeldTrue, TasksApart
  <2>3. \A s \in Runs \ {r} : RunTrue(s)'
    BY <1>1, <2>1, OthersRest
  <2>4. /\ Ready(c.project)' = Ready(c.project) /\ ReadyOnly({})' = ReadyOnly({})
    BY <1>2 DEF Ready, ThereAndReady, ReadyOnly
  <2>5. RunTrue(r)'
    BY <1>1, <2>1, <2>4 DEF RunTrue, OnMaterial, BeforeDeletion
  <2> QED
    BY <2>2, <2>3, <2>5
<1>7. SameInputs'
  BY <1>2 DEF FixtureInv, SameInputs, Calm
<1> QED
  BY <1>3, <1>4, <1>5, <1>6, <1>7 DEF FixtureInv, CalmTrue

\* With one project, every document is the one run's.
LEMMA OnlyProject ==
    ASSUME FixtureInv, Calm, NEW p \in DOMAIN projects, NEW q \in DOMAIN projects
    PROVE  p = q
<1>1. Len(projects) <= 1
  BY DEF FixtureInv, LoneTrue, AloneTrue, OneProject, Calm
<1>2. projects \in Seq(ProjectRow)
  BY DEF FixtureInv, FixtureTyped
<1>3. Len(projects) \in Nat /\ DOMAIN projects = 1..Len(projects)
  BY <1>2
<1> QED
  BY <1>1, <1>3

\* The steps of a run that change no row.
LEMMA Quiet ==
    ASSUME FixtureInv,
           \E r \in Runs : \/ Start(r) \/ CreateUser(r) \/ FindSpace(r) \/ FindProject(r) \/ CountReady(r)
                           \/ CountEvidence(r) \/ ReportRun(r) \/ StopRun(r)
    PROVE  FixtureInv'
<1> PICK r \in Runs : \/ Start(r) \/ CreateUser(r) \/ FindSpace(r) \/ FindProject(r) \/ CountReady(r)
                      \/ CountEvidence(r) \/ ReportRun(r) \/ StopRun(r)
  OBVIOUS
<1>1. /\ FixtureTyped /\ RefersRight /\ GivenUpRightly /\ mishaps \subseteq MishapKinds
      /\ UNCHANGED <<spaces, projects, documents, tasks>>
      /\ script \in [Runs -> ScriptRow]
  BY DEF FixtureInv, FixtureTyped, Start, CreateUser, FindSpace, FindProject, CountReady, CountEvidence,
         ReportRun, StopRun
<1>2. /\ script[r] \in ScriptRow /\ script[r].at \in Steps /\ script[r].project \in Nat
      /\ script[r] = [at |-> script[r].at, space |-> script[r].space, project |-> script[r].project,
                      material |-> script[r].material, task |-> script[r].task]
  BY <1>1, ScriptFields
\* A step of which only the place changes.
<1>3. ASSUME NEW step \in Steps \ (OnMaterial \cup {"deleteJob", "reclaim", "drain"} \cup InSpace), Now(r, step),
             Alive(r), script[r].at # "refreshMastery", UNCHANGED mishaps,
             step \in OnProject => script[r].at \in OnProject,
             step = "createSpace" => spaces = 0,
             step = "seed" => projects[script[r].project].evidence = 0,
             Calm => /\ step = "createMaterial" => ReadyOnly({})
                     /\ step \in Provided => Ready(script[r].project) \/ script[r].at \in Provided
      PROVE  FixtureInv'
  <2> DEFINE c == [script[r] EXCEPT !.at = step]
  <2>1. c \in ScriptRow /\ c.at = step /\ c.project = script[r].project
    BY <1>2 DEF ScriptRow
  <2>2. script' = [script EXCEPT ![r] = c]
    BY <1>1, <1>3 DEF Now
  <2>3. script[r].at \in OnProject => script[r].project \in DOMAIN projects
    BY <1>1 DEF RefersRight, RunRefers
  <2>4. GivenUpRightly'
    BY <1>1, <1>3 DEF GivenUpRightly
  <2>5. Calm /\ script[r].at \in Provided => Ready(script[r].project)
    BY DEF FixtureInv, CalmTrue, RunTrue
  <2>6. step \notin {"createProject"} \cup InSpace
    BY <1>3 DEF InSpace
  <2> HIDE DEF c
  <2> QED
    BY <1>1, <1>3, <2>1, <2>2, <2>3, <2>4, <2>5, <2>6, RunGoesOn
\* The end of a run.
<1>4. ASSUME NEW how \in Over, Leave(r, how), Alive(r), mishaps \subseteq mishaps', mishaps' \subseteq MishapKinds,
             script[r].at = "refreshMastery" => "notRefreshed" \in mishaps', GivenUpRightly'
      PROVE  FixtureInv'
  <2> DEFINE c == [NotStarted EXCEPT !.at = how]
  <2>1. c \in ScriptRow /\ c.at = how
    BY DEF NotStarted, ScriptRow, Steps
  <2>2. script' = [script EXCEPT ![r] = c]
    BY <1>4 DEF Leave
  <2>3. how \notin OnProject \cup InSpace \cup {"createSpace", "createProject", "createMaterial", "seed"} \cup Provided
                   \cup OnMaterial \cup {"deleteJob", "reclaim", "drain"}
    BY DEF Over, OnProject, OnMaterial, Provided, InSpace
  <2> HIDE DEF c
  <2> QED
    BY <1>1, <1>4, <2>1, <2>2, <2>3, RunGoesOn
<1>5. CASE Start(r)
  <2> DEFINE step == IF user THEN "findSpace" ELSE "createUser"
             c == [script[r] EXCEPT !.at = step]
  <2>1. step \in Steps /\ step \notin OnProject \cup OnMaterial \cup Provided \cup InSpace
                         \cup {"deleteJob", "reclaim", "drain", "createSpace", "createProject", "createMaterial", "seed"}
    BY DEF Steps, OnProject, OnMaterial, Provided, InSpace
  <2>2. c \in ScriptRow /\ c.at = step
    BY <1>2, <2>1 DEF ScriptRow
  <2>3. script' = [script EXCEPT ![r] = c] /\ script[r].at = "notStarted"
    BY <1>1, <1>5 DEF Start, Now
  <2>4. /\ mishaps \subseteq mishaps' /\ mishaps' \subseteq MishapKinds /\ GivenUpRightly'
        /\ "overlap" \notin mishaps' => \A s \in Runs : ~Alive(s)
    BY <1>1, <1>5 DEF Start, MishapKinds, GivenUpRightly
  <2> HIDE DEF c, step
  <2> QED
    BY <1>1, <2>1, <2>2, <2>3, <2>4, RunGoesOn
<1>6. CASE CreateUser(r)
  <2>1. Alive(r) /\ script[r].at = "createUser" /\ UNCHANGED mishaps /\ GivenUpRightly'
    BY <1>1, <1>6 DEF CreateUser, Alive, Over, GivenUpRightly
  <2>2. CASE user
    BY <1>1, <1>4, <1>6, <2>1, <2>2 DEF CreateUser, Over
  <2>3. CASE ~user
    <3>1. "findSpace" \in Steps \ (OnMaterial \cup {"deleteJob", "reclaim", "drain"} \cup InSpace)
          /\ "findSpace" \notin OnProject \cup Provided
      BY DEF Steps, OnProject, OnMaterial, Provided, InSpace
    <3> QED
      BY <1>3, <1>6, <2>1, <2>3, <3>1 DEF CreateUser
  <2> QED
    BY <2>2, <2>3
<1>7. CASE FindSpace(r)
  <2>1. Alive(r) /\ script[r].at = "findSpace" /\ UNCHANGED mishaps /\ GivenUpRightly' /\ spaces \in Nat
    BY <1>1, <1>7 DEF FindSpace, Alive, Over, GivenUpRightly, FixtureTyped
  <2>2. CASE spaces = 0 /\ Now(r, "createSpace")
    <3>1. "createSpace" \in Steps \ (OnMaterial \cup {"deleteJob", "reclaim", "drain"} \cup InSpace)
          /\ "createSpace" \notin OnProject \cup Provided
      BY DEF Steps, OnProject, OnMaterial, Provided, InSpace
    <3> QED
      BY <1>3, <2>1, <2>2, <3>1
  <2>3. CASE \E s \in 1..spaces : WithSpace(r, "findProject", s)
    <3> PICK s \in 1..spaces : WithSpace(r, "findProject", s)
      BY <2>3
    <3> DEFINE c == [script[r] EXCEPT !.at = "findProject", !.space = s]
    <3>1. c \in ScriptRow /\ c.at = "findProject" /\ c.space = s
      <4>1. s \in Nat
        BY <2>1
      <4> QED
        BY <1>2, <4>1 DEF ScriptRow, Steps, InSpace
    <3>2. script' = [script EXCEPT ![r] = c]
      BY <1>1 DEF WithSpace
    <3>3. "findProject" \notin OnProject \cup OnMaterial \cup Provided
                               \cup {"deleteJob", "reclaim", "drain", "createSpace", "createProject", "createMaterial", "seed"}
      BY DEF OnProject, OnMaterial, Provided
    <3> HIDE DEF c
    <3> QED
      BY <1>1, <2>1, <3>1, <3>2, <3>3, RunGoesOn
  <2> QED
    BY <1>7, <2>2, <2>3 DEF FindSpace
<1>8. CASE FindProject(r)
  <2>1. Alive(r) /\ script[r].at = "findProject" /\ UNCHANGED mishaps /\ GivenUpRightly'
    BY <1>1, <1>8 DEF FindProject, Alive, Over, GivenUpRightly
  <2>2. script[r].space \in 1..spaces /\ spaces \in Nat /\ projects \in Seq(ProjectRow)
        /\ \A p \in DOMAIN projects : projects[p].space \in 1..spaces
    BY <1>1, <2>1 DEF RefersRight, RunRefers, InSpace, FixtureTyped
  <2>3. CASE ProjectsOf(script[r].space) = {} /\ Now(r, "createProject")
    <3> DEFINE c == [script[r] EXCEPT !.at = "createProject"]
    <3>1. c \in ScriptRow /\ c.at = "createProject" /\ c.space = script[r].space
      BY <1>2 DEF ScriptRow, Steps, InSpace
    <3>2. script' = [script EXCEPT ![r] = c]
      BY <1>1, <2>3 DEF Now
    <3>3. "createProject" \notin OnProject \cup OnMaterial \cup Provided
                                 \cup {"deleteJob", "reclaim", "drain", "createSpace", "createMaterial", "seed"}
      BY DEF OnProject, OnMaterial, Provided
    <3>4. "overlap" \notin mishaps => projects = <<>>
      <4> SUFFICES ASSUME "overlap" \notin mishaps PROVE projects = <<>>
        OBVIOUS
      <4>1. spaces <= 1
        BY DEF FixtureInv, LoneTrue, AloneTrue, OneProject
      <4>2. \A p \in DOMAIN projects : projects[p].space = script[r].space
        BY <2>2, <4>1
      <4>3. DOMAIN projects = {}
        BY <2>3, <4>2 DEF ProjectsOf
      <4>4. Len(projects) = 0
        BY <2>2, <4>3
      <4> QED
        BY <2>2, <4>4
    <3> HIDE DEF c
    <3> QED
      BY <1>1, <2>1, <2>2, <3>1, <3>2, <3>3, <3>4, RunGoesOn
  <2>4. CASE \E p \in ProjectsOf(script[r].space) : WithProject(r, "countReady", p)
    <3> PICK p \in ProjectsOf(script[r].space) : WithProject(r, "countReady", p)
      BY <2>4
    <3> DEFINE c == [script[r] EXCEPT !.at = "countReady", !.project = p]
    <3>1. p \in DOMAIN projects /\ p \in Nat
      BY <2>2 DEF ProjectsOf
    <3>2. c \in ScriptRow /\ c.at = "countReady" /\ c.project = p
      BY <1>2, <3>1 DEF ScriptRow, Steps, OnProject
    <3>3. script' = [script EXCEPT ![r] = c]
      BY <1>1 DEF WithProject
    <3>4. "countReady" \notin OnMaterial \cup Provided \cup InSpace
                              \cup {"deleteJob", "reclaim", "drain", "createSpace", "createProject", "createMaterial", "seed"}
      BY DEF OnMaterial, Provided, InSpace
    <3> HIDE DEF c
    <3> QED
      BY <1>1, <2>1, <3>1, <3>2, <3>3, <3>4, RunGoesOn
  <2> QED
    BY <1>8, <2>3, <2>4 DEF FindProject
<1>9. CASE CountReady(r)
  <2> DEFINE step == IF ThereAndReady(script[r].project) = {} THEN "createMaterial" ELSE "countEvidence"
  <2>1. Alive(r) /\ script[r].at = "countReady" /\ UNCHANGED mishaps /\ Now(r, step)
    BY <1>9 DEF CountReady, Alive, Over
  <2>2. /\ step \in Steps \ (OnMaterial \cup {"deleteJob", "reclaim", "drain"} \cup InSpace)
        /\ step # "createSpace" /\ step # "seed" /\ "countReady" \in OnProject
        /\ step \in Provided => Ready(script[r].project)
    BY DEF Steps, OnProject, OnMaterial, Provided, InSpace, Ready
  <2>3. Calm /\ step = "createMaterial" => ReadyOnly({})
    <3> SUFFICES ASSUME Calm, step = "createMaterial", NEW m \in DOMAIN documents, documents[m].status = "READY"
                 PROVE  FALSE
      BY DEF ReadyOnly
    <3>1. script[r].project \in DOMAIN projects /\ documents[m].project \in DOMAIN projects
      BY <1>1, <2>1, <2>2 DEF RefersRight, RunRefers
    <3>2. documents[m].project = script[r].project
      BY <3>1, OnlyProject
    <3> QED
      BY <3>2 DEF ThereAndReady
  <2> HIDE DEF step
  <2> QED
    BY <1>3, <2>1, <2>2, <2>3
<1>10. CASE CountEvidence(r)
  <2> DEFINE step == IF projects[script[r].project].evidence > 0 \/ ~enough THEN "enqueueEvaluation" ELSE "seed"
  <2>1. Alive(r) /\ script[r].at = "countEvidence" /\ UNCHANGED mishaps /\ Now(r, step)
    BY <1>10 DEF CountEvidence, Alive, Over
  <2>2. /\ step \in Steps \ (OnMaterial \cup {"deleteJob", "reclaim", "drain"} \cup InSpace)
        /\ step # "createSpace" /\ step # "createMaterial"
        /\ "countEvidence" \in OnProject /\ "countEvidence" \in Provided
    BY DEF Steps, OnProject, OnMaterial, Provided, InSpace
  <2>3. step = "seed" => projects[script[r].project].evidence = 0
    <3>1. script[r].project \in DOMAIN projects
      BY <1>1, <2>1, <2>2 DEF RefersRight, RunRefers
    <3>2. projects[script[r].project] \in ProjectRow
      BY <1>1, <3>1 DEF FixtureTyped
    <3>3. projects[script[r].project].evidence \in Nat
      BY <3>2 DEF ProjectRow
    <3> QED
      BY <3>3
  <2> HIDE DEF step
  <2> QED
    BY <1>3, <2>1, <2>2, <2>3
<1>11. CASE ReportRun(r)
  <2>1. /\ Alive(r) /\ script[r].at = "drain" /\ HeldBy(r) = {} /\ Leave(r, "ended") /\ "ended" \in Over
        /\ mishaps' = IF tasks[script[r].task].status = "RUNNING" THEN mishaps \cup {"givenUpEarly"} ELSE mishaps
    BY <1>11 DEF ReportRun, Alive, Over
  <2>2. mishaps \subseteq mishaps' /\ mishaps' \subseteq MishapKinds
    BY <1>1, <2>1 DEF MishapKinds
  <2>3. GivenUpRightly'
    <3>1. CASE Calm
      <4>1. script[r].task \in DOMAIN tasks
        BY <1>1, <2>1 DEF RefersRight, RunRefers
      <4>2. HeldTrue /\ tasks[script[r].task].holder \in {r, Nobody}
        BY <2>1, <3>1 DEF FixtureInv, CalmTrue, RunTrue
      <4>3. tasks[script[r].task].status # "RUNNING"
        BY <2>1, <4>1, <4>2 DEF HeldTrue, HeldBy
      <4> QED
        BY <1>1, <2>1, <4>3 DEF GivenUpRightly
    <3>2. CASE ~Calm
      BY <2>2, <3>2 DEF Calm, GivenUpRightly
    <3> QED
      BY <3>1, <3>2
  <2> QED
    BY <1>4, <2>1, <2>2, <2>3
<1>12. CASE StopRun(r)
  <2>1. /\ Alive(r) /\ Leave(r, "stopped") /\ "stopped" \in Over
        /\ mishaps' = mishaps \cup (IF script[r].at = "refreshMastery" THEN {"notRefreshed"} ELSE {})
    BY <1>12 DEF StopRun, Over
  <2>2. /\ mishaps \subseteq mishaps' /\ mishaps' \subseteq MishapKinds
        /\ script[r].at = "refreshMastery" => "notRefreshed" \in mishaps'
        /\ GivenUpRightly'
    BY <1>1, <2>1 DEF MishapKinds, GivenUpRightly
  <2> QED
    BY <1>4, <2>1, <2>2
<1> QED
  BY <1>5, <1>6, <1>7, <1>8, <1>9, <1>10, <1>11, <1>12

\* The space and the project are made, and the project is given its history.
LEMMA ProjectGrows ==
    ASSUME FixtureInv, NEW r \in Runs, CreateSpace(r) \/ CreateProject(r) \/ SeedEvidence(r) \/ RefreshMastery(r)
    PROVE  FixtureInv'
<1>1. /\ FixtureTyped /\ RefersRight /\ GivenUpRightly /\ mishaps \subseteq MishapKinds /\ UNCHANGED mishaps
      /\ UNCHANGED documents /\ UNCHANGED tasks /\ script \in [Runs -> ScriptRow]
      /\ projects \in Seq(ProjectRow) /\ spaces \in Nat
      /\ script[r].at \in {"createSpace", "createProject", "seed", "refreshMastery"}
  BY DEF FixtureInv, FixtureTyped, CreateSpace, CreateProject, SeedEvidence, RefreshMastery
<1>2. /\ Alive(r) /\ GivenUpRightly'
      /\ {"seed", "refreshMastery"} \subseteq OnProject \cap Provided
  BY <1>1 DEF Alive, Over, GivenUpRightly, OnProject, Provided
<1>3. /\ script[r] \in ScriptRow /\ script[r].project \in Nat /\ script[r].space \in Nat
      /\ script[r] = [at |-> script[r].at, space |-> script[r].space, project |-> script[r].project,
                      material |-> script[r].material, task |-> script[r].task]
  BY <1>1, ScriptFields
\* What is common: the projects become others.
<1>4. ASSUME NEW c \in ScriptRow, script' = [script EXCEPT ![r] = c],
             projects' \in Seq(ProjectRow), spaces' \in Nat, spaces <= spaces',
             DOMAIN projects \subseteq DOMAIN projects',
             \A p \in DOMAIN projects' : \/ p \in DOMAIN projects /\ projects'[p].space = projects[p].space
                                         \/ projects'[p].space \in 1..spaces',
             c.at \in {"findProject", "countReady", "refreshMastery", "enqueueEvaluation"},
             c.at = "findProject" => c.space \in 1..spaces',
             c.at # "findProject" => c.project \in DOMAIN projects',
             c.at \notin {"findProject", "countReady"} => c.project = script[r].project /\ script[r].at \in Provided,
             "overlap" \notin mishaps => OneProject' /\ Refreshed'
      PROVE  FixtureInv'
  <2>1. script' \in [Runs -> ScriptRow] /\ script'[r] = c /\ \A s \in Runs \ {r} : script'[s] = script[s]
    BY <1>1, <1>4, OneRun
  <2>2. FixtureTyped'
    BY <1>1, <1>4, <2>1 DEF FixtureTyped
  <2>3. RefersRight'
    <3>1. RunRefers(r)'
      <4>1. "findProject" \notin OnProject /\ {"countReady", "refreshMastery", "enqueueEvaluation"} \cap InSpace = {}
        BY DEF OnProject, OnMaterial, Provided, InSpace
      <4> QED
        BY <1>4, <2>1, <4>1 DEF RunRefers, OnMaterial, BeforeDeletion
    <3>2. DOMAIN documents' = DOMAIN documents /\ DOMAIN tasks' = DOMAIN tasks /\ 1..spaces \subseteq 1..spaces'
      BY <1>1, <1>4
    <3> QED
      BY <1>1, <1>4, <2>1, <3>1, <3>2, RefersKept
  <2>4. LoneTrue'
    <3> SUFFICES ASSUME "overlap" \notin mishaps PROVE AloneTrue'
      BY <1>1 DEF LoneTrue
    <3>1. OneAlive' /\ \A s \in Runs \ {r} : script'[s].at \in Over \cup {"notStarted"}
      BY <1>2, <2>1, OthersRest DEF FixtureInv, LoneTrue, AloneTrue
    <3>2. \A s \in Runs : script'[s].at \notin {"createSpace", "createProject", "seed"}
      BY <1>4, <2>1, <3>1 DEF Over
    <3>3. OwnProject'
      BY <3>2 DEF OwnProject
    <3> QED
      BY <1>4, <3>1, <3>3 DEF AloneTrue
  <2>5. ASSUME Calm PROVE HeldTrue' /\ TasksApart' /\ \A s \in Runs : RunTrue(s)'
    <3>1. HeldTrue /\ TasksApart /\ OneAlive /\ RunTrue(r)
      BY <2>5 DEF FixtureInv, Calm, CalmTrue, LoneTrue, AloneTrue
    <3>2. HeldTrue' /\ TasksApart'
      BY <1>1, <3>1 DEF HeldTrue, TasksApart
    <3>3. \A s \in Runs \ {r} : RunTrue(s)'
      BY <1>2, <2>1, <3>1, OthersRest
    <3>4. Ready(c.project)' = Ready(c.project)
      BY <1>1 DEF Ready, ThereAndReady
    <3>5. c.at \in Provided => Ready(c.project)
      <4>1. {"findProject", "countReady"} \cap Provided = {}
        BY DEF Provided
      <4> QED
        BY <1>4, <3>1, <4>1 DEF RunTrue
    <3>6. c.at \notin {"createMaterial", "drain", "reclaim", "deleteJob"} \cup OnMaterial \cup BeforeDeletion
      BY <1>4 DEF BeforeDeletion, OnMaterial
    <3>7. RunTrue(r)'
      BY <2>1, <3>4, <3>5, <3>6 DEF RunTrue
    <3> QED
      BY <3>2, <3>3, <3>7
  <2>6. SameInputs'
    BY <1>1 DEF FixtureInv, SameInputs, Calm
  <2> QED
    BY <1>1, <1>2, <2>2, <2>3, <2>4, <2>5, <2>6 DEF FixtureInv, CalmTrue, Calm
<1>5. CASE CreateSpace(r)
  <2> DEFINE c == [script[r] EXCEPT !.at = "findProject", !.space = spaces']
  <2>1. spaces' = spaces + 1 /\ UNCHANGED projects /\ script[r].at = "createSpace"
        /\ WithSpace(r, "findProject", spaces')
    BY <1>5 DEF CreateSpace
  <2>2. c \in ScriptRow /\ c.at = "findProject" /\ c.space = spaces'
    <3>1. spaces' \in Nat
      BY <1>1, <2>1
    <3> QED
      BY <1>3, <3>1 DEF ScriptRow, Steps, InSpace
  <2>3. script' = [script EXCEPT ![r] = c]
    BY <1>1, <2>1 DEF WithSpace
  <2>4. ASSUME "overlap" \notin mishaps PROVE OneProject' /\ Refreshed'
    <3>1. OneProject /\ OwnProject /\ Refreshed
      BY <2>4 DEF FixtureInv, LoneTrue, AloneTrue
    <3>2. OneProject'
      BY <2>1, <3>1 DEF OneProject, OwnProject
    <3>3. Refreshed'
      <4> SUFFICES ASSUME "notRefreshed" \notin mishaps, NEW p \in DOMAIN projects,
                          projects[p].counted # projects[p].evidence
                   PROVE  \E s \in Runs : script'[s].at = "refreshMastery"
        BY <1>1, <2>1 DEF Refreshed
      <4>1. PICK s \in Runs : script[s].at = "refreshMastery"
        BY <3>1 DEF Refreshed
      <4>2. s # r
        BY <2>1, <4>1
      <4>3. script'[s] = script[s]
        BY <1>1, <2>3, <4>2
      <4> QED
        BY <4>1, <4>3
    <3> QED
      BY <3>2, <3>3
  <2>5. /\ projects' \in Seq(ProjectRow) /\ DOMAIN projects \subseteq DOMAIN projects'
        /\ \A p \in DOMAIN projects' : p \in DOMAIN projects /\ projects'[p].space = projects[p].space
        /\ spaces' \in Nat /\ spaces <= spaces' /\ spaces' \in 1..spaces'
    BY <1>1, <2>1
  <2> HIDE DEF c
  <2> QED
    BY <1>4, <2>2, <2>3, <2>4, <2>5
<1>6. CASE CreateProject(r)
  <2> DEFINE new == [space |-> script[r].space, evidence |-> 0, counted |-> 0]
             p == Len(projects) + 1
             c == [script[r] EXCEPT !.at = "countReady", !.project = p]
  <2>1. /\ projects' = Append(projects, new) /\ WithProject(r, "countReady", Len(projects'))
        /\ script[r].at = "createProject" /\ UNCHANGED spaces
    BY <1>6 DEF CreateProject
  <2>2. /\ projects' \in Seq(ProjectRow) /\ Len(projects') = p /\ p \in Nat /\ projects'[p] = new
        /\ DOMAIN projects' = DOMAIN projects \cup {p} /\ \A q \in DOMAIN projects : projects'[q] = projects[q]
    <3>1. new \in ProjectRow
      BY <1>3 DEF ProjectRow
    <3> HIDE DEF new
    <3> QED
      BY <1>1, <2>1, <3>1
  <2>3. c \in ScriptRow /\ c.at = "countReady" /\ c.project = p
    BY <1>3, <2>2 DEF ScriptRow, Steps, OnProject
  <2>4. script' = [script EXCEPT ![r] = c]
    BY <1>1, <2>1, <2>2 DEF WithProject
  <2>5. ASSUME "overlap" \notin mishaps PROVE OneProject' /\ Refreshed'
    <3>1. projects = <<>> /\ spaces <= 1
      BY <2>1, <2>5 DEF FixtureInv, LoneTrue, AloneTrue, OwnProject, OneProject
    <3>2. projects' = <<new>>
      BY <2>1, <3>1
    <3>3. Len(projects') = 1 /\ DOMAIN projects' = {1} /\ projects'[1] = new
      BY <3>2
    <3> QED
      BY <2>1, <3>1, <3>3 DEF OneProject, Refreshed
  <2>6. new.space \in 1..spaces /\ spaces <= spaces
    BY <1>1, <2>1 DEF RefersRight, RunRefers, InSpace
  <2> HIDE DEF c, new, p
  <2> QED
    BY <1>1, <1>4, <2>1, <2>2, <2>3, <2>4, <2>5, <2>6
<1>7. ASSUME SeedEvidence(r) \/ RefreshMastery(r)
      PROVE  FixtureInv'
  <2> DEFINE q == script[r].project
             step == IF script[r].at = "seed" THEN "refreshMastery" ELSE "enqueueEvaluation"
             new == IF script[r].at = "seed" THEN [projects[q] EXCEPT !.evidence = @ + 1]
                    ELSE [projects[q] EXCEPT !.counted = projects[q].evidence]
             c == [script[r] EXCEPT !.at = step]
  <2>1. q \in DOMAIN projects /\ script[r].at \in {"seed", "refreshMastery"} /\ UNCHANGED spaces
    BY <1>1, <1>2, <1>7 DEF RefersRight, RunRefers, SeedEvidence, RefreshMastery
  <2>2. projects[q] \in ProjectRow
    BY <1>1, <2>1
  <2>3. /\ projects[q].evidence \in Nat /\ projects[q].counted \in Nat /\ projects[q].space \in Nat
        /\ projects[q] = [space |-> projects[q].space, evidence |-> projects[q].evidence,
                          counted |-> projects[q].counted]
    BY <2>2 DEF ProjectRow
  <2>4. new \in ProjectRow /\ new.space = projects[q].space
    BY <2>3 DEF ProjectRow
  <2>5. projects' = [projects EXCEPT ![q] = new]
    <3>1. CASE SeedEvidence(r)
      <4>1. projects' = [projects EXCEPT ![q].evidence = projects[q].evidence + 1] /\ script[r].at = "seed"
        BY <2>1, <3>1 DEF SeedEvidence
      <4> QED
        BY <2>1, <2>3, <4>1
    <3>2. CASE RefreshMastery(r)
      <4>1. projects' = [projects EXCEPT ![q].counted = projects[q].evidence] /\ script[r].at = "refreshMastery"
        BY <2>1, <3>2 DEF RefreshMastery
      <4> QED
        BY <2>1, <2>3, <4>1
    <3> QED
      BY <1>7, <3>1, <3>2
  <2>6. script' = [script EXCEPT ![r] = c]
    BY <1>1, <1>7 DEF SeedEvidence, RefreshMastery, Now
  <2>7. c \in ScriptRow /\ c.at = step /\ c.project = q
    BY <1>3 DEF ScriptRow, Steps, OnProject, Provided
  <2>8. /\ projects' \in Seq(ProjectRow) /\ Len(projects') = Len(projects) /\ DOMAIN projects' = DOMAIN projects
        /\ projects'[q] = new
        /\ \A n \in DOMAIN projects : n # q => projects'[n] = projects[n]
    <3> HIDE DEF new, q
    <3> QED
      BY <1>1, <2>1, <2>4, <2>5
  <2>9. ASSUME "overlap" \notin mishaps PROVE OneProject' /\ Refreshed'
    <3>1. OneProject /\ Refreshed /\ OwnProject
      BY <2>9 DEF FixtureInv, LoneTrue, AloneTrue
    <3>2. \A n \in DOMAIN projects : n = q
      <4>1. Len(projects) \in Nat /\ DOMAIN projects = 1..Len(projects)
        BY <1>1
      <4> QED
        BY <2>1, <3>1, <4>1 DEF OneProject
    <3>3. CASE script[r].at = "seed"
      <4>1. new.evidence = 1
        BY <2>3, <3>1, <3>3 DEF OwnProject
      <4>2. script'[r].at = "refreshMastery"
        BY <1>1, <2>6, <2>7, <3>3
      <4> HIDE DEF new, q
      <4> QED
        BY <2>1, <2>8, <3>1, <3>2, <4>1, <4>2 DEF OneProject, Refreshed
    <3>4. CASE script[r].at # "seed"
      <4>1. new.evidence = projects[q].evidence /\ new.counted = new.evidence
        BY <2>3, <3>4
      <4> HIDE DEF new, q
      <4> QED
        BY <2>1, <2>8, <3>1, <3>2, <4>1 DEF OneProject, Refreshed
    <3> QED
      BY <3>3, <3>4
  <2>10. /\ step \in {"refreshMastery", "enqueueEvaluation"} /\ script[r].at \in Provided
         /\ step \notin {"findProject", "countReady"}
    BY <1>2, <2>1
  <2>11. \A n \in DOMAIN projects : projects'[n].space = projects[n].space
    <3> HIDE DEF new, q
    <3> QED
      BY <2>4, <2>8
  <2>12. /\ DOMAIN projects \subseteq DOMAIN projects' /\ q \in DOMAIN projects'
         /\ \A n \in DOMAIN projects' : n \in DOMAIN projects /\ projects'[n].space = projects[n].space
         /\ spaces' \in Nat /\ spaces <= spaces'
    <3> HIDE DEF new
    <3> QED
      BY <1>1, <2>1, <2>8, <2>11
  <2> HIDE DEF c, step, new
  <2> QED
    BY <1>4, <2>6, <2>7, <2>8, <2>9, <2>10, <2>12
<1> QED
  BY <1>5, <1>6, <1>7

-----------------------------------------------------------------------------
\* A document is made.
LEMMA MaterialMade ==
    ASSUME FixtureInv, NEW r \in Runs, CreateFixtureMaterial(r)
    PROVE  FixtureInv'
<1> DEFINE new == [project |-> script[r].project, status |-> "QUEUED"]
           m == Len(documents) + 1
           c == [script[r] EXCEPT !.at = "enqueueMaterial", !.material = m]
<1>1. /\ FixtureTyped /\ RefersRight /\ GivenUpRightly /\ mishaps \subseteq MishapKinds /\ UNCHANGED mishaps
      /\ UNCHANGED spaces /\ UNCHANGED projects /\ UNCHANGED tasks /\ script \in [Runs -> ScriptRow]
      /\ documents \in Seq(DocumentRow) /\ documents' = Append(documents, new)
      /\ WithMaterial(r, "enqueueMaterial", Len(documents')) /\ script[r].at = "createMaterial"
  BY DEF FixtureInv, FixtureTyped, CreateFixtureMaterial
<1>2. /\ script[r] \in ScriptRow /\ script[r].project \in Nat
      /\ script[r] = [at |-> script[r].at, space |-> script[r].space, project |-> script[r].project,
                      material |-> script[r].material, task |-> script[r].task]
  BY <1>1, ScriptFields
<1>3. script[r].project \in DOMAIN projects /\ Alive(r) /\ GivenUpRightly'
  BY <1>1 DEF RefersRight, RunRefers, OnProject, Alive, Over, GivenUpRightly
<1>4. /\ documents' \in Seq(DocumentRow) /\ Len(documents') = m /\ m \in Nat
      /\ DOMAIN documents' = DOMAIN documents \cup {m} /\ m \notin DOMAIN documents /\ documents'[m] = new
      /\ \A n \in DOMAIN documents : documents'[n] = documents[n]
  <2>1. new \in DocumentRow
    BY <1>2 DEF DocumentRow
  <2> HIDE DEF new
  <2> QED
    BY <1>1, <2>1
<1>5. c \in ScriptRow /\ c.at = "enqueueMaterial" /\ c.project = script[r].project /\ c.material = m
  <2> HIDE DEF m
  <2> QED
    BY <1>2, <1>4 DEF ScriptRow, Steps, OnProject, OnMaterial
<1>6. script' = [script EXCEPT ![r] = c]
  BY <1>1, <1>4 DEF WithMaterial
<1>7. new.project = script[r].project /\ new.status = "QUEUED"
  OBVIOUS
<1> HIDE DEF new, m, c
<1>8. script' \in [Runs -> ScriptRow] /\ script'[r] = c /\ \A s \in Runs \ {r} : script'[s] = script[s]
  BY <1>1, <1>5, <1>6, OneRun
<1>9. FixtureTyped'
  BY <1>1, <1>4, <1>8 DEF FixtureTyped
<1>10. RefersRight'
  <2>1. RunRefers(r)'
    BY <1>1, <1>3, <1>4, <1>5, <1>8 DEF RunRefers, BeforeDeletion, InSpace
  <2>2. DOMAIN projects' = DOMAIN projects /\ DOMAIN tasks' = DOMAIN tasks /\ 1..spaces' = 1..spaces
    BY <1>1
  <2>3. \A n \in DOMAIN documents' : \/ n \in DOMAIN documents /\ documents'[n].project = documents[n].project
                                     \/ documents'[n].project \in DOMAIN projects'
    BY <1>3, <1>4, <1>7, <2>2
  <2>4. /\ \A k \in DOMAIN tasks' : k \in DOMAIN tasks /\ tasks'[k].kind = tasks[k].kind /\ tasks'[k].about = tasks[k].about
        /\ \A p \in DOMAIN projects' : p \in DOMAIN projects /\ projects'[p].space = projects[p].space
    BY <1>1
  <2>5. DOMAIN documents \subseteq DOMAIN documents'
    BY <1>4
  <2> QED
    BY <1>1, <1>8, <2>1, <2>2, <2>3, <2>4, <2>5, RefersKept
<1>11. LoneTrue'
  BY <1>1, <1>3, <1>5, <1>6, AloneGoesOn DEF FixtureInv
<1>12. ASSUME Calm PROVE HeldTrue' /\ TasksApart' /\ \A s \in Runs : RunTrue(s)'
  <2>1. HeldTrue /\ TasksApart /\ OneAlive /\ RunTrue(r)
    BY <1>12 DEF FixtureInv, Calm, CalmTrue, LoneTrue, AloneTrue
  <2>2. HeldTrue' /\ TasksApart'
    BY <1>1, <2>1 DEF HeldTrue, TasksApart
  <2>3. \A s \in Runs \ {r} : RunTrue(s)'
    BY <1>3, <1>8, <2>1, OthersRest
  <2>4. ReadyOnly({})'
    BY <1>1, <1>4, <1>7, <2>1 DEF RunTrue, ReadyOnly
  <2>5. RunTrue(r)'
    BY <1>5, <1>8, <2>4 DEF RunTrue, BeforeDeletion, Provided
  <2> QED
    BY <2>2, <2>3, <2>5
<1>13. SameInputs'
  BY <1>1, <1>4, <1>7 DEF FixtureInv, SameInputs, Calm
<1> QED
  BY <1>1, <1>3, <1>9, <1>10, <1>11, <1>12, <1>13 DEF FixtureInv, CalmTrue, Calm

\* A job is enqueued: the fixture's document's, or the evaluation's.
LEMMA TaskMade ==
    ASSUME FixtureInv, NEW r \in Runs, EnqueueFixtureMaterial(r) \/ EnqueueEvaluation(r)
    PROVE  FixtureInv'
<1> DEFINE material == script[r].at = "enqueueMaterial"
           new == [kind |-> IF material THEN "material" ELSE "evaluation",
                   about |-> IF material THEN script[r].material ELSE script[r].project,
                   status |-> "PENDING", left |-> IF material THEN 3 ELSE 1,
                   turn |-> 2 * Len(tasks), backoff |-> FALSE, holder |-> Nobody, tried |-> Nobody]
           k == Len(tasks) + 1
           step == IF material THEN "process" ELSE "reclaim"
           c == [script[r] EXCEPT !.at = step, !.task = k]
<1>1. /\ FixtureTyped /\ RefersRight /\ GivenUpRightly /\ mishaps \subseteq MishapKinds /\ UNCHANGED mishaps
      /\ UNCHANGED spaces /\ UNCHANGED projects /\ UNCHANGED documents
      /\ script \in [Runs -> ScriptRow] /\ tasks \in Seq(TaskRow)
      /\ script[r].at \in {"enqueueMaterial", "enqueueEvaluation"}
  BY DEF FixtureInv, FixtureTyped, EnqueueFixtureMaterial, EnqueueEvaluation
<1>2. /\ script[r] \in ScriptRow /\ script[r].project \in Nat /\ script[r].material \in Nat
      /\ script[r] = [at |-> script[r].at, space |-> script[r].space, project |-> script[r].project,
                      material |-> script[r].material, task |-> script[r].task]
  BY <1>1, ScriptFields
<1>3. /\ script[r].project \in DOMAIN projects
      /\ material => script[r].material \in DOMAIN documents
      /\ Alive(r) /\ GivenUpRightly'
      /\ ~material => script[r].at \in Provided
      /\ material => script[r].at \in OnMaterial
  BY <1>1 DEF RefersRight, RunRefers, OnProject, OnMaterial, Provided, Alive, Over, GivenUpRightly
<1>4. tasks' = Append(tasks, new) /\ WithTask(r, step, Len(tasks'))
  <2>1. CASE EnqueueFixtureMaterial(r)
    BY <2>1 DEF EnqueueFixtureMaterial, Enqueued
  <2>2. CASE EnqueueEvaluation(r)
    BY <2>2 DEF EnqueueEvaluation, Enqueued
  <2> QED
    BY <2>1, <2>2
<1>5. /\ tasks' \in Seq(TaskRow) /\ Len(tasks') = k /\ k \in Nat
      /\ DOMAIN tasks' = DOMAIN tasks \cup {k} /\ k \notin DOMAIN tasks /\ tasks'[k] = new
      /\ \A j \in DOMAIN tasks : tasks'[j] = tasks[j]
  <2>1. new \in TaskRow
    <3>1. 2 * Len(tasks) \in Nat /\ Nobody \in Holders
      BY <1>1 DEF Holders
    <3> QED
      BY <1>2, <3>1 DEF TaskRow, TaskStatuses
  <2> HIDE DEF new
  <2> QED
    BY <1>1, <1>4, <2>1
<1>6. c \in ScriptRow /\ c.at = step /\ c.project = script[r].project /\ c.material = script[r].material /\ c.task = k
  <2> HIDE DEF k
  <2> QED
    BY <1>2, <1>5 DEF ScriptRow, Steps, OnProject, OnMaterial, Provided
<1>7. script' = [script EXCEPT ![r] = c]
  BY <1>1, <1>4, <1>5 DEF WithTask
<1>8. /\ new.kind = IF material THEN "material" ELSE "evaluation"
      /\ new.about = IF material THEN script[r].material ELSE script[r].project
      /\ new.status = "PENDING" /\ new.holder = Nobody
  OBVIOUS
<1>9. /\ material => step = "process" /\ step \notin Provided
      /\ ~material => step = "reclaim" /\ step \notin OnMaterial \cup BeforeDeletion
      /\ step \notin {"createSpace", "createProject", "createMaterial", "seed", "deleteJob"} \cup InSpace
  BY DEF Provided, OnMaterial, BeforeDeletion, InSpace
<1> HIDE DEF new, k, c, step
<1>10. script' \in [Runs -> ScriptRow] /\ script'[r] = c /\ \A s \in Runs \ {r} : script'[s] = script[s]
  BY <1>1, <1>6, <1>7, OneRun
<1>11. FixtureTyped'
  BY <1>1, <1>5, <1>10 DEF FixtureTyped
<1>12. RefersRight'
  <2>1. RunRefers(r)'
    BY <1>1, <1>3, <1>5, <1>6, <1>9, <1>10 DEF RunRefers
  <2>2. DOMAIN projects' = DOMAIN projects /\ DOMAIN documents' = DOMAIN documents /\ 1..spaces' = 1..spaces
    BY <1>1
  <2>3. /\ \A n \in DOMAIN documents' : n \in DOMAIN documents /\ documents'[n].project = documents[n].project
        /\ \A p \in DOMAIN projects' : p \in DOMAIN projects /\ projects'[p].space = projects[p].space
    BY <1>1
  <2>4. \A j \in DOMAIN tasks' : \/ j \in DOMAIN tasks /\ tasks'[j].kind = tasks[j].kind /\ tasks'[j].about = tasks[j].about
                                 \/ TaskRefers(j)'
    <3>1. ASSUME NEW j \in DOMAIN tasks', j = k PROVE TaskRefers(j)'
      BY <1>3, <1>5, <1>8, <2>2, <3>1 DEF TaskRefers
    <3> QED
      BY <1>5, <3>1
  <2>5. DOMAIN tasks \subseteq DOMAIN tasks'
    BY <1>5
  <2> QED
    BY <1>1, <1>10, <2>1, <2>2, <2>3, <2>4, <2>5, RefersKept
<1>13. LoneTrue'
  <2>1. script[r].at # "refreshMastery"
    BY <1>1
  <2> QED
    BY <1>1, <1>3, <1>6, <1>7, <1>9, <2>1, AloneGoesOn DEF FixtureInv
<1>14. ASSUME Calm PROVE HeldTrue' /\ TasksApart' /\ \A s \in Runs : RunTrue(s)'
  <2>1. HeldTrue /\ TasksApart /\ OneAlive /\ RunTrue(r)
    BY <1>14 DEF FixtureInv, Calm, CalmTrue, LoneTrue, AloneTrue
  <2>2. HeldTrue'
    BY <1>5, <1>8, <2>1 DEF HeldTrue, Worker, Nobody
  <2>3. TasksApart'
    BY <1>5, <1>8, <2>1 DEF TasksApart
  <2>4. \A s \in Runs \ {r} : RunTrue(s)'
    BY <1>3, <1>10, <2>1, OthersRest
  <2>5. ReadyOnly({})' = ReadyOnly({})
    BY <1>1 DEF ReadyOnly
  <2>6. RunTrue(r)'
    <3>1. CASE material
      <4>1. c.at = "process" /\ c.at \notin Provided /\ c.task = k /\ c.material = script[r].material
        BY <1>6, <1>9, <3>1
      <4>2. tasks'[k].kind = "material" /\ tasks'[k].status = "PENDING" /\ tasks'[k].about = script[r].material
        BY <1>5, <1>8, <3>1
      <4>3. ReadyOnly({})'
        BY <1>3, <2>1, <2>5, <3>1 DEF RunTrue
      <4> QED
        BY <1>10, <4>1, <4>2, <4>3 DEF RunTrue
    <3>2. CASE ~material
      <4>1. c.at = "reclaim" /\ c.at \notin OnMaterial \cup BeforeDeletion /\ c.task = k /\ c.project = script[r].project
        BY <1>6, <1>9, <3>2
      <4>2. tasks'[k].holder = Nobody
        BY <1>5, <1>8
      <4>3. Ready(script[r].project)
        BY <1>3, <2>1, <3>2 DEF RunTrue
      <4>4. ASSUME NEW p PROVE Ready(p) => Ready(p)'
        BY <1>1 DEF Ready, ThereAndReady
      <4> QED
        BY <1>10, <4>1, <4>2, <4>3, <4>4 DEF RunTrue
    <3> QED
      BY <3>1, <3>2
  <2> QED
    BY <2>2, <2>3, <2>4, <2>6
<1>15. SameInputs'
  BY <1>1, <1>5 DEF FixtureInv, SameInputs, Calm
<1> QED
  BY <1>1, <1>3, <1>11, <1>12, <1>13, <1>14, <1>15 DEF FixtureInv, CalmTrue, Calm

-----------------------------------------------------------------------------
\* The script processes its document itself.
LEMMA Inline ==
    ASSUME FixtureInv, NEW r \in Runs, BeginInline(r) \/ EndInline(r)
    PROVE  FixtureInv'
<1> DEFINE m == script[r].material
<1>1. /\ FixtureTyped /\ RefersRight /\ GivenUpRightly /\ mishaps \subseteq MishapKinds /\ UNCHANGED mishaps
      /\ UNCHANGED spaces /\ UNCHANGED projects /\ UNCHANGED tasks /\ script \in [Runs -> ScriptRow]
      /\ script[r].at \in {"process", "processing"}
  BY DEF FixtureInv, FixtureTyped, BeginInline, EndInline
<1>2. /\ script[r] \in ScriptRow /\ script[r].project \in Nat /\ m \in Nat /\ script[r].task \in Nat
      /\ script[r] = [at |-> script[r].at, space |-> script[r].space, project |-> script[r].project,
                      material |-> script[r].material, task |-> script[r].task]
  BY <1>1, ScriptFields
<1>3. /\ script[r].project \in DOMAIN projects /\ m \in DOMAIN documents /\ script[r].task \in DOMAIN tasks
      /\ Alive(r) /\ GivenUpRightly' /\ script[r].at \in BeforeDeletion \cap OnMaterial
  BY <1>1 DEF RefersRight, RunRefers, OnProject, OnMaterial, BeforeDeletion, Alive, Over, GivenUpRightly
\* What is common: the document gets a status, the run gets somewhere.
<1>4. ASSUME NEW c \in ScriptRow, script' = [script EXCEPT ![r] = c],
             NEW reached \in {"PROCESSING", "READY", "FAILED"}, documents' = [documents EXCEPT ![m].status = reached],
             \/ c.at = "processing" /\ reached # "READY"
             \/ c.at = "deleteJob" /\ reached = "READY"
             \/ c.at = "ended" /\ reached # "READY",
             c.at # "ended" => c.project = script[r].project /\ c.task = script[r].task /\ c.material = m
      PROVE  FixtureInv'
  <2>1. script' \in [Runs -> ScriptRow] /\ script'[r] = c /\ \A s \in Runs \ {r} : script'[s] = script[s]
    BY <1>1, <1>4, OneRun
  <2>2. /\ documents' \in Seq(DocumentRow) /\ DOMAIN documents' = DOMAIN documents
        /\ documents'[m].status = reached
        /\ \A n \in DOMAIN documents : documents'[n].project = documents[n].project
        /\ \A n \in DOMAIN documents : n # m => documents'[n] = documents[n]
    <3>1. reached \in {"QUEUED", "PROCESSING", "READY", "FAILED"}
      OBVIOUS
    <3> HIDE DEF m
    <3> QED
      BY <1>1, <1>3, <1>4, <3>1, OneDocument
  <2>3. FixtureTyped'
    BY <1>1, <2>1, <2>2 DEF FixtureTyped
  <2>4. RefersRight'
    <3>1. RunRefers(r)'
      <4>1. /\ "ended" \notin OnProject \cup OnMaterial \cup BeforeDeletion \cup InSpace \cup {"reclaim", "drain"}
            /\ "deleteJob" \notin OnMaterial \cup InSpace /\ "processing" \notin InSpace
        BY DEF OnProject, OnMaterial, BeforeDeletion, Provided, InSpace
      <4> HIDE DEF m
      <4> QED
        BY <1>1, <1>3, <1>4, <2>1, <2>2, <4>1 DEF RunRefers
    <3>2. DOMAIN projects' = DOMAIN projects /\ DOMAIN tasks' = DOMAIN tasks /\ 1..spaces' = 1..spaces
      BY <1>1
    <3>3. /\ \A k \in DOMAIN tasks' : k \in DOMAIN tasks /\ tasks'[k].kind = tasks[k].kind /\ tasks'[k].about = tasks[k].about
          /\ \A p \in DOMAIN projects' : p \in DOMAIN projects /\ projects'[p].space = projects[p].space
      BY <1>1
    <3> QED
      BY <1>1, <2>1, <2>2, <3>1, <3>2, <3>3, RefersKept
  <2>5. LoneTrue'
    <3>1. script[r].at # "refreshMastery" /\ c.at \notin {"createSpace", "createProject", "seed"}
      BY <1>1, <1>4
    <3> QED
      BY <1>1, <1>3, <1>4, <3>1, AloneGoesOn DEF FixtureInv
  <2>6. ASSUME Calm PROVE \A n \in DOMAIN documents' :
                             documents'[n].status = "READY" => n = m /\ reached = "READY"
    <3>1. ReadyOnly({})
      BY <1>3, <2>6 DEF FixtureInv, CalmTrue, RunTrue
    <3> HIDE DEF m
    <3> QED
      BY <1>4, <2>2, <3>1 DEF ReadyOnly
  <2>7. ASSUME Calm PROVE HeldTrue' /\ TasksApart' /\ \A s \in Runs : RunTrue(s)'
    <3>1. HeldTrue /\ TasksApart /\ OneAlive /\ RunTrue(r)
      BY <2>7 DEF FixtureInv, Calm, CalmTrue, LoneTrue, AloneTrue
    <3>2. HeldTrue' /\ TasksApart'
      BY <1>1, <3>1 DEF HeldTrue, TasksApart
    <3>3. /\ tasks[script[r].task].kind = "material" /\ tasks[script[r].task].status = "PENDING"
          /\ tasks[script[r].task].about = m
      BY <1>1, <1>3, <3>1 DEF RunTrue
    <3>4. \A s \in Runs \ {r} : RunTrue(s)'
      BY <1>3, <2>1, <3>1, OthersRest
    <3>5. RunTrue(r)'
      <4>1. CASE c.at = "processing"
        <5>1. c.at \notin Provided /\ reached # "READY"
          BY <1>4, <4>1 DEF Provided
        <5>2. ReadyOnly({})'
          BY <2>6, <2>7, <5>1 DEF ReadyOnly
        <5> QED
          BY <1>1, <1>4, <2>1, <3>3, <4>1, <5>1, <5>2 DEF RunTrue
      <4>2. CASE c.at = "deleteJob"
        <5>1. documents[m].project = script[r].project
          BY <1>1, <1>3, <2>7, OnlyProject DEF RefersRight
        <5>2. m \in DOMAIN documents' /\ documents'[m].project = script[r].project /\ documents'[m].status = "READY"
          BY <1>3, <1>4, <2>2, <4>2, <5>1
        <5>3. /\ script'[r].project = script[r].project /\ script'[r].at = "deleteJob"
              /\ script'[r].task = script[r].task /\ script'[r].material = m
          BY <1>4, <2>1, <4>2
        <5>4. ASSUME NEW p, p = script[r].project PROVE Ready(p)'
          BY <5>2, <5>4 DEF Ready, ThereAndReady
        <5>5. reached = "READY" /\ "deleteJob" \notin OnMaterial
          BY <1>4, <4>2 DEF OnMaterial
        <5>6. ASSUME NEW q, q = m PROVE ReadyOnly({q})'
          BY <2>6, <2>7, <5>5, <5>6 DEF ReadyOnly
        <5> HIDE DEF m
        <5> QED
          BY <1>1, <3>3, <5>3, <5>4, <5>5, <5>6 DEF RunTrue
      <4>3. CASE c.at = "ended"
        BY <2>1, <4>3 DEF RunTrue, OnMaterial, BeforeDeletion, Provided
      <4> QED
        BY <1>4, <4>1, <4>2, <4>3
    <3> QED
      BY <3>2, <3>4, <3>5
  <2>8. SameInputs'
    <3> SUFFICES ASSUME Calm, NEW i \in DOMAIN documents', NEW j \in DOMAIN documents', i # j,
                        documents'[i].status = "READY", documents'[j].status = "READY"
                 PROVE  FALSE
      BY <1>1 DEF SameInputs, Calm
    <3> HIDE DEF m
    <3> QED
      BY <2>6
  <2> QED
    BY <1>1, <1>3, <2>3, <2>4, <2>5, <2>7, <2>8 DEF FixtureInv, CalmTrue, Calm
<1>5. ASSUME NEW step \in {"processing", "deleteJob"}, Now(r, step),
             NEW reached \in {"PROCESSING", "READY"}, documents' = [documents EXCEPT ![m].status = reached],
             step = "processing" <=> reached = "PROCESSING"
      PROVE  FixtureInv'
  <2> DEFINE c == [script[r] EXCEPT !.at = step]
  <2>1. c \in ScriptRow /\ c.at = step /\ c.project = script[r].project /\ c.material = m /\ c.task = script[r].task
    BY <1>2 DEF ScriptRow, Steps, OnProject, OnMaterial, Provided
  <2>2. script' = [script EXCEPT ![r] = c]
    BY <1>1, <1>5 DEF Now
  <2> HIDE DEF c
  <2> QED
    BY <1>4, <1>5, <2>1, <2>2
<1>6. CASE BeginInline(r)
  BY <1>5, <1>6 DEF BeginInline
<1>7. CASE EndInline(r)
  <2>1. CASE documents' = [documents EXCEPT ![m].status = "READY"] /\ Now(r, "deleteJob")
    BY <1>5, <2>1
  <2>2. CASE documents' = [documents EXCEPT ![m].status = "FAILED"] /\ Leave(r, "ended")
    <3> DEFINE c == [NotStarted EXCEPT !.at = "ended"]
    <3>1. c \in ScriptRow /\ c.at = "ended"
      BY DEF NotStarted, ScriptRow, Steps, Over
    <3>2. script' = [script EXCEPT ![r] = c]
      BY <2>2 DEF Leave
    <3> HIDE DEF c
    <3> QED
      BY <1>4, <2>2, <3>1, <3>2
  <2> QED
    BY <1>7, <2>1, <2>2 DEF EndInline
<1> QED
  BY <1>6, <1>7

\* The job nobody needs any more is deleted, and its document is the only one to use.
LEMMA JobDeleted ==
    ASSUME FixtureInv, NEW r \in Runs, DeleteRedundantJob(r)
    PROVE  FixtureInv'
<1> DEFINE k == script[r].task
           t == [tasks[k] EXCEPT !.status = "deleted"]
           c == [script[r] EXCEPT !.at = "countEvidence", !.task = 0]
<1>1. /\ FixtureTyped /\ RefersRight /\ GivenUpRightly /\ mishaps \subseteq MishapKinds /\ UNCHANGED mishaps
      /\ UNCHANGED spaces /\ UNCHANGED projects /\ UNCHANGED documents /\ script \in [Runs -> ScriptRow]
      /\ script[r].at = "deleteJob" /\ tasks' = [tasks EXCEPT ![k].status = "deleted"]
      /\ WithTask(r, "countEvidence", 0)
  BY DEF FixtureInv, FixtureTyped, DeleteRedundantJob
<1>2. /\ script[r] \in ScriptRow /\ script[r].project \in Nat /\ script[r].material \in Nat
      /\ script[r] = [at |-> script[r].at, space |-> script[r].space, project |-> script[r].project,
                      material |-> script[r].material, task |-> script[r].task]
  BY <1>1, ScriptFields
<1>3. /\ script[r].project \in DOMAIN projects /\ k \in DOMAIN tasks
      /\ Alive(r) /\ GivenUpRightly'
      /\ script[r].at \in BeforeDeletion \cap Provided
  BY <1>1 DEF RefersRight, RunRefers, OnProject, BeforeDeletion, Provided, Alive, Over, GivenUpRightly
<1>4. /\ t \in TaskRow /\ t.kind = tasks[k].kind /\ t.about = tasks[k].about /\ t.status = "deleted"
      /\ t.holder = tasks[k].holder /\ t.tried = tasks[k].tried
  BY <1>1, <1>3, TaskFields DEF TaskRow, TaskStatuses
<1>5. tasks' = [tasks EXCEPT ![k] = t]
  BY <1>1, <1>3
<1>6. c \in ScriptRow /\ c.at = "countEvidence" /\ c.project = script[r].project
  BY <1>2 DEF ScriptRow, Steps, OnProject, Provided
<1>7. script' = [script EXCEPT ![r] = c]
  BY <1>1 DEF WithTask
<1> HIDE DEF k, t, c
<1>8. script' \in [Runs -> ScriptRow] /\ script'[r] = c /\ \A s \in Runs \ {r} : script'[s] = script[s]
  BY <1>1, <1>6, <1>7, OneRun
<1>9. /\ tasks' \in Seq(TaskRow) /\ DOMAIN tasks' = DOMAIN tasks /\ tasks'[k] = t
      /\ \A j \in DOMAIN tasks : j # k => tasks'[j] = tasks[j]
  BY <1>1, <1>3, <1>4, <1>5, OneTask
<1>10. FixtureTyped'
  BY <1>1, <1>8, <1>9 DEF FixtureTyped
<1>11. "countEvidence" \notin OnMaterial \cup BeforeDeletion \cup InSpace \cup {"reclaim", "drain", "createMaterial"}
  BY DEF OnMaterial, BeforeDeletion, InSpace
<1>12. RefersRight'
  <2>1. RunRefers(r)'
    BY <1>1, <1>3, <1>6, <1>8, <1>11 DEF RunRefers
  <2>2. DOMAIN projects' = DOMAIN projects /\ DOMAIN documents' = DOMAIN documents /\ 1..spaces' = 1..spaces
    BY <1>1
  <2>3. /\ \A n \in DOMAIN documents' : n \in DOMAIN documents /\ documents'[n].project = documents[n].project
        /\ \A p \in DOMAIN projects' : p \in DOMAIN projects /\ projects'[p].space = projects[p].space
    BY <1>1
  <2>4. \A j \in DOMAIN tasks' : j \in DOMAIN tasks /\ tasks'[j].kind = tasks[j].kind /\ tasks'[j].about = tasks[j].about
    BY <1>4, <1>9
  <2> QED
    BY <1>1, <1>8, <1>9, <2>1, <2>2, <2>3, <2>4, RefersKept
<1>13. LoneTrue'
  <2>1. script[r].at # "refreshMastery" /\ c.at \notin {"createSpace", "createProject", "seed"}
    BY <1>1, <1>6
  <2> QED
    BY <1>1, <1>3, <1>6, <1>7, <2>1, AloneGoesOn DEF FixtureInv
<1>14. ASSUME Calm PROVE HeldTrue' /\ TasksApart' /\ \A s \in Runs : RunTrue(s)'
  <2>1. HeldTrue /\ TasksApart /\ OneAlive /\ RunTrue(r)
    BY <1>14 DEF FixtureInv, Calm, CalmTrue, LoneTrue, AloneTrue
  <2>2. tasks[k].status = "PENDING" /\ tasks[k].holder = Nobody
    BY <1>3, <2>1 DEF RunTrue, HeldTrue, k
  <2>3. HeldTrue'
    BY <1>4, <1>9, <2>1, <2>2 DEF HeldTrue
  <2>4. TasksApart'
    BY <1>4, <1>9, <2>1 DEF TasksApart
  <2>5. \A s \in Runs \ {r} : RunTrue(s)'
    BY <1>3, <1>8, <2>1, OthersRest
  <2>6. RunTrue(r)'
    <3>1. Ready(script[r].project)
      BY <1>3, <2>1 DEF RunTrue
    <3>2. ASSUME NEW p PROVE Ready(p) => Ready(p)'
      BY <1>1 DEF Ready, ThereAndReady
    <3> QED
      BY <1>6, <1>8, <1>11, <3>1, <3>2 DEF RunTrue
  <2> QED
    BY <2>3, <2>4, <2>5, <2>6
<1>15. SameInputs'
  <2> SUFFICES ASSUME Calm PROVE \A i, j \in DOMAIN documents :
                  ~(i # j /\ documents[i].status = "READY" /\ documents[j].status = "READY")
    BY <1>1 DEF SameInputs, Calm
  <2>1. ReadyOnly({script[r].material})
    BY <1>1 DEF FixtureInv, CalmTrue, RunTrue
  <2> QED
    BY <2>1 DEF ReadyOnly
<1> QED
  BY <1>1, <1>3, <1>10, <1>12, <1>13, <1>14, <1>15 DEF FixtureInv, CalmTrue, Calm

-----------------------------------------------------------------------------
\* Jobs go on, with the documents they are about; a run may begin to drain the queue.
LEMMA TasksGoOn ==
    ASSUME FixtureInv, tasks' \in Seq(TaskRow), DOMAIN tasks' = DOMAIN tasks,
           \A j \in DOMAIN tasks : tasks'[j].kind = tasks[j].kind /\ tasks'[j].about = tasks[j].about,
           documents' \in Seq(DocumentRow), DOMAIN documents' = DOMAIN documents,
           \A n \in DOMAIN documents : documents'[n].project = documents[n].project,
           UNCHANGED spaces, UNCHANGED projects,
           \/ UNCHANGED script
           \/ \E r \in Runs : script[r].at = "reclaim" /\ Now(r, "drain"),
           mishaps \subseteq mishaps', mishaps' \subseteq MishapKinds, GivenUpRightly',
           Calm' => HeldTrue' /\ TasksApart' /\ \A r \in Runs : RunTrue(r)',
           SameInputs'
    PROVE  FixtureInv'
<1>1. FixtureTyped /\ RefersRight /\ DOMAIN projects' = DOMAIN projects /\ 1..spaces' = 1..spaces
      /\ \A p \in DOMAIN projects' : p \in DOMAIN projects /\ projects'[p].space = projects[p].space
  BY DEF FixtureInv
<1>2. /\ script' \in [Runs -> ScriptRow]
      /\ \A s \in Runs : \/ script'[s] = script[s]
                         \/ /\ script[s].at = "reclaim" /\ script'[s].at = "drain"
                            /\ script'[s].project = script[s].project /\ script'[s].task = script[s].task
  <2>1. CASE UNCHANGED script
    BY <1>1, <2>1 DEF FixtureTyped
  <2>2. CASE \E r \in Runs : script[r].at = "reclaim" /\ Now(r, "drain")
    <3> PICK r \in Runs : script[r].at = "reclaim" /\ Now(r, "drain")
      BY <2>2
    <3> DEFINE c == [script[r] EXCEPT !.at = "drain"]
    <3>1. c \in ScriptRow /\ c.at = "drain" /\ c.project = script[r].project /\ c.task = script[r].task
      BY <1>1, ScriptFields DEF ScriptRow, Steps, OnProject
    <3>2. script' = [script EXCEPT ![r] = c]
      BY <1>1 DEF Now, FixtureTyped
    <3> HIDE DEF c
    <3> QED
      BY <1>1, <3>1, <3>2, OneRun
  <2> QED
    BY <2>1, <2>2
<1>3. FixtureTyped'
  BY <1>1, <1>2 DEF FixtureTyped
<1>4. RefersRight'
  <2>1. ASSUME NEW s \in Runs PROVE script'[s] = script[s] \/ RunRefers(s)'
    <3>1. "reclaim" \in OnProject /\ "drain" \notin OnMaterial \cup InSpace
      BY DEF OnProject, Provided, OnMaterial, InSpace
    <3>2. RunRefers(s)
      BY <1>1 DEF RefersRight
    <3> QED
      BY <1>1, <1>2, <3>1, <3>2 DEF RunRefers
  <2> QED
    BY <1>1, <2>1, RefersKept
<1>5. LoneTrue'
  <2> SUFFICES ASSUME "overlap" \notin mishaps' PROVE AloneTrue'
    BY DEF LoneTrue
  <2>1. AloneTrue
    BY DEF FixtureInv, LoneTrue
  <2>2. \A s \in Runs : Alive(s)' => Alive(s)
    BY <1>2 DEF Alive, Over
  <2>3. \A s \in Runs : \/ script'[s] = script[s]
                        \/ /\ script'[s].at \notin {"createSpace", "createProject", "seed"}
                           /\ script[s].at # "refreshMastery"
    BY <1>2
  <2>4. OneAlive' /\ OneProject' /\ OwnProject'
    BY <2>1, <2>2, <2>3 DEF AloneTrue, OneAlive, OneProject, OwnProject
  <2>5. Refreshed'
    BY <2>1, <2>3 DEF AloneTrue, Refreshed
  <2> QED
    BY <2>4, <2>5 DEF AloneTrue
<1> QED
  BY <1>3, <1>4, <1>5 DEF FixtureInv, CalmTrue

\* What a job's own document becomes.
LEMMA ItsDocument ==
    ASSUME FixtureInv, NEW k \in DOMAIN tasks, NEW reached \in {"PROCESSING", "READY", "FAILED"},
           documents' = IF tasks[k].kind = "material"
                        THEN [documents EXCEPT ![tasks[k].about].status = reached] ELSE documents
    PROVE  /\ documents' \in Seq(DocumentRow) /\ DOMAIN documents' = DOMAIN documents
           /\ \A n \in DOMAIN documents : documents'[n].project = documents[n].project
           /\ tasks[k].kind = "material" =>
                 /\ tasks[k].about \in DOMAIN documents /\ documents'[tasks[k].about].status = reached
                 /\ \A n \in DOMAIN documents : n # tasks[k].about => documents'[n] = documents[n]
           /\ tasks[k].kind # "material" => documents' = documents
<1>1. FixtureTyped /\ RefersRight
  BY DEF FixtureInv
<1>2. CASE tasks[k].kind = "material"
  <2>1. tasks[k].about \in DOMAIN documents /\ reached \in {"QUEUED", "PROCESSING", "READY", "FAILED"}
    BY <1>1, <1>2 DEF RefersRight, TaskRefers
  <2> QED
    BY <1>1, <1>2, <2>1, OneDocument
<1>3. CASE tasks[k].kind # "material"
  BY <1>1, <1>3 DEF FixtureTyped
<1> QED
  BY <1>2, <1>3

\* Of processes that do not overlap, the one that drains the queue is the only run.
LEMMA HandDrains ==
    ASSUME FixtureInv, Calm, NEW hand \in Hands, hand # Worker
    PROVE  /\ hand \in Runs /\ hand # Nobody /\ script[hand].at = "drain" /\ script[hand].project \in DOMAIN projects
           /\ Ready(script[hand].project) \/ InHand(hand) \/ Tried(hand)
           /\ script[hand].task \in DOMAIN tasks /\ tasks[script[hand].task].holder \in {hand, Nobody}
           /\ \A s \in Runs : s # hand =>
                 script[s].at \notin {"createMaterial", "drain"} \cup OnMaterial \cup BeforeDeletion \cup Provided
<1>1. hand \in Runs /\ script[hand].at = "drain"
  BY DEF Hands
<1>2. RunTrue(hand) /\ OneAlive /\ RunRefers(hand)
  BY <1>1 DEF FixtureInv, CalmTrue, LoneTrue, AloneTrue, Calm, RefersRight
<1>3. "drain" \in OnProject
  BY DEF OnProject
<1>4. \A s \in Runs : s # hand => ~Alive(s)
  BY <1>1, <1>2 DEF OneAlive, Alive, Over
<1>5. \A s \in Runs : ~Alive(s) =>
         script[s].at \notin {"createMaterial", "drain"} \cup OnMaterial \cup BeforeDeletion \cup Provided
  BY DEF Alive, Over, OnMaterial, BeforeDeletion, Provided
<1>6. hand # Nobody
  BY <1>1, FixtureAssumption DEF Nobody
<1> QED
  BY <1>1, <1>2, <1>3, <1>4, <1>5, <1>6 DEF RunTrue, RunRefers

\* A job is claimed: what the evaluation waits for is in hand.
LEMMA TaskClaimed ==
    ASSUME FixtureInv, NEW hand \in Hands, NEW k \in DOMAIN tasks, ClaimTask(hand, k)
    PROVE  FixtureInv'
<1> DEFINE left == tasks[k].left - 1
           c == [tasks[k] EXCEPT !.status = "RUNNING", !.holder = hand, !.tried = hand, !.left = left]
<1>1. /\ FixtureTyped /\ mishaps \subseteq MishapKinds /\ GivenUpRightly
      /\ UNCHANGED spaces /\ UNCHANGED projects /\ UNCHANGED script
      /\ HeldBy(hand) = {} /\ tasks[k].status \in {"PENDING", "FAILED"}
      /\ tasks' = [tasks EXCEPT ![k].status = "RUNNING", ![k].holder = hand, ![k].tried = hand, ![k].left = @ - 1]
      /\ documents' = IF tasks[k].kind = "material"
                      THEN [documents EXCEPT ![tasks[k].about].status = "PROCESSING"]
                      ELSE documents
      /\ mishaps' = mishaps \cup (IF hand = Worker THEN {"worker"} ELSE {})
  BY DEF FixtureInv, FixtureTyped, ClaimTask, Waiting
<1>2. /\ tasks[k].kind \in {"material", "evaluation"} /\ tasks[k].about \in Nat /\ tasks[k].status \in TaskStatuses
      /\ tasks[k].left \in Int /\ tasks[k].turn \in Nat /\ tasks[k].backoff \in BOOLEAN
      /\ tasks[k] = [kind |-> tasks[k].kind, about |-> tasks[k].about, status |-> tasks[k].status,
                     left |-> tasks[k].left, turn |-> tasks[k].turn, backoff |-> tasks[k].backoff,
                     holder |-> tasks[k].holder, tried |-> tasks[k].tried]
  BY <1>1, TaskFields
<1>3. hand \in Holders
  BY DEF Hands, Holders
<1>4. /\ c \in TaskRow /\ c.kind = tasks[k].kind /\ c.about = tasks[k].about /\ c.status = "RUNNING"
      /\ c.holder = hand /\ c.tried = hand
  <2>1. left \in Int /\ "RUNNING" \in TaskStatuses
    BY <1>2 DEF TaskStatuses
  <2> HIDE DEF left
  <2> QED
    BY <1>2, <1>3, <2>1 DEF TaskRow
<1>5. tasks' = [tasks EXCEPT ![k] = c]
  <2>1. tasks' = [tasks EXCEPT ![k].status = "RUNNING", ![k].holder = hand, ![k].tried = hand, ![k].left = left]
    BY <1>1
  <2> HIDE DEF left
  <2> QED
    BY <2>1
<1> HIDE DEF c, left
<1>6. mishaps \subseteq mishaps' /\ mishaps' \subseteq MishapKinds /\ GivenUpRightly'
  BY <1>1 DEF MishapKinds, GivenUpRightly
<1>7. /\ tasks' \in Seq(TaskRow) /\ DOMAIN tasks' = DOMAIN tasks /\ tasks'[k] = c
      /\ \A j \in DOMAIN tasks : j # k => tasks'[j] = tasks[j]
  BY <1>1, <1>4, <1>5, OneTask
<1>8. /\ documents' \in Seq(DocumentRow) /\ DOMAIN documents' = DOMAIN documents
      /\ \A n \in DOMAIN documents : documents'[n].project = documents[n].project
      /\ tasks[k].kind = "material" =>
            /\ tasks[k].about \in DOMAIN documents /\ documents'[tasks[k].about].status = "PROCESSING"
            /\ \A n \in DOMAIN documents : n # tasks[k].about => documents'[n] = documents[n]
      /\ tasks[k].kind # "material" => documents' = documents
  BY <1>1, ItsDocument
<1>9. ASSUME Calm' PROVE HeldTrue' /\ TasksApart' /\ \A r \in Runs : RunTrue(r)'
  <2>1. Calm /\ HeldTrue /\ TasksApart /\ hand # Worker
    BY <1>1, <1>9 DEF Calm, FixtureInv, CalmTrue
  <2>2. /\ hand \in Runs /\ hand # Nobody /\ script[hand].at = "drain" /\ script[hand].task \in DOMAIN tasks
        /\ Ready(script[hand].project) \/ InHand(hand) \/ Tried(hand)
        /\ tasks[script[hand].task].holder \in {hand, Nobody}
        /\ \A s \in Runs : s # hand =>
              script[s].at \notin {"createMaterial", "drain"} \cup OnMaterial \cup BeforeDeletion \cup Provided
    BY <2>1, HandDrains
  <2>3. HeldTrue'
    BY <1>4, <1>7, <2>1, <2>2 DEF HeldTrue
  <2>4. TasksApart'
    <3>1. \A n \in DOMAIN tasks : tasks[n].status = "RUNNING" => tasks[n].holder # hand
      BY <1>1 DEF HeldBy
    <3> QED
      BY <1>4, <1>7, <2>1, <3>1 DEF TasksApart
  <2>5. RunTrue(hand)'
    <3>1. Ready(script[hand].project)' \/ InHand(hand)' \/ Tried(hand)'
      <4>1. CASE tasks[k].kind = "material"
        BY <1>4, <1>7, <4>1 DEF InHand, HeldBy
      <4>2. CASE tasks[k].kind # "material"
        <5>1. CASE Ready(script[hand].project)
          BY <1>1, <1>8, <4>2, <5>1 DEF Ready, ThereAndReady
        <5>2. CASE InHand(hand)
          BY <1>1, <5>2 DEF InHand
        <5>3. CASE Tried(hand)
          <6>1. PICK j \in DOMAIN tasks : /\ tasks[j].kind = "material" /\ tasks[j].tried = hand
                                          /\ tasks[j].status \in {"FAILED", "DEAD"}
            BY <5>3 DEF Tried
          <6>2. tasks'[j] = tasks[j]
            BY <1>7, <4>2, <6>1
          <6> QED
            BY <1>7, <6>1, <6>2 DEF Tried
        <5> QED
          BY <2>2, <5>1, <5>2, <5>3
      <4> QED
        BY <4>1, <4>2
    <3>2. tasks'[script[hand].task].holder \in {hand, Nobody}
      BY <1>4, <1>7, <2>2
    <3>3. "drain" \notin {"createMaterial", "deleteJob"} \cup OnMaterial \cup BeforeDeletion \cup Provided
      BY DEF OnMaterial, BeforeDeletion, Provided
    <3> QED
      BY <1>1, <2>2, <3>1, <3>2, <3>3 DEF RunTrue
  <2>6. \A s \in Runs : s # hand => RunTrue(s)'
    BY <1>1, <2>2 DEF RunTrue, BeforeDeletion, Provided
  <2> QED
    BY <2>3, <2>4, <2>5, <2>6
<1>10. SameInputs'
  <2> SUFFICES ASSUME Calm, NEW i \in DOMAIN documents, NEW n \in DOMAIN documents, i # n,
                      documents'[i].status = "READY", documents'[n].status = "READY"
               PROVE  \E j \in DOMAIN tasks' : /\ tasks'[j].kind = "material" /\ tasks'[j].about \in {i, n}
                                               /\ tasks'[j].status # "deleted"
    BY <1>1, <1>8 DEF SameInputs, Calm
  <2>1. documents[i].status = "READY" /\ documents[n].status = "READY"
    BY <1>8
  <2>2. PICK j \in DOMAIN tasks : /\ tasks[j].kind = "material" /\ tasks[j].about \in {i, n}
                                  /\ tasks[j].status # "deleted"
    BY <2>1 DEF FixtureInv, SameInputs
  <2> QED
    BY <1>4, <1>7, <2>2
<1>11. \A j \in DOMAIN tasks : tasks'[j].kind = tasks[j].kind /\ tasks'[j].about = tasks[j].about
  BY <1>4, <1>7
<1> QED
  BY <1>1, <1>6, <1>7, <1>8, <1>9, <1>10, <1>11, TasksGoOn

\* A job ends: the document is there, or the run that had it has failed at it.
LEMMA TaskEnded ==
    ASSUME FixtureInv, NEW hand \in Hands, NEW k \in DOMAIN tasks, EndTask(hand, k)
    PROVE  FixtureInv'
<1>1. /\ FixtureTyped /\ RefersRight /\ mishaps \subseteq MishapKinds /\ GivenUpRightly
      /\ UNCHANGED spaces /\ UNCHANGED projects /\ UNCHANGED script /\ UNCHANGED mishaps
      /\ tasks[k].holder = hand /\ tasks[k].status \in {"RUNNING", "deleted"} /\ tasks \in Seq(TaskRow)
  BY DEF FixtureInv, FixtureTyped, EndTask
<1>0. PICK well \in BOOLEAN :
          /\ tasks' = [tasks EXCEPT ![k] = IF well THEN Finished(tasks[k]) ELSE Unfinished(tasks[k], TRUE)]
          /\ documents' = IF tasks[k].kind = "material"
                          THEN [documents EXCEPT ![tasks[k].about].status = IF well THEN "READY" ELSE "FAILED"]
                          ELSE documents
  BY DEF EndTask
<1> DEFINE reached == IF well THEN "READY" ELSE "FAILED"
           c == IF well THEN Finished(tasks[k]) ELSE Unfinished(tasks[k], TRUE)
<1>2. /\ tasks[k].kind \in {"material", "evaluation"} /\ tasks[k].about \in Nat /\ tasks[k].status \in TaskStatuses
      /\ tasks[k].left \in Int /\ tasks[k].turn \in Nat /\ tasks[k].backoff \in BOOLEAN
      /\ tasks[k].holder \in Holders /\ tasks[k].tried \in Holders
      /\ tasks[k] = [kind |-> tasks[k].kind, about |-> tasks[k].about, status |-> tasks[k].status,
                     left |-> tasks[k].left, turn |-> tasks[k].turn, backoff |-> tasks[k].backoff,
                     holder |-> tasks[k].holder, tried |-> tasks[k].tried]
  BY <1>1, TaskFields
<1>3. reached \in {"PROCESSING", "READY", "FAILED"} /\ (reached = "READY" <=> well)
  OBVIOUS
<1>4. /\ c \in TaskRow /\ c.kind = tasks[k].kind /\ c.about = tasks[k].about /\ c.holder = Nobody
      /\ c.tried = tasks[k].tried
      /\ c.status = IF tasks[k].status = "deleted" THEN "deleted" ELSE IF well THEN "COMPLETED"
                    ELSE IF tasks[k].left > 0 THEN "FAILED" ELSE "DEAD"
  <2>1. 2 * Len(tasks) + 1 \in Nat /\ Nobody \in Holders
    BY <1>1 DEF Holders
  <2> QED
    BY <1>2, <2>1 DEF TaskRow, TaskStatuses, Finished, Unfinished
<1>5. tasks' = [tasks EXCEPT ![k] = c]
  BY <1>0
<1>6. documents' = IF tasks[k].kind = "material"
                   THEN [documents EXCEPT ![tasks[k].about].status = reached] ELSE documents
  BY <1>0
<1> HIDE DEF c, reached
<1>7. /\ tasks' \in Seq(TaskRow) /\ DOMAIN tasks' = DOMAIN tasks /\ tasks'[k] = c
      /\ \A j \in DOMAIN tasks : j # k => tasks'[j] = tasks[j]
  BY <1>1, <1>4, <1>5, OneTask
<1>8. /\ documents' \in Seq(DocumentRow) /\ DOMAIN documents' = DOMAIN documents
      /\ \A n \in DOMAIN documents : documents'[n].project = documents[n].project
      /\ tasks[k].kind = "material" =>
            /\ tasks[k].about \in DOMAIN documents /\ documents'[tasks[k].about].status = reached
            /\ \A n \in DOMAIN documents : n # tasks[k].about => documents'[n] = documents[n]
      /\ tasks[k].kind # "material" => documents' = documents
  BY <1>3, <1>6, ItsDocument
<1>9. GivenUpRightly' /\ (Calm' => Calm)
  BY <1>1 DEF GivenUpRightly, Calm
\* Where two processes cannot meet, the job is one the draining run has.
<1>10. ASSUME Calm
       PROVE  /\ HeldTrue /\ TasksApart /\ hand # Worker /\ hand \in Runs /\ hand # Nobody
              /\ tasks[k].status = "RUNNING" /\ tasks[k].tried = hand
  <2>1. HeldTrue /\ TasksApart /\ hand # Worker
    BY <1>1, <1>10 DEF FixtureInv, CalmTrue, HeldTrue
  <2>2. hand \in Runs /\ hand # Nobody
    BY <1>10, <2>1, HandDrains
  <2> QED
    BY <1>1, <2>1, <2>2 DEF HeldTrue
<1>11. ASSUME Calm PROVE HeldTrue' /\ TasksApart' /\ \A r \in Runs : RunTrue(r)'
  <2>1. /\ script[hand].at = "drain" /\ script[hand].task \in DOMAIN tasks
        /\ script[hand].project \in DOMAIN projects
        /\ Ready(script[hand].project) \/ InHand(hand) \/ Tried(hand)
        /\ tasks[script[hand].task].holder \in {hand, Nobody}
        /\ \A s \in Runs : s # hand =>
              script[s].at \notin {"createMaterial", "drain"} \cup OnMaterial \cup BeforeDeletion \cup Provided
    BY <1>10, <1>11, HandDrains
  <2>2. c.status # "RUNNING" /\ Worker # Nobody
    BY <1>4, <1>10, <1>11 DEF Worker, Nobody
  <2>3. HeldTrue'
    BY <1>4, <1>7, <1>10, <1>11, <2>2 DEF HeldTrue
  <2>4. TasksApart'
    BY <1>7, <1>10, <1>11, <2>2 DEF TasksApart
  <2>5. RunTrue(hand)'
    <3>1. Ready(script[hand].project)' \/ InHand(hand)' \/ Tried(hand)'
      <4>1. CASE tasks[k].kind = "material" /\ well
        <5> DEFINE m == tasks[k].about
        <5>1. m \in DOMAIN documents' /\ documents'[m].status = "READY" /\ documents'[m].project = documents[m].project
          BY <1>3, <1>8, <4>1
        <5>2. documents[m].project = script[hand].project
          BY <1>1, <1>8, <1>11, <2>1, <4>1, OnlyProject DEF RefersRight
        <5> HIDE DEF m
        <5> QED
          BY <1>1, <5>1, <5>2 DEF Ready, ThereAndReady
      <4>2. CASE tasks[k].kind = "material" /\ ~well
        <5>1. c.kind = "material" /\ c.tried = hand /\ c.status \in {"FAILED", "DEAD"}
          BY <1>4, <1>10, <1>11, <4>2
        <5> QED
          BY <1>7, <5>1 DEF Tried
      <4>3. CASE tasks[k].kind # "material"
        <5>1. ~InHand(hand)
          BY <1>1, <1>10, <1>11, <4>3 DEF InHand, HeldBy, TasksApart
        <5>2. CASE Ready(script[hand].project)
          BY <1>1, <1>8, <4>3, <5>2 DEF Ready, ThereAndReady
        <5>3. CASE Tried(hand)
          <6>1. PICK j \in DOMAIN tasks : /\ tasks[j].kind = "material" /\ tasks[j].tried = hand
                                          /\ tasks[j].status \in {"FAILED", "DEAD"}
            BY <5>3 DEF Tried
          <6>2. tasks'[j] = tasks[j]
            BY <1>7, <4>3, <6>1
          <6> QED
            BY <1>7, <6>1, <6>2 DEF Tried
        <5> QED
          BY <2>1, <5>1, <5>2, <5>3
      <4> QED
        BY <4>1, <4>2, <4>3
    <3>2. tasks'[script[hand].task].holder \in {hand, Nobody}
      BY <1>4, <1>7, <2>1
    <3>3. "drain" \notin {"createMaterial", "deleteJob"} \cup OnMaterial \cup BeforeDeletion \cup Provided
      BY DEF OnMaterial, BeforeDeletion, Provided
    <3> QED
      BY <1>1, <1>10, <1>11, <2>1, <3>1, <3>2, <3>3 DEF RunTrue
  <2>6. \A s \in Runs : s # hand => RunTrue(s)'
    BY <1>1, <2>1 DEF RunTrue, BeforeDeletion, Provided
  <2> QED
    BY <1>10, <1>11, <2>3, <2>4, <2>5, <2>6
<1>12. SameInputs'
  <2> SUFFICES ASSUME Calm', NEW i \in DOMAIN documents', NEW n \in DOMAIN documents', i # n,
                      documents'[i].status = "READY", documents'[n].status = "READY"
               PROVE  \E j \in DOMAIN tasks' : /\ tasks'[j].kind = "material" /\ tasks'[j].about \in {i, n}
                                               /\ tasks'[j].status # "deleted"
    BY DEF SameInputs
  <2>1. Calm /\ c.status # "deleted" /\ i \in DOMAIN documents /\ n \in DOMAIN documents
    BY <1>4, <1>8, <1>9, <1>10
  <2>2. CASE tasks[k].kind = "material" /\ tasks[k].about \in {i, n}
    <3>1. k \in DOMAIN tasks' /\ tasks'[k].kind = "material" /\ tasks'[k].about \in {i, n}
          /\ tasks'[k].status # "deleted"
      BY <1>4, <1>7, <2>1, <2>2
    <3> QED
      BY <3>1
  <2>3. CASE ~(tasks[k].kind = "material" /\ tasks[k].about \in {i, n})
    <3>1. documents[i].status = "READY" /\ documents[n].status = "READY"
      BY <1>8, <2>3
    <3>2. PICK j \in DOMAIN tasks : /\ tasks[j].kind = "material" /\ tasks[j].about \in {i, n}
                                    /\ tasks[j].status # "deleted"
      BY <2>1, <3>1 DEF FixtureInv, SameInputs
    <3> QED
      BY <1>7, <2>3, <3>2
  <2> QED
    BY <2>2, <2>3
<1>13. \A j \in DOMAIN tasks : tasks'[j].kind = tasks[j].kind /\ tasks'[j].about = tasks[j].about
  BY <1>4, <1>7
<1> QED
  BY <1>1, <1>7, <1>8, <1>9, <1>11, <1>12, <1>13, TasksGoOn

\* Jobs are taken back from runs that were stopped.
LEMMA Reclaimed ==
    ASSUME FixtureInv, NEW stale \in SUBSET Stranded, Reclaim(stale)
    PROVE  /\ tasks' \in Seq(TaskRow) /\ DOMAIN tasks' = DOMAIN tasks
           /\ \A j \in DOMAIN tasks : j \notin stale => tasks'[j] = tasks[j]
           /\ \A j \in stale : /\ j \in DOMAIN tasks /\ tasks[j].status = "RUNNING"
                               /\ tasks[j].holder \in Runs /\ script[tasks[j].holder].at = "stopped"
                               /\ tasks'[j].kind = tasks[j].kind /\ tasks'[j].about = tasks[j].about
                               /\ tasks'[j].status \in {"FAILED", "DEAD"} /\ tasks'[j].holder = Nobody
<1>1. FixtureTyped /\ tasks \in Seq(TaskRow)
  BY DEF FixtureInv, FixtureTyped
<1>2. \A j \in stale : /\ j \in DOMAIN tasks /\ tasks[j].status = "RUNNING"
                       /\ tasks[j].holder \in Runs /\ script[tasks[j].holder].at = "stopped"
  BY DEF Stranded
<1>3. ASSUME NEW j \in stale
      PROVE  /\ Unfinished(tasks[j], FALSE) \in TaskRow
             /\ Unfinished(tasks[j], FALSE).kind = tasks[j].kind /\ Unfinished(tasks[j], FALSE).about = tasks[j].about
             /\ Unfinished(tasks[j], FALSE).status \in {"FAILED", "DEAD"}
             /\ Unfinished(tasks[j], FALSE).holder = Nobody
  <2>1. /\ tasks[j].kind \in {"material", "evaluation"} /\ tasks[j].about \in Nat /\ tasks[j].left \in Int
        /\ tasks[j].tried \in Holders /\ tasks[j].status = "RUNNING"
        /\ tasks[j] = [kind |-> tasks[j].kind, about |-> tasks[j].about, status |-> tasks[j].status,
                       left |-> tasks[j].left, turn |-> tasks[j].turn, backoff |-> tasks[j].backoff,
                       holder |-> tasks[j].holder, tried |-> tasks[j].tried]
    BY <1>1, <1>2, TaskFields
  <2>2. 2 * Len(tasks) + 1 \in Nat /\ Nobody \in Holders
    BY <1>1 DEF Holders
  <2> QED
    BY <2>1, <2>2 DEF TaskRow, TaskStatuses, Unfinished
<1>4. /\ DOMAIN tasks' = DOMAIN tasks
      /\ \A j \in DOMAIN tasks : tasks'[j] = IF j \in stale THEN Unfinished(tasks[j], FALSE) ELSE tasks[j]
  <2>1. tasks' = [j \in DOMAIN tasks |-> IF j \in stale THEN Unfinished(tasks[j], FALSE) ELSE tasks[j]]
    BY DEF Reclaim
  <2> DEFINE F(j) == IF j \in stale THEN Unfinished(tasks[j], FALSE) ELSE tasks[j]
  <2>2. tasks' = [j \in DOMAIN tasks |-> F(j)]
    BY <2>1
  <2> HIDE DEF F
  <2>3. DOMAIN tasks' = DOMAIN tasks /\ \A j \in DOMAIN tasks : tasks'[j] = F(j)
    BY <2>2
  <2> QED
    BY <2>3 DEF F
<1>5. ASSUME NEW j \in DOMAIN tasks PROVE tasks'[j] \in TaskRow
  <2>1. CASE j \in stale
    BY <1>3, <1>4, <2>1, Zenon
  <2>2. CASE j \notin stale
    BY <1>1, <1>4, <2>2, TaskFields, Zenon
  <2> QED
    BY <2>1, <2>2
<1>6. tasks' \in Seq(TaskRow)
  <2>1. Len(tasks) \in Nat /\ DOMAIN tasks = 1..Len(tasks)
    BY <1>1
  <2>2. tasks' \in [1..Len(tasks) -> TaskRow]
    BY <1>4, <1>5, <2>1 DEF Reclaim
  <2> QED
    BY <2>1, <2>2
<1> QED
  BY <1>2, <1>3, <1>4, <1>6

\* What that leaves to everybody else.
LEMMA TasksReclaimed ==
    ASSUME FixtureInv, WorkerReclaims \/ \E r \in Runs : ReclaimFirst(r)
    PROVE  FixtureInv'
<1>1. PICK stale \in SUBSET Stranded : Reclaim(stale)
  BY DEF WorkerReclaims, ReclaimFirst
<1>2. /\ tasks' \in Seq(TaskRow) /\ DOMAIN tasks' = DOMAIN tasks
      /\ \A j \in DOMAIN tasks : j \notin stale => tasks'[j] = tasks[j]
      /\ \A j \in stale : /\ j \in DOMAIN tasks /\ tasks[j].status = "RUNNING"
                          /\ tasks[j].holder \in Runs /\ script[tasks[j].holder].at = "stopped"
                          /\ tasks'[j].kind = tasks[j].kind /\ tasks'[j].about = tasks[j].about
                          /\ tasks'[j].status \in {"FAILED", "DEAD"} /\ tasks'[j].holder = Nobody
  BY <1>1, Reclaimed
<1>3. /\ FixtureTyped /\ RefersRight /\ mishaps \subseteq MishapKinds /\ GivenUpRightly
      /\ UNCHANGED spaces /\ UNCHANGED projects /\ UNCHANGED documents /\ documents \in Seq(DocumentRow)
      /\ mishaps \subseteq mishaps' /\ mishaps' \subseteq MishapKinds /\ GivenUpRightly'
  BY DEF FixtureInv, FixtureTyped, WorkerReclaims, ReclaimFirst, MishapKinds, GivenUpRightly
<1>4. \/ UNCHANGED script
      \/ \E r \in Runs : script[r].at = "reclaim" /\ Now(r, "drain")
  BY DEF WorkerReclaims, ReclaimFirst
<1>5. \A j \in DOMAIN tasks : tasks'[j].kind = tasks[j].kind /\ tasks'[j].about = tasks[j].about
  BY <1>2
<1>6. SameInputs'
  <2> SUFFICES ASSUME Calm, NEW i \in DOMAIN documents, NEW n \in DOMAIN documents, i # n,
                      documents[i].status = "READY", documents[n].status = "READY"
               PROVE  \E j \in DOMAIN tasks' : /\ tasks'[j].kind = "material" /\ tasks'[j].about \in {i, n}
                                               /\ tasks'[j].status # "deleted"
    BY <1>3 DEF SameInputs, Calm
  <2>1. PICK j \in DOMAIN tasks : /\ tasks[j].kind = "material" /\ tasks[j].about \in {i, n}
                                  /\ tasks[j].status # "deleted"
    BY DEF FixtureInv, SameInputs
  <2> QED
    BY <1>2, <2>1
<1>7. ASSUME Calm' PROVE HeldTrue' /\ TasksApart' /\ \A r \in Runs : RunTrue(r)'
  <2>1. /\ Calm /\ HeldTrue /\ TasksApart /\ OneAlive
    BY <1>3, <1>7 DEF Calm, FixtureInv, CalmTrue, LoneTrue, AloneTrue
  <2>2. PICK r \in Runs : ReclaimFirst(r)
    BY <1>7 DEF Calm, WorkerReclaims
  <2>3. script[r].at = "reclaim" /\ Now(r, "drain") /\ RunTrue(r) /\ RunRefers(r) /\ Alive(r)
    BY <1>3, <2>1, <2>2 DEF ReclaimFirst, FixtureInv, CalmTrue, RefersRight, Alive, Over
  <2>4. /\ script'[r].at = "drain" /\ script'[r].project = script[r].project /\ script'[r].task = script[r].task
        /\ \A s \in Runs \ {r} : script'[s] = script[s]
    BY <1>3, <2>3, ScriptFields DEF Now, FixtureTyped
  <2>5. HeldTrue'
    BY <1>2, <2>1 DEF HeldTrue, Worker, Nobody
  <2>6. TasksApart'
    BY <1>2, <2>1 DEF TasksApart
  <2>7. \A s \in Runs \ {r} : RunTrue(s)'
    BY <2>1, <2>3, <2>4, OthersRest
  <2>8. RunTrue(r)'
    <3>1. script[r].task \in DOMAIN tasks /\ tasks[script[r].task].holder \in {r, Nobody}
      BY <2>3 DEF RunRefers, RunTrue
    <3>2. tasks'[script[r].task].holder \in {r, Nobody}
      BY <1>2, <3>1
    <3>3. "drain" \notin {"createMaterial", "deleteJob"} \cup OnMaterial \cup BeforeDeletion \cup Provided
      BY DEF OnMaterial, BeforeDeletion, Provided
    <3>4. Ready(script[r].project)
      BY <2>3 DEF RunTrue, Provided
    <3>5. ASSUME NEW p PROVE Ready(p) => Ready(p)'
      BY <1>3 DEF Ready, ThereAndReady
    <3> QED
      BY <2>4, <3>2, <3>3, <3>4, <3>5 DEF RunTrue
  <2> QED
    BY <2>5, <2>6, <2>7, <2>8
<1> QED
  BY <1>2, <1>3, <1>4, <1>5, <1>6, <1>7, TasksGoOn

-----------------------------------------------------------------------------
\* Every step of the script, of the worker and of the queue keeps it.
LEMMA FixtureMoves == FixtureInv /\ [FixtureNext]_fixtureVars => FixtureInv'
<1> SUFFICES ASSUME FixtureInv, [FixtureNext]_fixtureVars PROVE FixtureInv'
  OBVIOUS
<1>1. CASE FixtureNext
  <2>1. ASSUME NEW r \in Runs,
               \/ Start(r) \/ CreateUser(r) \/ FindSpace(r) \/ FindProject(r) \/ CountReady(r)
               \/ CountEvidence(r) \/ ReportRun(r) \/ StopRun(r)
        PROVE  FixtureInv'
    BY <2>1, Quiet
  <2>2. ASSUME NEW r \in Runs, CreateSpace(r) \/ CreateProject(r) \/ SeedEvidence(r) \/ RefreshMastery(r)
        PROVE  FixtureInv'
    BY <2>2, ProjectGrows
  <2>3. ASSUME NEW r \in Runs, CreateFixtureMaterial(r) PROVE FixtureInv'
    BY <2>3, MaterialMade
  <2>4. ASSUME NEW r \in Runs, EnqueueFixtureMaterial(r) \/ EnqueueEvaluation(r) PROVE FixtureInv'
    BY <2>4, TaskMade
  <2>5. ASSUME NEW r \in Runs, BeginInline(r) \/ EndInline(r) PROVE FixtureInv'
    BY <2>5, Inline
  <2>6. ASSUME NEW r \in Runs, DeleteRedundantJob(r) PROVE FixtureInv'
    BY <2>6, JobDeleted
  <2>7. ASSUME NEW hand \in Hands, NEW k \in DOMAIN tasks, ClaimTask(hand, k) \/ EndTask(hand, k) PROVE FixtureInv'
    BY <2>7, TaskClaimed, TaskEnded
  <2>8. ASSUME WorkerReclaims \/ \E r \in Runs : ReclaimFirst(r) PROVE FixtureInv'
    BY <2>8, TasksReclaimed
  <2> QED
    BY <1>1, <2>1, <2>2, <2>3, <2>4, <2>5, <2>6, <2>7, <2>8 DEF FixtureNext
<1>2. CASE UNCHANGED fixtureVars
  <2>1. /\ UNCHANGED spaces /\ UNCHANGED projects /\ UNCHANGED documents /\ UNCHANGED tasks
        /\ UNCHANGED script /\ UNCHANGED mishaps
    BY <1>2 DEF fixtureVars
  <2>2. FixtureTyped' /\ RefersRight' /\ GivenUpRightly'
    BY <2>1 DEF FixtureInv, FixtureTyped, RefersRight, RunRefers, TaskRefers, GivenUpRightly
  <2>3. LoneTrue'
    BY <2>1 DEF FixtureInv, LoneTrue, AloneTrue, OneAlive, OneProject, OwnProject, Refreshed, Alive
  <2>4. ASSUME Calm' PROVE HeldTrue' /\ TasksApart' /\ \A r \in Runs : RunTrue(r)'
    <3>1. HeldTrue /\ TasksApart /\ \A r \in Runs : RunTrue(r)
      BY <2>1, <2>4 DEF FixtureInv, CalmTrue, Calm
    <3>2. HeldTrue' /\ TasksApart'
      BY <2>1, <3>1 DEF HeldTrue, TasksApart
    <3>3. \A r \in Runs : RunTrue(r)'
      BY <2>1, <3>1 DEF RunTrue, Ready, ThereAndReady, InHand, HeldBy, Tried, ReadyOnly
    <3> QED
      BY <3>2, <3>3
  <2>5. SameInputs'
    BY <2>1 DEF FixtureInv, SameInputs, Calm
  <2> QED
    BY <2>2, <2>3, <2>4, <2>5 DEF FixtureInv, CalmTrue
<1> QED
  BY <1>1, <1>2

\* It says that what is evaluated is the fixture described.
LEMMA FixtureMeans == FixtureInv => FixtureSound
<1> SUFFICES ASSUME FixtureInv PROVE FixtureSound
  OBVIOUS
<1>1. MaterialThere
  <2> SUFFICES ASSUME NEW r \in Runs, NEW k \in HeldBy(r), Calm, script[r].at = "drain", tasks[k].kind = "evaluation"
               PROVE  \/ ThereAndReady(tasks[k].about) # {}
                      \/ \E j \in DOMAIN tasks : /\ tasks[j].kind = "material" /\ tasks[j].tried = r
                                                 /\ tasks[j].status \in {"FAILED", "DEAD"}
    BY DEF MaterialThere
  <2>1. Ready(script[r].project) \/ InHand(r) \/ Tried(r)
    BY DEF FixtureInv, CalmTrue, RunTrue
  <2>2. tasks[k].about = script[r].project
    <3>1. k \in DOMAIN tasks /\ tasks[k].about \in DOMAIN projects /\ script[r].project \in DOMAIN projects
      BY DEF HeldBy, FixtureInv, RefersRight, TaskRefers, RunRefers, OnProject
    <3> QED
      BY <3>1, OnlyProject
  <2>3. ~InHand(r)
    BY DEF InHand, HeldBy, FixtureInv, CalmTrue, TasksApart
  <2> QED
    BY <2>1, <2>2, <2>3 DEF Ready, Tried
<1>2. OneFixture
  BY DEF FixtureInv, LoneTrue, AloneTrue, OneProject, OneFixture
<1>3. HistoryCounted
  <2> SUFFICES ASSUME NEW r \in Runs, script[r].at = "drain", mishaps \cap {"notRefreshed", "overlap"} = {}
               PROVE  projects[script[r].project].counted = projects[script[r].project].evidence
    BY DEF HistoryCounted
  <2>1. OneAlive /\ Refreshed /\ "notRefreshed" \notin mishaps
    BY DEF FixtureInv, LoneTrue, AloneTrue
  <2>2. script[r].project \in DOMAIN projects
    BY DEF FixtureInv, RefersRight, RunRefers, OnProject
  <2>3. \A s \in Runs : script[s].at # "refreshMastery"
    BY <2>1 DEF OneAlive, Alive, Over
  <2> QED
    BY <2>1, <2>2, <2>3 DEF Refreshed
<1> QED
  BY <1>1, <1>2, <1>3 DEF FixtureSound, FixtureInv

-----------------------------------------------------------------------------
(* QuizBuilder *)

IsList(s) == \E S : s \in Seq(S)
Ascending(s) == \A j, k \in 1..Len(s) : j < k => s[j] < s[k]

\* A question that is drafted: it stands where the plan has it, and can be graded.
Answerable(question) ==
    /\ IsInjective(question.options)
    /\ \A k \in DOMAIN question.options : question.options[k] # NoId
    /\ \E right, wrong \in DOMAIN question.options :
          right # wrong /\ question.options[right] = question.key
FromPlan(question, plan) ==
    /\ question.planned \in 1..Len(plan)
    /\ question.concept = plan[question.planned].concept
    /\ question.type = plan[question.planned].type
    /\ Multiple(question.type) /\ ~question.padded => Answerable(question)
DraftsTrue(questions, plan) == IsList(questions) /\ \A k \in 1..Len(questions) : FromPlan(questions[k], plan)

\* The places that had evidence, among them those that are drafted.
Drafted(questions, places, more) ==
    /\ places \in Seq(Nat) /\ Ascending(places)
    /\ Len(places) = Len(questions) + more
    /\ \A k \in 1..Len(questions) : places[k] = questions[k].planned

BuildTrue ==
    /\ building = [at |-> building.at, plan |-> building.plan, n |-> building.n, tries |-> building.tries,
                   drafts |-> building.drafts]
    /\ building.at \in {"embed", "retrieve", "generate", "store"}
    /\ IsList(building.plan) /\ Len(building.plan) # 0
    /\ DraftsTrue(building.drafts, building.plan)
    /\ Drafted(building.drafts, seen, IF building.at = "generate" THEN 1 ELSE 0)
    /\ building.at = "embed" => seen = <<>>
    /\ building.at # "embed" => building.n \in 1..Len(building.plan)
    /\ building.at = "retrieve" => \A k \in 1..Len(seen) : seen[k] < building.n
    /\ building.at = "generate" => seen[Len(seen)] = building.n

QuizTrue(quiz) ==
    /\ DraftsTrue(quiz.questions, quiz.plan) /\ Len(quiz.questions) # 0
    /\ \E places \in Seq(Nat) : Drafted(quiz.questions, places, 0) /\ quiz.from = ToSet(places)

BuilderInv ==
    /\ building = NoBuild \/ BuildTrue
    /\ IsList(stored) /\ \A q \in 1..Len(stored) : QuizTrue(stored[q])

-----------------------------------------------------------------------------
\* What is appended comes last, and the rest stays.
LEMMA Appended ==
    ASSUME NEW s, IsList(s), NEW e
    PROVE  /\ IsList(Append(s, e)) /\ Len(s) \in Nat /\ Len(Append(s, e)) = Len(s) + 1
           /\ Append(s, e)[Len(s) + 1] = e /\ \A k \in 1..Len(s) : Append(s, e)[k] = s[k]
<1>1. PICK S : s \in Seq(S)
  BY DEF IsList
<1>2. s \in Seq(S \cup {e})
  BY <1>1
<1>3. Append(s, e) \in Seq(S \cup {e})
  BY <1>2, AppendProperties
<1> QED
  BY <1>2, <1>3, AppendProperties DEF IsList

\* A question that is usable as the model wrote it can be graded, unless it was written with blanks.
LEMMA UsableIsAnswerable ==
    ASSUME NEW type, NEW question \in RawQuestion(Multiple(type)), Usable(question, Multiple(type)),
           NEW plan, NEW n \in 1..Len(plan), plan[n].type = type
    PROVE  FromPlan(QuestionOf(question, plan, n), plan)
<1> DEFINE q == QuestionOf(question, plan, n)
<1>1. /\ q.planned = n /\ q.concept = plan[n].concept /\ q.type = type
      /\ q.options = [k \in DOMAIN question.options |-> TrimmedId(question.options[k])]
      /\ q.key = TrimmedId(question.key)
      /\ q.padded = \E id \in ToSet(question.options) : id.padded
  BY DEF QuestionOf
<1>2. ASSUME Multiple(type), ~q.padded PROVE Answerable(q)
  <2>1. /\ question.options \in BoundedSeq(RawIds, MaxOptions)
        /\ Len(question.options) >= 2 /\ Contains(question.options, question.key)
        /\ IsInjective(question.options)
    BY <1>2 DEF RawQuestion, Usable
  <2>2. PICK m \in 0..MaxOptions : question.options \in [1..m -> RawIds]
    BY <2>1 DEF BoundedSeq, SeqOf
  <2>3. question.options \in Seq(RawIds) /\ Len(question.options) = m /\ m \in Nat
    BY <2>2, BuilderAssumption
  <2>4. ASSUME NEW k \in 1..m
        PROVE  q.options[k] = question.options[k] /\ q.options[k] # NoId
    <3>1. question.options[k] \in [text : STRING, padded : BOOLEAN] /\ question.options[k] # NoId
      BY <2>2, BuilderAssumption
    <3>2. ~question.options[k].padded
      BY <1>1, <1>2, <2>2 DEF ToSet
    <3>3. question.options[k] = [text |-> question.options[k].text, padded |-> FALSE]
      BY <3>1, <3>2
    <3> QED
      BY <1>1, <2>2, <3>1, <3>3 DEF TrimmedId, RawId
  <2>5. q.options = question.options
    BY <1>1, <2>2, <2>4
  <2>6. PICK k \in 1..m : question.options[k] = question.key
    BY <2>1, <2>3 DEF Contains
  <2>7. q.key = q.options[k]
    BY <1>1, <2>2, <2>6
  <2>8. PICK wrong \in 1..m : wrong # k
    <3>1. 1 \in 1..m /\ 2 \in 1..m
      BY <2>1, <2>3
    <3> QED
      BY <3>1
  <2>9. DOMAIN q.options = 1..m
    BY <2>2, <2>5
  <2> HIDE DEF q
  <2> QED
    BY <2>1, <2>4, <2>5, <2>7, <2>8, <2>9 DEF Answerable
<1> HIDE DEF q
<1>3. FromPlan(q, plan)
  BY <1>1, <1>2 DEF FromPlan
<1> QED
  BY <1>3 DEF q

\* At first nothing is built and nothing stored.
LEMMA BuilderStarts == BuilderInit => BuilderInv
<1>1. <<>> \in Seq({}) /\ Len(<<>>) = 0
  OBVIOUS
<1> QED
  BY <1>1 DEF BuilderInit, BuilderInv, IsList

-----------------------------------------------------------------------------
\* The plan is made, and its queries are embedded.
LEMMA BuildingBegins == BuilderInv /\ (StartBuilding \/ EmbedQueries) => BuilderInv'
<1>1. ASSUME BuilderInv, StartBuilding PROVE BuilderInv'
  <2>1. PICK plan : /\ plan \in Seq({plan[k] : k \in 1..PlanLength}) /\ Len(plan) = PlanLength
                    /\ building' = [NoBuild EXCEPT !.at = "embed", !.plan = plan]
    <3>1. PICK first \in QuizConcepts, multiple \in BOOLEAN :
             LET ranked == <<first>> \o SetToSeq(QuizConcepts \ {first})
                 type(n) == IF (n % 2 = 1) = multiple THEN "MULTIPLE_CHOICE" ELSE "OPEN_ENDED"
             IN  building' = [NoBuild EXCEPT !.at = "embed",
                    !.plan = [n \in 1..PlanLength |->
                                [concept |-> ranked[((n - 1) % Len(ranked)) + 1], type |-> type(n)]]]
      BY <1>1 DEF StartBuilding
    <3> DEFINE ranked == <<first>> \o SetToSeq(QuizConcepts \ {first})
               type(n) == IF (n % 2 = 1) = multiple THEN "MULTIPLE_CHOICE" ELSE "OPEN_ENDED"
               item(n) == [concept |-> ranked[((n - 1) % Len(ranked)) + 1], type |-> type(n)]
               p == [n \in 1..PlanLength |-> item(n)]
    <3>2. building' = [NoBuild EXCEPT !.at = "embed", !.plan = p]
      BY <3>1
    <3> HIDE DEF item
    <3>3. p \in [1..PlanLength -> {p[k] : k \in 1..PlanLength}]
      OBVIOUS
    <3>4. PlanLength \in Nat
      BY BuilderAssumption
    <3> HIDE DEF p
    <3>5. p \in Seq({p[k] : k \in 1..PlanLength}) /\ Len(p) = PlanLength
      BY <3>3, <3>4
    <3> QED
      BY <3>2, <3>5
  <2>2. /\ building'.at = "embed" /\ building'.plan = plan /\ building'.drafts = <<>>
        /\ building' = [at |-> building'.at, plan |-> building'.plan, n |-> building'.n, tries |-> building'.tries,
                        drafts |-> building'.drafts]
    BY <2>1 DEF NoBuild
  <2>3. seen' = <<>> /\ UNCHANGED stored
    BY <1>1 DEF StartBuilding
  <2>4. <<>> \in Seq({}) /\ <<>> \in Seq(Nat) /\ Len(<<>>) = 0
    OBVIOUS
  <2>5. IsList(plan) /\ Len(plan) # 0
    BY <2>1, BuilderAssumption DEF IsList
  <2>6. BuildTrue'
    BY <2>2, <2>3, <2>4, <2>5 DEF BuildTrue, DraftsTrue, Drafted, Ascending, IsList
  <2> QED
    BY <1>1, <2>3, <2>6 DEF BuilderInv
<1>2. ASSUME BuilderInv, EmbedQueries PROVE BuilderInv'
  <2>1. BuildTrue /\ building.at = "embed" /\ UNCHANGED <<seen, stored>>
    BY <1>2 DEF BuilderInv, EmbedQueries, NoBuild
  <2>2. CASE building' = NoBuild
    BY <1>2, <2>1, <2>2 DEF BuilderInv
  <2>3. CASE building' = [building EXCEPT !.at = "retrieve", !.n = 1]
    <3>1. /\ building'.at = "retrieve" /\ building'.n = 1 /\ building'.plan = building.plan
          /\ building'.drafts = building.drafts
          /\ building' = [at |-> building'.at, plan |-> building'.plan, n |-> building'.n, tries |-> building'.tries,
                          drafts |-> building'.drafts]
      BY <2>1, <2>3 DEF BuildTrue
    <3>2. Len(building.plan) \in Nat
      BY <2>1 DEF BuildTrue, IsList
    <3>3. BuildTrue'
      BY <2>1, <3>1, <3>2 DEF BuildTrue, DraftsTrue, Drafted
    <3> QED
      BY <1>2, <2>1, <3>3 DEF BuilderInv
  <2> QED
    BY <1>2, <2>2, <2>3 DEF EmbedQueries, StopsBuilding
<1> QED
  BY <1>1, <1>2

\* The next question, once this one is drafted or skipped.
LEMMA QuestionOver ==
    ASSUME BuilderInv, BuildTrue, building.at \in {"retrieve", "generate"}, NEW drafts,
           building' = NextQuestion(drafts), UNCHANGED <<seen, stored>>,
           DraftsTrue(drafts, building.plan), Drafted(drafts, seen, 0),
           \A k \in 1..Len(seen) : seen[k] <= building.n
    PROVE  BuilderInv'
<1>1. /\ building'.at = (IF building.n = Len(building.plan) THEN "store" ELSE "retrieve")
      /\ building'.n = (IF building.n = Len(building.plan) THEN building.n ELSE building.n + 1)
      /\ building'.plan = building.plan /\ building'.drafts = drafts
      /\ building' = [at |-> building'.at, plan |-> building'.plan, n |-> building'.n, tries |-> building'.tries,
                      drafts |-> building'.drafts]
  BY DEF BuildTrue, NextQuestion
<1>2. Len(building.plan) \in Nat /\ building.n \in 1..Len(building.plan)
  BY DEF BuildTrue, IsList
<1>3. seen \in Seq(Nat) /\ Len(seen) \in Nat /\ seen' = seen
  BY DEF Drafted
<1>4. building'.at = "retrieve" => \A k \in 1..Len(seen) : seen[k] < building'.n
  BY <1>1, <1>2, <1>3
<1>5. building'.n \in 1..Len(building.plan)
  BY <1>1, <1>2
<1>6. BuildTrue'
  BY <1>1, <1>2, <1>3, <1>4, <1>5 DEF BuildTrue
<1> QED
  BY <1>6 DEF BuilderInv

\* A concept is looked for.
LEMMA QuestionRetrieved == BuilderInv /\ RetrieveForQuestion => BuilderInv'
<1> SUFFICES ASSUME BuilderInv, RetrieveForQuestion PROVE BuilderInv'
  OBVIOUS
<1>1. BuildTrue /\ building.at = "retrieve" /\ UNCHANGED stored
  BY DEF BuilderInv, RetrieveForQuestion, NoBuild
<1>2. /\ building.n \in 1..Len(building.plan) /\ Len(building.plan) \in Nat
      /\ seen \in Seq(Nat) /\ Len(seen) \in Nat /\ \A k \in 1..Len(seen) : seen[k] \in Nat /\ seen[k] < building.n
  BY <1>1 DEF BuildTrue, IsList, Drafted
<1>3. CASE building' = NextQuestion(building.drafts) /\ UNCHANGED seen
  <2>1. \A k \in 1..Len(seen) : seen[k] <= building.n
    BY <1>2
  <2> QED
    BY <1>1, <1>3, <2>1, QuestionOver DEF BuildTrue
<1>4. CASE building' = [building EXCEPT !.at = "generate"] /\ seen' = Append(seen, building.n)
  <2>1. /\ building'.at = "generate" /\ building'.n = building.n
        /\ building'.plan = building.plan /\ building'.drafts = building.drafts
        /\ building' = [at |-> building'.at, plan |-> building'.plan, n |-> building'.n, tries |-> building'.tries,
                        drafts |-> building'.drafts]
    BY <1>1, <1>4 DEF BuildTrue
  <2>2. /\ seen' \in Seq(Nat) /\ Len(seen') = Len(seen) + 1 /\ seen'[Len(seen) + 1] = building.n
        /\ \A k \in 1..Len(seen) : seen'[k] = seen[k]
    BY <1>2, <1>4, AppendProperties
  <2>3. Len(building.drafts) = Len(seen) /\ \A k \in 1..Len(building.drafts) : seen[k] = building.drafts[k].planned
    BY <1>1, <1>2 DEF BuildTrue, Drafted
  <2>4. Ascending(seen')
    <3>1. Ascending(seen)
      BY <1>1 DEF BuildTrue, Drafted
    <3> SUFFICES ASSUME NEW j \in 1..Len(seen'), NEW k \in 1..Len(seen'), j < k PROVE seen'[j] < seen'[k]
      BY DEF Ascending
    <3>2. j \in 1..Len(seen) /\ (k \in 1..Len(seen) \/ k = Len(seen) + 1)
      <4>1. Len(seen) \in Nat /\ Len(seen') = Len(seen) + 1
        BY <1>2, <2>2
      <4> QED
        BY <4>1
    <3> QED
      BY <1>2, <2>2, <3>1, <3>2 DEF Ascending
  <2>5. Drafted(building.drafts, seen', 1)
    BY <2>2, <2>3, <2>4 DEF Drafted
  <2>6. BuildTrue'
    BY <1>1, <1>2, <2>1, <2>2, <2>5 DEF BuildTrue
  <2> QED
    BY <1>1, <2>6 DEF BuilderInv
<1> QED
  BY <1>3, <1>4 DEF RetrieveForQuestion

\* A question is asked for.
LEMMA QuestionGenerated == BuilderInv /\ GenerateQuestion => BuilderInv'
<1> SUFFICES ASSUME BuilderInv, GenerateQuestion PROVE BuilderInv'
  OBVIOUS
<1>1. BuildTrue /\ building.at = "generate" /\ UNCHANGED <<seen, stored>>
  BY DEF BuilderInv, GenerateQuestion, NoBuild
<1>2. /\ building.n \in 1..Len(building.plan) /\ Len(building.plan) \in Nat
      /\ seen \in Seq(Nat) /\ Len(seen) \in Nat /\ IsList(building.drafts) /\ Len(building.drafts) \in Nat
      /\ Len(seen) = Len(building.drafts) + 1 /\ seen[Len(seen)] = building.n
      /\ \A k \in 1..Len(seen) : seen[k] \in Nat
  BY <1>1 DEF BuildTrue, IsList, Drafted, DraftsTrue
<1>3. CASE building' = NoBuild
  BY <1>1, <1>3 DEF BuilderInv
<1>4. CASE building' = [building EXCEPT !.tries = @ + 1]
  <2>1. /\ building'.at = "generate" /\ building'.n = building.n
        /\ building'.plan = building.plan /\ building'.drafts = building.drafts
        /\ building' = [at |-> building'.at, plan |-> building'.plan, n |-> building'.n, tries |-> building'.tries,
                        drafts |-> building'.drafts]
    BY <1>1, <1>4 DEF BuildTrue
  <2>2. BuildTrue'
    BY <1>1, <2>1 DEF BuildTrue
  <2> QED
    BY <1>1, <2>2 DEF BuilderInv
<1>5. ASSUME NEW question \in RawQuestion(Multiple(Current.type)), Usable(question, Multiple(Current.type)),
             building' = NextQuestion(Append(building.drafts, QuestionOf(question, building.plan, building.n)))
      PROVE  BuilderInv'
  <2> DEFINE q == QuestionOf(question, building.plan, building.n)
             drafts == Append(building.drafts, q)
  <2>1. FromPlan(q, building.plan) /\ q.planned = building.n
    <3>1. FromPlan(q, building.plan)
      BY <1>2, <1>5, UsableIsAnswerable DEF Current
    <3> QED
      BY <3>1 DEF QuestionOf
  <2> HIDE DEF q
  <2>2. /\ IsList(drafts) /\ Len(drafts) = Len(building.drafts) + 1 /\ drafts[Len(building.drafts) + 1] = q
        /\ \A k \in 1..Len(building.drafts) : drafts[k] = building.drafts[k]
    BY <1>2, Appended
  <2> HIDE DEF drafts
  <2>3. DraftsTrue(drafts, building.plan)
    BY <1>1, <1>2, <2>1, <2>2 DEF BuildTrue, DraftsTrue
  <2>4. Drafted(drafts, seen, 0)
    BY SMTT(30), <1>1, <1>2, <2>1, <2>2 DEF BuildTrue, Drafted
  <2>5. \A k \in 1..Len(seen) : seen[k] <= building.n
    BY <1>1, <1>2 DEF BuildTrue, Drafted, Ascending
  <2> QED
    BY <1>1, <1>5, <2>3, <2>4, <2>5, QuestionOver DEF drafts, q
<1> QED
  BY <1>3, <1>4, <1>5 DEF GenerateQuestion, StopsBuilding

\* The quiz is stored, or refused.
LEMMA QuizStored == BuilderInv /\ StoreQuiz => BuilderInv'
<1> SUFFICES ASSUME BuilderInv, StoreQuiz PROVE BuilderInv'
  OBVIOUS
<1>1. BuildTrue /\ building.at = "store" /\ building' = NoBuild
  BY DEF BuilderInv, StoreQuiz, NoBuild, StopsBuilding
<1>2. CASE UNCHANGED stored
  BY <1>1, <1>2 DEF BuilderInv
<1>3. CASE /\ building.drafts # <<>>
           /\ stored' = Append(stored, [plan |-> building.plan, questions |-> building.drafts, from |-> ToSet(seen)])
  <2> DEFINE quiz == [plan |-> building.plan, questions |-> building.drafts, from |-> ToSet(seen)]
  <2>1. quiz.plan = building.plan /\ quiz.questions = building.drafts /\ quiz.from = ToSet(seen)
    OBVIOUS
  <2>2. stored' = Append(stored, quiz)
    BY <1>3
  <2> HIDE DEF quiz
  <2>3. Len(building.drafts) # 0
    BY <1>1, <1>3 DEF BuildTrue, DraftsTrue, IsList
  <2>4. QuizTrue(quiz)
    BY <1>1, <2>1, <2>3 DEF BuildTrue, QuizTrue, Drafted
  <2>5. /\ IsList(stored') /\ Len(stored) \in Nat /\ Len(stored') = Len(stored) + 1 /\ stored'[Len(stored) + 1] = quiz
        /\ \A k \in 1..Len(stored) : stored'[k] = stored[k]
    BY <2>2, Appended DEF BuilderInv
  <2>6. \A q \in 1..Len(stored') : QuizTrue(stored'[q])
    BY <2>4, <2>5 DEF BuilderInv
  <2> QED
    BY <1>1, <2>5, <2>6 DEF BuilderInv
<1> QED
  BY <1>2, <1>3 DEF StoreQuiz

\* Every step of the request and of the project keeps it.
LEMMA BuilderMoves == BuilderInv /\ [BuilderNext]_builderVars => BuilderInv'
<1> SUFFICES ASSUME BuilderInv, [BuilderNext]_builderVars PROVE BuilderInv'
  OBVIOUS
<1>1. CASE UNCHANGED <<building, seen, stored>>
  BY <1>1 DEF BuilderInv, BuildTrue
<1>2. CASE ProjectGoes
  <2>1. <<>> \in Seq({}) /\ Len(<<>>) = 0
    OBVIOUS
  <2>2. stored' = <<>> /\ UNCHANGED <<building, seen>>
    BY <1>2 DEF ProjectGoes
  <2>3. BuildTrue => BuildTrue'
    BY <2>2 DEF BuildTrue
  <2> QED
    BY <2>1, <2>2, <2>3 DEF BuilderInv, IsList
<1>3. CASE \E c \in QuizConcepts : EvidenceChanges(c)
  BY <1>1, <1>3 DEF EvidenceChanges
<1> QED
  BY <1>1, <1>2, <1>3, BuildingBegins, QuestionRetrieved, QuestionGenerated, QuizStored
     DEF BuilderNext, builderVars

\* A question that is answerable has one right option, and a wrong one.
LEMMA AnswerableMeans ==
    ASSUME NEW question, Answerable(question)
    PROVE  LET graders(grade) == {n \in DOMAIN question.options : GradeOption(question, n) = grade}
           IN  /\ Cardinality(graders("right")) = 1
               /\ graders("wrong") = DOMAIN question.options \ graders("right") /\ graders("wrong") # {}
<1>1. PICK right, wrong \in DOMAIN question.options : right # wrong /\ question.options[right] = question.key
  BY DEF Answerable
<1>2. question.key # NoId
  BY <1>1 DEF Answerable
<1>3. \A n \in DOMAIN question.options :
         GradeOption(question, n) = IF n = right THEN "right" ELSE "wrong"
  BY <1>1, <1>2 DEF GradeOption, Answerable, IsInjective
<1>4. {n \in DOMAIN question.options : GradeOption(question, n) = "right"} = {right}
  BY <1>1, <1>3
<1>5. Cardinality({right}) = 1
  BY FS_Singleton
<1>6. {n \in DOMAIN question.options : GradeOption(question, n) = "wrong"} = DOMAIN question.options \ {right}
  BY <1>1, <1>3
<1> QED
  BY <1>1, <1>4, <1>5, <1>6

\* It says that a stored quiz is the planned one, and can be graded.
LEMMA BuilderMeans == BuilderInv => QuizSound
<1> SUFFICES ASSUME BuilderInv, NEW q \in DOMAIN stored
             PROVE  LET questions == stored[q].questions
                        plan == stored[q].plan
                        places == [k \in DOMAIN questions |-> questions[k].planned]
                    IN
                    /\ places # <<>> /\ IsSorted(places, <) /\ ToSet(places) = stored[q].from
                    /\ \A k \in DOMAIN questions :
                          questions[k].concept = plan[places[k]].concept /\ questions[k].type = plan[places[k]].type
                    /\ \A k \in DOMAIN questions :
                          LET question == questions[k]
                              graders(grade) == {n \in DOMAIN question.options : GradeOption(question, n) = grade}
                          IN
                          Multiple(question.type) /\ ~question.padded =>
                              /\ Cardinality(graders("right")) = 1
                              /\ graders("wrong") = DOMAIN question.options \ graders("right") /\ graders("wrong") # {}
  BY DEF QuizSound, QuizAsPlanned, QuestionsGradable
<1> DEFINE questions == stored[q].questions
           plan == stored[q].plan
           places == [k \in DOMAIN questions |-> questions[k].planned]
<1>1. QuizTrue(stored[q])
  BY DEF BuilderInv, IsList
<1>2. PICK drawn \in Seq(Nat) : Drafted(questions, drawn, 0) /\ stored[q].from = ToSet(drawn)
  BY <1>1 DEF QuizTrue
<1>3. Len(questions) \in Nat \ {0} /\ DOMAIN questions = 1..Len(questions)
  BY <1>1 DEF QuizTrue, DraftsTrue, IsList
<1>4. \A k \in 1..Len(questions) : FromPlan(questions[k], plan)
  BY <1>1 DEF QuizTrue, DraftsTrue
<1>5. Len(drawn) = Len(questions) /\ \A k \in 1..Len(questions) : drawn[k] = questions[k].planned
  BY <1>2, <1>3 DEF Drafted
<1> HIDE DEF questions, plan
<1>6. places = drawn
  <2>1. DOMAIN drawn = 1..Len(questions) /\ drawn = [k \in DOMAIN drawn |-> drawn[k]]
    BY <1>5
  <2> QED
    BY <1>3, <1>5, <2>1
<1>7. places # <<>> /\ IsSorted(places, <) /\ ToSet(places) = stored[q].from
  <2> HIDE DEF places
  <2>1. places # <<>>
    BY <1>3, <1>5, <1>6
  <2>2. IsSorted(places, <)
    BY <1>2, <1>6 DEF IsSorted, Drafted, Ascending
  <2> QED
    BY <1>2, <1>6, <2>1, <2>2
<1>8. \A k \in DOMAIN questions :
         questions[k].concept = plan[places[k]].concept /\ questions[k].type = plan[places[k]].type
  BY <1>3, <1>4 DEF FromPlan
<1>9. ASSUME NEW k \in DOMAIN questions, Multiple(questions[k].type), ~questions[k].padded PROVE Answerable(questions[k])
  BY <1>3, <1>4, <1>9 DEF FromPlan
<1> HIDE DEF places
<1>10. \A k \in DOMAIN questions :
          LET question == questions[k]
              graders(grade) == {n \in DOMAIN question.options : GradeOption(question, n) = grade}
          IN
          Multiple(question.type) /\ ~question.padded =>
              /\ Cardinality(graders("right")) = 1
              /\ graders("wrong") = DOMAIN question.options \ graders("right") /\ graders("wrong") # {}
  BY <1>9, AnswerableMeans
<1> QED
  BY <1>7, <1>8, <1>10 DEF questions, plan, places

-----------------------------------------------------------------------------
(* Concepts *)

\* Of places on a list, there is one that is the n-th of them.
LEMMA NthPlace ==
    ASSUME NEW L \in Nat, NEW K \in SUBSET (1..L), NEW n \in 1..Cardinality(K)
    PROVE  \E k \in K : Cardinality({j \in 1..k : j \in K}) = n
<1> DEFINE F(k) == {j \in 1..k : j \in K}
           T == {k \in 0..L : Cardinality(F(k)) >= n}
<1>1. IsFiniteSet(K) /\ Cardinality(K) \in Nat
  <2>1. IsFiniteSet(1..L)
    BY FS_Interval
  <2> QED
    BY <2>1, FS_Subset, FS_CardinalityType
<1>2. ASSUME NEW k \in Nat PROVE IsFiniteSet(F(k)) /\ Cardinality(F(k)) \in Nat
  BY <1>1, FS_Subset, FS_CardinalityType
<1>3. F(L) = K
  OBVIOUS
<1>4. L \in T /\ T \in SUBSET Nat
  <2>1. Cardinality(K) >= n
    BY <1>1
  <2> HIDE DEF F
  <2> QED
    BY <1>3, <2>1
<1>5. PICK k \in T : \A m \in T : k <= m
  <2> HIDE DEF T
  <2> QED
    BY <1>4, LeastNumber
<1>6. F(0) = {} /\ Cardinality(F(0)) = 0
  BY FS_EmptySet
<1>7. k \in 1..L
  BY <1>5, <1>6
<1>8. Cardinality(F(k - 1)) < n
  <2>1. k - 1 \in 0..L /\ k - 1 \notin T
    BY <1>5, <1>7
  <2> QED
    BY <1>2, <2>1, <1>1
<1>9. k \in K /\ F(k) = F(k - 1) \cup {k}
  <2>1. CASE k \notin K
    <3>1. F(k) = F(k - 1)
      BY <1>7, <2>1
    <3> QED
      BY <1>1, <1>2, <1>5, <1>7, <1>8, <3>1
  <2>2. CASE k \in K
    BY <1>7, <2>2
  <2> QED
    BY <2>1, <2>2
<1>10. Cardinality(F(k)) = Cardinality(F(k - 1)) + 1
  <2>1. k - 1 \in Nat /\ k \notin F(k - 1)
    BY <1>7
  <2> HIDE DEF F
  <2> QED
    BY <1>2, <1>9, <2>1, FS_AddElement
<1>11. Cardinality(F(k)) = n
  <2>1. Cardinality(F(k - 1)) \in Nat /\ Cardinality(F(k)) >= n
    <3>1. k \in Nat /\ k - 1 \in Nat
      BY <1>7
    <3>2. Cardinality(F(k)) >= n
      BY <1>5
    <3> HIDE DEF F
    <3> QED
      BY <1>2, <3>1, <3>2
  <2> HIDE DEF F
  <2> QED
    BY <1>1, <1>8, <1>10, <2>1
<1> QED
  BY <1>9, <1>11

-----------------------------------------------------------------------------
\* A name in other letters, or without its blanks, is a name.
LEMMA NameForms ==
    ASSUME NEW name \in Names
    PROVE  /\ LowerCase(name) \in Names /\ Trimmed(name) \in Names
           /\ LowerCase(name).word = name.word /\ LowerCase(LowerCase(name)) = LowerCase(name)
           /\ LowerCase(name) # NoConcept /\ name # NoConcept
<1>1. name.word \in STRING /\ name.capital \in BOOLEAN /\ name.spaced \in BOOLEAN /\ name.word # NoConcept.word
  BY DEF Names
<1>2. LowerCase(name).word = name.word /\ LowerCase(name).spaced = name.spaced
  BY DEF LowerCase, NameOf
<1>3. LowerCase(name) \in Names
  BY <1>1 DEF LowerCase, NameOf, Names
<1>4. Trimmed(name) \in Names
  BY <1>1 DEF Trimmed, NameOf, Names
<1>5. LowerCase(LowerCase(name)) = LowerCase(name)
  BY <1>2 DEF LowerCase
<1>6. LowerCase(name) # NoConcept /\ name # NoConcept
  BY <1>1, <1>2
<1> QED
  BY <1>2, <1>3, <1>4, <1>5, <1>6

\* Names that differ in more than their capitals.
NamesApart(names) ==
    \A j, k \in DOMAIN names : j # k => LowerCase(names[j]) # LowerCase(names[k])

\* What is kept of the names of an extraction.
LEMMA NormalisedMeans ==
    ASSUME NEW names \in BoundedSeq(RawNames, MaxNames)
    PROVE  Normalised(names) \in Seq(Names) /\ NamesApart(Normalised(names))
<1>1. PICK m \in 0..MaxNames : names \in [1..m -> RawNames]
  BY DEF BoundedSeq, SeqOf
<1>2. m \in Nat /\ DOMAIN names = 1..m
  BY <1>1, ConceptAssumption
<1> DEFINE trimmed == [k \in DOMAIN names |-> Trimmed(names[k])]
           Kept(k) == /\ trimmed[k].word # ""
                      /\ \A j \in 1..(k - 1) : LowerCase(trimmed[j]) # LowerCase(trimmed[k])
           K == {k \in DOMAIN names : Kept(k)}
           Nth(n) == CHOOSE k \in DOMAIN names : Kept(k) /\ Cardinality({j \in 1..k : Kept(j)}) = n
           all == [n \in 1..Cardinality(K) |-> trimmed[Nth(n)]]
<1>3. Normalised(names) = all
  BY DEF Normalised
<1>4. \A k \in 1..m : trimmed[k] \in Names
  BY <1>1, <1>2, NameForms, ConceptAssumption
<1>5. K \subseteq 1..m /\ Cardinality(K) \in Nat
  <2>1. IsFiniteSet(1..m)
    BY <1>2, FS_Interval
  <2>2. K \subseteq 1..m
    BY <1>2
  <2> HIDE DEF K
  <2> QED
    BY <2>1, <2>2, FS_Subset, FS_CardinalityType
<1>6. \A k \in K : \A j \in K : j < k => LowerCase(trimmed[j]) # LowerCase(trimmed[k])
  <2> SUFFICES ASSUME NEW k \in K, NEW j \in K, j < k PROVE LowerCase(trimmed[j]) # LowerCase(trimmed[k])
    OBVIOUS
  <2>1. Kept(k)
    OBVIOUS
  <2>2. j \in 1..(k - 1)
    <3> HIDE DEF Kept
    <3> QED
      BY <1>2
  <2> HIDE DEF trimmed
  <2> QED
    BY <2>1, <2>2
<1>7. ASSUME NEW n \in 1..Cardinality(K)
      PROVE  Nth(n) \in K /\ Cardinality({j \in 1..Nth(n) : Kept(j)}) = n
  <2>1. PICK k \in K : Cardinality({j \in 1..k : j \in K}) = n
    BY <1>2, <1>5, NthPlace
  <2>2. {j \in 1..k : j \in K} = {j \in 1..k : Kept(j)}
    <3>1. k \in 1..m
      <4> HIDE DEF Kept
      <4> QED
        BY <1>2
    <3>2. \A j \in 1..k : j \in K <=> Kept(j)
      <4> HIDE DEF Kept
      <4> QED
        BY <1>2, <3>1
    <3> HIDE DEF K, Kept
    <3> QED
      BY <3>2
  <2>3. k \in DOMAIN names /\ Kept(k) /\ Cardinality({j \in 1..k : Kept(j)}) = n
    BY <2>1, <2>2
  <2> HIDE DEF Kept
  <2> QED
    BY <2>3
<1> HIDE DEF Kept, Nth, trimmed
<1>8. all \in Seq(Names) /\ DOMAIN all = 1..Cardinality(K)
  <2>1. \A n \in 1..Cardinality(K) : trimmed[Nth(n)] \in Names
    BY <1>4, <1>5, <1>7
  <2> HIDE DEF K
  <2>2. all \in [1..Cardinality(K) -> Names]
    BY <2>1
  <2> HIDE DEF all
  <2> QED
    BY <1>5, <2>2
<1>9. ASSUME NEW i \in DOMAIN all, NEW j \in DOMAIN all, i # j
      PROVE  LowerCase(all[i]) # LowerCase(all[j])
  <2>1. Nth(i) \in K /\ Nth(j) \in K /\ Nth(i) # Nth(j)
    BY <1>7, <1>8, <1>9
  <2>2. Nth(i) \in Nat /\ Nth(j) \in Nat
    BY <1>5, <2>1
  <2>3. LowerCase(trimmed[Nth(i)]) # LowerCase(trimmed[Nth(j)])
    BY <1>6, <2>1, <2>2
  <2> QED
    BY <1>8, <2>3
<1> QED
  BY <1>3, <1>8, <1>9 DEF NamesApart

\* A name that a model wrote reaches a name that differs in its capitals only, if there is one.
LEMMA ResolvedMeans ==
    ASSUME NEW known \in SUBSET Names, NEW map \in NameMaps(known), NEW name
    PROVE  \/ /\ Resolved(name, map) = NoConcept
              /\ \A other \in known : LowerCase(other) # LowerCase(name)
           \/ /\ Resolved(name, map) \in known /\ Resolved(name, map) # NoConcept
              /\ LowerCase(Resolved(name, map)) = LowerCase(name)
<1> DEFINE keys == {LowerCase(other) : other \in known}
<1>1. map \in [keys -> known] /\ \A key \in keys : LowerCase(map[key]) = key
  BY DEF NameMaps
<1>2. \A other \in known : other # NoConcept
  BY NameForms
<1>3. CASE LowerCase(name) \in keys
  BY <1>1, <1>2, <1>3 DEF Resolved
<1>4. CASE LowerCase(name) \notin keys
  BY <1>1, <1>4 DEF Resolved
<1> QED
  BY <1>3, <1>4

-----------------------------------------------------------------------------
\* A written answer and its evidence.
AnswerTrue(answer) ==
    /\ answer.known \subseteq Names /\ answer.own \in answer.known
    /\ IsFiniteSet(DOMAIN answer.covered) /\ IsFiniteSet(DOMAIN answer.missing)
    /\ \E map \in NameMaps(answer.known) :
          answer.evidence = EvidenceOf(answer.own, answer.score, answer.covered, answer.missing, map)

\* A row is of a run that wrote its transaction: an earlier one, or the last if it is through.
RunOf(row) ==
    \E m \in Documents, t \in Nat :
        row.by = <<m, t>> /\ t <= extraction[m].tries /\ (t = extraction[m].tries => extraction[m].at = "done")

ExtractionRun == [at : {"model", "upsert", "done", "failed"}, names : Seq(Names), n : Nat, tries : Nat]

RunsApart ==
    /\ extraction \in [Documents -> ExtractionRun]
    /\ \A m \in Documents : extraction[m].n <= Len(extraction[m].names) /\ NamesApart(extraction[m].names)
RowsTrue ==
    /\ \A row \in conceptRows : row.name \in Names /\ RunOf(row)
    /\ ExtractionsWhole /\ TwinsFromTwoRuns
AdviceTrue ==
    /\ advice = [requests |-> advice.requests, asked |-> advice.asked, rows |-> advice.rows]
    /\ advice.asked \subseteq StoredNames
    /\ AdviceLinked
ConceptsInv ==
    /\ RunsApart /\ RowsTrue /\ AdviceTrue
    /\ IsList(written) /\ \A k \in 1..Len(written) : AnswerTrue(written[k])

\* At first there is nothing but the concepts of the beginning.
LEMMA ConceptsStart == ConceptsInit => ConceptsInv
<1> SUFFICES ASSUME ConceptsInit PROVE ConceptsInv
  OBVIOUS
<1>1. /\ NoExtraction \in ExtractionRun /\ Len(NoExtraction.names) = 0 /\ NoExtraction.n = 0
      /\ DOMAIN NoExtraction.names = {} /\ NoExtraction.at = "model"
  BY DEF NoExtraction, ExtractionRun
<1>2. RunsApart
  BY <1>1 DEF ConceptsInit, RunsApart, NamesApart
<1>3. RowsTrue
  BY <1>1 DEF ConceptsInit, RowsTrue, ExtractionsWhole, TwinsFromTwoRuns
<1>4. AdviceTrue
  BY DEF ConceptsInit, AdviceTrue, AdviceLinked
<1>5. <<>> \in Seq({}) /\ Len(<<>>) = 0
  OBVIOUS
<1> QED
  BY <1>2, <1>3, <1>4, <1>5 DEF ConceptsInit, ConceptsInv, IsList

\* A run goes on, and nothing is written.
LEMMA RunGoes ==
    ASSUME ConceptsInv, NEW m \in Documents, NEW after \in ExtractionRun,
           extraction' = [extraction EXCEPT ![m] = after],
           after.n <= Len(after.names), NamesApart(after.names), extraction[m].at # "done",
           after.at = "done" => after.names = <<>> /\ after.tries = extraction[m].tries,
           after.tries >= extraction[m].tries,
           UNCHANGED <<conceptRows, links, written, advice>>
    PROVE  ConceptsInv'
<1>1. /\ extraction \in [Documents -> ExtractionRun]
      /\ extraction' \in [Documents -> ExtractionRun] /\ extraction'[m] = after
      /\ \A o \in Documents : o # m => extraction'[o] = extraction[o]
  BY DEF ConceptsInv, RunsApart
<1>2. RunsApart'
  BY <1>1 DEF ConceptsInv, RunsApart
<1>3. ASSUME NEW row \in conceptRows PROVE RunOf(row)'
  <2>1. PICK o \in Documents, t \in Nat :
           row.by = <<o, t>> /\ t <= extraction[o].tries /\ (t = extraction[o].tries => extraction[o].at = "done")
    BY <1>3 DEF ConceptsInv, RowsTrue, RunOf
  <2>2. after.tries \in Nat /\ extraction[m].tries \in Nat
    BY <1>1 DEF ExtractionRun
  <2>3. t <= extraction'[o].tries /\ (t = extraction'[o].tries => extraction'[o].at = "done")
    BY <1>1, <2>1, <2>2
  <2> QED
    BY <2>1, <2>3 DEF RunOf
<1>4. ExtractionsWhole'
  <2> SUFFICES ASSUME NEW o \in Documents, extraction'[o].at = "done", NEW k \in DOMAIN extraction'[o].names
               PROVE  extraction'[o].names[k] \in StoredNames' /\ <<o, extraction'[o].names[k]>> \in links'
    BY DEF ExtractionsWhole
  <2>1. o # m
    BY <1>1
  <2>2. StoredNames' = StoredNames /\ links' = links
    BY DEF StoredNames
  <2> QED
    BY <1>1, <2>1, <2>2 DEF ConceptsInv, RowsTrue, ExtractionsWhole
<1>5. RowsTrue'
  BY <1>3, <1>4 DEF ConceptsInv, RowsTrue, TwinsFromTwoRuns
<1>6. AdviceTrue'
  BY DEF ConceptsInv, AdviceTrue, AdviceLinked, StoredNames
<1> QED
  BY <1>2, <1>5, <1>6 DEF ConceptsInv

\* An extraction names its concepts, stores one of them, or fails.
LEMMA ExtractionKeeps ==
    ASSUME ConceptsInv, NEW m \in Documents, ExtractNames(m) \/ UpsertConcept(m) \/ ExtractionFails(m)
    PROVE  ConceptsInv'
<1>1. /\ extraction[m] \in ExtractionRun /\ extraction[m].n <= Len(extraction[m].names)
      /\ NamesApart(extraction[m].names)
  BY DEF ConceptsInv, RunsApart
<1>2. /\ extraction[m].names \in Seq(Names) /\ extraction[m].n \in Nat /\ extraction[m].tries \in Nat
      /\ extraction[m].at \in {"model", "upsert", "done", "failed"}
  BY <1>1 DEF ExtractionRun
<1>3. CASE ExtractNames(m)
  <2>1. PICK names \in BoundedSeq(RawNames, MaxNames) :
           extraction' = [extraction EXCEPT ![m] =
              [extraction[m] EXCEPT !.at = IF Normalised(names) = <<>> THEN "done" ELSE "upsert",
                                    !.names = Normalised(names), !.n = 0]]
    BY <1>3 DEF ExtractNames
  <2> DEFINE kept == Normalised(names)
             after == [extraction[m] EXCEPT !.at = IF kept = <<>> THEN "done" ELSE "upsert", !.names = kept, !.n = 0]
  <2>2. kept \in Seq(Names) /\ NamesApart(kept)
    BY NormalisedMeans
  <2> HIDE DEF kept
  <2>3. after \in ExtractionRun /\ after.names = kept /\ after.n = 0 /\ after.tries = extraction[m].tries
        /\ after.at = IF kept = <<>> THEN "done" ELSE "upsert"
    BY <1>1, <2>2 DEF ExtractionRun
  <2>4. extraction' = [extraction EXCEPT ![m] = after]
    BY <2>1 DEF kept
  <2> HIDE DEF after
  <2>5. after.n <= Len(after.names) /\ after.tries >= extraction[m].tries
    BY <1>2, <2>2, <2>3
  <2>6. extraction[m].at # "done" /\ UNCHANGED <<conceptRows, links, written, advice>>
    BY <1>3 DEF ExtractNames
  <2> QED
    BY <2>2, <2>3, <2>4, <2>5, <2>6, RunGoes
<1>4. CASE UpsertConcept(m)
  <2> DEFINE after == [extraction[m] EXCEPT !.n = @ + 1]
  <2>1. extraction' = [extraction EXCEPT ![m] = after]
    BY <1>4 DEF UpsertConcept
  <2>2. after \in ExtractionRun /\ after.names = extraction[m].names /\ after.n = extraction[m].n + 1
        /\ after.tries = extraction[m].tries /\ after.at = extraction[m].at
    BY <1>1, <1>2 DEF ExtractionRun
  <2> HIDE DEF after
  <2>3. extraction[m].at # "done" /\ extraction[m].n < Len(extraction[m].names) /\ UNCHANGED <<conceptRows, links, written, advice>>
    BY <1>4 DEF UpsertConcept
  <2>4. after.n <= Len(after.names) /\ after.tries >= extraction[m].tries
    BY <1>2, <2>2, <2>3
  <2> QED
    BY <1>1, <2>1, <2>2, <2>3, <2>4, RunGoes
<1>5. CASE ExtractionFails(m)
  <2> DEFINE after == IF extraction[m].tries < Extractions
                    THEN [NoExtraction EXCEPT !.tries = extraction[m].tries + 1]
                    ELSE [extraction[m] EXCEPT !.at = "failed"]
  <2>1. extraction' = [extraction EXCEPT ![m] = after]
    BY <1>5 DEF ExtractionFails
  <2>2. extraction[m].at # "done" /\ UNCHANGED <<conceptRows, links, written, advice>>
    BY <1>5 DEF ExtractionFails
  <2>3. CASE extraction[m].tries < Extractions
    <3>1. /\ after \in ExtractionRun /\ after.names = <<>> /\ after.n = 0 /\ after.at = "model"
          /\ after.tries = extraction[m].tries + 1
      <4>1. /\ NoExtraction \in ExtractionRun /\ NoExtraction.names = <<>> /\ NoExtraction.n = 0
            /\ NoExtraction.at = "model"
        BY DEF NoExtraction, ExtractionRun
      <4>2. after = [NoExtraction EXCEPT !.tries = extraction[m].tries + 1]
        BY <2>3
      <4> QED
        BY <1>2, <4>1, <4>2 DEF ExtractionRun
    <3>2. Len(<<>>) = 0 /\ NamesApart(<<>>)
      BY DEF NamesApart
    <3> HIDE DEF after
    <3>3. after.n <= Len(after.names) /\ after.tries >= extraction[m].tries
      BY <1>2, <3>1, <3>2
    <3> QED
      BY <2>1, <2>2, <3>1, <3>2, <3>3, RunGoes
  <2>4. CASE ~(extraction[m].tries < Extractions)
    <3>1. /\ after \in ExtractionRun /\ after.names = extraction[m].names /\ after.n = extraction[m].n
          /\ after.at = "failed" /\ after.tries = extraction[m].tries
      BY <1>1, <2>4 DEF ExtractionRun
    <3> HIDE DEF after
    <3>2. after.tries >= extraction[m].tries
      BY <1>2, <3>1
    <3> QED
      BY <1>1, <2>1, <2>2, <3>1, <3>2, RunGoes
  <2> QED
    BY <2>3, <2>4
<1> QED
  BY <1>3, <1>4, <1>5

\* The transaction of a run is written at once.
LEMMA ConceptsCommitted ==
    ASSUME ConceptsInv, NEW m \in Documents, CommitConcepts(m)
    PROVE  ConceptsInv'
<1> DEFINE names == extraction[m].names
           tries == extraction[m].tries
           after == [extraction[m] EXCEPT !.at = "done"]
           new == {[name |-> name, by |-> <<m, tries>>] : name \in NamesOfRun(m) \ StoredNames}
<1>1. /\ extraction \in [Documents -> ExtractionRun] /\ extraction[m] \in ExtractionRun
      /\ names \in Seq(Names) /\ tries \in Nat /\ Len(names) \in Nat /\ DOMAIN names = 1..Len(names) /\ NamesApart(names)
      /\ extraction[m].n \in Nat
  BY DEF ConceptsInv, RunsApart, ExtractionRun
<1>2. /\ extraction[m].at = "upsert" /\ extraction[m].n = Len(names)
      /\ conceptRows' = conceptRows \cup new /\ links' = links \cup ({m} \X NamesOfRun(m))
      /\ UNCHANGED <<written, advice>>
  BY DEF CommitConcepts
<1>3. extraction' = [extraction EXCEPT ![m] = after]
  BY DEF CommitConcepts
<1>4. after \in ExtractionRun /\ after.names = names /\ after.n = extraction[m].n /\ after.tries = tries /\ after.at = "done"
  BY <1>1 DEF ExtractionRun
<1>5. NamesOfRun(m) = {names[k] : k \in DOMAIN names}
  BY <1>1, <1>2 DEF NamesOfRun
<1>6. /\ extraction' \in [Documents -> ExtractionRun] /\ extraction'[m] = after
      /\ \A o \in Documents : o # m => extraction'[o] = extraction[o]
  BY <1>1, <1>3, <1>4
<1>7. RunsApart'
  BY <1>1, <1>4, <1>6 DEF ConceptsInv, RunsApart
<1>8. /\ \A row \in new : row.name \in NamesOfRun(m) \ StoredNames /\ row.by = <<m, tries>> /\ row.name \in Names
      /\ \A name \in NamesOfRun(m) : name \in StoredNames \/ \E row \in new : row.name = name
  <2>1. NamesOfRun(m) \subseteq Names
    BY <1>1, <1>5
  <2> HIDE DEF names, tries
  <2>2. ASSUME NEW row \in new PROVE row.name \in NamesOfRun(m) \ StoredNames /\ row.by = <<m, tries>>
    OBVIOUS
  <2>3. ASSUME NEW name \in NamesOfRun(m), name \notin StoredNames PROVE \E row \in new : row.name = name
    <3>1. [name |-> name, by |-> <<m, tries>>] \in new
      BY <2>3
    <3> QED
      BY <3>1
  <2> HIDE DEF new
  <2> QED
    BY <2>1, <2>2, <2>3
<1>9. ASSUME NEW a \in new, NEW b \in new, a # b PROVE LowerCase(a.name) # LowerCase(b.name)
  <2>1. a.name # b.name
    BY <1>9
  <2>2. PICK j, k \in DOMAIN names : a.name = names[j] /\ b.name = names[k]
    BY <1>5, <1>8
  <2> QED
    BY <1>1, <2>1, <2>2 DEF NamesApart
<1> HIDE DEF names, tries, after, new
<1>10. StoredNames \subseteq StoredNames' /\ NamesOfRun(m) \subseteq StoredNames'
  BY <1>2, <1>8 DEF StoredNames
<1>11. ASSUME NEW row \in conceptRows' PROVE row.name \in Names /\ RunOf(row)'
  <2>1. CASE row \in new
    BY <1>1, <1>4, <1>6, <1>8, <2>1 DEF RunOf
  <2>2. CASE row \in conceptRows
    <3>1. PICK o \in Documents, t \in Nat :
             row.by = <<o, t>> /\ t <= extraction[o].tries /\ (t = extraction[o].tries => extraction[o].at = "done")
      BY <2>2 DEF ConceptsInv, RowsTrue, RunOf
    <3>2. t <= extraction'[o].tries /\ (t = extraction'[o].tries => extraction'[o].at = "done")
      BY <1>4, <1>6, <3>1 DEF tries
    <3> QED
      BY <2>2, <3>1, <3>2 DEF RunOf, ConceptsInv, RowsTrue
  <2> QED
    BY <1>2, <1>11, <2>1, <2>2
<1>12. ExtractionsWhole'
  <2> SUFFICES ASSUME NEW o \in Documents, extraction'[o].at = "done", NEW k \in DOMAIN extraction'[o].names
               PROVE  extraction'[o].names[k] \in StoredNames' /\ <<o, extraction'[o].names[k]>> \in links'
    BY DEF ExtractionsWhole
  <2>1. CASE o = m
    BY <1>2, <1>4, <1>5, <1>6, <1>10, <2>1
  <2>2. CASE o # m
    BY <1>2, <1>6, <1>10, <2>2 DEF ConceptsInv, RowsTrue, ExtractionsWhole
  <2> QED
    BY <2>1, <2>2
<1>13. TwinsFromTwoRuns'
  <2> SUFFICES ASSUME NEW a \in conceptRows', NEW b \in conceptRows', a # b
               PROVE  a.name # b.name /\ (LowerCase(a.name) = LowerCase(b.name) => a.by # b.by)
    BY DEF TwinsFromTwoRuns
  <2>1. ASSUME NEW x \in conceptRows, NEW y \in new PROVE x.name # y.name /\ x.by # y.by
    <3>1. x.name \in StoredNames /\ y.name \notin StoredNames /\ y.by = <<m, tries>>
      BY <1>8, <2>1 DEF StoredNames
    <3>2. PICK o \in Documents, t \in Nat : x.by = <<o, t>> /\ (t = extraction[o].tries => extraction[o].at = "done")
      BY <2>1 DEF ConceptsInv, RowsTrue, RunOf
    <3>3. ~(o = m /\ t = tries)
      BY <1>2, <3>2 DEF tries
    <3> QED
      BY <3>1, <3>2, <3>3
  <2>2. CASE a \in conceptRows /\ b \in conceptRows
    BY <2>2 DEF ConceptsInv, RowsTrue, TwinsFromTwoRuns
  <2>3. CASE a \in new /\ b \in new
    BY <1>9, <2>3
  <2> QED
    BY <1>2, <2>1, <2>2, <2>3
<1>14. RowsTrue'
  BY <1>11, <1>12, <1>13 DEF RowsTrue
<1>15. AdviceTrue'
  BY <1>2, <1>10 DEF ConceptsInv, AdviceTrue, AdviceLinked
<1> QED
  BY <1>2, <1>7, <1>14, <1>15 DEF ConceptsInv

-----------------------------------------------------------------------------
\* An answer is graded.
LEMMA WrittenKeeps == ConceptsInv /\ GradeWritten => ConceptsInv'
<1> SUFFICES ASSUME ConceptsInv, GradeWritten PROVE ConceptsInv'
  OBVIOUS
<1>1. UNCHANGED <<conceptRows, links, extraction, advice>>
  BY DEF GradeWritten
<1>2. PICK own \in StoredNames, map \in NameMaps(StoredNames), relevance \in {0, 100},
           covered \in BoundedSeq(Mentioned, MaxMentioned), missing \in BoundedSeq(Mentioned, MaxMentioned) :
         /\ Len(covered) + Len(missing) <= MaxMentioned
         /\ LET score == ScoreOf(<<100, 0, relevance>>) IN
            written' = Append(written,
               [own |-> own, score |-> score, covered |-> covered, missing |-> missing,
                known |-> StoredNames,
                evidence |-> EvidenceOf(own, score, covered, missing, map)])
  BY DEF GradeWritten
<1> DEFINE score == ScoreOf(<<100, 0, relevance>>)
           evidence == EvidenceOf(own, score, covered, missing, map)
           answer == [own |-> own, score |-> score, covered |-> covered, missing |-> missing,
                      known |-> StoredNames, evidence |-> evidence]
<1>3. written' = Append(written, answer)
  BY <1>2
<1>4. StoredNames \subseteq Names
  BY DEF ConceptsInv, RowsTrue, StoredNames
<1>5. IsFiniteSet(DOMAIN covered) /\ IsFiniteSet(DOMAIN missing)
  <2>1. ASSUME NEW names \in BoundedSeq(Mentioned, MaxMentioned) PROVE IsFiniteSet(DOMAIN names)
    <3>1. PICK k \in 0..MaxMentioned : names \in [1..k -> Mentioned]
      BY <2>1 DEF BoundedSeq, SeqOf
    <3>2. IsFiniteSet(1..k)
      BY FS_Interval, ConceptAssumption
    <3> QED
      BY <3>1, <3>2
  <2> QED
    BY <2>1
<1>6. AnswerTrue(answer)
  <2> HIDE DEF score
  <2>1. /\ answer.own = own /\ answer.score = score /\ answer.covered = covered /\ answer.missing = missing
        /\ answer.known = StoredNames /\ answer.evidence = evidence
    OBVIOUS
  <2> HIDE DEF answer
  <2> QED
    BY <1>4, <1>5, <2>1 DEF AnswerTrue
<1> HIDE DEF answer
<1>7. /\ IsList(written') /\ Len(written) \in Nat /\ Len(written') = Len(written) + 1
      /\ written'[Len(written) + 1] = answer /\ \A k \in 1..Len(written) : written'[k] = written[k]
  BY <1>3, Appended DEF ConceptsInv
<1>8. \A k \in 1..Len(written') : AnswerTrue(written'[k])
  BY <1>6, <1>7 DEF ConceptsInv
<1>9. RunsApart' /\ RowsTrue' /\ AdviceTrue'
  <2>1. RunsApart'
    BY <1>1 DEF ConceptsInv, RunsApart
  <2>2. RowsTrue'
    BY <1>1 DEF ConceptsInv, RowsTrue, RunOf, ExtractionsWhole, TwinsFromTwoRuns, StoredNames
  <2>3. AdviceTrue'
    BY <1>1 DEF ConceptsInv, AdviceTrue, AdviceLinked, StoredNames
  <2> QED
    BY <2>1, <2>2, <2>3
<1> QED
  BY <1>7, <1>8, <1>9 DEF ConceptsInv

\* Advice is asked for, and stored.
LEMMA AdviceKeeps == ConceptsInv /\ (AskForAdvice \/ StoreAdvice) => ConceptsInv'
<1> SUFFICES ASSUME ConceptsInv, AskForAdvice \/ StoreAdvice PROVE ConceptsInv'
  OBVIOUS
<1>1. UNCHANGED <<conceptRows, links, extraction, written>>
  BY DEF AskForAdvice, StoreAdvice
<1>2. RunsApart' /\ RowsTrue' /\ IsList(written') /\ \A k \in 1..Len(written') : AnswerTrue(written'[k])
  BY <1>1 DEF ConceptsInv, RunsApart, RowsTrue, RunOf, ExtractionsWhole, TwinsFromTwoRuns, StoredNames
<1>3. CASE AskForAdvice
  <2>1. /\ advice'.asked = StoredNames /\ advice'.rows = advice.rows
        /\ advice' = [requests |-> advice'.requests, asked |-> advice'.asked, rows |-> advice'.rows]
    BY <1>3 DEF AskForAdvice, ConceptsInv, AdviceTrue
  <2>2. AdviceTrue'
    BY <1>1, <2>1 DEF ConceptsInv, AdviceTrue, AdviceLinked, StoredNames
  <2> QED
    BY <1>2, <2>2 DEF ConceptsInv
<1>4. CASE advice' = [advice EXCEPT !.asked = {}]
  <2>1. /\ advice'.asked = {} /\ advice'.rows = advice.rows
        /\ advice' = [requests |-> advice'.requests, asked |-> advice'.asked, rows |-> advice'.rows]
    BY <1>4 DEF ConceptsInv, AdviceTrue
  <2>2. AdviceTrue'
    BY <1>1, <2>1 DEF ConceptsInv, AdviceTrue, AdviceLinked, StoredNames
  <2> QED
    BY <1>2, <2>2 DEF ConceptsInv
<1>5. ASSUME NEW map \in NameMaps(advice.asked), NEW name \in Mentioned \cup {NoConcept},
             advice' = [advice EXCEPT !.asked = {}, !.rows =
                {[name |-> name, known |-> advice.asked,
                  concept |-> IF name = NoConcept THEN NoConcept ELSE Resolved(name, map)]}]
      PROVE  ConceptsInv'
  <2> DEFINE concept == IF name = NoConcept THEN NoConcept ELSE Resolved(name, map)
             row == [name |-> name, known |-> advice.asked, concept |-> concept]
  <2>1. /\ advice'.asked = {} /\ advice'.rows = {row}
        /\ advice' = [requests |-> advice'.requests, asked |-> advice'.asked, rows |-> advice'.rows]
    BY <1>5 DEF ConceptsInv, AdviceTrue
  <2>2. row.name = name /\ row.known = advice.asked /\ row.concept = concept
    OBVIOUS
  <2>3. advice.asked \subseteq StoredNames /\ advice.asked \subseteq Names
    BY DEF ConceptsInv, AdviceTrue, RowsTrue, StoredNames
  <2>4. concept = NoConcept => \A other \in advice.asked : LowerCase(other) # LowerCase(name)
    <3>1. CASE name = NoConcept
      <4>1. LowerCase(NoConcept).word = NoConcept.word
        BY DEF LowerCase, NameOf
      <4>2. \A other \in advice.asked : other.word # NoConcept.word /\ LowerCase(other).word = other.word
        BY <2>3, NameForms DEF Names
      <4> QED
        BY <3>1, <4>1, <4>2
    <3>2. CASE name # NoConcept
      BY <2>3, <3>2, ResolvedMeans
    <3> QED
      BY <3>1, <3>2
  <2>5. concept # NoConcept => concept \in StoredNames /\ LowerCase(concept) = LowerCase(name)
    BY <2>3, ResolvedMeans
  <2> HIDE DEF row, concept
  <2>6. AdviceLinked'
    BY <1>1, <2>1, <2>2, <2>4, <2>5 DEF AdviceLinked, StoredNames
  <2>7. AdviceTrue'
    BY <2>1, <2>6 DEF AdviceTrue
  <2> QED
    BY <1>2, <2>7 DEF ConceptsInv
<1> QED
  BY <1>3, <1>4, <1>5 DEF StoreAdvice

\* Every step of the runs, the grader and the adviser keeps it.
LEMMA ConceptsMove == ConceptsInv /\ [ConceptsNext]_conceptVars => ConceptsInv'
<1> SUFFICES ASSUME ConceptsInv, [ConceptsNext]_conceptVars PROVE ConceptsInv'
  OBVIOUS
<1>1. CASE UNCHANGED conceptVars
  BY ZenonT(60), <1>1 DEF conceptVars, ConceptsInv, RunsApart, RowsTrue, RunOf, ExtractionsWhole, TwinsFromTwoRuns,
              AdviceTrue, AdviceLinked, StoredNames
<1> QED
  BY <1>1, ExtractionKeeps, ConceptsCommitted, WrittenKeeps, AdviceKeeps DEF ConceptsNext

-----------------------------------------------------------------------------
\* The concept that a name reaches has as many rows as it was named.
LEMMA RowsOfMentions ==
    ASSUME NEW known \in SUBSET Names, NEW map \in NameMaps(known), NEW names, IsFiniteSet(DOMAIN names),
           NEW points, NEW concept \in known
    PROVE  Cardinality({row \in Mentions(names, points, map) : row.concept = Resolved(concept, map)}) =
           Cardinality({k \in DOMAIN names : LowerCase(names[k]) = LowerCase(concept)})
<1> DEFINE Times == {k \in DOMAIN names : LowerCase(names[k]) = LowerCase(concept)}
           Rows == {row \in Mentions(names, points, map) : row.concept = Resolved(concept, map)}
           row(k) == EvidenceRow(Resolved(names[k], map), points, TRUE, k)
           f == [k \in Times |-> row(k)]
<1>1. \A k \in DOMAIN names :
         Resolved(names[k], map) = Resolved(concept, map) <=> LowerCase(names[k]) = LowerCase(concept)
  <2> SUFFICES ASSUME NEW k \in DOMAIN names
               PROVE  Resolved(names[k], map) = Resolved(concept, map) <=> LowerCase(names[k]) = LowerCase(concept)
    OBVIOUS
  <2>1. Resolved(concept, map) # NoConcept /\ LowerCase(Resolved(concept, map)) = LowerCase(concept)
    BY ResolvedMeans
  <2>2. Resolved(names[k], map) # NoConcept => LowerCase(Resolved(names[k], map)) = LowerCase(names[k])
    BY ResolvedMeans
  <2>3. LowerCase(names[k]) = LowerCase(concept) => Resolved(names[k], map) = Resolved(concept, map)
    BY DEF Resolved
  <2> QED
    BY <2>1, <2>2, <2>3
<1>2. \A k : row(k).concept = Resolved(names[k], map) /\ row(k).place = k
  BY DEF EvidenceRow
<1>3. Mentions(names, points, map) = {row(k) : k \in DOMAIN names}
  BY DEF Mentions
<1> HIDE DEF row
<1>4. \A k \in Times : f[k] \in Rows
  BY <1>1, <1>2, <1>3
<1>5. \A j, k \in Times : f[j] = f[k] => j = k
  BY <1>2
<1>6. \A r \in Rows : \E k \in Times : f[k] = r
  BY <1>1, <1>2, <1>3
<1>7. f \in Bijection(Times, Rows)
  <2> HIDE DEF Rows
  <2>1. f \in [Times -> Rows]
    BY <1>4
  <2> QED
    BY <1>5, <1>6, <2>1 DEF Bijection, Injection, Surjection, IsInjective
<1>8. IsFiniteSet(Times)
  BY FS_Subset
<1> HIDE DEF Times, Rows, f
<1>9. ExistsBijection(Times, Rows)
  BY <1>7 DEF ExistsBijection
<1>10. Cardinality(Rows) = Cardinality(Times)
  BY <1>8, <1>9, FS_Bijection
<1> QED
  BY <1>10 DEF Rows, Times

\* An answer's evidence is of its own concept, and of those it names.
LEMMA AnswerMeans ==
    ASSUME NEW answer, AnswerTrue(answer)
    PROVE  LET Called(concept, points) ==
                   {row \in answer.evidence :
                       row.half = TRUE /\ row.score = points /\ LowerCase(row.concept) = LowerCase(concept)}
               Times(names, concept) == {k \in DOMAIN names : LowerCase(names[k]) = LowerCase(concept)}
               AsNamed(concept) ==
                   /\ Cardinality(Called(concept, 100)) = Cardinality(Times(answer.covered, concept))
                   /\ Cardinality(Called(concept, 0)) = Cardinality(Times(answer.missing, concept))
               Ignored(concept) == Called(concept, 100) \cup Called(concept, 0) = {}
           IN
           /\ Cardinality({row \in answer.evidence : row.concept = answer.own}) = 1
           /\ \E row \in answer.evidence : row.concept = answer.own /\ row.half = FALSE /\ row.score = answer.score
           /\ \A row \in answer.evidence : row.concept \in answer.known
           /\ \A concept \in answer.known :
                 AsNamed(concept) \/ (LowerCase(concept) = LowerCase(answer.own) /\ Ignored(concept))
           /\ \A a, b \in answer.evidence :
                 a.half = TRUE /\ b.half = TRUE /\ LowerCase(a.concept) = LowerCase(b.concept) => a.concept = b.concept
<1>1. PICK map \in NameMaps(answer.known) :
         answer.evidence = EvidenceOf(answer.own, answer.score, answer.covered, answer.missing, map)
  BY DEF AnswerTrue
<1> DEFINE full == EvidenceRow(answer.own, answer.score, FALSE, 0)
           C == Mentions(answer.covered, 100, map)
           M == Mentions(answer.missing, 0, map)
<1>2. answer.evidence = {full} \cup {row \in C \cup M : row.concept \notin {NoConcept, answer.own}}
  BY <1>1 DEF EvidenceOf
<1>3. full.concept = answer.own /\ full.half = FALSE /\ full.score = answer.score
  BY DEF EvidenceRow
<1>4. ASSUME NEW names, NEW points, NEW row \in Mentions(names, points, map)
      PROVE  /\ row.half = TRUE /\ row.score = points
             /\ \E k \in DOMAIN names : row.concept = Resolved(names[k], map)
  BY <1>4 DEF Mentions, EvidenceRow
<1>12. \A name : Resolved(name, map) \in answer.known \cup {NoConcept}
  BY ResolvedMeans DEF AnswerTrue
<1>13. ASSUME NEW names, NEW points
      PROVE  \A row \in Mentions(names, points, map) :
                row.half = TRUE /\ row.score = points /\ row.concept \in answer.known \cup {NoConcept}
  <2> SUFFICES ASSUME NEW row \in Mentions(names, points, map)
               PROVE  row.half = TRUE /\ row.score = points /\ row.concept \in answer.known \cup {NoConcept}
    OBVIOUS
  <2>1. PICK k \in DOMAIN names : row.concept = Resolved(names[k], map)
    BY <1>4
  <2>2. row.half = TRUE /\ row.score = points
    BY <1>4
  <2> QED
    BY <1>12, <2>1, <2>2
<1>5. \A row \in C : row.half = TRUE /\ row.score = 100 /\ row.concept \in answer.known \cup {NoConcept}
  BY <1>13
<1>6. \A row \in M : row.half = TRUE /\ row.score = 0 /\ row.concept \in answer.known \cup {NoConcept}
  BY <1>13
<1>7. answer.own \in answer.known /\ NoConcept \notin answer.known
  BY NameForms DEF AnswerTrue
<1> HIDE DEF full, C, M
<1>8. Cardinality({row \in answer.evidence : row.concept = answer.own}) = 1
  <2>1. {row \in answer.evidence : row.concept = answer.own} = {full}
    BY <1>2, <1>3
  <2> QED
    BY <2>1, FS_Singleton
<1>9. \E row \in answer.evidence : row.concept = answer.own /\ row.half = FALSE /\ row.score = answer.score
  BY <1>2, <1>3
<1>10. \A row \in answer.evidence : row.concept \in answer.known
  BY <1>2, <1>3, <1>5, <1>6, <1>7
<1>11. ASSUME NEW row \in C \cup M, row.concept # NoConcept, NEW concept \in answer.known
       PROVE  LowerCase(row.concept) = LowerCase(concept) <=> row.concept = Resolved(concept, map)
  <2>1. PICK names, points : row \in Mentions(names, points, map)
    BY <1>11 DEF C, M
  <2>2. PICK k \in DOMAIN names : row.concept = Resolved(names[k], map)
    BY <1>4, <2>1
  <2>3. answer.known \subseteq Names
    BY DEF AnswerTrue
  <2>4. LowerCase(row.concept) = LowerCase(names[k])
    BY <1>11, <2>2, <2>3, ResolvedMeans
  <2>5. LowerCase(Resolved(concept, map)) = LowerCase(concept)
    BY <2>3, ResolvedMeans
  <2>6. LowerCase(names[k]) = LowerCase(concept) => Resolved(names[k], map) = Resolved(concept, map)
    BY DEF Resolved
  <2> QED
    BY <2>2, <2>4, <2>5, <2>6
<1> DEFINE Called(concept, points) ==
              {row \in answer.evidence :
                  row.half = TRUE /\ row.score = points /\ LowerCase(row.concept) = LowerCase(concept)}
           Times(names, concept) == {k \in DOMAIN names : LowerCase(names[k]) = LowerCase(concept)}
<1>14. ASSUME NEW concept \in answer.known
       PROVE  \/ /\ Cardinality(Called(concept, 100)) = Cardinality(Times(answer.covered, concept))
                 /\ Cardinality(Called(concept, 0)) = Cardinality(Times(answer.missing, concept))
              \/ LowerCase(concept) = LowerCase(answer.own) /\ Called(concept, 100) \cup Called(concept, 0) = {}
  <2> DEFINE reached == Resolved(concept, map)
  <2>1. reached \in answer.known /\ reached # NoConcept /\ LowerCase(reached) = LowerCase(concept)
    BY ResolvedMeans DEF AnswerTrue
  <2>2. \A row \in C \cup M : row.concept # NoConcept =>
           (LowerCase(row.concept) = LowerCase(concept) <=> row.concept = reached)
    BY <1>11
  <2> HIDE DEF reached
  <2>3. CASE reached = answer.own
    <3>1. \A row \in answer.evidence : row.half = TRUE => LowerCase(row.concept) # LowerCase(concept)
      BY <1>2, <1>3, <2>2, <2>3
    <3> QED
      BY <2>1, <2>3, <3>1
  <2>4. CASE reached # answer.own
    <3>1. Called(concept, 100) = {row \in C : row.concept = reached}
      BY <1>2, <1>3, <1>5, <1>6, <2>1, <2>2, <2>4
    <3>2. Called(concept, 0) = {row \in M : row.concept = reached}
      BY <1>2, <1>3, <1>5, <1>6, <2>1, <2>2, <2>4
    <3>3. /\ Cardinality({row \in C : row.concept = reached}) = Cardinality(Times(answer.covered, concept))
          /\ Cardinality({row \in M : row.concept = reached}) = Cardinality(Times(answer.missing, concept))
      BY RowsOfMentions DEF AnswerTrue, C, M, reached
    <3> QED
      BY <3>1, <3>2, <3>3
  <2> QED
    BY <2>3, <2>4
<1>15. ASSUME NEW a \in answer.evidence, NEW b \in answer.evidence, a.half = TRUE, b.half = TRUE,
              LowerCase(a.concept) = LowerCase(b.concept)
       PROVE  a.concept = b.concept
  <2>1. a \in C \cup M /\ a.concept # NoConcept /\ b \in C \cup M /\ b.concept # NoConcept /\ b.concept \in answer.known
    BY <1>2, <1>3, <1>10, <1>15
  <2>2. b.concept = Resolved(b.concept, map)
    BY <1>11, <2>1
  <2> QED
    BY <1>11, <1>15, <2>1, <2>2
<1> QED
  BY <1>8, <1>9, <1>10, <1>14, <1>15

\* It says that names reach the concepts they mean.
LEMMA ConceptsMean == ConceptsInv => NamesResolved
<1> SUFFICES ASSUME ConceptsInv PROVE NamesResolved
  OBVIOUS
<1>1. MentionsResolved
  <2>1. \A n \in DOMAIN written : AnswerTrue(written[n])
    BY DEF ConceptsInv, IsList
  <2> QED
    BY <2>1, AnswerMeans DEF MentionsResolved
<1> QED
  BY <1>1 DEF ConceptsInv, RowsTrue, AdviceTrue, NamesResolved

-----------------------------------------------------------------------------
\* The chunks of a document hold all of its text, once and in order, within their budget and
\* with their overlap (lib/documents); the keys of documents do not lead out of their store, a
\* document is its material's own and whole from the material's first moment until its deletion
\* begins, and no other is left behind (lib/storage).
THEOREM DocumentsFaithfulCorrect == Spec => []DocumentsFaithful
<1> DEFINE I == /\ part = "reading" => ReadingInv
                /\ part = "storage" => StorageInv
<1>1. Init => I
  BY ReadingStarts, StorageStarts DEF Init
<1>2. I /\ [Next]_vars => I'
  <2> SUFFICES ASSUME I, [Next]_vars PROVE I'
    OBVIOUS
  <2>1. /\ part' = part
        /\ part = "reading" => [ReadingNext]_readingVars
        /\ part = "storage" => [StorageNext]_storageVars
    BY DEF Next, vars
  <2> QED
    BY <2>1, ReadingMoves, StorageMoves
<1>3. I => DocumentsFaithful
  BY ReadingMeans, StorageMeans DEF DocumentsFaithful
<1> QED
  BY <1>1, <1>2, <1>3, PTL DEF Spec

\* What a form tells the learner of a submission is what became of it, and a draft is not
\* stored twice unless the page could not know (components/spaces, projects, quiz, auth); who
\* reads an administrator's feed to its end has seen what was there, and the lists of jobs and
\* of stale locks leave out nothing that needs attention more (services/admin.ts).
THEOREM ScreensTrueCorrect == Spec => []ScreensTrue
<1> DEFINE I == /\ part = "forms" => FormsInv
                /\ part \in {"feed", "jobs"} => FeedInv /\ JobsInv
<1>1. Init => I
  BY FormsStarts, FeedStarts, JobsStart DEF Init
<1>2. I /\ [Next]_vars => I'
  <2> SUFFICES ASSUME I, [Next]_vars PROVE I'
    OBVIOUS
  <2>1. /\ part' = part
        /\ part = "forms" => [FormsNext]_formVars
        /\ part \in {"feed", "jobs"} => [FeedNext \/ JobsNext]_deskVars
    BY DEF Next, vars
  <2> QED
    BY <2>1, FormsMoves, DeskMoves
<1>3. I => ScreensTrue
  BY FormsMeans, DeskMeans DEF ScreensTrue
<1> QED
  BY <1>1, <1>2, <1>3, PTL DEF Spec

\* A quiz that is stored has the questions of its plan that had evidence, in its order, and
\* each of its choices has one right option and a wrong one (lib/learning/selection.ts,
\* ai/features/generate-quiz.ts, services/quizzes.ts).
THEOREM QuizzesSoundCorrect == Spec => []QuizzesSound
<1> DEFINE I == part = "builder" => BuilderInv
<1>1. Init => I
  BY BuilderStarts DEF Init
<1>2. I /\ [Next]_vars => I'
  <2> SUFFICES ASSUME I, [Next]_vars, part' = "builder" PROVE BuilderInv'
    OBVIOUS
  <2>1. part = "builder" /\ [BuilderNext]_builderVars
    BY DEF Next, vars
  <2> QED
    BY <2>1, BuilderMoves
<1>3. I => QuizzesSound
  BY BuilderMeans DEF QuizzesSound
<1> QED
  BY <1>1, <1>2, <1>3, PTL DEF Spec

\* The names by which models speak of concepts reach concepts of that name, whatever their
\* case and the blanks around them, one of them if there are several, each time a name is
\* written (ai/features/extract-concepts.ts, services/materials.ts, quizzes.ts,
\* recommendations.ts).
THEOREM NamesTrueCorrect == Spec => []NamesTrue
<1> DEFINE I == part = "names" => ConceptsInv
<1>1. Init => I
  BY ConceptsStart DEF Init
<1>2. I /\ [Next]_vars => I'
  <2> SUFFICES ASSUME I, [Next]_vars, part' = "names" PROVE ConceptsInv'
    OBVIOUS
  <2>1. part = "names" /\ [ConceptsNext]_conceptVars
    BY DEF Next, vars
  <2> QED
    BY <2>1, ConceptsMove
<1>3. I => NamesTrue
  BY ConceptsMean DEF NamesTrue
<1> QED
  BY <1>1, <1>2, <1>3, PTL DEF Spec

\* Every call of a model is recorded once, whatever fails; the local model is loaded once for
\* all callers; the cache of embeddings holds the queries used or first stored last, each once
\* (lib/ai).
THEOREM CallsTrueCorrect == Spec => []CallsTrue
<1> DEFINE I == part = "calls" => CallsInv /\ Keyed /\ CacheInv
<1>1. Init => I
  BY CallsStart, CacheStart DEF Init
<1>2. I /\ [Next]_vars => I'
  <2> SUFFICES ASSUME I, [Next]_vars, part' = "calls" PROVE CallsInv' /\ Keyed' /\ CacheInv'
    OBVIOUS
  <2>1. part = "calls" /\ [CallsNext]_callVars
    BY DEF Next, vars
  <2> QED
    BY <2>1, CallsMove, CacheMove
<1>3. I => CallsTrue
  BY CallsMean DEF CallsTrue
<1> QED
  BY <1>1, <1>2, <1>3, PTL DEF Spec

\* A completed evaluation that passes met nothing wrong and left no suite out, one that does
\* not has a cause, and its tallies add up (lib/eval); the script evaluates the fixture it
\* describes, also when it was stopped and started again, but for the cases that MaterialThere,
\* OneFixture, SameInputs, HistoryCounted and GivenUpRightly name (scripts/eval.ts).
THEOREM EvaluationHonestCorrect == Spec => []EvaluationHonest
<1> DEFINE I == /\ part = "evaluation" => EvalInv
                /\ part = "fixture" => FixtureInv
<1>1. Init => I
  BY EvalStarts, FixtureStarts DEF Init
<1>2. I /\ [Next]_vars => I'
  <2> SUFFICES ASSUME I, [Next]_vars PROVE I'
    OBVIOUS
  <2>1. /\ part' = part
        /\ part = "evaluation" => [EvalNext]_evalVars
        /\ part = "fixture" => [FixtureNext]_fixtureVars
    BY DEF Next, vars
  <2> QED
    BY <2>1, EvalMoves, FixtureMoves
<1>3. I => EvaluationHonest
  BY EvalMeans, FixtureMeans DEF EvaluationHonest
<1> QED
  BY <1>1, <1>2, <1>3, PTL DEF Spec

\* What the tutor, the note-taker and the adviser are told is what the learner's
\* conversations and record of mastery say (services/tutor.ts, learning-context.ts,
\* ai/features).
THEOREM ToldTrueCorrect == Spec => [](part = "prompts" => ToldTrue)
<1> DEFINE I == part = "prompts" => PromptsInv
<1>1. Init => I
  BY PromptsStart DEF Init
<1>2. I /\ [Next]_vars => I'
  <2> SUFFICES ASSUME I, [Next]_vars, part' = "prompts" PROVE PromptsInv'
    OBVIOUS
  <2>1. part = "prompts" /\ [PromptsNext]_promptVars
    BY DEF Next, vars, promptVars
  <2> QED
    BY <2>1, PromptAssumption, PromptsMove
<1>3. I => (part = "prompts" => ToldTrue)
  BY PromptsMean
<1> QED
  BY <1>1, <1>2, <1>3, PTL DEF Spec

\* The spans of a request have their depth and lie one within the other
\* (performance/timing.ts).
THEOREM SpansNestedCorrect == Spec => [](part = "timing" => DepthsTrue /\ SpansNested)
<1> DEFINE I == part = "timing" => TimingInv
<1>1. Init => I
  BY TimingStarts DEF Init
<1>2. I /\ [Next]_vars => I'
  <2> SUFFICES ASSUME I, [Next]_vars, part' = "timing" PROVE TimingInv'
    OBVIOUS
  <2>1. part = "timing" /\ [TimingNext]_timingVars
    BY DEF Next, vars, timingVars
  <2> QED
    BY <2>1, TimingMoves
<1>3. I => (part = "timing" => DepthsTrue /\ SpansNested)
  BY TimingMeans
<1> QED
  BY <1>1, <1>2, <1>3, PTL DEF Spec
=============================================================================
