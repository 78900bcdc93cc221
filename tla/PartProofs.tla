----------------------------- MODULE PartProofs -----------------------------
(***************************************************************************)
(* Theorems and lemmas about parts that stand alone: Pages, Forms,          *)
(* AdminDesk, Storage, Reading, Timing and Prompts.  Each part has its      *)
(* invariant, with a lemma for its beginning, one for its steps and one for *)
(* what it means.  Pages has its own specification, and its theorem is      *)
(* here; the others are checked, and their theorems stated, with the rest   *)
(* of the library (LibraryProofs).                                          *)
(*                                                                          *)
(* Of the quiz page: what a request brings back was stored when the server  *)
(* answered it, and stays; what the page does not show yet is on its way to *)
(* it, or was on its way while the quiz was being finished.  So the         *)
(* invariant speaks of every request under way.                             *)
(***************************************************************************)
EXTENDS Pages, Forms, AdminDesk, Storage, Reading, Timing, Prompts, FiniteSetTheorems,
        SequenceTheorems, WellFoundedInduction, TLAPS

\* A set of numbers has a least one.
LEMMA LeastNumber ==
    ASSUME NEW T \in SUBSET Nat, T # {}
    PROVE  \E least \in T : \A n \in T : least <= n
<1>1. IsWellFoundedOn(OpToRel(<, Nat), Nat)
  BY NatLessThanWellFounded
<1>2. PICK least \in T : \A n \in T : ~(<<n, least>> \in OpToRel(<, Nat))
  BY <1>1, WFMin
<1>3. \A n \in T : ~(n < least)
  BY <1>2 DEF OpToRel
<1> QED
  BY <1>3

\* What holds of the beginning, and of each place after one of which it holds, holds of all.
LEMMA EveryPlace ==
    ASSUME NEW N \in Nat, NEW K, 0 \in K, \A n \in 1..N : n - 1 \in K => n \in K
    PROVE  \A n \in 0..N : n \in K
<1> SUFFICES ASSUME NEW m \in 0..N, m \notin K PROVE FALSE
  OBVIOUS
<1> DEFINE T == {n \in 0..N : n \notin K}
<1>1. PICK n \in T : \A k \in T : n <= k
  <2>1. T \in SUBSET Nat /\ m \in T
    OBVIOUS
  <2> HIDE DEF T
  <2> QED
    BY <2>1, LeastNumber
<1>2. n \in 1..N /\ n - 1 \in 0..N /\ n - 1 \notin T
  BY <1>1
<1> QED
  BY <1>1, <1>2

\* f is made step by step from its beginning.
Built(f, N, S, first, step) ==
    f \in [0..N -> S] /\ f[0] = first /\ \A n \in 1..N : f[n] = step[n][f[n - 1]]

\* Whatever the steps, there is what they make.
LEMMA StepByStep ==
    ASSUME NEW N \in Nat, NEW S, NEW first \in S, NEW step \in [1..N -> [S -> S]]
    PROVE  \E f : Built(f, N, S, first, step)
<1> DEFINE K == {m \in 0..N : \E f : Built(f, m, S, first, step)}
<1>1. 0 \in K
  <2>1. Built([n \in 0..0 |-> first], 0, S, first, step)
    BY DEF Built
  <2> QED
    BY <2>1
<1>2. ASSUME NEW n \in 1..N, n - 1 \in K PROVE n \in K
  <2>1. PICK f : Built(f, n - 1, S, first, step)
    BY <1>2
  <2> DEFINE g == [k \in 0..n |-> IF k = n THEN step[n][f[n - 1]] ELSE f[k]]
  <2>2. f[n - 1] \in S /\ step[n][f[n - 1]] \in S
    BY <2>1 DEF Built
  <2>3. g \in [0..n -> S]
    BY <2>1, <2>2 DEF Built
  <2>4. g[0] = first /\ g[n] = step[n][f[n - 1]] /\ \A k \in 0..(n - 1) : g[k] = f[k]
    BY <2>1 DEF Built
  <2> HIDE DEF g
  <2>5. ASSUME NEW k \in 1..n PROVE g[k] = step[k][g[k - 1]]
    <3>1. CASE k = n
      BY <2>4, <3>1
    <3>2. CASE k \in 1..(n - 1)
      BY <2>1, <2>4, <3>2 DEF Built
    <3> QED
      BY <3>1, <3>2
  <2>6. Built(g, n, S, first, step)
    BY <2>3, <2>4, <2>5 DEF Built
  <2> QED
    BY <2>6
<1> HIDE DEF K
<1>3. \A n \in 1..N : n - 1 \in K => n \in K
  BY <1>2
<1>4. \A n \in 0..N : n \in K
  BY <1>1, <1>3, EveryPlace
<1>5. N \in 0..N
  OBVIOUS
<1>6. N \in K
  BY <1>4, <1>5
<1> QED
  BY <1>6 DEF K

\* A function that is made by these steps as long as it has values for them has.
LEMMA StaysIn ==
    ASSUME NEW N \in Nat, NEW S, NEW g, g[0] \in S, \A n \in 1..N : g[n - 1] \in S => g[n] \in S
    PROVE  \A n \in 0..N : g[n] \in S
<1> DEFINE K == {n \in 0..N : g[n] \in S}
<1>1. 0 \in K
  OBVIOUS
<1>2. \A n \in 1..N : n - 1 \in K => n \in K
  OBVIOUS
<1> HIDE DEF K
<1>3. \A n \in 0..N : n \in K
  BY <1>1, <1>2, EveryPlace
<1> QED
  BY <1>3 DEF K

-----------------------------------------------------------------------------
(* Pages *)

\* Two requests that cross know of it, and it is never forgotten.
Crossed(q) == \E n \in DOMAIN calls : calls[n].of = q /\ calls[n].crossed
Crossing ==
    \A n, k \in DOMAIN calls :
        calls[n].kind = "answer" /\ calls[k].kind = "finish" /\ InFlight(calls[n]) /\ InFlight(calls[k]) =>
            calls[n].crossed /\ calls[k].crossed

\* What a request brings is stored, and what its view lacks has crossed it.
CallTrue(c) ==
    /\ c.kind = "answer" => c.of \in Questions
    /\ c.at = "answered" => c.waits
    /\ c.at \in {"sent", "checked"} => c.ok
    /\ InFlight(c) /\ ~c.waits => lapsed
    /\ c.view.answers \subseteq storedAnswers /\ (c.view.ended => ended)
    /\ c.kind = "answer" /\ c.at = "answered" /\ c.ok => c.of \in storedAnswers
    /\ c.kind = "finish" /\ c.at = "checked" => ended
    /\ c.kind = "finish" /\ c.at = "answered" /\ c.ok =>
          c.view.ended /\ \A q \in storedAnswers \ c.view.answers : Crossed(q)
RequestsTrue == \A n \in DOMAIN calls : CallTrue(calls[n])

\* What a page waits for is under way.
Waits(kinds) == \E n \in DOMAIN calls : calls[n].kind \in kinds /\ InFlight(calls[n]) /\ calls[n].waits
Awaited ==
    /\ pendingId # NoQuestion => Waits({"answer"})
    /\ completing => Waits({"finish"})
    /\ uploading => Waits({"upload"})
    /\ busyId # NoMaterial => Waits({"retry", "delete"})

\* What the page does not show yet is on its way to it, or crossed the end of the quiz.
Coming(q) ==
    \E n \in DOMAIN calls :
        calls[n].kind = "answer" /\ calls[n].of = q /\ calls[n].at = "answered" /\ calls[n].ok
Ending ==
    \E n \in DOMAIN calls :
        calls[n].kind = "finish" /\ calls[n].at \in {"checked", "answered"} /\ calls[n].ok
CopyTrue ==
    /\ shown.answers \subseteq storedAnswers /\ (shown.ended => ended)
    /\ ended /\ ~shown.ended /\ ~lapsed => Ending
    /\ ~lapsed => \A q \in storedAnswers \ shown.answers : Crossed(q) \/ Coming(q)

PagesInv == TypeOK /\ RequestsTrue /\ Crossing /\ Awaited /\ CopyTrue

-----------------------------------------------------------------------------
(* What a step does to the requests *)

\* One of them changes, or one is sent and others learn that it crosses them.
Same(c, d) ==
    /\ d.kind = c.kind /\ d.of = c.of /\ d.at = c.at /\ d.waits = c.waits /\ d.ok = c.ok /\ d.view = c.view
    /\ c.crossed => d.crossed
NewRequest(c, kind, of) ==
    /\ c.kind = kind /\ c.of = of /\ c.at = "sent" /\ c.waits /\ c.ok /\ c.view = NoView

\* A function on the first numbers is a sequence.
LEMMA Listed == ASSUME NEW S, NEW n \in Nat, NEW f \in [1..n -> S] PROVE f \in Seq(S) /\ Len(f) = n
OBVIOUS

\* A request is made: the others only learn that it crosses them.
LEMMA Sending ==
    ASSUME TypeOK, Crossing, NEW kind \in CallKinds, NEW of \in Targets, Sent(kind, of),
           NEW l, l = Len(calls) + 1
    PROVE  /\ calls' \in Seq(Call) /\ DOMAIN calls' = DOMAIN calls \cup {l} /\ l \notin DOMAIN calls
           /\ \A n \in DOMAIN calls : Same(calls[n], calls'[n])
           /\ NewRequest(calls'[l], kind, of)
           /\ Crossing' /\ \A q : Crossed(q) => Crossed(q)'
<1> DEFINE crosses(a, b) == {a, b} = {"answer", "finish"}
           met(n) == InFlight(calls[n]) /\ crosses(kind, calls[n].kind)
<1>1. PICK before :
          before = [n \in DOMAIN calls |-> IF met(n) THEN [calls[n] EXCEPT !.crossed = TRUE] ELSE calls[n]]
  OBVIOUS
<1>2. PICK hits \in BOOLEAN : hits = \E n \in DOMAIN calls : met(n)
  OBVIOUS
<1>3. PICK new : new = [kind |-> kind, of |-> of, at |-> "sent", waits |-> TRUE, ok |-> TRUE, view |-> NoView,
                        crossed |-> hits]
  OBVIOUS
<1>4. calls' = Append(before, new)
  BY <1>1, <1>2, <1>3 DEF Sent
<1>5. calls \in Seq(Call) /\ Len(calls) \in Nat /\ DOMAIN calls = 1..Len(calls)
  BY DEF TypeOK
<1>6. ASSUME NEW n \in DOMAIN calls
      PROVE  /\ before[n] \in Call /\ Same(calls[n], before[n])
             /\ met(n) => before[n].crossed
  <2>1. calls[n] \in Call
    BY <1>5
  <2>2. CASE met(n)
    <3>1. before[n] = [calls[n] EXCEPT !.crossed = TRUE]
      BY <1>1, <2>2
    <3> QED
      BY <2>1, <3>1 DEF Call, Same
  <2>3. CASE ~met(n)
    BY <1>1, <2>1, <2>3 DEF Same
  <2> QED
    BY <2>2, <2>3
<1>7. before \in Seq(Call) /\ Len(before) = Len(calls) /\ DOMAIN before = DOMAIN calls
  <2>1. before \in [1..Len(calls) -> Call]
    BY <1>1, <1>5, <1>6
  <2> QED
    BY <1>5, <2>1, Listed
<1>8. new \in Call /\ NewRequest(new, kind, of) /\ new.crossed = hits
  BY <1>2, <1>3 DEF Call, NewRequest, NoView, QuizView
<1>9. /\ calls' \in Seq(Call) /\ DOMAIN calls' = DOMAIN calls \cup {l} /\ l \notin DOMAIN calls
      /\ calls'[l] = new /\ \A n \in DOMAIN calls : calls'[n] = before[n]
  BY <1>4, <1>5, <1>7, <1>8
<1>10. ASSUME NEW n \in DOMAIN calls', NEW k \in DOMAIN calls',
              calls'[n].kind = "answer", calls'[k].kind = "finish",
              InFlight(calls'[n]), InFlight(calls'[k])
       PROVE  calls'[n].crossed /\ calls'[k].crossed
  <2> HIDE DEF met
  <2>1. n = l => k # l
    BY <1>10
  <2>2. CASE n = l
    <3>1. k \in DOMAIN calls /\ calls'[k] = before[k] /\ kind = "answer"
      BY <1>8, <1>9, <1>10, <2>1, <2>2 DEF NewRequest
    <3>2. met(k)
      BY <1>6, <1>10, <3>1 DEF met, Same, InFlight
    <3> QED
      BY <1>2, <1>6, <1>8, <1>9, <2>2, <3>1, <3>2
  <2>3. CASE k = l
    <3>1. n \in DOMAIN calls /\ calls'[n] = before[n] /\ kind = "finish"
      BY <1>8, <1>9, <1>10, <2>1, <2>3 DEF NewRequest
    <3>2. met(n)
      BY <1>6, <1>10, <3>1 DEF met, Same, InFlight
    <3> QED
      BY <1>2, <1>6, <1>8, <1>9, <2>3, <3>1, <3>2
  <2>4. CASE n # l /\ k # l
    <3>1. n \in DOMAIN calls /\ k \in DOMAIN calls /\ calls'[n] = before[n] /\ calls'[k] = before[k]
      BY <1>9, <2>4
    <3>2. Same(calls[n], before[n]) /\ Same(calls[k], before[k])
      BY <1>6, <3>1
    <3>3. calls[n].crossed /\ calls[k].crossed
      BY <1>10, <3>1, <3>2 DEF Crossing, Same, InFlight
    <3> QED
      BY <3>1, <3>2, <3>3 DEF Same
  <2> QED
    BY <2>2, <2>3, <2>4
<1>11. \A q : Crossed(q) => Crossed(q)'
  BY <1>6, <1>9 DEF Crossed, Same
<1> QED
  BY <1>6, <1>8, <1>9, <1>10, <1>11 DEF Crossing

\* One request changes, and the others stay.
LEMMA OneCall ==
    ASSUME TypeOK, Crossing, NEW n \in DOMAIN calls, NEW c \in Call, calls' = [calls EXCEPT ![n] = c],
           c.kind = calls[n].kind, c.of = calls[n].of, c.crossed = calls[n].crossed,
           calls[n].at = "over" => c.at = "over"
    PROVE  /\ calls' \in Seq(Call) /\ DOMAIN calls' = DOMAIN calls
           /\ calls'[n] = c /\ \A k \in DOMAIN calls : k # n => calls'[k] = calls[k]
           /\ Crossing' /\ \A q : Crossed(q) <=> Crossed(q)'
<1>1. calls \in Seq(Call)
  BY DEF TypeOK
<1>2. /\ calls' \in Seq(Call) /\ DOMAIN calls' = DOMAIN calls
      /\ calls'[n] = c /\ \A k \in DOMAIN calls : k # n => calls'[k] = calls[k]
  BY <1>1
<1>3. Crossing'
  BY <1>2 DEF Crossing, InFlight
<1>4. \A q : Crossed(q) <=> Crossed(q)'
  BY <1>2 DEF Crossed
<1> QED
  BY <1>2, <1>3, <1>4

\* A request that is sent takes nothing from the others.
LEMMA SendingKeeps ==
    ASSUME PagesInv, NEW kind \in CallKinds, NEW of \in Targets, Sent(kind, of),
           kind = "answer" => of \in Questions, UNCHANGED <<storedAnswers, ended, shown, lapsed>>
    PROVE  /\ calls' \in Seq(Call) /\ RequestsTrue' /\ Crossing' /\ CopyTrue'
           /\ \A kinds : Waits(kinds) \/ kind \in kinds => Waits(kinds)'
<1>1. PICK l : l = Len(calls) + 1
  OBVIOUS
<1>2. /\ calls' \in Seq(Call) /\ DOMAIN calls' = DOMAIN calls \cup {l} /\ l \notin DOMAIN calls
      /\ \A n \in DOMAIN calls : Same(calls[n], calls'[n])
      /\ NewRequest(calls'[l], kind, of)
      /\ Crossing' /\ \A q : Crossed(q) => Crossed(q)'
  BY <1>1, Sending DEF PagesInv
<1>3. ASSUME NEW n \in DOMAIN calls' PROVE CallTrue(calls[n])'
  <2>1. CASE n = l
    BY <1>2, <2>1 DEF NewRequest, CallTrue, InFlight, NoView
  <2>2. CASE n # l
    <3>1. n \in DOMAIN calls /\ CallTrue(calls[n]) /\ Same(calls[n], calls'[n])
      BY <1>2, <2>2 DEF PagesInv, RequestsTrue
    <3> QED
      BY <1>2, <3>1 DEF Same, CallTrue, InFlight
  <2> QED
    BY <2>1, <2>2
<1>4. ASSUME NEW kinds, Waits(kinds) \/ kind \in kinds PROVE Waits(kinds)'
  BY <1>2, <1>4 DEF Waits, Same, NewRequest, InFlight
<1>5. Ending => Ending'
  BY <1>2 DEF Ending, Same
<1>6. \A q : Coming(q) => Coming(q)'
  BY <1>2 DEF Coming, Same
<1>7. CopyTrue'
  BY <1>2, <1>5, <1>6 DEF PagesInv, CopyTrue
<1> QED
  BY <1>2, <1>3, <1>4, <1>7 DEF RequestsTrue

\* A request that goes on, or comes back, while what the quiz page shows stays.
LEMMA CallKeeps ==
    ASSUME PagesInv, UNCHANGED <<storedAnswers, ended, shown, lapsed>>,
           NEW n \in DOMAIN calls, NEW c \in Call, calls' = [calls EXCEPT ![n] = c],
           c.kind = calls[n].kind, c.of = calls[n].of, c.crossed = calls[n].crossed,
           calls[n].at = "over" => c.at = "over", CallTrue(c),
           ~lapsed /\ c.kind = "finish" /\ calls[n].at \in {"checked", "answered"} /\ calls[n].ok =>
               c.at \in {"checked", "answered"} /\ c.ok,
           ~lapsed /\ c.kind = "answer" /\ calls[n].at = "answered" => c.at = "answered" /\ c.ok = calls[n].ok
    PROVE  /\ calls' \in Seq(Call) /\ RequestsTrue' /\ Crossing' /\ CopyTrue'
           /\ \A kinds : Waits(kinds) => Waits(kinds)' \/ (c.kind \in kinds /\ ~(InFlight(c) /\ c.waits))
<1>1. /\ calls' \in Seq(Call) /\ DOMAIN calls' = DOMAIN calls
      /\ calls'[n] = c /\ \A k \in DOMAIN calls : k # n => calls'[k] = calls[k]
      /\ Crossing' /\ \A q : Crossed(q) <=> Crossed(q)'
  BY OneCall DEF PagesInv
<1>2. ASSUME NEW k \in DOMAIN calls PROVE CallTrue(calls[k])'
  <2>1. \E d : d = calls'[k] /\ CallTrue(d)
    BY <1>1 DEF PagesInv, RequestsTrue
  <2> QED
    BY <1>1, <2>1 DEF CallTrue
<1>3. ~lapsed /\ Ending => Ending'
  BY <1>1 DEF Ending
<1>4. ~lapsed => \A q : Coming(q) => Coming(q)'
  BY <1>1 DEF Coming
<1>5. CopyTrue'
  BY <1>1, <1>3, <1>4 DEF PagesInv, CopyTrue
<1>6. ASSUME NEW kinds, Waits(kinds) PROVE Waits(kinds)' \/ (c.kind \in kinds /\ ~(InFlight(c) /\ c.waits))
  BY <1>1, <1>6 DEF Waits
<1> QED
  BY <1>1, <1>2, <1>5, <1>6 DEF RequestsTrue

-----------------------------------------------------------------------------
(* The actions of the pages *)

\* What the learner does on either page keeps the invariant.
LEMMA Sends ==
    ASSUME PagesInv,
           \/ PressFinish \/ \E q \in Questions : SubmitAnswer(q)
           \/ \E m \in Materials : Upload(m) \/ Retry(m) \/ Delete(m)
    PROVE  PagesInv'
<1>1. TypeOK /\ Awaited
  BY DEF PagesInv
<1>2. CASE PressFinish
  <2>1. Sent("finish", NoQuestion) /\ completing' = TRUE
        /\ UNCHANGED <<openPage, storedAnswers, ended, shown, pendingId, materialPage, lapsed>>
    BY <1>2 DEF PressFinish
  <2>2. /\ calls' \in Seq(Call) /\ RequestsTrue' /\ Crossing' /\ CopyTrue'
        /\ \A kinds : Waits(kinds) \/ "finish" \in kinds => Waits(kinds)'
    BY <2>1, SendingKeeps DEF CallKinds, Targets
  <2>3. Awaited'
    BY <1>1, <2>1, <2>2 DEF Awaited, materialPage
  <2>4. TypeOK'
    BY <1>1, <2>1, <2>2 DEF TypeOK, materialPage
  <2> QED
    BY <2>2, <2>3, <2>4 DEF PagesInv
<1>3. ASSUME NEW q \in Questions, SubmitAnswer(q) PROVE PagesInv'
  <2>1. Sent("answer", q) /\ pendingId' = q
        /\ UNCHANGED <<openPage, storedAnswers, ended, shown, completing, materialPage, lapsed>>
    BY <1>3 DEF SubmitAnswer
  <2>2. /\ calls' \in Seq(Call) /\ RequestsTrue' /\ Crossing' /\ CopyTrue'
        /\ \A kinds : Waits(kinds) \/ "answer" \in kinds => Waits(kinds)'
    BY <2>1, SendingKeeps DEF CallKinds, Targets
  <2>3. Awaited'
    BY <1>1, <2>1, <2>2 DEF Awaited, materialPage
  <2>4. TypeOK'
    BY <1>1, <2>1, <2>2 DEF TypeOK, materialPage
  <2> QED
    BY <2>2, <2>3, <2>4 DEF PagesInv
<1>4. ASSUME NEW m \in Materials, NEW kind \in {"upload", "retry", "delete"}, Sent(kind, m),
             UNCHANGED <<openPage, quizPage, status, list, polls, refreshes, lapsed>>,
             \/ kind = "upload" /\ uploading' = TRUE /\ UNCHANGED busyId
             \/ kind # "upload" /\ busyId' = m /\ UNCHANGED uploading
      PROVE  PagesInv'
  <2>1. UNCHANGED <<storedAnswers, ended, shown, pendingId, completing>>
    BY <1>4 DEF quizPage
  <2>2. kind \in CallKinds /\ m \in Targets /\ kind # "answer"
    BY DEF CallKinds, Targets
  <2>3. /\ calls' \in Seq(Call) /\ RequestsTrue' /\ Crossing' /\ CopyTrue'
        /\ \A kinds : Waits(kinds) \/ kind \in kinds => Waits(kinds)'
    BY <1>4, <2>1, <2>2, SendingKeeps
  <2>4. Awaited'
    BY <1>1, <1>4, <2>1, <2>3 DEF Awaited
  <2>5. TypeOK'
    BY <1>1, <1>4, <2>1, <2>3 DEF TypeOK
  <2> QED
    BY <2>3, <2>4, <2>5 DEF PagesInv
<1>5. ASSUME NEW m \in Materials, Upload(m) \/ Retry(m) \/ Delete(m) PROVE PagesInv'
  BY <1>4, <1>5 DEF Upload, Retry, Delete
<1> QED
  BY <1>2, <1>3, <1>5

\* The steps of the server, the workers and the list that no request of the quiz takes part in.
LEMMA ListKeeps ==
    ASSUME PagesInv,
           \/ \E m \in Materials : Process(m)
           \/ Poll \/ Render \/ ReceiveRefresh
           \/ \E l \in polls : ReceivePoll(l)
    PROVE  PagesInv'
<1>1. UNCHANGED <<openPage, quizPage, busyId, uploading, calls, lapsed>>
  BY DEF Process, Poll, Render, ReceiveRefresh, ReceivePoll
<1>2. RequestsTrue' /\ Crossing' /\ Awaited' /\ CopyTrue'
  BY <1>1 DEF PagesInv, RequestsTrue, CallTrue, Crossed, Crossing, Awaited, Waits, CopyTrue, Coming, Ending, quizPage
<1>3. TypeOK
  BY DEF PagesInv
<1>4. Asked \in {Asked} \cup {<<l>> : l \in Lists}
  OBVIOUS
<1>5. ASSUME NEW l, NEW waiting \in Seq({Asked} \cup {<<k>> : k \in Lists})
      PROVE  SettledRefreshes(l, waiting) \in Seq({Asked} \cup {<<k>> : k \in Lists})
  BY <1>4 DEF SettledRefreshes
<1>6. status' \in Lists /\ list' \in Lists /\ polls' \subseteq Lists
      /\ refreshes' \in Seq({Asked} \cup {<<l>> : l \in Lists})
  <2>1. ASSUME NEW m \in Materials, Process(m) PROVE status' \in Lists /\ UNCHANGED <<list, polls, refreshes>>
    BY <1>3, <2>1 DEF Process, TypeOK, Lists, ListStatuses
  <2>2. CASE Poll
    BY <1>3, <2>2 DEF Poll, TypeOK
  <2>3. CASE Render
    <3>1. refreshes' = <<<<status>>>> \o Tail(refreshes) /\ UNCHANGED <<status, list, polls>> /\ refreshes # <<>>
      BY <2>3 DEF Render
    <3>2. <<status>> \in {Asked} \cup {<<l>> : l \in Lists}
      BY <1>3 DEF TypeOK
    <3> QED
      BY <1>3, <3>1, <3>2 DEF TypeOK
  <2>4. CASE ReceiveRefresh
    <3>1. Head(refreshes) \in {<<l>> : l \in Lists} /\ Tail(refreshes) \in Seq({Asked} \cup {<<l>> : l \in Lists})
      BY <1>3, <2>4 DEF ReceiveRefresh, TypeOK
    <3>2. Head(refreshes)[1] \in Lists
      BY <3>1
    <3> QED
      BY <1>3, <1>5, <2>4, <3>1, <3>2 DEF ReceiveRefresh, Shows, TypeOK
  <2>5. ASSUME NEW l \in polls, ReceivePoll(l)
        PROVE  /\ status' \in Lists /\ list' \in Lists /\ polls' \subseteq Lists
               /\ refreshes' \in Seq({Asked} \cup {<<k>> : k \in Lists})
    BY <1>3, <1>5, <2>5 DEF ReceivePoll, TypeOK
  <2> QED
    BY <1>3, <2>1, <2>2, <2>3, <2>4, <2>5 DEF TypeOK
<1> QED
  BY <1>1, <1>2, <1>3, <1>6 DEF PagesInv, TypeOK, quizPage

\* What a response, and its arrival, are.
LEMMA Answers ==
    ASSUME TypeOK, NEW n \in DOMAIN calls, NEW ok \in BOOLEAN, Respond(n, ok)
    PROVE  \E c \in Call :
              /\ calls' = [calls EXCEPT ![n] = c]
              /\ c.at = IF calls[n].waits THEN "answered" ELSE "over"
              /\ c.kind = calls[n].kind /\ c.of = calls[n].of /\ c.waits = calls[n].waits /\ c.ok = ok
              /\ c.view = calls[n].view /\ c.crossed = calls[n].crossed
<1>1. calls[n] \in Call
  BY DEF TypeOK
<1>2. PICK at \in {"answered", "over"} : at = IF calls[n].waits THEN "answered" ELSE "over"
  OBVIOUS
<1>3. PICK c : c = [calls[n] EXCEPT !.at = at, !.ok = ok]
  OBVIOUS
<1>4. calls' = [calls EXCEPT ![n] = c]
  BY <1>2, <1>3 DEF Respond, TypeOK
<1>5. /\ c \in Call /\ c.at = at
      /\ c.kind = calls[n].kind /\ c.of = calls[n].of /\ c.waits = calls[n].waits /\ c.ok = ok
      /\ c.view = calls[n].view /\ c.crossed = calls[n].crossed
  BY <1>1, <1>3 DEF Call
<1> QED
  BY <1>2, <1>4, <1>5

\* A response arrives: the request is over.
LEMMA Arrives ==
    ASSUME TypeOK, NEW n \in DOMAIN calls, Received(n)
    PROVE  \E c \in Call :
              /\ calls' = [calls EXCEPT ![n] = c] /\ c.at = "over" /\ ~c.waits
              /\ c.kind = calls[n].kind /\ c.of = calls[n].of /\ c.ok
              /\ c.view = NoView /\ c.crossed = calls[n].crossed
<1>1. calls[n] \in Call
  BY DEF TypeOK
<1>2. PICK c : c = [calls[n] EXCEPT !.at = "over", !.waits = FALSE, !.ok = TRUE, !.view = NoView]
  OBVIOUS
<1>3. calls' = [calls EXCEPT ![n] = c]
  BY <1>2 DEF Received, TypeOK
<1>4. /\ c \in Call /\ c.at = "over" /\ ~c.waits
      /\ c.kind = calls[n].kind /\ c.of = calls[n].of /\ c.ok
      /\ c.view = NoView /\ c.crossed = calls[n].crossed
  BY <1>1, <1>2 DEF Call, NoView, QuizView
<1> QED
  BY <1>3, <1>4

\* A request goes on at the server.
LEMMA CallMoves ==
    ASSUME TypeOK, NEW n \in DOMAIN calls, Goto(n, "checked")
    PROVE  \E c \in Call :
              /\ calls' = [calls EXCEPT ![n] = c] /\ c.at = "checked"
              /\ c.kind = calls[n].kind /\ c.of = calls[n].of /\ c.waits = calls[n].waits /\ c.ok = calls[n].ok
              /\ c.view = calls[n].view /\ c.crossed = calls[n].crossed
<1>1. calls[n] \in Call
  BY DEF TypeOK
<1>2. PICK c : c = [calls[n] EXCEPT !.at = "checked"]
  OBVIOUS
<1>3. calls' = [calls EXCEPT ![n] = c]
  BY <1>2 DEF Goto, TypeOK
<1>4. /\ c \in Call /\ c.at = "checked"
      /\ c.kind = calls[n].kind /\ c.of = calls[n].of /\ c.waits = calls[n].waits /\ c.ok = calls[n].ok
      /\ c.view = calls[n].view /\ c.crossed = calls[n].crossed
  BY <1>1, <1>2 DEF Call
<1> QED
  BY <1>3, <1>4

\* The server's steps that store nothing of the quiz.
LEMMA Serves ==
    ASSUME PagesInv, NEW n \in DOMAIN calls, CheckAnswer(n) \/ ViewQuiz(n) \/ Serve(n) \/ FailBefore(n)
    PROVE  PagesInv'
<1>1. TypeOK /\ Awaited /\ calls[n] \in Call /\ CallTrue(calls[n])
  BY DEF PagesInv, RequestsTrue, TypeOK
<1>2. UNCHANGED <<openPage, storedAnswers, ended, shown, pendingId, completing, list, busyId, uploading, polls, refreshes, lapsed>>
  BY DEF CheckAnswer, ViewQuiz, Serve, FailBefore, quizPage, materialPage
<1>3. status' \in Lists
  BY <1>1 DEF CheckAnswer, ViewQuiz, Serve, FailBefore, materialPage, TypeOK, Lists, ListStatuses
<1>4. ASSUME NEW c \in Call, calls' = [calls EXCEPT ![n] = c],
             c.kind = calls[n].kind, c.of = calls[n].of, c.crossed = calls[n].crossed, c.waits = calls[n].waits,
             CallTrue(c), c.waits => InFlight(c),
             calls[n].at \in {"sent", "checked"},
             ~lapsed /\ c.kind = "finish" /\ calls[n].at = "checked" => c.at \in {"checked", "answered"} /\ c.ok
      PROVE  PagesInv'
  <2>1. /\ calls' \in Seq(Call) /\ RequestsTrue' /\ Crossing' /\ CopyTrue'
        /\ \A kinds : Waits(kinds) => Waits(kinds)' \/ (c.kind \in kinds /\ ~(InFlight(c) /\ c.waits))
    BY <1>2, <1>4, CallKeeps
  <2>2. ASSUME NEW kinds, Waits(kinds) PROVE Waits(kinds)'
    <3>1. CASE c.waits
      BY <1>4, <2>1, <2>2, <3>1
    <3>2. CASE ~c.waits
      <4>1. PICK k \in DOMAIN calls : calls[k].kind \in kinds /\ InFlight(calls[k]) /\ calls[k].waits
        BY <2>2 DEF Waits
      <4>2. k # n
        BY <1>4, <3>2, <4>1
      <4>3. k \in DOMAIN calls' /\ calls'[k] = calls[k]
        BY <1>1, <1>4, <4>1, <4>2 DEF TypeOK
      <4> QED
        BY <4>1, <4>3 DEF Waits
    <3> QED
      BY <3>1, <3>2
  <2>3. Awaited'
    BY <1>1, <1>2, <2>2 DEF Awaited
  <2>4. TypeOK'
    BY <1>1, <1>2, <1>3, <2>1 DEF TypeOK
  <2> QED
    BY <2>1, <2>3, <2>4 DEF PagesInv
<1>5. ASSUME NEW ok \in BOOLEAN, Respond(n, ok), calls[n].at \in {"sent", "checked"},
             calls[n].kind = "answer" => ~ok, calls[n].kind = "finish" => calls[n].at = "sent" /\ ~ok
      PROVE  PagesInv'
  <2>1. PICK c \in Call :
              /\ calls' = [calls EXCEPT ![n] = c]
              /\ c.at = IF calls[n].waits THEN "answered" ELSE "over"
              /\ c.kind = calls[n].kind /\ c.of = calls[n].of /\ c.waits = calls[n].waits /\ c.ok = ok
              /\ c.view = calls[n].view /\ c.crossed = calls[n].crossed
    BY <1>1, <1>5, Answers
  <2>2. CallTrue(c) /\ (c.waits => InFlight(c))
    BY <1>1, <1>5, <2>1 DEF CallTrue, InFlight
  <2> QED
    BY <1>4, <1>5, <2>1, <2>2
<1>6. CASE CheckAnswer(n)
  <2>1. calls[n].kind = "answer" /\ calls[n].at = "sent"
    BY <1>6 DEF CheckAnswer, CallIs
  <2>2. CASE Goto(n, "checked")
    <3>1. PICK c \in Call :
              /\ calls' = [calls EXCEPT ![n] = c] /\ c.at = "checked"
              /\ c.kind = calls[n].kind /\ c.of = calls[n].of /\ c.waits = calls[n].waits /\ c.ok = calls[n].ok
              /\ c.view = calls[n].view /\ c.crossed = calls[n].crossed
      BY <1>1, <2>2, CallMoves
    <3>2. CallTrue(c) /\ InFlight(c)
      BY <1>1, <2>1, <3>1 DEF CallTrue, InFlight
    <3> QED
      BY <1>4, <2>1, <3>1, <3>2
  <2>3. Goto(n, "checked") \/ Respond(n, FALSE)
    BY <1>6 DEF CheckAnswer
  <2> QED
    BY <1>5, <2>1, <2>2, <2>3
<1>7. CASE ViewQuiz(n)
  <2>1. calls[n].kind = "finish" /\ calls[n].at = "checked" /\ ended
    BY <1>1, <1>7 DEF ViewQuiz, CallIs, CallTrue
  <2>2. PICK at \in {"answered", "over"} : at = IF calls[n].waits THEN "answered" ELSE "over"
    OBVIOUS
  <2>3. PICK view : view = [answers |-> storedAnswers, ended |-> ended]
    OBVIOUS
  <2>4. PICK c : c = [calls[n] EXCEPT !.at = at, !.view = view]
    OBVIOUS
  <2>5. calls' = [calls EXCEPT ![n] = c]
    BY <1>1, <1>7, <2>2, <2>3, <2>4 DEF ViewQuiz, TypeOK
  <2>6. view \in QuizView /\ view.answers = storedAnswers /\ view.ended
    BY <1>1, <2>1, <2>3 DEF TypeOK, QuizView
  <2>7. /\ c \in Call /\ c.at = at /\ c.view = view
        /\ c.kind = calls[n].kind /\ c.of = calls[n].of /\ c.waits = calls[n].waits /\ c.crossed = calls[n].crossed
        /\ c.ok = calls[n].ok
    BY <1>1, <2>4, <2>6 DEF Call
  <2>8. CallTrue(c) /\ (c.waits => InFlight(c))
    BY <1>1, <2>1, <2>2, <2>6, <2>7 DEF CallTrue, InFlight
  <2>9. ~lapsed => c.at = "answered" /\ c.ok
    BY <1>1, <2>1, <2>2, <2>7 DEF CallTrue, InFlight
  <2> QED
    BY <1>4, <2>1, <2>5, <2>7, <2>8, <2>9
<1>8. CASE Serve(n)
  <2>1. PICK ok \in BOOLEAN : Respond(n, ok) /\ calls[n].kind \in {"upload", "retry", "delete"}
    BY <1>8 DEF Serve
  <2>2. calls[n].at = "sent"
    BY <1>8 DEF Serve
  <2> QED
    BY <1>5, <2>1, <2>2
<1>9. CASE FailBefore(n)
  <2>1. Respond(n, FALSE) /\ (calls[n].at = "sent" \/ (calls[n].kind = "answer" /\ calls[n].at = "checked"))
    BY <1>9 DEF FailBefore, CallIs
  <2> QED
    BY <1>5, <2>1
<1> QED
  BY <1>6, <1>7, <1>8, <1>9

\* A refresh more is asked for.
LEMMA RefreshedPage ==
    ASSUME TypeOK
    PROVE  Append(refreshes, Asked) \in Seq({Asked} \cup {<<l>> : l \in Lists})
<1>1. PICK S : S = {Asked} \cup {<<l>> : l \in Lists}
  OBVIOUS
<1>2. PICK asked \in S : asked = Asked
  BY <1>1
<1>3. refreshes \in Seq(S)
  BY <1>1 DEF TypeOK
<1>4. Append(refreshes, asked) \in Seq(S)
  BY <1>3
<1> QED
  BY <1>1, <1>2, <1>4

\* Whoever else waits goes on waiting.
LEMMA OthersWait ==
    ASSUME NEW n \in DOMAIN calls, DOMAIN calls' = DOMAIN calls,
           \A k \in DOMAIN calls : k # n => calls'[k] = calls[k],
           NEW kinds, Waits(kinds), calls[n].kind \notin kinds
    PROVE  Waits(kinds)'
BY DEF Waits

\* The transaction of an answer: what it stores is on its way to the page, or missed by a
\* view that it crossed.
LEMMA Stores ==
    ASSUME PagesInv, NEW n \in DOMAIN calls, StoreAnswer(n)
    PROVE  PagesInv'
<1>1. /\ TypeOK /\ Awaited /\ Crossing /\ CopyTrue /\ calls[n] \in Call
      /\ \A k \in DOMAIN calls : CallTrue(calls[k])
  BY DEF PagesInv, RequestsTrue, TypeOK
<1>2. PICK q : q = calls[n].of
  OBVIOUS
<1>3. PICK ok \in BOOLEAN : ok <=> q \notin storedAnswers
  OBVIOUS
<1>4. /\ calls[n].kind = "answer" /\ calls[n].at = "checked" /\ Respond(n, ok)
      /\ storedAnswers' = storedAnswers \cup {q}
      /\ UNCHANGED <<openPage, ended, shown, pendingId, completing, materialPage, lapsed>>
  BY <1>2, <1>3 DEF StoreAnswer, CallIs
<1>5. q \in Questions
  BY <1>1, <1>2, <1>4 DEF CallTrue
<1>6. PICK c \in Call :
              /\ calls' = [calls EXCEPT ![n] = c]
              /\ c.at = IF calls[n].waits THEN "answered" ELSE "over"
              /\ c.kind = calls[n].kind /\ c.of = calls[n].of /\ c.waits = calls[n].waits /\ c.ok = ok
              /\ c.view = calls[n].view /\ c.crossed = calls[n].crossed
  BY <1>1, <1>4, Answers
<1>7. /\ calls' \in Seq(Call) /\ DOMAIN calls' = DOMAIN calls
      /\ calls'[n] = c /\ \A k \in DOMAIN calls : k # n => calls'[k] = calls[k]
      /\ Crossing' /\ \A p : Crossed(p) <=> Crossed(p)'
  BY <1>1, <1>4, <1>6, OneCall
<1>8. ASSUME NEW k \in DOMAIN calls, calls'[k].kind = "finish", calls'[k].at = "answered"
      PROVE  Crossed(q)
  <2>1. k # n /\ calls'[k] = calls[k]
    BY <1>4, <1>6, <1>7, <1>8
  <2>2. calls[n].crossed
    BY <1>1, <1>4, <1>8, <2>1 DEF Crossing, InFlight
  <2> QED
    BY <1>2, <2>2 DEF Crossed
<1>9. ASSUME NEW k \in DOMAIN calls PROVE CallTrue(calls[k])'
  <2>1. CASE k = n
    BY <1>1, <1>2, <1>3, <1>4, <1>6, <1>7, <2>1 DEF CallTrue, InFlight
  <2>2. CASE k # n
    BY <1>1, <1>4, <1>7, <1>8, <2>2 DEF CallTrue
  <2> QED
    BY <2>1, <2>2
<1>10. Ending => Ending'
  BY <1>4, <1>7 DEF Ending
<1>11. \A p : Coming(p) => Coming(p)'
  BY <1>4, <1>7 DEF Coming
<1>12. ~lapsed /\ q \notin storedAnswers => Coming(q)'
  BY <1>1, <1>2, <1>3, <1>4, <1>6, <1>7 DEF Coming, CallTrue, InFlight
<1>13. CopyTrue'
  BY <1>1, <1>4, <1>7, <1>10, <1>11, <1>12 DEF CopyTrue
<1>14. ASSUME NEW kinds, Waits(kinds) PROVE Waits(kinds)'
  BY <1>4, <1>6, <1>7, <1>14 DEF Waits, InFlight
<1>15. Awaited'
  BY <1>1, <1>4, <1>14 DEF Awaited, materialPage
<1>16. TypeOK'
  BY <1>1, <1>4, <1>5, <1>7 DEF TypeOK, materialPage
<1> QED
  BY <1>7, <1>9, <1>13, <1>15, <1>16 DEF PagesInv, RequestsTrue

\* The end of the quiz is stored.
LEMMA Completes ==
    ASSUME PagesInv, NEW n \in DOMAIN calls, CompleteQuiz(n)
    PROVE  PagesInv'
<1>1. /\ TypeOK /\ Awaited /\ Crossing /\ CopyTrue /\ calls[n] \in Call
      /\ \A k \in DOMAIN calls : CallTrue(calls[k])
  BY DEF PagesInv, RequestsTrue, TypeOK
<1>2. /\ calls[n].kind = "finish" /\ calls[n].at = "sent" /\ Goto(n, "checked") /\ ended' = TRUE
      /\ UNCHANGED <<openPage, storedAnswers, shown, pendingId, completing, materialPage, lapsed>>
  BY DEF CompleteQuiz, CallIs
<1>3. PICK c \in Call :
              /\ calls' = [calls EXCEPT ![n] = c] /\ c.at = "checked"
              /\ c.kind = calls[n].kind /\ c.of = calls[n].of /\ c.waits = calls[n].waits /\ c.ok = calls[n].ok
              /\ c.view = calls[n].view /\ c.crossed = calls[n].crossed
  BY <1>1, <1>2, CallMoves
<1>4. /\ calls' \in Seq(Call) /\ DOMAIN calls' = DOMAIN calls
      /\ calls'[n] = c /\ \A k \in DOMAIN calls : k # n => calls'[k] = calls[k]
      /\ Crossing' /\ \A p : Crossed(p) <=> Crossed(p)'
  BY <1>1, <1>2, <1>3, OneCall
<1>5. ASSUME NEW k \in DOMAIN calls PROVE CallTrue(calls[k])'
  <2>1. CASE k = n
    BY <1>1, <1>2, <1>3, <1>4, <2>1 DEF CallTrue, InFlight
  <2>2. CASE k # n
    BY <1>1, <1>2, <1>4, <2>2 DEF CallTrue
  <2> QED
    BY <2>1, <2>2
<1>6. Ending'
  BY <1>1, <1>2, <1>3, <1>4 DEF Ending, CallTrue
<1>7. \A p : Coming(p) => Coming(p)'
  BY <1>2, <1>4 DEF Coming
<1>8. CopyTrue'
  BY <1>1, <1>2, <1>4, <1>6, <1>7 DEF CopyTrue
<1>9. ASSUME NEW kinds, Waits(kinds) PROVE Waits(kinds)'
  BY <1>2, <1>3, <1>4, <1>9 DEF Waits, InFlight
<1>10. Awaited'
  BY <1>1, <1>2, <1>9 DEF Awaited, materialPage
<1>11. TypeOK'
  BY <1>1, <1>2, <1>4 DEF TypeOK, materialPage
<1> QED
  BY <1>4, <1>5, <1>8, <1>10, <1>11 DEF PagesInv, RequestsTrue

\* An answer adds to the copy what was stored, and the end of the quiz replaces it by a view
\* that lacks what crossed it.
LEMMA Receives ==
    ASSUME PagesInv, NEW n \in DOMAIN calls, ReceiveAnswer(n) \/ ReceiveFinish(n) \/ ReceiveMaterial(n)
    PROVE  PagesInv'
<1>1. /\ TypeOK /\ Awaited /\ Crossing /\ CopyTrue /\ calls[n] \in Call
      /\ \A k \in DOMAIN calls : CallTrue(calls[k])
  BY DEF PagesInv, RequestsTrue, TypeOK
<1>2. /\ Received(n) /\ calls[n].at = "answered"
      /\ UNCHANGED <<openPage, storedAnswers, ended, status, list, polls, lapsed>>
  BY DEF ReceiveAnswer, ReceiveFinish, ReceiveMaterial, CallIs, quizPage, materialPage
<1>3. PICK c \in Call :
              /\ calls' = [calls EXCEPT ![n] = c] /\ c.at = "over" /\ ~c.waits
              /\ c.kind = calls[n].kind /\ c.of = calls[n].of /\ c.ok
              /\ c.view = NoView /\ c.crossed = calls[n].crossed
  BY <1>1, <1>2, Arrives
<1>4. /\ calls' \in Seq(Call) /\ DOMAIN calls' = DOMAIN calls
      /\ calls'[n] = c /\ \A k \in DOMAIN calls : k # n => calls'[k] = calls[k]
      /\ Crossing' /\ \A p : Crossed(p) <=> Crossed(p)'
  BY <1>1, <1>3, OneCall
<1>5. ASSUME NEW k \in DOMAIN calls PROVE CallTrue(calls[k])'
  <2>1. CASE k = n
    BY <1>1, <1>2, <1>3, <1>4, <2>1 DEF CallTrue, InFlight, NoView
  <2>2. CASE k # n
    BY <1>1, <1>2, <1>4, <2>2 DEF CallTrue
  <2> QED
    BY <2>1, <2>2
<1>6. ASSUME NEW kinds, Waits(kinds), calls[n].kind \notin kinds PROVE Waits(kinds)'
  BY <1>4, <1>6, OthersWait
<1>7. CASE ReceiveAnswer(n)
  <2>1. /\ calls[n].kind = "answer" /\ pendingId' = NoQuestion
        /\ shown' = IF calls[n].ok THEN WithAnswer(n) ELSE shown
        /\ UNCHANGED <<completing, materialPage>>
    BY <1>7 DEF ReceiveAnswer, CallIs
  <2>2. calls[n].ok => calls[n].of \in storedAnswers /\ calls[n].of \in Questions
    BY <1>1, <1>2, <2>1 DEF CallTrue
  <2>3. /\ shown' \in QuizView /\ shown'.ended = shown.ended
        /\ shown'.answers = shown.answers \cup (IF calls[n].ok THEN {calls[n].of} ELSE {})
    BY <1>1, <2>1, <2>2 DEF WithAnswer, TypeOK, QuizView
  <2>4. Ending => Ending'
    BY <1>4, <2>1 DEF Ending
  <2>5. \A q : Coming(q) => Coming(q)' \/ q \in shown'.answers
    BY <1>4, <2>3 DEF Coming
  <2>6. CopyTrue'
    BY <1>1, <1>2, <1>4, <2>2, <2>3, <2>4, <2>5 DEF CopyTrue
  <2>7. Awaited'
    BY <1>1, <1>6, <2>1 DEF Awaited, materialPage
  <2>8. TypeOK'
    BY <1>1, <1>2, <1>4, <2>1, <2>3 DEF TypeOK, materialPage
  <2> QED
    BY <1>4, <1>5, <2>6, <2>7, <2>8 DEF PagesInv, RequestsTrue
<1>8. CASE ReceiveFinish(n)
  <2>1. /\ calls[n].kind = "finish" /\ completing' = FALSE
        /\ shown' = IF calls[n].ok THEN calls[n].view ELSE shown
        /\ UNCHANGED <<pendingId, materialPage>>
    BY <1>8 DEF ReceiveFinish, CallIs
  <2>2. ASSUME calls[n].ok PROVE CopyTrue'
    <3>1. /\ shown' \in QuizView /\ shown'.answers \subseteq storedAnswers /\ shown'.ended /\ ended
          /\ \A q \in storedAnswers \ shown'.answers : Crossed(q)
      BY <1>1, <1>2, <2>1, <2>2 DEF CallTrue, Call
    <3> QED
      BY <1>2, <1>4, <3>1 DEF CopyTrue
  <2>3. ASSUME ~calls[n].ok PROVE CopyTrue'
    <3>1. shown' = shown /\ (Ending => Ending')
      BY <1>4, <2>1, <2>3 DEF Ending
    <3>2. \A q : Coming(q) => Coming(q)'
      BY <1>4, <2>1 DEF Coming
    <3> QED
      BY <1>1, <1>2, <1>4, <3>1, <3>2 DEF CopyTrue
  <2>4. Awaited'
    BY <1>1, <1>6, <2>1 DEF Awaited, materialPage
  <2>5. TypeOK'
    BY <1>1, <1>2, <1>4, <2>1 DEF TypeOK, Call, materialPage
  <2> QED
    BY <1>4, <1>5, <2>2, <2>3, <2>4, <2>5 DEF PagesInv, RequestsTrue
<1>9. CASE ReceiveMaterial(n)
  <2>1. /\ calls[n].kind \in {"upload", "retry", "delete"}
        /\ refreshes' = refreshes \/ refreshes' = Append(refreshes, Asked)
        /\ UNCHANGED <<shown, pendingId, completing>>
        /\ IF calls[n].kind = "upload"
           THEN uploading' = FALSE /\ UNCHANGED busyId
           ELSE busyId' = NoMaterial /\ UNCHANGED uploading
    BY <1>9 DEF ReceiveMaterial, quizPage
  <2>2. Ending => Ending'
    BY <1>4, <2>1 DEF Ending
  <2>3. \A q : Coming(q) => Coming(q)'
    BY <1>4, <2>1 DEF Coming
  <2>4. CopyTrue'
    BY <1>1, <1>2, <1>4, <2>1, <2>2, <2>3 DEF CopyTrue
  <2>5. Awaited'
    BY <1>1, <1>6, <2>1 DEF Awaited
  <2>6. TypeOK'
    BY <1>1, <1>2, <1>4, <2>1, RefreshedPage DEF TypeOK
  <2> QED
    BY <1>4, <1>5, <2>4, <2>5, <2>6 DEF PagesInv, RequestsTrue
<1> QED
  BY <1>7, <1>8, <1>9

\* A page that is told of a failure of what was carried out.
LEMMA FailureKeeps ==
    ASSUME PagesInv, NEW n \in DOMAIN calls, FailAfter(n)
    PROVE  PagesInv'
<1>1. /\ TypeOK /\ Awaited /\ Crossing /\ CopyTrue /\ calls[n] \in Call
      /\ \A k \in DOMAIN calls : CallTrue(calls[k])
  BY DEF PagesInv, RequestsTrue, TypeOK
<1>2. /\ Respond(n, FALSE) /\ lapsed' = TRUE /\ calls[n].kind # "answer" /\ calls[n].at \in {"sent", "checked"}
      /\ UNCHANGED <<openPage, storedAnswers, ended, shown, pendingId, completing, list, busyId, uploading, polls, refreshes>>
  BY DEF FailAfter, CallIs, quizPage
<1>3. status' \in Lists
  BY <1>1 DEF FailAfter, TypeOK, Lists, ListStatuses
<1>4. PICK c \in Call :
              /\ calls' = [calls EXCEPT ![n] = c]
              /\ c.at = IF calls[n].waits THEN "answered" ELSE "over"
              /\ c.kind = calls[n].kind /\ c.of = calls[n].of /\ c.waits = calls[n].waits /\ ~c.ok
              /\ c.view = calls[n].view /\ c.crossed = calls[n].crossed
  BY <1>1, <1>2, Answers
<1>5. /\ calls' \in Seq(Call) /\ DOMAIN calls' = DOMAIN calls
      /\ calls'[n] = c /\ \A k \in DOMAIN calls : k # n => calls'[k] = calls[k]
      /\ Crossing' /\ \A p : Crossed(p) <=> Crossed(p)'
  BY <1>1, <1>2, <1>4, OneCall
<1>6. ASSUME NEW k \in DOMAIN calls PROVE CallTrue(calls[k])'
  <2>1. CASE k = n
    BY <1>1, <1>2, <1>4, <1>5, <2>1 DEF CallTrue, InFlight
  <2>2. CASE k # n
    BY <1>1, <1>2, <1>5, <2>2 DEF CallTrue
  <2> QED
    BY <2>1, <2>2
<1>7. CopyTrue'
  BY <1>1, <1>2 DEF CopyTrue
<1>8. ASSUME NEW kinds, Waits(kinds) PROVE Waits(kinds)'
  BY <1>2, <1>4, <1>5, <1>8 DEF Waits, InFlight
<1>9. Awaited'
  BY <1>1, <1>2, <1>8 DEF Awaited
<1>10. TypeOK'
  BY <1>1, <1>2, <1>3, <1>5 DEF TypeOK
<1> QED
  BY <1>5, <1>6, <1>7, <1>9, <1>10 DEF PagesInv, RequestsTrue

\* A page that gives up waits no more.
LEMMA GivesUp ==
    ASSUME PagesInv, NEW n \in DOMAIN calls, GiveUpOn(n)
    PROVE  PagesInv'
<1>1. /\ TypeOK /\ Awaited /\ Crossing /\ CopyTrue /\ calls[n] \in Call
      /\ \A k \in DOMAIN calls : CallTrue(calls[k])
  BY DEF PagesInv, RequestsTrue, TypeOK
<1>2. /\ InFlight(calls[n]) /\ lapsed' = TRUE
      /\ calls' = [calls EXCEPT ![n].waits = FALSE, ![n].at = IF @ = "answered" THEN "over" ELSE @]
      /\ UNCHANGED <<openPage, storedAnswers, ended, shown, status, list, polls>>
  BY DEF GiveUpOn
<1>3. /\ pendingId' = IF calls[n].kind = "answer" THEN NoQuestion ELSE pendingId
      /\ completing' = IF calls[n].kind = "finish" THEN FALSE ELSE completing
      /\ uploading' = IF calls[n].kind = "upload" THEN FALSE ELSE uploading
      /\ busyId' = IF calls[n].kind \in {"retry", "delete"} THEN NoMaterial ELSE busyId
      /\ refreshes' = IF calls[n].kind \in {"retry", "delete"} THEN Append(refreshes, Asked) ELSE refreshes
  BY DEF GiveUpOn
<1>4. PICK at : at = IF calls[n].at = "answered" THEN "over" ELSE calls[n].at
  OBVIOUS
<1>5. PICK c : c = [calls[n] EXCEPT !.waits = FALSE, !.at = at]
  OBVIOUS
<1>6. calls' = [calls EXCEPT ![n] = c]
  BY <1>1, <1>2, <1>4, <1>5 DEF TypeOK
<1>7. /\ c \in Call /\ c.at = at /\ ~c.waits /\ c.kind = calls[n].kind /\ c.of = calls[n].of
      /\ c.ok = calls[n].ok /\ c.view = calls[n].view /\ c.crossed = calls[n].crossed
  BY <1>1, <1>4, <1>5 DEF Call
<1>8. /\ calls' \in Seq(Call) /\ DOMAIN calls' = DOMAIN calls
      /\ calls'[n] = c /\ \A k \in DOMAIN calls : k # n => calls'[k] = calls[k]
      /\ Crossing' /\ \A p : Crossed(p) <=> Crossed(p)'
  BY <1>1, <1>2, <1>4, <1>6, <1>7, OneCall DEF InFlight
<1>9. ASSUME NEW k \in DOMAIN calls PROVE CallTrue(calls[k])'
  <2>1. CASE k = n
    BY <1>1, <1>2, <1>4, <1>7, <1>8, <2>1 DEF CallTrue, InFlight
  <2>2. CASE k # n
    BY <1>1, <1>2, <1>8, <2>2 DEF CallTrue
  <2> QED
    BY <2>1, <2>2
<1>10. CopyTrue'
  BY <1>1, <1>2 DEF CopyTrue
<1>11. ASSUME NEW kinds, Waits(kinds), calls[n].kind \notin kinds PROVE Waits(kinds)'
  BY <1>8, <1>11, OthersWait
<1>12. Awaited'
  BY <1>1, <1>3, <1>11 DEF Awaited
<1>13. TypeOK'
  <2>1. refreshes' \in Seq({Asked} \cup {<<l>> : l \in Lists})
    BY <1>1, <1>3, RefreshedPage DEF TypeOK
  <2>2. pendingId' \in Questions \cup {NoQuestion} /\ completing' \in BOOLEAN
    BY <1>1, <1>3 DEF TypeOK
  <2>3. busyId' \in Materials \cup {NoMaterial} /\ uploading' \in BOOLEAN
    BY <1>1, <1>3 DEF TypeOK
  <2> QED
    BY <1>1, <1>2, <1>8, <2>1, <2>2, <2>3 DEF TypeOK
<1> QED
  BY <1>8, <1>9, <1>10, <1>12, <1>13 DEF PagesInv, RequestsTrue

-----------------------------------------------------------------------------
(* The quiz page is true *)

\* The invariant holds when a page is opened,
LEMMA PagesStart == PagesInit => PagesInv
<1> SUFFICES ASSUME PagesInit PROVE PagesInv
  OBVIOUS
<1>1. calls = <<>> /\ DOMAIN calls = {}
  BY DEF PagesInit
<1>2. TypeOK
  <2>1. NoView \in QuizView
    BY DEF NoView, QuizView
  <2>2. <<>> \in Seq({Asked} \cup {<<l>> : l \in Lists}) /\ <<>> \in Seq(Call)
    OBVIOUS
  <2>3. status \in Lists
    BY DEF PagesInit, Lists
  <2> QED
    BY <2>1, <2>2, <2>3 DEF PagesInit, TypeOK
<1> QED
  BY <1>1, <1>2 DEF PagesInit, PagesInv, RequestsTrue, Crossing, Awaited, CopyTrue, NoView

\* every step keeps it,
LEMMA PagesStep == PagesInv /\ [PagesNext]_pagesVars => PagesInv'
<1> SUFFICES ASSUME PagesInv, [PagesNext]_pagesVars PROVE PagesInv'
  OBVIOUS
<1>1. CASE UNCHANGED pagesVars
  BY <1>1 DEF pagesVars, PagesInv, TypeOK, RequestsTrue, CallTrue, Crossed, Crossing, Awaited, Waits, CopyTrue, Coming, Ending,
              quizPage, materialPage
<1>2. ASSUME NEW n \in DOMAIN calls, CallStep(n) \/ FailBefore(n) \/ FailAfter(n) \/ GiveUpOn(n) PROVE PagesInv'
  BY <1>2, Serves, Stores, Completes, Receives, FailureKeeps, GivesUp DEF CallStep
<1> QED
  BY <1>1, <1>2, Sends, ListKeeps DEF PagesNext

\* so it always holds.
LEMMA PagesInvCorrect == PagesSpec => []PagesInv
BY PagesStart, PagesStep, PTL DEF PagesSpec

\* The quiz page shows nothing that is not stored, and all that is once no request is under
\* way, unless it gave one up or it crossed the end of the quiz, and no page waits for ever
\* (components/quiz/quiz-runner.tsx, components/materials/material-list.tsx), for any
\* questions and materials and any number of requests.
THEOREM QuizPageTrueCorrect == PagesSpec => []QuizPageTrue
<1>1. PagesInv => QuizPageTrue
  <2> SUFFICES ASSUME PagesInv PROVE QuizPageTrue
    OBVIOUS
  <2>1. QuietPages => /\ \A kinds : ~Waits(kinds)
                 /\ ~Ending /\ \A q : ~Coming(q)
    BY DEF QuietPages, Waits, Ending, Coming, InFlight
  <2>2. shown.ended \in BOOLEAN /\ ended \in BOOLEAN
    BY DEF PagesInv, TypeOK, QuizView
  <2> QED
    BY <2>1, <2>2 DEF PagesInv, Awaited, CopyTrue, Crossed, QuizPageTrue
<1> QED
  BY <1>1, PagesInvCorrect, PTL

-----------------------------------------------------------------------------
(* Forms *)

\* What a submission is at each place of its way.
Gone(post) == ~post.waits
PostTrue(post) ==
    /\ post.draft \in typed
    /\ post.at = "answered" => post.waits
    /\ post.at \in {"sent", "stored"} => ~post.broken /\ (post.waits \/ post.lapsed)
    /\ post.at = "sent" => ~post.made
    /\ post.at = "stored" => post.made
    /\ post.made => post.draft # NoDraft
    /\ post.at = "answered" => (post.made <=> post.ok \/ post.broken)
PostsTrue == \A n \in DOMAIN posts : PostTrue(posts[n])

\* The form waits for its last submission only.
OnlyLast ==
    /\ \A n \in DOMAIN posts : posts[n].waits => n = Len(posts) /\ pending /\ outcome = "none"
    /\ pending /\ outcome # "done" => posts # <<>> /\ posts[Len(posts)].waits
    /\ pending /\ outcome = "done" => form # "create"

\* What the form reports of it.
Reported ==
    /\ outcome = "done" => posts # <<>> /\ posts[Len(posts)].made
    /\ outcome = "error" =>
          /\ posts # <<>>
          /\ \/ Unclear(posts[Len(posts)])
             \/ posts[Len(posts)].at = "over" /\ ~posts[Len(posts)].made

\* A draft that was stored, and said to be, is not in the form again.
Accepted(post) == post.made /\ ~post.waits /\ ~Unclear(post)
NotAgain ==
    /\ draft \in typed /\ (form = "create" => NoDraft \in typed)
    /\ form # "account" => \A m \in DOMAIN posts : Accepted(posts[m]) =>
          IF form = "create" THEN draft # posts[m].draft ELSE m = Len(posts) /\ pending
Distinct ==
    \A m, n \in DOMAIN posts : m < n /\ posts[m].made /\ posts[m].draft = posts[n].draft =>
        IF form = "account" THEN ~posts[n].made ELSE Unclear(posts[m])

FormsInv == FormsTypeOK /\ PostsTrue /\ OnlyLast /\ Reported /\ NotAgain /\ Distinct
-----------------------------------------------------------------------------
\* One submission changes, and keeps its draft.
LEMMA OnePost ==
    ASSUME FormsTypeOK, NEW n \in DOMAIN posts, NEW c \in Post, posts' = [posts EXCEPT ![n] = c]
    PROVE  /\ posts' \in Seq(Post) /\ Len(posts') = Len(posts) /\ DOMAIN posts' = DOMAIN posts
           /\ posts'[n] = c /\ \A m \in DOMAIN posts : m # n => posts'[m] = posts[m]
           /\ Len(posts) \in Nat /\ DOMAIN posts = 1..Len(posts)
           /\ posts[n] \in Post /\ (posts # <<>> <=> Len(posts) # 0)
BY DEF FormsTypeOK

\* The fields of a submission have their types.
LEMMA PostFields ==
    ASSUME NEW post \in Post
    PROVE  /\ post.draft \in Drafts \cup {NoDraft} /\ post.at \in {"sent", "stored", "answered", "over"}
           /\ post.ok \in BOOLEAN /\ post.waits \in BOOLEAN /\ post.made \in BOOLEAN
           /\ post.lapsed \in BOOLEAN /\ post.broken \in BOOLEAN
           /\ \A ok \in BOOLEAN : Answered(post, ok) \in Post
BY DEF Post, Answered

\* An empty form that has sent nothing is as it should be.
LEMMA FormsStarts == FormsInit => FormsInv
<1> SUFFICES ASSUME FormsInit PROVE FormsInv
  OBVIOUS
<1>1. posts = <<>> /\ DOMAIN posts = {} /\ posts \in Seq(Post)
  BY DEF FormsInit
<1>2. draft \in Drafts \cup {NoDraft}
  BY FormsAssumption DEF FormsInit
<1>3. FormsTypeOK
  BY <1>1, <1>2 DEF FormsInit, FormsTypeOK
<1> QED
  BY <1>1, <1>3 DEF FormsInit, FormsInv, PostsTrue, OnlyLast, Reported, NotAgain, Distinct

\* The fields and the dialog.
LEMMA LearnerKeeps ==
    ASSUME FormsInv, OpenDialog \/ CloseDialog \/ \E d \in Drafts : Type(d)
    PROVE  FormsInv'
<1>1. /\ UNCHANGED <<form, pending, posts>> /\ typed \subseteq typed' /\ draft' \in typed'
      /\ outcome' = outcome \/ (outcome' = "none" /\ form = "create")
      /\ draft' = draft \/ draft' \notin typed
      /\ form = "create" => NoDraft \in typed
  BY DEF OpenDialog, CloseDialog, Type, FormsInv, NotAgain
<1>2. FormsTypeOK'
  BY <1>1 DEF OpenDialog, CloseDialog, Type, FormsInv, FormsTypeOK
<1>3. PostsTrue'
  BY <1>1 DEF FormsInv, PostsTrue, PostTrue
<1>4. OnlyLast' /\ Reported'
  BY <1>1 DEF FormsInv, OnlyLast, Reported, Unclear
<1>5. NotAgain'
  BY <1>1 DEF FormsInv, NotAgain, PostsTrue, PostTrue, Accepted, Unclear
<1>6. Distinct'
  BY <1>1 DEF FormsInv, Distinct, Unclear
<1> QED
  BY <1>2, <1>3, <1>4, <1>5, <1>6 DEF FormsInv

\* A submission under way is the last, and those before it are over or were given up.
LEMMA SubmitKeeps == ASSUME FormsInv, Submit PROVE FormsInv'
<1> DEFINE c == [draft |-> draft, at |-> "sent", ok |-> FALSE, waits |-> TRUE,
                 made |-> FALSE, lapsed |-> FALSE, broken |-> FALSE]
<1> DEFINE l == Len(posts) + 1
<1>1. c \in Post /\ posts \in Seq(Post) /\ FormsTypeOK
  BY DEF Post, FormsInv, FormsTypeOK
<1>2. /\ posts' \in Seq(Post) /\ Len(posts') = l /\ DOMAIN posts' = DOMAIN posts \cup {l}
      /\ posts'[l] = c /\ \A m \in DOMAIN posts : posts'[m] = posts[m] /\ m < l /\ m # l
      /\ posts' # <<>>
  BY <1>1 DEF Submit
<1>3. UNCHANGED <<form, opened, draft, typed>> /\ ~pending /\ pending' /\ outcome' = "none"
  BY DEF Submit, Pressable
<1>4. c.draft = draft /\ c.at = "sent" /\ ~c.ok /\ c.waits /\ ~c.made /\ ~c.lapsed /\ ~c.broken
  OBVIOUS
<1> HIDE DEF c, l
<1>5. FormsTypeOK' /\ Reported'
  BY <1>1, <1>2, <1>3 DEF FormsTypeOK, Reported, Submit
<1>6. PostsTrue'
  BY <1>2, <1>3, <1>4 DEF FormsInv, PostsTrue, PostTrue, NotAgain
<1>7. OnlyLast'
  BY <1>2, <1>3, <1>4 DEF FormsInv, OnlyLast
<1>8. NotAgain'
  BY <1>2, <1>3, <1>4 DEF FormsInv, NotAgain, Accepted
<1>9. \A m \in DOMAIN posts : ~posts[m].waits
  BY <1>3 DEF FormsInv, OnlyLast
<1>10. Distinct'
  <2>1. \A m \in DOMAIN posts : form # "account" /\ posts[m].made /\ posts[m].draft = draft => Unclear(posts[m])
    BY <1>3, <1>9 DEF FormsInv, NotAgain, Accepted, FormsTypeOK
  <2>2. \A m, n \in DOMAIN posts' : m < n => m \in DOMAIN posts
    BY SMTT(30), <1>2
  <2> QED
    BY <1>2, <1>3, <1>4, <2>1, <2>2 DEF FormsInv, Distinct
<1> QED
  BY <1>5, <1>6, <1>7, <1>8, <1>10 DEF FormsInv

\* What the server does the form does not notice.
LEMMA ServerKeeps ==
    ASSUME FormsInv, NEW n \in DOMAIN posts, Refuse(n) \/ Store(n) \/ Finish(n)
    PROVE  FormsInv'
<1> DEFINE p == posts[n]
<1>1. p \in Post /\ PostTrue(p) /\ FormsTypeOK
  BY DEF FormsInv, FormsTypeOK, PostsTrue
<1>2. PICK c \in Post :
          /\ posts' = [posts EXCEPT ![n] = c]
          /\ c.draft = p.draft /\ c.waits = p.waits /\ c.lapsed = p.lapsed
          /\ p.at # "over" /\ (p.made => c.made) /\ (p.broken => c.broken)
          /\ PostTrue(c)
          /\ c.made /\ ~p.made => ~Taken(p.draft) /\ p.at = "sent"
  <2>1. CASE Refuse(n)
    <3> DEFINE c == Answered(p, FALSE)
    <3>1. c \in Post
      BY <1>1, PostFields
    <3>2. posts' = [posts EXCEPT ![n] = c] /\ p.at = "sent"
      BY <2>1 DEF Refuse
    <3> QED
      BY <1>1, <3>1, <3>2 DEF Answered, PostTrue, Post
  <2>2. CASE Store(n)
    <3> DEFINE s == [p EXCEPT !.made = TRUE]
    <3> DEFINE c == IF form = "create" THEN Answered(s, TRUE) ELSE [s EXCEPT !.at = "stored"]
    <3>1. s \in Post
      BY <1>1 DEF Post
    <3>2. c \in Post
      BY <3>1 DEF Post, Answered
    <3>3. posts' = [posts EXCEPT ![n] = c]
      BY <2>2 DEF Store
    <3>4. p.at = "sent" /\ ~Taken(p.draft) /\ p.draft # NoDraft
      BY <2>2 DEF Store
    <3>5. /\ s.made /\ s.draft = p.draft /\ s.waits = p.waits /\ s.lapsed = p.lapsed
          /\ s.broken = p.broken /\ s.at = p.at
      BY <1>1 DEF Post
    <3> HIDE DEF s
    <3>6. /\ c.draft = p.draft /\ c.waits = p.waits /\ c.lapsed = p.lapsed /\ c.made /\ c.broken = p.broken
          /\ PostTrue(c)
      <4>1. CASE form = "create"
        BY <1>1, <3>1, <3>4, <3>5, <4>1 DEF Answered, PostTrue, Post
      <4>2. CASE form # "create"
        BY <1>1, <3>1, <3>4, <3>5, <4>2 DEF PostTrue, Post
      <4> QED
        BY <4>1, <4>2
    <3> HIDE DEF c
    <3> QED
      BY <3>2, <3>3, <3>4, <3>6
  <2>3. CASE Finish(n)
    <3>1. PICK ok \in BOOLEAN : posts' = [posts EXCEPT ![n] = [Answered(p, ok) EXCEPT !.broken = ~ok]]
      BY <2>3 DEF Finish
    <3> DEFINE c == [Answered(p, ok) EXCEPT !.broken = ~ok]
    <3>2. c \in Post
      BY <1>1 DEF Post, Answered
    <3> QED
      BY ZenonT(60), <2>3, <1>1, <3>1, <3>2 DEF Finish, Answered, PostTrue, Post
  <2> QED
    BY <2>1, <2>2, <2>3
<1>3. UNCHANGED <<form, opened, draft, typed, pending, outcome>>
  BY DEF Refuse, Store, Finish
<1>4. /\ posts' \in Seq(Post) /\ Len(posts') = Len(posts) /\ DOMAIN posts' = DOMAIN posts
      /\ posts'[n] = c /\ \A m \in DOMAIN posts : m # n => posts'[m] = posts[m]
      /\ Len(posts) \in Nat /\ DOMAIN posts = 1..Len(posts) /\ (posts # <<>> <=> Len(posts) # 0)
      /\ (posts' # <<>> <=> Len(posts) # 0)
  <2>1. posts' = [posts EXCEPT ![n] = c]
    BY <1>2
  <2>2. /\ posts' \in Seq(Post) /\ Len(posts') = Len(posts) /\ DOMAIN posts' = DOMAIN posts
        /\ posts'[n] = c /\ \A m \in DOMAIN posts : m # n => posts'[m] = posts[m]
        /\ Len(posts) \in Nat /\ DOMAIN posts = 1..Len(posts) /\ (posts # <<>> <=> Len(posts) # 0)
    BY <1>1, <2>1, OnePost
  <2> QED
    BY <2>2
<1>5. FormsTypeOK' /\ PostsTrue'
  BY <1>2, <1>3, <1>4 DEF FormsInv, FormsTypeOK, PostsTrue, PostTrue
<1>6. OnlyLast'
  BY <1>2, <1>3, <1>4 DEF FormsInv, OnlyLast
<1>7. Reported'
  BY <1>1, <1>2, <1>3, <1>4 DEF FormsInv, Reported, OnlyLast, Unclear, PostTrue
<1>8. NotAgain'
  BY <1>1, <1>2, <1>3, <1>4 DEF FormsInv, NotAgain, Accepted, Unclear, PostTrue
<1>9. \A m \in DOMAIN posts : Unclear(posts[m]) => Unclear(posts'[m])
  BY <1>2, <1>4 DEF Unclear
<1>10. Distinct'
  <2> SUFFICES ASSUME NEW m \in DOMAIN posts, NEW k \in DOMAIN posts, m < k, posts'[m].made,
                      posts'[m].draft = posts'[k].draft
               PROVE  IF form = "account" THEN ~posts'[k].made ELSE Unclear(posts'[m])
    BY <1>3, <1>4 DEF Distinct
  <2>1. posts[m].draft = posts[k].draft
    BY <1>2, <1>4
  <2>2. CASE posts[m].made /\ (form = "account" => posts[k].made \/ ~posts'[k].made)
    BY <2>1, <2>2, <1>9 DEF FormsInv, Distinct
  <2>3. CASE ~posts[m].made
    <3>1. m = n /\ ~Taken(p.draft) /\ p.at = "sent"
      BY <2>3, <1>2, <1>4
    <3>2. ~p.waits /\ p.lapsed
      BY <3>1, <1>1, <1>4 DEF FormsInv, OnlyLast, PostTrue
    <3>3. Unclear(posts'[m])
      BY <3>1, <3>2, <1>2, <1>4 DEF Unclear
    <3>4. form = "account" => ~posts[k].made
      BY <3>1, <2>1 DEF Taken
    <3> QED
      BY <3>1, <3>3, <3>4, <1>4
  <2>4. CASE form = "account" /\ posts[m].made /\ ~posts[k].made /\ posts'[k].made
    <3>1. k = n /\ ~Taken(p.draft)
      BY <2>4, <1>2, <1>4
    <3> QED
      BY <3>1, <2>1, <2>4 DEF Taken
  <2> QED
    BY <2>2, <2>3, <2>4
<1> QED
  BY <1>5, <1>6, <1>7, <1>8, <1>10 DEF FormsInv

\* The answer of the last submission, or of one given up, keeps it.
LEMMA AnswerArrives ==
    ASSUME FormsInv, NEW n \in DOMAIN posts,
           ReceiveError(n) \/ ReceiveCreated(n) \/ LeavePage(n) \/ GiveUp(n)
    PROVE  FormsInv'
<1> DEFINE p == posts[n]
<1>1. p \in Post /\ PostTrue(p) /\ FormsTypeOK /\ p.waits
  BY DEF FormsInv, FormsTypeOK, PostsTrue, PostTrue, ReceiveError, ReceiveCreated, LeavePage, GiveUp
<1>2. n = Len(posts) /\ pending /\ outcome = "none" /\ \A m \in DOMAIN posts : m # n => ~posts[m].waits
  BY <1>1 DEF FormsInv, OnlyLast
<1>3. PICK c \in Post :
          /\ posts' = [posts EXCEPT ![n] = c]
          /\ c.draft = p.draft /\ ~c.waits /\ c.made = p.made /\ c.broken = p.broken
          /\ PostTrue(c)
          /\ outcome' = "done" => c.made /\ c.at = "over"
          /\ outcome' = "error" => Unclear(c) \/ (c.at = "over" /\ ~c.made)
  <2>1. CASE GiveUp(n)
    <3> DEFINE c == [p EXCEPT !.waits = FALSE, !.lapsed = TRUE,
                              !.at = IF @ = "answered" THEN "over" ELSE @]
    <3>1. c \in Post
      BY <1>1 DEF Post
    <3>2. posts' = [posts EXCEPT ![n] = c] /\ outcome' = "error"
      BY <2>1, <1>1 DEF GiveUp, FormsTypeOK
    <3> QED
      BY ZenonT(60), <1>1, <3>1, <3>2 DEF PostTrue, Post, Unclear
  <2>2. CASE ReceiveError(n) \/ ReceiveCreated(n) \/ LeavePage(n)
    <3> DEFINE c == [p EXCEPT !.at = "over", !.waits = FALSE]
    <3>1. c \in Post
      BY <1>1 DEF Post
    <3>2. /\ posts' = [posts EXCEPT ![n] = c] /\ p.at = "answered"
          /\ outcome' = "done" => p.ok
          /\ outcome' = "error" => ~p.ok
      BY <2>2, <1>1 DEF ReceiveError, ReceiveCreated, LeavePage, Settled, FormsTypeOK
    <3> QED
      BY <1>1, <3>1, <3>2 DEF PostTrue, Post, Unclear
  <2> QED
    BY <2>1, <2>2
<1>4. posts' = [posts EXCEPT ![n] = c]
  BY <1>3
<1>5. /\ posts' \in Seq(Post) /\ Len(posts') = Len(posts) /\ DOMAIN posts' = DOMAIN posts
      /\ posts'[n] = c /\ \A m \in DOMAIN posts : m # n => posts'[m] = posts[m]
      /\ Len(posts) \in Nat /\ DOMAIN posts = 1..Len(posts) /\ (posts # <<>> <=> Len(posts) # 0)
  BY <1>1, <1>4, OnePost
<1>6. /\ UNCHANGED <<form, typed>>
      /\ \/ outcome' = "error" /\ ~pending' /\ draft' = draft /\ ~Accepted(c)
         \/ outcome' = "done" /\ ~pending' /\ form = "create" /\ draft' = NoDraft
         \/ outcome' = "done" /\ pending' /\ form # "create" /\ draft' = draft
  BY <1>2, <1>3 DEF ReceiveError, ReceiveCreated, LeavePage, GiveUp, Accepted
<1>7. FormsTypeOK' /\ PostsTrue'
  <2>1. opened' \in BOOLEAN /\ pending' \in BOOLEAN
    BY <1>1 DEF FormsTypeOK, ReceiveError, ReceiveCreated, LeavePage, GiveUp
  <2>2. FormsTypeOK'
    BY <1>1, <1>5, <1>6, <2>1 DEF FormsTypeOK
  <2>3. PostsTrue'
    BY <1>3, <1>5, <1>6 DEF FormsInv, PostsTrue, PostTrue
  <2> QED
    BY <2>2, <2>3
<1>8. OnlyLast' /\ Reported'
  BY <1>2, <1>3, <1>5, <1>6 DEF OnlyLast, Reported
<1>9. NotAgain'
  <2>1. form = "create" => NoDraft \in typed
    BY DEF FormsInv, NotAgain
  <2> QED
    BY <1>2, <1>3, <1>5, <1>6, <2>1 DEF FormsInv, NotAgain, Accepted, PostsTrue, PostTrue
<1>10. Distinct'
  <2>1. \A m, k \in DOMAIN posts : m < k => m # n
    BY <1>2, <1>5
  <2> QED
    BY <1>3, <1>5, <1>6, <2>1 DEF FormsInv, Distinct
<1> QED
  BY <1>7, <1>8, <1>9, <1>10 DEF FormsInv

\* Every step of the learner, the page and the server keeps it.
LEMMA FormsMoves == FormsInv /\ [FormsNext]_formVars => FormsInv'
<1>1. ASSUME FormsInv, UNCHANGED formVars PROVE FormsInv'
  BY <1>1 DEF formVars, FormsInv, FormsTypeOK, PostsTrue, PostTrue, OnlyLast, Reported, NotAgain, Distinct, Accepted, Unclear
<1> QED
  BY <1>1, LearnerKeeps, SubmitKeeps, ServerKeeps, AnswerArrives DEF FormsNext

\* It says that the form is honest.
LEMMA FormsMeans == FormsInv => FormsHonest
<1> SUFFICES ASSUME FormsInv PROVE FormsHonest
  OBVIOUS
<1> DEFINE waiting == {n \in DOMAIN posts : posts[n].waits}
<1>1. posts \in Seq(Post) /\ FormsTypeOK
  BY DEF FormsInv, FormsTypeOK
<1>2. waiting = IF pending /\ outcome # "done" THEN {Len(posts)} ELSE {}
  <2>1. CASE pending /\ outcome # "done"
    BY <2>1, <1>1 DEF FormsInv, OnlyLast
  <2>2. CASE ~(pending /\ outcome # "done")
    BY <2>2 DEF FormsInv, OnlyLast
  <2> QED
    BY <2>1, <2>2
<1>3. Cardinality(waiting) = IF pending /\ outcome # "done" THEN 1 ELSE 0
  BY <1>2, FS_EmptySet, FS_Singleton
<1>4. \A m, n \in DOMAIN posts :
          (m < n /\ posts[m].made /\ posts[n].made /\ posts[m].draft = posts[n].draft)
             => form # "account" /\ Unclear(posts[m])
  BY DEF FormsInv, Distinct
<1>5. /\ outcome = "done" => posts[Len(posts)].made
      /\ outcome = "error" => ~posts[Len(posts)].made \/ Unclear(posts[Len(posts)])
  BY DEF FormsInv, Reported
<1> QED
  BY <1>1, <1>3, <1>4, <1>5 DEF FormsHonest

-----------------------------------------------------------------------------
(* AdminDesk *)

\* What never rises from one place to the next never rises.
LEMMA NeverRises ==
    ASSUME NEW n \in Nat, NEW value \in [1..n -> Int], \A k \in 1..(n - 1) : value[k] >= value[k + 1],
           NEW i \in 1..n, NEW j \in 1..n, i <= j
    PROVE  value[i] >= value[j]
<1> DEFINE T == {k \in i..n : value[k] > value[i]}
<1> SUFFICES ASSUME ~(value[i] >= value[j]) PROVE FALSE
  OBVIOUS
<1>5. j \in T
  <2>1. value[i] \in Int /\ value[j] \in Int
    OBVIOUS
  <2> QED
    BY <2>1
<1>1. PICK k \in T : \A m \in T : k <= m
  <2>1. T \in SUBSET Nat
    OBVIOUS
  <2> HIDE DEF T
  <2> QED
    BY <1>5, <2>1, LeastNumber
<1>2. k \in i..n /\ value[k] > value[i] /\ k # i
  OBVIOUS
<1>3. k - 1 \in i..n /\ k - 1 \in 1..(n - 1) /\ k - 1 \notin T
  BY <1>1, <1>2
<1>4. value[k - 1] >= value[k] /\ value[k - 1] \in Int /\ value[k] \in Int /\ value[i] \in Int
  BY <1>2, <1>3
<1> QED
  BY <1>2, <1>3, <1>4

\* An order of a finite set has each of its elements once.
LEMMA OrdersAll ==
    ASSUME NEW S, IsFiniteSet(S), NEW order \in SetToSeqs(S)
    PROVE  /\ Cardinality(S) \in Nat /\ order \in [1..Cardinality(S) -> S] /\ Len(order) = Cardinality(S)
           /\ \A i, j \in 1..Cardinality(S) : i # j => order[i] # order[j]
           /\ \A e \in S : \E k \in 1..Cardinality(S) : order[k] = e
<1>1. /\ order \in [1..Cardinality(S) -> S]
      /\ \A i, j \in 1..Cardinality(S) : i # j => order[i] # order[j]
  BY DEF SetToSeqs
<1>2. Cardinality(S) \in Nat
  BY FS_CardinalityType
<1>3. order \in Injection(1..Cardinality(S), S)
  BY <1>1 DEF Injection, IsInjective
<1>4. Cardinality(1..Cardinality(S)) = Cardinality(S)
  BY <1>2, FS_Interval
<1>5. order \in Surjection(1..Cardinality(S), S)
  BY <1>3, <1>4, FS_Injection
<1>6. Len(order) = Cardinality(S)
  BY <1>1, <1>2
<1> QED
  BY <1>1, <1>2, <1>5, <1>6 DEF Surjection

-----------------------------------------------------------------------------
\* Events come in the order of their times.
EventsTrue ==
    /\ clock \in Nat /\ events \in Seq(Nat)
    /\ \A a, b \in DOMAIN events : a <= b => events[a] <= events[b]
    /\ \A a \in DOMAIN events : events[a] <= clock

Tied(e) == \E b \in DOMAIN events : b # e /\ events[b] = events[e]

FeedTyped ==
    /\ feed \in [at : {"closed", "loading", "shown"}, filtered : BOOLEAN, since : Int, page : Nat,
                 left : SUBSET {"total", "rows"}, total : Nat, seen : SUBSET Nat,
                 owed : SUBSET (DOMAIN events), torn : BOOLEAN]
    /\ feed.at = "closed" => feed = NoFeed
    /\ feed.at = "shown" => feed.left = {}
    /\ feed.at # "closed" => feed.page > 0

\* What is owed matches the query of the page that is read.
OwedMatches ==
    /\ feed.since <= Since(feed.filtered)
    /\ \A e \in feed.owed : events[e] >= Since(feed.filtered)

\* Pages whose rows were fetched.
Fetched == IF "rows" \in feed.left THEN feed.page - 1 ELSE feed.page

\* What is owed and was not seen comes after the pages that were fetched.
ComesLater ==
    \A e \in feed.owed : e \in feed.seen \/ Tied(e) \/ Len(events) - e >= Fetched * PageSize
TotalTells ==
    /\ feed.left = {"rows"} /\ ~feed.torn => feed.total = Cardinality(Matching(feed.since))
    /\ feed.left = {} /\ feed.at # "closed" /\ ~feed.torn =>
          \A e \in feed.owed : e \in feed.seen \/ Tied(e) \/ feed.total > feed.page * PageSize

FeedInv == EventsTrue /\ FeedTyped /\ OwedMatches /\ ComesLater /\ TotalTells

\* The rows that match are the last events, and the one owed has its place among them.
LEMMA MatchingAre ==
    ASSUME EventsTrue, NEW since \in Int, NEW e \in DOMAIN events, events[e] >= since
    PROVE  /\ IsFiniteSet(Matching(since)) /\ Cardinality(Matching(since)) \in Nat
           /\ Cardinality(Matching(since)) > Len(events) - e
<1>1. /\ events \in Seq(Nat) /\ Len(events) \in Nat /\ DOMAIN events = 1..Len(events)
      /\ \A a \in 1..Len(events) : events[a] \in Nat
  BY DEF EventsTrue
<1>2. Matching(since) \subseteq 1..Len(events)
  BY <1>1 DEF Matching
<1>3. IsFiniteSet(1..Len(events))
  BY <1>1, FS_Interval
<1>4. IsFiniteSet(Matching(since)) /\ Cardinality(Matching(since)) \in Nat
  BY <1>2, <1>3, FS_Subset, FS_CardinalityType
<1>5. e..Len(events) \subseteq Matching(since)
  BY <1>1 DEF Matching, EventsTrue
<1>6. Cardinality(e..Len(events)) = Len(events) - e + 1
  BY <1>1, FS_Interval
<1>7. Cardinality(e..Len(events)) <= Cardinality(Matching(since))
  BY <1>4, <1>5, FS_Subset
<1> QED
  BY <1>1, <1>4, <1>6, <1>7

\* An event that shares its time with no other is in its place, whatever order the rows come in.
LEMMA PlaceInOrder ==
    ASSUME EventsTrue, NEW since \in Int, NEW order \in NewestFirst(Matching(since)),
           NEW e \in DOMAIN events, events[e] >= since, ~Tied(e)
    PROVE  \E k \in DOMAIN order : order[k] = e /\ k = Len(events) - e + 1
<1> DEFINE M == Matching(since)
           N == Cardinality(M)
<1>1. /\ events \in Seq(Nat) /\ Len(events) \in Nat /\ DOMAIN events = 1..Len(events)
      /\ \A a \in 1..Len(events) : events[a] \in Nat
  BY DEF EventsTrue
<1>2. IsFiniteSet(M) /\ N \in Nat
  BY MatchingAre
<1>3. order \in SetToSeqs(M) /\ \A k \in 1..(Len(order) - 1) : events[order[k]] >= events[order[k + 1]]
  BY DEF NewestFirst
<1>4. M \subseteq 1..Len(events) /\ e \in M /\ \A f \in 1..Len(events) : f > e => f \in M
  <2>1. M \subseteq 1..Len(events) /\ e \in M
    BY <1>1 DEF Matching
  <2>2. ASSUME NEW f \in 1..Len(events), f > e PROVE f \in M
    <3>1. events[e] <= events[f] /\ events[e] \in Nat /\ events[f] \in Nat /\ e \in 1..Len(events)
      BY <1>1, <2>2 DEF EventsTrue
    <3> QED
      BY <1>1, <3>1 DEF Matching
  <2> QED
    BY <2>1, <2>2
<1> HIDE DEF M
<1>5. /\ order \in [1..N -> M] /\ Len(order) = N
      /\ \A i, j \in 1..N : i # j => order[i] # order[j]
      /\ \A f \in M : \E k \in 1..N : order[k] = f
  BY <1>2, <1>3, OrdersAll
<1> HIDE DEF N
<1> DEFINE value == [k \in 1..N |-> events[order[k]]]
<1>6. value \in [1..N -> Int] /\ \A k \in 1..(N - 1) : value[k] >= value[k + 1]
  BY SMTT(30), <1>1, <1>2, <1>3, <1>4, <1>5
<1>7. ASSUME NEW i \in 1..N, NEW j \in 1..N, i <= j PROVE events[order[i]] >= events[order[j]]
  <2>1. value[i] >= value[j]
    <3> HIDE DEF value
    <3> QED
      BY <1>2, <1>6, <1>7, NeverRises
  <2> QED
    BY <2>1
<1> HIDE DEF value
<1>8. PICK k \in 1..N : order[k] = e
  BY <1>4, <1>5
<1>9. \A f \in 1..Len(events) : f # e => events[f] # events[e] /\ (f > e => events[f] > events[e]) /\ (f < e => events[f] < events[e])
  <2> SUFFICES ASSUME NEW f \in 1..Len(events), f # e
               PROVE  events[f] # events[e] /\ (f > e => events[f] > events[e]) /\ (f < e => events[f] < events[e])
    OBVIOUS
  <2>1. events[f] # events[e] /\ events[f] \in Nat /\ events[e] \in Nat /\ e \in 1..Len(events)
    BY <1>1 DEF Tied
  <2>2. (f <= e => events[f] <= events[e]) /\ (e <= f => events[e] <= events[f])
    BY <1>1, <2>1 DEF EventsTrue
  <2> QED
    BY <1>1, <2>1, <2>2
<1>10. \A j \in 1..(k - 1) : order[j] \in (e + 1)..Len(events)
  <2> SUFFICES ASSUME NEW j \in 1..(k - 1) PROVE order[j] \in (e + 1)..Len(events)
    OBVIOUS
  <2>1. j \in 1..N /\ j # k /\ j <= k
    BY <1>2
  <2>2. order[j] \in 1..Len(events) /\ order[j] # e /\ events[order[j]] >= events[e]
    BY <1>4, <1>5, <1>7, <1>8, <2>1
  <2> QED
    <3>1. ~(order[j] < e)
      <4>1. events[order[j]] \in Nat /\ events[e] \in Nat
        BY <1>1, <2>2
      <4> QED
        BY <1>9, <2>2, <4>1
    <3>2. order[j] \in Nat /\ e \in Nat
      BY <1>1, <2>2
    <3> QED
      BY <1>1, <2>2, <3>1, <3>2
<1>11. \A f \in (e + 1)..Len(events) : \E j \in 1..(k - 1) : order[j] = f
  <2> SUFFICES ASSUME NEW f \in (e + 1)..Len(events) PROVE \E j \in 1..(k - 1) : order[j] = f
    OBVIOUS
  <2>1. f \in 1..Len(events) /\ f > e /\ f \in M /\ events[f] > events[e] /\ events[f] \in Nat /\ events[e] \in Nat
    BY <1>1, <1>4, <1>9
  <2>2. PICK j \in 1..N : order[j] = f
    BY <1>5, <2>1
  <2>3. ~(k <= j)
    BY <1>7, <1>8, <2>1, <2>2
  <2> QED
    BY <1>2, <2>2, <2>3
<1> DEFINE before == [j \in 1..(k - 1) |-> order[j]]
<1>12. before \in Bijection(1..(k - 1), (e + 1)..Len(events))
  <2>1. before \in [1..(k - 1) -> (e + 1)..Len(events)]
    BY <1>10
  <2>2. \A i, j \in 1..(k - 1) : before[i] = before[j] => i = j
    BY <1>2, <1>5
  <2>3. \A f \in (e + 1)..Len(events) : \E j \in 1..(k - 1) : before[j] = f
    BY <1>11
  <2> HIDE DEF before
  <2> QED
    BY <2>1, <2>2, <2>3 DEF Bijection, Injection, Surjection, IsInjective
<1>13. /\ Cardinality((e + 1)..Len(events)) = Cardinality(1..(k - 1))
  <2>1. ExistsBijection(1..(k - 1), (e + 1)..Len(events))
    BY <1>12 DEF ExistsBijection
  <2>2. IsFiniteSet(1..(k - 1))
    BY <1>2, FS_Interval
  <2> QED
    BY <2>1, <2>2, FS_Bijection
<1>14. Cardinality(1..(k - 1)) = k - 1 /\ Cardinality((e + 1)..Len(events)) = Len(events) - e
  <2>1. k \in Nat /\ k >= 1 /\ e \in Nat /\ e <= Len(events)
    BY <1>1, <1>2
  <2>2. Cardinality(1..(k - 1)) = IF 1 > k - 1 THEN 0 ELSE k - 1 - 1 + 1
    BY <2>1, FS_Interval
  <2>3. Cardinality((e + 1)..Len(events)) = IF e + 1 > Len(events) THEN 0 ELSE Len(events) - (e + 1) + 1
    <3>1. e + 1 \in Int /\ Len(events) \in Int
      BY <1>1, <2>1
    <3> QED
      BY <3>1, FS_Interval
  <2>4. Len(events) \in Nat
    BY <1>1
  <2>5. Cardinality((e + 1)..Len(events)) = Len(events) - e
    <3> DEFINE c == Cardinality((e + 1)..Len(events))
               n == Len(events)
    <3>1. c = IF e + 1 > n THEN 0 ELSE n - (e + 1) + 1
      BY <2>3
    <3>2. n \in Nat /\ e <= n
      BY <2>1, <2>4
    <3> HIDE DEF c, n
    <3>3. c = n - e
      BY <2>1, <3>1, <3>2
    <3> QED
      BY <3>3 DEF c, n
  <2> QED
    BY <2>1, <2>2, <2>5
<1> QED
  BY <1>1, <1>2, <1>5, <1>8, <1>13, <1>14

-----------------------------------------------------------------------------
\* The feed is closed at first.
LEMMA FeedStarts == DeskInit => FeedInv
<1> SUFFICES ASSUME DeskInit PROVE FeedInv
  OBVIOUS
<1>1. EventsTrue
  BY DEF DeskInit, EventsTrue
<1>2. FeedTyped
  BY DEF DeskInit, FeedTyped, NoFeed, Always
<1>3. OwedMatches
  BY DEF DeskInit, OwedMatches, NoFeed, Since, Always
<1>4. ComesLater /\ TotalTells
  BY DEF DeskInit, ComesLater, TotalTells, NoFeed
<1> QED
  BY <1>1, <1>2, <1>3, <1>4 DEF FeedInv

\* The fields of the feed have their types.
LEMMA FeedFields ==
    ASSUME FeedInv
    PROVE  /\ clock \in Nat /\ PageSize \in Nat \ {0} /\ Days \in Nat
           /\ events \in Seq(Nat) /\ Len(events) \in Nat /\ DOMAIN events = 1..Len(events)
           /\ \A a \in 1..Len(events) : events[a] \in Nat /\ events[a] <= clock
           /\ feed.at \in {"closed", "loading", "shown"} /\ feed.filtered \in BOOLEAN /\ feed.since \in Int
           /\ feed.page \in Nat /\ feed.left \in SUBSET {"total", "rows"} /\ feed.total \in Nat
           /\ feed.seen \in SUBSET Nat /\ feed.owed \in SUBSET (1..Len(events)) /\ feed.torn \in BOOLEAN
           /\ Since(feed.filtered) \in Int
<1>1. PageSize \in Nat \ {0} /\ Days \in Nat
  BY DeskAssumption
<1>2. /\ clock \in Nat /\ events \in Seq(Nat) /\ Len(events) \in Nat /\ DOMAIN events = 1..Len(events)
      /\ \A a \in 1..Len(events) : events[a] \in Nat /\ events[a] <= clock
  BY DEF FeedInv, EventsTrue
<1>3. /\ feed.at \in {"closed", "loading", "shown"} /\ feed.filtered \in BOOLEAN /\ feed.since \in Int
      /\ feed.page \in Nat /\ feed.left \in SUBSET {"total", "rows"} /\ feed.total \in Nat
      /\ feed.seen \in SUBSET Nat /\ feed.owed \in SUBSET (DOMAIN events) /\ feed.torn \in BOOLEAN
  BY DEF FeedInv, FeedTyped
<1>4. Since(feed.filtered) \in Int
  BY <1>1, <1>2 DEF Since, Always
<1> QED
  BY <1>1, <1>2, <1>3, <1>4

\* The first page is asked for, or the next one.
LEMMA PageAsked ==
    ASSUME FeedInv, (\E filtered \in BOOLEAN : OpenFeed(filtered)) \/ NextPage \/ ShowPage
    PROVE  FeedInv'
<1>1. UNCHANGED <<clock, events>> /\ EventsTrue'
  BY DEF OpenFeed, NextPage, ShowPage, FeedInv, EventsTrue
<1>2. ASSUME NEW filtered \in BOOLEAN, OpenFeed(filtered) PROVE FeedInv'
  <2>1. /\ feed'.at = "loading" /\ feed'.filtered = filtered /\ feed'.since = Since(filtered)
        /\ feed'.page = 1 /\ feed'.left = {"total", "rows"} /\ feed'.owed = Matching(Since(filtered))
        /\ feed'.total = 0 /\ feed'.seen = {} /\ feed'.torn = FALSE
    BY <1>2 DEF OpenFeed, NoFeed
  <2>2. Matching(Since(filtered)) \subseteq DOMAIN events /\ Since(filtered) \in Int
    BY FeedFields DEF Matching, Since, Always
  <2>3. FeedTyped'
    <3>1. feed' = [NoFeed EXCEPT !.at = "loading", !.filtered = filtered, !.since = Since(filtered),
                                 !.page = 1, !.left = {"total", "rows"}, !.owed = Matching(Since(filtered))]
      BY <1>2 DEF OpenFeed
    <3>2. NoFeed \in [at : {"closed", "loading", "shown"}, filtered : BOOLEAN, since : Int, page : Nat,
                 left : SUBSET {"total", "rows"}, total : Nat, seen : SUBSET Nat,
                 owed : SUBSET (DOMAIN events), torn : BOOLEAN]
      BY DEF NoFeed, Always
    <3>3. feed' \in [at : {"closed", "loading", "shown"}, filtered : BOOLEAN, since : Int, page : Nat,
                 left : SUBSET {"total", "rows"}, total : Nat, seen : SUBSET Nat,
                 owed : SUBSET (DOMAIN events), torn : BOOLEAN]
      BY <2>2, <3>1, <3>2
    <3> QED
      BY <1>1, <2>1, <3>3 DEF FeedTyped
  <2>4. OwedMatches'
    BY <1>1, <2>1, <2>2 DEF OwedMatches, Since, Matching
  <2>5. ComesLater'
    <3>1. Fetched' = 0 /\ 0 * PageSize = 0
      BY <2>1, FeedFields DEF Fetched
    <3> QED
      BY <1>1, <2>1, <2>2, <3>1, FeedFields DEF ComesLater
  <2>6. TotalTells'
    BY <2>1 DEF TotalTells
  <2> QED
    BY <1>1, <2>3, <2>4, <2>5, <2>6 DEF FeedInv
<1>3. CASE NextPage
  <2>1. /\ feed' = [feed EXCEPT !.at = "loading", !.page = @ + 1, !.left = {"total", "rows"},
                               !.since = Since(feed.filtered)]
        /\ feed.at = "shown"
    BY <1>3 DEF NextPage
  <2>2. /\ feed'.at = "loading" /\ feed'.filtered = feed.filtered /\ feed'.since = Since(feed.filtered)
        /\ feed'.page = feed.page + 1 /\ feed'.left = {"total", "rows"} /\ feed'.owed = feed.owed
        /\ feed'.seen = feed.seen /\ feed'.torn = feed.torn
    BY <2>1 DEF FeedInv, FeedTyped
  <2>3. FeedTyped'
    <3>1. Since(feed.filtered) \in Int /\ feed.page + 1 \in Nat /\ feed.page + 1 > 0 /\ {"total", "rows"} \in SUBSET {"total", "rows"}
      BY FeedFields
    <3>2. feed' \in [at : {"closed", "loading", "shown"}, filtered : BOOLEAN, since : Int, page : Nat,
                 left : SUBSET {"total", "rows"}, total : Nat, seen : SUBSET Nat,
                 owed : SUBSET (DOMAIN events), torn : BOOLEAN]
      BY <2>1, <3>1 DEF FeedInv, FeedTyped
    <3> QED
      BY <1>1, <2>2, <3>1, <3>2 DEF FeedTyped
  <2>4. OwedMatches'
    BY <1>1, <2>2, FeedFields DEF FeedInv, OwedMatches, Since
  <2>5. ComesLater'
    <3>1. Fetched' = feed.page /\ Fetched = feed.page
      BY <2>1, <2>2, FeedFields DEF Fetched, FeedInv, FeedTyped
    <3> QED
      BY <1>1, <2>2, <3>1 DEF FeedInv, ComesLater, Tied
  <2>6. TotalTells'
    BY <2>2 DEF TotalTells
  <2> QED
    BY <1>1, <2>3, <2>4, <2>5, <2>6 DEF FeedInv
<1>4. CASE ShowPage
  <2>1. feed' = [feed EXCEPT !.at = "shown"] /\ feed.left = {} /\ feed.at = "loading"
    BY <1>4 DEF ShowPage
  <2>2. /\ feed'.at = "shown" /\ feed'.filtered = feed.filtered /\ feed'.since = feed.since
        /\ feed'.page = feed.page /\ feed'.left = feed.left /\ feed'.owed = feed.owed
        /\ feed'.seen = feed.seen /\ feed'.torn = feed.torn /\ feed'.total = feed.total
    BY <2>1 DEF FeedInv, FeedTyped
  <2>3. FeedTyped'
    BY <1>1, <2>1, <2>2, FeedFields DEF FeedInv, FeedTyped
  <2>4. OwedMatches' /\ ComesLater' /\ TotalTells'
    BY <1>1, <2>1, <2>2 DEF FeedInv, OwedMatches, ComesLater, TotalTells, Since, Fetched, Tied, Matching
  <2> QED
    BY <1>1, <2>3, <2>4 DEF FeedInv
<1> QED
  BY <1>2, <1>3, <1>4

\* The rows that match are counted.
LEMMA RowsCounted == ASSUME FeedInv, CountRows PROVE FeedInv'
<1>1. UNCHANGED <<clock, events>> /\ EventsTrue'
  BY DEF CountRows, FeedInv, EventsTrue
<1> DEFINE total == Cardinality(Matching(feed.since))
<1>2. feed' = [feed EXCEPT !.left = @ \ {"total"}, !.total = total] /\ "total" \in feed.left
  BY DEF CountRows
<1>3. /\ feed'.at = feed.at /\ feed'.filtered = feed.filtered /\ feed'.since = feed.since
      /\ feed'.page = feed.page /\ feed'.left = feed.left \ {"total"} /\ feed'.owed = feed.owed
      /\ feed'.seen = feed.seen /\ feed'.torn = feed.torn /\ feed'.total = total
  BY <1>2 DEF FeedInv, FeedTyped
<1>4. feed.at = "loading"
  BY <1>2 DEF FeedInv, FeedTyped, NoFeed
<1>5. total \in Nat
  <2>1. Matching(feed.since) \subseteq 1..Len(events)
    BY FeedFields DEF Matching
  <2>2. IsFiniteSet(1..Len(events))
    BY FeedFields, FS_Interval
  <2> QED
    BY <2>1, <2>2, FS_Subset, FS_CardinalityType
<1>6. FeedTyped'
  <2> HIDE DEF total
  <2> QED
    BY <1>1, <1>2, <1>3, <1>4, <1>5, FeedFields DEF FeedInv, FeedTyped
<1>7. OwedMatches' /\ ComesLater'
  BY <1>1, <1>3 DEF FeedInv, OwedMatches, ComesLater, Since, Fetched, Tied
<1>8. TotalTells'
  <2>1. Matching(feed.since)' = Matching(feed.since)
    BY <1>1, <1>3 DEF Matching
  <2>2. ASSUME feed'.left = {}, NEW e \in feed.owed PROVE e \in feed.seen \/ Tied(e) \/ total > feed.page * PageSize
    <3>1. feed.left = {"total"}
      BY <1>2, <1>3, <2>2, FeedFields
    <3>2. e \in feed.seen \/ Tied(e) \/ Len(events) - e >= feed.page * PageSize
      BY <2>2, <3>1 DEF FeedInv, ComesLater, Fetched
    <3>3. total > Len(events) - e
      <4>1. e \in DOMAIN events /\ events[e] >= feed.since
        BY SMTT(30), <2>2, FeedFields DEF FeedInv, OwedMatches
      <4> QED
        BY <4>1, MatchingAre, FeedFields DEF FeedInv
    <3>4. /\ Len(events) - e \in Int /\ feed.page * PageSize \in Int
      BY <2>2, FeedFields
    <3> HIDE DEF total
    <3> QED
      BY <1>5, <3>2, <3>3, <3>4
  <2>3. \A e : Tied(e)' <=> Tied(e)
    BY <1>1 DEF Tied
  <2>4. feed'.left = {"rows"} => feed'.total = Cardinality(Matching(feed.since)')
    BY <1>3, <2>1
  <2> HIDE DEF total
  <2> QED
    BY <1>3, <2>2, <2>3, <2>4 DEF TotalTells
<1> QED
  BY <1>1, <1>6, <1>7, <1>8 DEF FeedInv

\* The rows of the page are fetched.
LEMMA RowsFetched == ASSUME FeedInv, FetchRows PROVE FeedInv'
<1>1. UNCHANGED <<clock, events>> /\ EventsTrue'
  BY DEF FetchRows, FeedInv, EventsTrue
<1>2. PICK order \in NewestFirst(Matching(feed.since)) :
         feed' = [feed EXCEPT !.left = @ \ {"rows"}, !.seen = @ \cup PageOf(order, feed.page)]
  BY DEF FetchRows
<1> DEFINE slice == PageOf(order, feed.page)
<1>3. "rows" \in feed.left
  BY DEF FetchRows
<1>4. /\ feed'.at = feed.at /\ feed'.filtered = feed.filtered /\ feed'.since = feed.since
      /\ feed'.page = feed.page /\ feed'.left = feed.left \ {"rows"} /\ feed'.owed = feed.owed
      /\ feed'.seen = feed.seen \cup slice /\ feed'.torn = feed.torn /\ feed'.total = feed.total
  BY <1>2 DEF FeedInv, FeedTyped
<1>5. feed.at = "loading" /\ feed.page > 0
  BY <1>3 DEF FeedInv, FeedTyped, NoFeed
<1>6. slice \subseteq Nat
  <2>1. Matching(feed.since) \subseteq Nat
    BY FeedFields DEF Matching
  <2>2. order \in [1..Cardinality(Matching(feed.since)) -> Matching(feed.since)]
    BY DEF NewestFirst, SetToSeqs
  <2> QED
    BY <2>1, <2>2 DEF PageOf
<1>7. FeedTyped'
  <2> HIDE DEF slice
  <2>1. feed' = [feed EXCEPT !.left = @ \ {"rows"}, !.seen = @ \cup slice]
    BY <1>2 DEF slice
  <2> QED
    BY <1>1, <2>1, <1>4, <1>5, <1>6, FeedFields DEF FeedInv, FeedTyped
<1>8. OwedMatches'
  BY <1>1, <1>4 DEF FeedInv, OwedMatches, Since
<1>9. ASSUME NEW e \in feed.owed, e \notin feed'.seen, ~Tied(e)
      PROVE  Len(events) - e >= feed.page * PageSize
  <2>1. e \in DOMAIN events /\ events[e] >= feed.since
    BY SMTT(30), <1>9, FeedFields DEF FeedInv, OwedMatches
  <2>2. PICK k \in DOMAIN order : order[k] = e /\ k = Len(events) - e + 1
    BY SMTT(30), <1>9, <2>1, PlaceInOrder, FeedFields DEF FeedInv
  <2>3. ~((feed.page - 1) * PageSize < k /\ k <= feed.page * PageSize)
    BY <1>4, <1>9, <2>2 DEF PageOf
  <2>4. Len(events) - e >= (feed.page - 1) * PageSize
    BY <1>3, <1>4, <1>9 DEF FeedInv, ComesLater, Fetched
  <2>5. e \in Nat /\ Len(events) \in Nat /\ feed.page * PageSize \in Int /\ (feed.page - 1) * PageSize \in Int
    BY SMTT(30), <1>9, FeedFields
  <2> DEFINE a == (feed.page - 1) * PageSize
             b == feed.page * PageSize
  <2> HIDE DEF a, b
  <2>6. ~(a < k /\ k <= b) /\ Len(events) - e >= a /\ a \in Int /\ b \in Int
    BY <2>3, <2>4, <2>5 DEF a, b
  <2>7. Len(events) - e >= b
    BY <2>2, <2>5, <2>6
  <2> QED
    BY <2>7 DEF b
<1>10. \A e : Tied(e)' <=> Tied(e)
  BY <1>1 DEF Tied
<1> HIDE DEF slice
<1>11. ComesLater'
  BY <1>1, <1>4, <1>9, <1>10 DEF ComesLater, Fetched
<1>12. TotalTells'
  <2>1. feed'.left # {"rows"}
    BY <1>4
  <2>2. ASSUME feed'.left = {}, ~feed.torn, NEW e \in feed.owed, e \notin feed'.seen, ~Tied(e)
        PROVE  feed.total > feed.page * PageSize
    <3>1. feed.left = {"rows"}
      BY <1>3, <1>4, <2>2, FeedFields
    <3>2. feed.total = Cardinality(Matching(feed.since))
      BY <2>2, <3>1 DEF FeedInv, TotalTells
    <3>3. feed.total > Len(events) - e
      <4>1. e \in DOMAIN events /\ events[e] >= feed.since
        BY SMTT(30), <2>2, FeedFields DEF FeedInv, OwedMatches
      <4> QED
        BY <3>2, <4>1, MatchingAre, FeedFields DEF FeedInv
    <3>4. Len(events) - e >= feed.page * PageSize
      BY <1>9, <2>2
    <3>5. Len(events) - e \in Int /\ feed.page * PageSize \in Int /\ feed.total \in Int
      BY SMTT(30), <2>2, FeedFields
    <3> QED
      BY <3>3, <3>4, <3>5
  <2> QED
    BY <1>4, <1>10, <2>1, <2>2 DEF TotalTells
<1> QED
  BY <1>1, <1>7, <1>8, <1>11, <1>12 DEF FeedInv

\* An event arrives.
LEMMA EventKeeps == ASSUME FeedInv, EventArrives PROVE FeedInv'
<1>1. /\ events' = Append(events, clock) /\ clock' = clock
      /\ feed' = [feed EXCEPT !.torn = @ \/ Cardinality(feed.left) = 1]
  BY DEF EventArrives
<1>2. /\ events' \in Seq(Nat) /\ Len(events') = Len(events) + 1 /\ events'[Len(events) + 1] = clock
      /\ \A a \in 1..Len(events) : events'[a] = events[a]
  BY <1>1, FeedFields, AppendProperties
<1>3. Len(events') \in Nat /\ DOMAIN events' = 1..Len(events')
  BY <1>2
<1>4. \A a \in 1..Len(events') : a \in 1..Len(events) \/ a = Len(events) + 1
  BY <1>2, FeedFields
<1>5. EventsTrue'
  <2>1. \A a \in DOMAIN events' : events'[a] <= clock
    <3> SUFFICES ASSUME NEW a \in DOMAIN events' PROVE events'[a] <= clock
      OBVIOUS
    <3>1. CASE a \in 1..Len(events)
      BY <1>2, <3>1, FeedFields
    <3>2. CASE a = Len(events) + 1
      BY <1>2, <3>2, FeedFields
    <3> QED
      BY <1>3, <1>4, <3>1, <3>2
  <2>2. ASSUME NEW a \in DOMAIN events', NEW b \in DOMAIN events', a <= b PROVE events'[a] <= events'[b]
    <3>1. CASE b = Len(events) + 1
      BY <1>2, <2>1, <3>1
    <3>2. CASE b \in 1..Len(events)
      <4>1. a \in 1..Len(events)
        BY <1>3, <1>4, <2>2, <3>2, FeedFields
      <4> QED
        BY <1>2, <2>2, <3>2, <4>1, FeedFields DEF FeedInv, EventsTrue
    <3> QED
      BY <1>3, <1>4, <3>1, <3>2
  <2> QED
    BY <1>1, <1>2, <2>1, <2>2, FeedFields DEF EventsTrue
<1> DEFINE torn == feed.torn \/ Cardinality(feed.left) = 1
<1>6. /\ feed'.at = feed.at /\ feed'.filtered = feed.filtered /\ feed'.since = feed.since
      /\ feed'.page = feed.page /\ feed'.left = feed.left /\ feed'.owed = feed.owed
      /\ feed'.seen = feed.seen /\ feed'.torn = torn /\ feed'.total = feed.total
  BY <1>1 DEF FeedInv, FeedTyped
<1>7. FeedTyped'
  <2>1. Cardinality({}) = 0
    BY FS_EmptySet
  <2>2. feed.at = "closed" => feed' = NoFeed
    <3> SUFFICES ASSUME feed.at = "closed" PROVE feed' = NoFeed
      OBVIOUS
    <3>1. feed = NoFeed
      BY DEF FeedInv, FeedTyped
    <3>2. torn = FALSE
      BY <2>1, <3>1 DEF NoFeed
    <3>3. feed' = [NoFeed EXCEPT !.torn = FALSE]
      BY <1>1, <3>1, <3>2
    <3> QED
      BY <3>3 DEF NoFeed
  <2>3. DOMAIN events \subseteq DOMAIN events'
    BY <1>2, <1>3, FeedFields
  <2>4. torn \in BOOLEAN
    BY FeedFields
  <2>5. feed' = [feed EXCEPT !.torn = torn]
    BY <1>1
  <2> HIDE DEF torn
  <2>6. feed' \in [at : {"closed", "loading", "shown"}, filtered : BOOLEAN, since : Int, page : Nat,
                 left : SUBSET {"total", "rows"}, total : Nat, seen : SUBSET Nat,
                 owed : SUBSET (DOMAIN events'), torn : BOOLEAN]
    <3>1. feed \in [at : {"closed", "loading", "shown"}, filtered : BOOLEAN, since : Int, page : Nat,
                 left : SUBSET {"total", "rows"}, total : Nat, seen : SUBSET Nat,
                 owed : SUBSET (DOMAIN events'), torn : BOOLEAN]
      BY <2>3 DEF FeedInv, FeedTyped
    <3> QED
      BY <2>4, <2>5, <3>1
  <2> QED
    BY <1>6, <2>2, <2>6 DEF FeedInv, FeedTyped
<1>8. OwedMatches'
  BY <1>1, <1>2, <1>6, FeedFields DEF FeedInv, OwedMatches, Since
<1>9. \A e \in feed.owed : Tied(e) => Tied(e)'
  BY SMTT(30), <1>2, <1>3, FeedFields DEF Tied
<1>10. ComesLater'
  <2> SUFFICES ASSUME NEW e \in feed.owed, e \notin feed.seen, ~Tied(e)
               PROVE  Len(events') - e >= Fetched' * PageSize
    BY <1>6, <1>9 DEF ComesLater
  <2>1. Len(events) - e >= Fetched * PageSize
    BY DEF FeedInv, ComesLater
  <2>2. Fetched' = Fetched /\ Fetched * PageSize \in Int /\ e \in Nat /\ Len(events) \in Nat
    <3>1. Fetched' = Fetched /\ Fetched \in Int
      BY <1>6, FeedFields DEF Fetched
    <3>2. Fetched * PageSize \in Int
      BY <3>1, FeedFields
    <3> QED
      BY <3>1, <3>2, FeedFields
  <2> QED
    BY <1>2, <2>1, <2>2
<1>11. TotalTells'
  <2>1. feed.left = {"rows"} => torn
    BY FS_Singleton
  <2>2. torn \/ ~feed.torn
    OBVIOUS
  <2> HIDE DEF torn
  <2> QED
    BY <1>6, <1>9, <2>1, <2>2 DEF FeedInv, TotalTells
<1> QED
  BY <1>5, <1>7, <1>8, <1>10, <1>11 DEF FeedInv

\* Time goes on: what is owed no more is what the filter leaves out now.
LEMMA TickKeeps == ASSUME FeedInv, Tick PROVE FeedInv'
<1>1. clock' = clock + 1 /\ events' = events
  BY DEF Tick
<1> DEFINE owed == {e \in feed.owed : feed.filtered => events[e] >= clock' - Days}
<1>2. feed' = [feed EXCEPT !.owed = owed]
  BY DEF Tick
<1>3. /\ feed'.at = feed.at /\ feed'.filtered = feed.filtered /\ feed'.since = feed.since
      /\ feed'.page = feed.page /\ feed'.left = feed.left /\ feed'.owed = owed
      /\ feed'.seen = feed.seen /\ feed'.torn = feed.torn /\ feed'.total = feed.total
  BY <1>2 DEF FeedInv, FeedTyped
<1>4. EventsTrue'
  BY <1>1, FeedFields DEF FeedInv, EventsTrue
<1>5. owed \subseteq feed.owed /\ \A e \in owed : feed.filtered => events[e] >= (clock + 1) - Days
  <2>1. clock' - Days = (clock + 1) - Days
    BY <1>1
  <2> QED
    BY <2>1
<1> HIDE DEF owed
<1>6. FeedTyped'
  <2>1. feed.at = "closed" => feed' = NoFeed
    <3> SUFFICES ASSUME feed.at = "closed" PROVE feed' = NoFeed
      OBVIOUS
    <3>1. feed = NoFeed
      BY DEF FeedInv, FeedTyped
    <3>2. owed = {}
      BY <1>5, <3>1 DEF NoFeed
    <3>3. feed' = [NoFeed EXCEPT !.owed = {}]
      BY <1>2, <3>1, <3>2
    <3> QED
      BY <3>3 DEF NoFeed
  <2> QED
    BY <1>1, <1>2, <1>3, <1>5, <2>1 DEF FeedInv, FeedTyped
<1>7. OwedMatches'
  <2>1. Since(feed.filtered)' = IF feed.filtered THEN (clock + 1) - Days ELSE Always
    <3>1. Since(feed.filtered)' = IF feed'.filtered THEN clock' - Days ELSE Always
      BY DEF Since, Always
    <3> QED
      BY <1>1, <1>3, <3>1
  <2>2. feed'.since <= Since(feed.filtered)'
    BY <1>3, <2>1, FeedFields DEF FeedInv, OwedMatches, Since
  <2>3. \A e \in owed : events[e] >= Since(feed.filtered)'
    BY <1>5, <2>1 DEF FeedInv, OwedMatches, Since
  <2> QED
    BY <1>1, <1>3, <2>2, <2>3 DEF OwedMatches
<1>8. ComesLater' /\ TotalTells'
  BY <1>1, <1>3, <1>5 DEF FeedInv, ComesLater, TotalTells, Fetched, Tied, Matching
<1> QED
  BY <1>4, <1>6, <1>7, <1>8 DEF FeedInv

\* More rows than the pages up to here hold make another page.
LEMMA MorePages ==
    ASSUME NEW total \in Nat, NEW nth \in Nat, total > nth * PageSize
    PROVE  nth < TotalPages(total)
<1>1. PageSize \in Nat \ {0}
  BY DeskAssumption
<1> DEFINE x == total + PageSize - 1
           q == x \div PageSize
<1>2. x \in Nat
  BY <1>1
<1>3. q \in Nat /\ x < (q + 1) * PageSize
  <2>1. x = PageSize * q + (x % PageSize) /\ x % PageSize \in 0..(PageSize - 1) /\ q \in Nat
    <3> HIDE DEF x
    <3> QED
      BY <1>1, <1>2
  <2> HIDE DEF q, x
  <2>2. (q + 1) * PageSize = PageSize * q + PageSize
    BY <1>1, <2>1
  <2>3. PageSize * q \in Nat
    BY <1>1, <2>1
  <2> QED
    BY <1>1, <1>2, <2>1, <2>2, <2>3
<1>4. (nth + 1) * PageSize = nth * PageSize + PageSize /\ nth * PageSize \in Nat
  BY <1>1
<1>5. x >= (nth + 1) * PageSize
  BY <1>1, <1>4
<1>6. q >= nth + 1
  <2> SUFFICES ASSUME q <= nth PROVE FALSE
    BY <1>3
  <2> HIDE DEF q
  <2>1. (q + 1) * PageSize <= (nth + 1) * PageSize
    BY <1>1, <1>3
  <2>2. (q + 1) * PageSize \in Nat /\ (nth + 1) * PageSize \in Nat
    BY <1>1, <1>3
  <2> HIDE DEF x
  <2> QED
    BY <1>2, <1>3, <1>5, <2>1, <2>2
<1>7. total # 0
  BY <1>4
<1>8. TotalPages(total) = q
  BY <1>7 DEF TotalPages
<1> HIDE DEF q
<1> QED
  BY <1>3, <1>6, <1>8

\* Who has read the feed to its end has seen what is owed.
LEMMA FeedMeans == FeedInv => FeedComplete
<1> SUFFICES ASSUME FeedInv, feed.at = "shown", ~HasNext, ~feed.torn, ~TiesAcrossPages,
                    NEW e \in feed.owed, e \notin feed.seen
             PROVE  FALSE
  BY DEF FeedComplete
<1>1. feed.left = {}
  BY DEF FeedInv, FeedTyped
<1>2. Tied(e) \/ feed.total > feed.page * PageSize
  BY <1>1 DEF FeedInv, TotalTells
<1>3. ~Tied(e)
  BY FeedFields DEF Tied, TiesAcrossPages
<1>4. feed.total > feed.page * PageSize
  BY <1>2, <1>3
<1> QED
  BY <1>4, MorePages, FeedFields DEF HasNext

-----------------------------------------------------------------------------
\* The rows of a list, in an order of the jobs by what they need.
NeediestFirst(order) ==
    /\ order \in SetToSeqs(DeskJobs)
    /\ \A k \in 1..(Len(order) - 1) : Rank(queue[order[k]].status) >= Rank(queue[order[k + 1]].status)
RowsOf(order) == [k \in {n \in DOMAIN order : n <= ListLimit} |-> queue[order[k]].status]

Told(drawn, counts) ==
    \A s \in ToSet(JobStatuses) :
        LET told == {k \in DOMAIN drawn : drawn[k] = s} IN
        /\ Cardinality(told) <= counts[s]
        /\ Cardinality(told) < counts[s] => \A k \in DOMAIN drawn : Rank(drawn[k]) >= Rank(s)

QueueTyped == queue \in [DeskJobs -> [status : ToSet(JobStatuses), lockedAt : Int]]

HealthTrue ==
    /\ health = [reclaimed |-> health.reclaimed, stale |-> health.stale] /\ health.stale \subseteq DeskJobs
    /\ \A j \in health.stale :
          IF health.reclaimed THEN queue[j].status # "RUNNING"
          ELSE queue[j].status = "RUNNING" /\ queue[j].lockedAt < clock - LockTimeout

ListingTrue ==
    /\ listing = [at |-> listing.at, left |-> listing.left, torn |-> listing.torn, rows |-> listing.rows,
                  counts |-> listing.counts]
    /\ listing.at \in {"closed", "loading", "shown"}
    /\ listing.left \in SUBSET {"rows", "counts"}
    /\ listing.at = "shown" => listing.left = {}
    /\ ~listing.torn =>
          /\ listing.left = {"rows"} => \A s \in ToSet(JobStatuses) : listing.counts[s] = CountedBy(s)
          /\ listing.left = {"counts"} => \E order : NeediestFirst(order) /\ listing.rows = RowsOf(order)
          /\ listing.left = {} /\ listing.at # "closed" => Told(listing.rows, listing.counts)

JobsInv == clock \in Nat /\ QueueTyped /\ HealthTrue /\ ListingTrue

\* Ranks are numbers.
LEMMA RankType == ASSUME NEW s \in ToSet(JobStatuses) PROVE Rank(s) \in Int
<1>1. DOMAIN JobStatuses = 1..5
  BY DEF JobStatuses
<1>2. \E k \in 1..5 : JobStatuses[k] = s
  BY <1>1 DEF ToSet
<1> QED
  BY <1>1, <1>2 DEF Rank

\* As many rows as the limit allows, of jobs in their order, leave out none that needs more.
LEMMA ListTold ==
    ASSUME QueueTyped, NEW order, NeediestFirst(order), NEW counts,
           \A s \in ToSet(JobStatuses) : counts[s] = CountedBy(s)
    PROVE  Told(RowsOf(order), counts)
<1> DEFINE N == Cardinality(DeskJobs)
           drawn == RowsOf(order)
<1>1. IsFiniteSet(DeskJobs) /\ ListLimit \in Nat \ {0}
  BY DeskAssumption
<1>2. /\ N \in Nat /\ order \in [1..N -> DeskJobs] /\ Len(order) = N
      /\ \A i, j \in 1..N : i # j => order[i] # order[j]
      /\ \A e \in DeskJobs : \E k \in 1..N : order[k] = e
  BY <1>1, OrdersAll DEF NeediestFirst
<1> HIDE DEF N
<1> DEFINE value == [k \in 1..N |-> Rank(queue[order[k]].status)]
<1>3. \A k \in 1..N : queue[order[k]].status \in ToSet(JobStatuses)
  BY <1>2 DEF QueueTyped
<1>4. value \in [1..N -> Int] /\ \A k \in 1..(N - 1) : value[k] >= value[k + 1]
  <2>1. \A k \in 1..N : Rank(queue[order[k]].status) \in Int
    BY <1>3, RankType
  <2>2. \A k \in 1..(N - 1) : Rank(queue[order[k]].status) >= Rank(queue[order[k + 1]].status)
    BY <1>2 DEF NeediestFirst
  <2> QED
    BY <1>2, <2>1, <2>2
<1>5. ASSUME NEW i \in 1..N, NEW j \in 1..N, i <= j
      PROVE  Rank(queue[order[i]].status) >= Rank(queue[order[j]].status)
  <2>1. value[i] >= value[j]
    <3> HIDE DEF value
    <3> QED
      BY <1>2, <1>4, <1>5, NeverRises
  <2> QED
    BY <2>1
<1>6. DOMAIN drawn = {n \in 1..N : n <= ListLimit} /\ \A k \in DOMAIN drawn : drawn[k] = queue[order[k]].status
  BY <1>2 DEF RowsOf
<1> HIDE DEF drawn, value
<1> SUFFICES ASSUME NEW s \in ToSet(JobStatuses)
             PROVE  LET told == {k \in DOMAIN drawn : drawn[k] = s} IN
                    /\ Cardinality(told) <= counts[s]
                    /\ Cardinality(told) < counts[s] => \A k \in DOMAIN drawn : Rank(drawn[k]) >= Rank(s)
  BY DEF Told, drawn
<1> DEFINE told == {k \in DOMAIN drawn : drawn[k] = s}
           those == {j \in DeskJobs : queue[j].status = s}
           f == [k \in told |-> order[k]]
<1>7. IsFiniteSet(those) /\ counts[s] = Cardinality(those)
  BY <1>1, FS_Subset DEF CountedBy
<1>8. f \in Injection(told, those)
  <2>1. \A k \in told : order[k] \in those
    BY <1>2, <1>6
  <2>2. \A j, k \in told : order[j] = order[k] => j = k
    BY <1>2, <1>6
  <2> HIDE DEF told, those
  <2> QED
    BY <2>1, <2>2 DEF Injection, IsInjective
<1>9. IsFiniteSet(told) /\ Cardinality(told) <= Cardinality(those)
      /\ (Cardinality(told) = Cardinality(those) <=> f \in Surjection(told, those))
  <2> HIDE DEF told, those, f
  <2> QED
    BY <1>7, <1>8, FS_Injection
<1>10. ASSUME Cardinality(told) < Cardinality(those), NEW k \in DOMAIN drawn PROVE Rank(drawn[k]) >= Rank(s)
  <2>1. f \notin Surjection(told, those)
    <3>1. Cardinality(told) \in Nat /\ Cardinality(those) \in Nat
      <4> HIDE DEF told, those
      <4> QED
        BY <1>7, <1>9, FS_CardinalityType
    <3> HIDE DEF told, those, f
    <3> QED
      BY <1>9, <1>10, <3>1
  <2>2. PICK j \in those : \A m \in told : order[m] # j
    <3>1. f \in [told -> those]
      BY <1>8 DEF Injection
    <3>2. \A m \in told : f[m] = order[m]
      OBVIOUS
    <3> HIDE DEF told, those, f
    <3> QED
      BY <2>1, <3>1, <3>2 DEF Surjection
  <2>3. PICK m \in 1..N : order[m] = j
    BY <1>2
  <2>4. m \notin DOMAIN drawn
    BY <1>6, <2>2, <2>3
  <2>5. k \in 1..N /\ k <= m
    BY <1>1, <1>2, <1>6, <2>4
  <2>6. Rank(queue[order[k]].status) >= Rank(queue[order[m]].status)
    BY <1>5, <2>5
  <2> QED
    BY <1>6, <2>3, <2>6
<1> HIDE DEF told, those
<1> QED
  BY <1>7, <1>9, <1>10 DEF told

-----------------------------------------------------------------------------
\* At first nothing is shown.
LEMMA JobsStart == DeskInit => JobsInv
<1> SUFFICES ASSUME DeskInit PROVE JobsInv
  OBVIOUS
<1>1. "PENDING" \in ToSet(JobStatuses)
  BY DEF ToSet, JobStatuses
<1>2. QueueTyped
  BY <1>1 DEF DeskInit, QueueTyped, NoLock
<1>3. HealthTrue
  BY DEF DeskInit, HealthTrue
<1>4. ListingTrue
  BY DEF DeskInit, ListingTrue, NoListing
<1> QED
  BY <1>2, <1>3, <1>4 DEF DeskInit, JobsInv

\* A list that is being drawn is torn when the jobs change between its queries.
LEMMA ListingTears ==
    ASSUME ListingTrue, listing' = [listing EXCEPT !.torn = @ \/ Cardinality(listing.left) = 1]
    PROVE  ListingTrue'
<1>1. /\ listing'.at = listing.at /\ listing'.left = listing.left /\ listing'.rows = listing.rows
      /\ listing'.counts = listing.counts /\ listing'.torn = (listing.torn \/ Cardinality(listing.left) = 1)
      /\ listing' = [at |-> listing'.at, left |-> listing'.left, torn |-> listing'.torn, rows |-> listing'.rows,
                     counts |-> listing'.counts]
  BY DEF ListingTrue
<1>2. listing.left \in {{"rows"}, {"counts"}} => listing'.torn
  BY <1>1, FS_Singleton
<1>3. /\ listing'.at \in {"closed", "loading", "shown"} /\ listing'.left \in SUBSET {"rows", "counts"}
      /\ (listing'.at = "shown" => listing'.left = {})
  BY <1>1 DEF ListingTrue
<1>4. ~listing'.torn =>
          /\ listing'.left \notin {{"rows"}, {"counts"}}
          /\ listing'.left = {} /\ listing'.at # "closed" => Told(listing'.rows, listing'.counts)
  BY <1>1, <1>2 DEF ListingTrue
<1>5. Told(listing.rows, listing.counts)' <=> Told(listing'.rows, listing'.counts)
  BY DEF Told
<1> HIDE DEF ListingTrue
<1> QED
  BY <1>1, <1>3, <1>4, <1>5 DEF ListingTrue

\* A job moves.
LEMMA JobMovesKeeps == ASSUME JobsInv, NEW i \in DeskJobs, JobMoves(i) PROVE JobsInv'
<1>1. UNCHANGED clock /\ listing' = [listing EXCEPT !.torn = @ \/ Cardinality(listing.left) = 1]
  BY DEF JobMoves
<1>2. PICK job \in [status : ToSet(JobStatuses), lockedAt : Int] : queue' = [queue EXCEPT ![i] = job]
  <2>1. {"RUNNING", "COMPLETED", "FAILED", "DEAD"} \subseteq ToSet(JobStatuses)
    <3>1. DOMAIN JobStatuses = 1..5 /\ JobStatuses[2] = "RUNNING" /\ JobStatuses[3] = "COMPLETED"
          /\ JobStatuses[4] = "FAILED" /\ JobStatuses[5] = "DEAD"
      BY DEF JobStatuses
    <3> QED
      BY <3>1 DEF ToSet
  <2>2. clock \in Int /\ NoLock \in Int
    BY DEF JobsInv, NoLock
  <2> QED
    BY <2>1, <2>2 DEF JobMoves
<1>3. QueueTyped' /\ \A j \in DeskJobs : j # i => queue'[j] = queue[j]
  BY <1>2 DEF JobsInv, QueueTyped
<1>4. HealthTrue'
  <2>1. health' = [health EXCEPT !.stale = @ \ {i}]
    BY DEF JobMoves
  <2>2. /\ health'.stale = health.stale \ {i} /\ health'.reclaimed = health.reclaimed
        /\ health' = [reclaimed |-> health'.reclaimed, stale |-> health'.stale]
    BY <2>1 DEF JobsInv, HealthTrue
  <2> QED
    BY <1>1, <1>3, <2>2 DEF JobsInv, HealthTrue
<1> QED
  BY <1>1, <1>3, <1>4, ListingTears DEF JobsInv

\* Stale locks are taken.
LEMMA ReclaimKeeps == ASSUME JobsInv, ReclaimStale PROVE JobsInv'
<1> DEFINE stale == {j \in DeskJobs : queue[j].status = "RUNNING" /\ queue[j].lockedAt < clock - LockTimeout}
<1>1. UNCHANGED clock /\ listing' = [listing EXCEPT !.torn = @ \/ Cardinality(listing.left) = 1]
  BY DEF ReclaimStale
<1>2. PICK dead \in SUBSET stale :
          queue' = [j \in DeskJobs |->
              IF j \in stale
              THEN [status |-> IF j \in dead THEN "DEAD" ELSE "PENDING", lockedAt |-> NoLock]
              ELSE queue[j]]
  BY DEF ReclaimStale
<1>3. {"PENDING", "DEAD"} \subseteq ToSet(JobStatuses)
  <2>1. DOMAIN JobStatuses = 1..5 /\ JobStatuses[1] = "PENDING" /\ JobStatuses[5] = "DEAD"
    BY DEF JobStatuses
  <2> QED
    BY <2>1 DEF ToSet
<1>4. QueueTyped'
  <2> SUFFICES ASSUME NEW j \in DeskJobs PROVE queue'[j] \in [status : ToSet(JobStatuses), lockedAt : Int]
    BY <1>2 DEF QueueTyped
  <2> HIDE DEF stale
  <2> QED
    BY <1>2, <1>3 DEF JobsInv, QueueTyped, NoLock
<1>5. HealthTrue'
  <2>1. health' = [health EXCEPT !.reclaimed = TRUE]
    BY DEF ReclaimStale
  <2>2. /\ health'.stale = health.stale /\ health'.reclaimed = TRUE
        /\ health' = [reclaimed |-> health'.reclaimed, stale |-> health'.stale]
    BY <2>1 DEF JobsInv, HealthTrue
  <2>3. ASSUME NEW j \in health.stale PROVE queue'[j].status # "RUNNING"
    <3>1. j \in DeskJobs
      BY <2>3 DEF JobsInv, HealthTrue
    <3>2. CASE j \in stale
      <4> HIDE DEF stale
      <4> QED
        BY <1>2, <3>1, <3>2
    <3>3. CASE j \notin stale
      <4>1. queue[j].status # "RUNNING"
        BY <2>3, <3>1, <3>3 DEF JobsInv, HealthTrue
      <4> HIDE DEF stale
      <4> QED
        BY <1>2, <3>1, <3>3, <4>1
    <3> QED
      BY <3>2, <3>3
  <2> QED
    BY <2>2, <2>3 DEF JobsInv, HealthTrue
<1> QED
  BY <1>1, <1>4, <1>5, ListingTears DEF JobsInv

\* A list is drawn.
LEMMA ListingKeeps == ASSUME JobsInv, OpenJobs \/ ListJobs \/ CountJobs \/ ShowJobs PROVE JobsInv'
<1>1. UNCHANGED <<clock, queue, health>>
  BY DEF OpenJobs, ListJobs, CountJobs, ShowJobs
<1>2. QueueTyped /\ QueueTyped' /\ HealthTrue'
  BY <1>1 DEF JobsInv, QueueTyped, HealthTrue
<1>3. /\ \A s : CountedBy(s)' = CountedBy(s)
      /\ \A order : (NeediestFirst(order)' <=> NeediestFirst(order)) /\ RowsOf(order)' = RowsOf(order)
  BY <1>1 DEF CountedBy, NeediestFirst, RowsOf
<1>4. CASE OpenJobs
  <2>1. listing' = [NoListing EXCEPT !.at = "loading", !.left = {"rows", "counts"}]
    BY <1>4 DEF OpenJobs
  <2>2. /\ listing'.at = "loading" /\ listing'.left = {"rows", "counts"}
        /\ listing' = [at |-> listing'.at, left |-> listing'.left, torn |-> listing'.torn, rows |-> listing'.rows,
                       counts |-> listing'.counts]
    BY <2>1 DEF NoListing
  <2>3. ListingTrue'
    BY <2>2 DEF ListingTrue
  <2> QED
    BY <1>1, <1>2, <2>3 DEF JobsInv
<1>5. CASE ListJobs
  <2>1. PICK order : /\ NeediestFirst(order) /\ "rows" \in listing.left
                     /\ listing' = [listing EXCEPT !.left = @ \ {"rows"}, !.rows = RowsOf(order)]
    BY <1>5 DEF ListJobs, NeediestFirst, RowsOf
  <2>2. /\ listing'.at = listing.at /\ listing'.left = listing.left \ {"rows"} /\ listing'.torn = listing.torn
        /\ listing'.rows = RowsOf(order) /\ listing'.counts = listing.counts
        /\ listing' = [at |-> listing'.at, left |-> listing'.left, torn |-> listing'.torn, rows |-> listing'.rows,
                       counts |-> listing'.counts]
    BY <2>1 DEF JobsInv, ListingTrue
  <2>3. ASSUME ~listing.torn, listing.left = {"rows"} PROVE Told(RowsOf(order), listing.counts)
    <3>1. \A s \in ToSet(JobStatuses) : listing.counts[s] = CountedBy(s)
      BY <2>3 DEF JobsInv, ListingTrue
    <3> QED
      BY <1>2, <2>1, <3>1, ListTold
  <2>4. listing'.left = {} => listing.left = {"rows"}
    BY <2>1, <2>2
  <2>5. Told(RowsOf(order), listing.counts) => Told(listing'.rows, listing'.counts)
    BY <2>2
  <2>6. ListingTrue'
    <3>1. /\ listing'.at \in {"closed", "loading", "shown"} /\ listing'.left \in SUBSET {"rows", "counts"}
          /\ listing'.left # {"rows"} /\ (listing'.at = "shown" => listing'.left = {})
      BY <2>2 DEF JobsInv, ListingTrue
    <3>2. NeediestFirst(order)' /\ listing'.rows = RowsOf(order)'
      BY <1>3, <2>1, <2>2
    <3>3. ~listing'.torn /\ listing'.left = {} => Told(listing'.rows, listing'.counts)
      BY <2>2, <2>3, <2>4, <2>5
    <3>4. Told(listing.rows, listing.counts)' <=> Told(listing'.rows, listing'.counts)
      BY DEF Told
    <3> QED
      BY <2>2, <3>1, <3>2, <3>3, <3>4 DEF ListingTrue
  <2> QED
    BY <1>1, <1>2, <2>6 DEF JobsInv
<1>6. CASE CountJobs
  <2> DEFINE counts == [s \in ToSet(JobStatuses) |-> CountedBy(s)]
  <2>1. "counts" \in listing.left /\ listing' = [listing EXCEPT !.left = @ \ {"counts"}, !.counts = counts]
    BY <1>6 DEF CountJobs
  <2>2. \A s \in ToSet(JobStatuses) : counts[s] = CountedBy(s)
    OBVIOUS
  <2>3. /\ listing'.at = listing.at /\ listing'.left = listing.left \ {"counts"} /\ listing'.torn = listing.torn
        /\ listing'.rows = listing.rows /\ listing'.counts = counts
        /\ listing' = [at |-> listing'.at, left |-> listing'.left, torn |-> listing'.torn, rows |-> listing'.rows,
                       counts |-> listing'.counts]
    BY <2>1 DEF JobsInv, ListingTrue
  <2>4. \A s \in ToSet(JobStatuses) : listing'.counts[s] = CountedBy(s)'
    BY <1>3, <2>2, <2>3
  <2>5. ASSUME ~listing.torn, listing.left = {"counts"} PROVE Told(listing.rows, listing'.counts)
    <3>1. PICK order : NeediestFirst(order) /\ listing.rows = RowsOf(order)
      BY <2>5 DEF JobsInv, ListingTrue
    <3>2. \A s \in ToSet(JobStatuses) : listing'.counts[s] = CountedBy(s)
      BY <2>2, <2>3
    <3>3. Told(RowsOf(order), listing'.counts)
      BY <1>2, <3>1, <3>2, ListTold
    <3> QED
      BY <3>1, <3>3
  <2> HIDE DEF counts
  <2>6. ListingTrue'
    <3>1. /\ listing'.at \in {"closed", "loading", "shown"} /\ listing'.left \in SUBSET {"rows", "counts"}
          /\ listing'.left # {"counts"} /\ (listing'.at = "shown" => listing'.left = {})
          /\ (listing'.left = {} => listing.left = {"counts"})
      BY <2>1, <2>3 DEF JobsInv, ListingTrue
    <3>2. ~listing'.torn /\ listing'.left = {} => Told(listing'.rows, listing'.counts)
      BY <2>3, <2>5, <3>1
    <3>3. Told(listing.rows, listing.counts)' <=> Told(listing'.rows, listing'.counts)
      BY DEF Told
    <3> QED
      BY <2>3, <2>4, <3>1, <3>2, <3>3 DEF ListingTrue
  <2> QED
    BY <1>1, <1>2, <2>6 DEF JobsInv
<1>7. CASE ShowJobs
  <2>1. listing.at = "loading" /\ listing.left = {} /\ listing' = [listing EXCEPT !.at = "shown"]
    BY <1>7 DEF ShowJobs
  <2>2. /\ listing'.at = "shown" /\ listing'.left = {} /\ listing'.torn = listing.torn
        /\ listing'.rows = listing.rows /\ listing'.counts = listing.counts
        /\ listing' = [at |-> listing'.at, left |-> listing'.left, torn |-> listing'.torn, rows |-> listing'.rows,
                       counts |-> listing'.counts]
    BY <2>1 DEF JobsInv, ListingTrue
  <2>3. ListingTrue'
    BY <2>1, <2>2 DEF JobsInv, ListingTrue, Told
  <2> QED
    BY <1>1, <1>2, <2>3 DEF JobsInv
<1> QED
  BY <1>4, <1>5, <1>6, <1>7

\* A list that nobody touches stays true while no job moves.
LEMMA ListingStays == ASSUME ListingTrue, UNCHANGED <<queue, listing>> PROVE ListingTrue'
<1>1. /\ \A s : CountedBy(s)' = CountedBy(s)
      /\ \A order : (NeediestFirst(order)' <=> NeediestFirst(order)) /\ RowsOf(order)' = RowsOf(order)
  BY DEF CountedBy, NeediestFirst, RowsOf
<1>2. Told(listing.rows, listing.counts)' <=> Told(listing.rows, listing.counts)
  BY DEF Told
<1>3. (\E order : NeediestFirst(order) /\ listing.rows = RowsOf(order))'
         <=> \E order : NeediestFirst(order) /\ listing.rows = RowsOf(order)
  BY <1>1
<1>4. (\A s \in ToSet(JobStatuses) : listing.counts[s] = CountedBy(s))'
         <=> \A s \in ToSet(JobStatuses) : listing.counts[s] = CountedBy(s)
  BY <1>1
<1>5. listing' = listing
  OBVIOUS
<1> QED
  BY <1>2, <1>3, <1>4, <1>5 DEF ListingTrue

\* The health is read, and time goes on.
LEMMA HealthKeeps == ASSUME JobsInv, ReadHealth \/ Tick PROVE JobsInv'
<1>1. UNCHANGED <<queue, listing>>
  BY DEF ReadHealth, Tick
<1>2. QueueTyped' /\ ListingTrue'
  BY <1>1, ListingStays DEF JobsInv, QueueTyped
<1>3. CASE ReadHealth
  <2>1. /\ health'.reclaimed = FALSE /\ clock' = clock
        /\ health'.stale = {j \in DeskJobs : queue[j].status = "RUNNING" /\ queue[j].lockedAt < clock - LockTimeout}
        /\ health' = [reclaimed |-> health'.reclaimed, stale |-> health'.stale]
    BY <1>3 DEF ReadHealth
  <2>2. HealthTrue'
    BY <1>1, <2>1 DEF HealthTrue
  <2> QED
    BY <1>2, <2>1, <2>2 DEF JobsInv
<1>4. CASE Tick
  <2>1. clock' = clock + 1 /\ UNCHANGED health
    BY <1>4 DEF Tick
  <2>2. ASSUME NEW j \in health.stale, queue[j].lockedAt < clock - LockTimeout
        PROVE  queue[j].lockedAt < clock' - LockTimeout
    <3>1. queue[j].lockedAt \in Int /\ clock \in Nat /\ LockTimeout \in Nat
      BY <2>2, DeskAssumption DEF JobsInv, QueueTyped, HealthTrue
    <3> QED
      BY <2>1, <2>2, <3>1
  <2>3. HealthTrue'
    BY <1>1, <2>1, <2>2 DEF JobsInv, HealthTrue
  <2> QED
    BY <1>2, <2>1, <2>3 DEF JobsInv
<1> QED
  BY <1>3, <1>4

-----------------------------------------------------------------------------
\* Every step of the feed and of the jobs keeps both.
LEMMA DeskMoves == FeedInv /\ JobsInv /\ [FeedNext \/ JobsNext]_deskVars => FeedInv' /\ JobsInv'
<1> SUFFICES ASSUME FeedInv, JobsInv, [FeedNext \/ JobsNext]_deskVars PROVE FeedInv' /\ JobsInv'
  OBVIOUS
<1>1. UNCHANGED <<clock, events, feed>> => FeedInv'
  <2> SUFFICES ASSUME UNCHANGED <<clock, events, feed>> PROVE FeedInv'
    OBVIOUS
  <2>1. EventsTrue' /\ FeedTyped'
    BY DEF FeedInv, EventsTrue, FeedTyped, NoFeed
  <2>2. OwedMatches'
    BY DEF FeedInv, OwedMatches, Since
  <2>3. ComesLater' /\ TotalTells'
    BY DEF FeedInv, ComesLater, TotalTells, Fetched, Tied, Matching
  <2> QED
    BY <2>1, <2>2, <2>3 DEF FeedInv
<1>2. UNCHANGED <<clock, queue, listing, health>> => JobsInv'
  <2> SUFFICES ASSUME UNCHANGED <<clock, queue, listing, health>> PROVE JobsInv'
    OBVIOUS
  <2>1. QueueTyped' /\ HealthTrue'
    BY DEF JobsInv, QueueTyped, HealthTrue
  <2>2. ListingTrue'
    BY ListingStays DEF JobsInv
  <2> QED
    BY <2>1, <2>2 DEF JobsInv
<1>3. CASE Tick
  BY <1>3, TickKeeps, HealthKeeps
<1>4. CASE FeedNext
  <2>1. CASE NextPage \/ ShowPage \/ \E filtered \in BOOLEAN : OpenFeed(filtered)
    <3>1. UNCHANGED <<clock, queue, listing, health>>
      BY <2>1 DEF NextPage, ShowPage, OpenFeed
    <3>2. FeedInv'
      BY <2>1, PageAsked
    <3> QED
      BY <3>1, <3>2, <1>2
  <2>2. CASE CountRows
    <3>1. UNCHANGED <<clock, queue, listing, health>>
      BY <2>2 DEF CountRows
    <3> QED
      BY <2>2, <3>1, <1>2, RowsCounted
  <2>3. CASE FetchRows
    <3>1. UNCHANGED <<clock, queue, listing, health>>
      BY <2>3 DEF FetchRows
    <3> QED
      BY <2>3, <3>1, <1>2, RowsFetched
  <2>4. CASE EventArrives
    <3>1. UNCHANGED <<clock, queue, listing, health>>
      BY <2>4 DEF EventArrives
    <3> QED
      BY <2>4, <3>1, <1>2, EventKeeps
  <2> QED
    BY <1>3, <1>4, <2>1, <2>2, <2>3, <2>4 DEF FeedNext
<1>5. CASE JobsNext
  <2>1. CASE \E j \in DeskJobs : JobMoves(j)
    <3>1. UNCHANGED <<clock, events, feed>>
      BY <2>1 DEF JobMoves
    <3> QED
      BY <2>1, <3>1, <1>1, JobMovesKeeps
  <2>2. CASE ReclaimStale
    <3>1. UNCHANGED <<clock, events, feed>>
      BY <2>2 DEF ReclaimStale
    <3> QED
      BY <2>2, <3>1, <1>1, ReclaimKeeps
  <2>3. CASE OpenJobs \/ ListJobs \/ CountJobs \/ ShowJobs
    <3>1. UNCHANGED <<clock, events, feed>>
      BY <2>3 DEF OpenJobs, ListJobs, CountJobs, ShowJobs
    <3> QED
      BY <2>3, <3>1, <1>1, ListingKeeps
  <2>4. CASE ReadHealth
    <3>1. UNCHANGED <<clock, events, feed>>
      BY <2>4 DEF ReadHealth
    <3> QED
      BY <2>4, <3>1, <1>1, HealthKeeps
  <2> QED
    BY <1>3, <1>5, <2>1, <2>2, <2>3, <2>4 DEF JobsNext
<1>6. CASE UNCHANGED deskVars
  BY <1>1, <1>2, <1>6 DEF deskVars
<1> QED
  BY <1>4, <1>5, <1>6

\* They say that what the administrator sees is complete.
LEMMA DeskMeans == FeedInv /\ JobsInv => DeskTrue
<1> SUFFICES ASSUME FeedInv, JobsInv PROVE DeskTrue
  OBVIOUS
<1>1. JobsListed
  BY DEF JobsInv, ListingTrue, Told, JobsListed
<1>2. HealthMatchesReclaim
  BY DEF JobsInv, HealthTrue, HealthMatchesReclaim
<1> QED
  BY <1>1, <1>2, FeedMeans DEF DeskTrue

-----------------------------------------------------------------------------
(* Storage *)

\* A key normalised is a path that grew segment by segment.
LEMMA NormaliseSteps ==
    ASSUME NEW S, NEW key \in Seq(S)
    PROVE  \E path \in [0..Len(key) -> Seq(S)] :
              /\ path[0] = <<>> /\ \A n \in 1..Len(key) : path[n] = Shortened(path[n - 1], key[n])
              /\ Normalise(key) = path[Len(key)]
<1> DEFINE N == Len(key)
           Paths == Seq(S)
           step == [n \in 1..N |-> [path \in Paths |-> Shortened(path, key[n])]]
           Is(path) == path = [n \in 0..N |-> IF n = 0 THEN <<>> ELSE Shortened(path[n - 1], key[n])]
           q == CHOOSE path : Is(path)
<1>1. N \in Nat /\ \A n \in 1..N : key[n] \in S
  OBVIOUS
<1>2. ASSUME NEW path \in Paths, NEW s \in S PROVE Shortened(path, s) \in Paths
  <2>1. path # <<>> => Front(path) \in Seq(S)
    BY DEF Front
  <2> QED
    BY <2>1 DEF Shortened
<1>3. step \in [1..N -> [Paths -> Paths]]
  <2> HIDE DEF N, Paths
  <2> QED
    BY <1>1, <1>2
<1>4. <<>> \in Paths
  OBVIOUS
<1> HIDE DEF Paths
<1>5. PICK f : Built(f, N, Paths, <<>>, step)
  <2> HIDE DEF step, N
  <2> QED
    BY <1>1, <1>3, <1>4, StepByStep
<1>6. Is(f)
  <2>1. \A n \in 1..N : f[n] = Shortened(f[n - 1], key[n])
    <3> SUFFICES ASSUME NEW n \in 1..N PROVE f[n] = Shortened(f[n - 1], key[n])
      OBVIOUS
    <3>1. f[n] = step[n][f[n - 1]] /\ n - 1 \in 0..N
      BY <1>1, <1>5 DEF Built
    <3>2. f[n - 1] \in Paths
      BY <1>5, <3>1 DEF Built
    <3>3. step[n] = [path \in Paths |-> Shortened(path, key[n])]
      OBVIOUS
    <3> HIDE DEF step
    <3> QED
      BY <3>1, <3>2, <3>3
  <2> HIDE DEF N, step
  <2> QED
    BY <1>1, <1>5, <2>1 DEF Built
<1>7. Is(q)
  <2> HIDE DEF Is
  <2> QED
    BY <1>6
<1>8. Normalise(key) = q[N]
  BY DEF Normalise
<1> HIDE DEF q, N, step
<1>9. q[0] = <<>> /\ (\A n \in 1..N : q[n] = Shortened(q[n - 1], key[n])) /\ DOMAIN q = 0..N
      /\ q = [n \in 0..N |-> q[n]]
  <2>1. q = [n \in 0..N |-> IF n = 0 THEN <<>> ELSE Shortened(q[n - 1], key[n])]
    BY <1>7
  <2>2. DOMAIN q = 0..N /\ q = [n \in 0..N |-> q[n]]
    BY <2>1
  <2>3. \A n \in 0..N : q[n] = IF n = 0 THEN <<>> ELSE Shortened(q[n - 1], key[n])
    BY <2>1
  <2>4. 0 \in 0..N /\ \A n \in 1..N : n \in 0..N /\ n # 0
    BY <1>1
  <2> QED
    BY <2>2, <2>3, <2>4
<1>10. \A n \in 0..N : q[n] \in Paths
  <2>1. q[0] \in Paths
    BY <1>4, <1>9
  <2>2. ASSUME NEW n \in 1..N, q[n - 1] \in Paths PROVE q[n] \in Paths
    <3>1. key[n] \in S
      BY <1>1
    <3>2. Shortened(q[n - 1], key[n]) \in Paths
      BY <1>2, <2>2, <3>1
    <3> QED
      BY <1>9, <3>2
  <2> QED
    BY <1>1, <2>1, <2>2, StaysIn
<1>11. q \in [0..N -> Paths]
  BY <1>9, <1>10
<1> QED
  BY <1>8, <1>9, <1>11 DEF N, Paths
\* Where a key leads is found segment by segment.
LEMMA WalkSteps ==
    ASSUME NEW S, NEW key \in Seq(S), Root \in Seq(S)
    PROVE  \E path \in [0..Len(key) -> Seq(S)] :
              /\ path[0] = Root /\ \A n \in 1..Len(key) : path[n] = Entered(path[n - 1], key[n])
              /\ Walk(key) = path[Len(key)]
<1> DEFINE N == Len(key)
           Paths == Seq(S)
           step == [n \in 1..N |-> [path \in Paths |-> Entered(path, key[n])]]
           Is(path) == path = [n \in 0..N |-> IF n = 0 THEN Root ELSE Entered(path[n - 1], key[n])]
           q == CHOOSE path : Is(path)
<1>1. N \in Nat /\ \A n \in 1..N : key[n] \in S
  OBVIOUS
<1>2. ASSUME NEW path \in Paths, NEW s \in S PROVE Entered(path, s) \in Paths
  <2>1. path # <<>> => Front(path) \in Seq(S)
    BY DEF Front
  <2> QED
    BY <2>1 DEF Entered
<1>3. step \in [1..N -> [Paths -> Paths]]
  <2> HIDE DEF N, Paths
  <2> QED
    BY <1>1, <1>2
<1>4. Root \in Paths
  OBVIOUS
<1> HIDE DEF Paths
<1>5. PICK f : Built(f, N, Paths, Root, step)
  <2> HIDE DEF step, N
  <2> QED
    BY <1>1, <1>3, <1>4, StepByStep
<1>6. Is(f)
  <2>1. \A n \in 1..N : f[n] = Entered(f[n - 1], key[n])
    <3> SUFFICES ASSUME NEW n \in 1..N PROVE f[n] = Entered(f[n - 1], key[n])
      OBVIOUS
    <3>1. f[n] = step[n][f[n - 1]] /\ n - 1 \in 0..N
      BY <1>1, <1>5 DEF Built
    <3>2. f[n - 1] \in Paths
      BY <1>5, <3>1 DEF Built
    <3>3. step[n] = [path \in Paths |-> Entered(path, key[n])]
      OBVIOUS
    <3> HIDE DEF step
    <3> QED
      BY <3>1, <3>2, <3>3
  <2> HIDE DEF N, step
  <2> QED
    BY <1>1, <1>5, <2>1 DEF Built
<1>7. Is(q)
  <2> HIDE DEF Is
  <2> QED
    BY <1>6
<1>8. Walk(key) = q[N]
  BY DEF Walk
<1> HIDE DEF q, N, step
<1>9. q[0] = Root /\ (\A n \in 1..N : q[n] = Entered(q[n - 1], key[n])) /\ DOMAIN q = 0..N
      /\ q = [n \in 0..N |-> q[n]]
  <2>1. q = [n \in 0..N |-> IF n = 0 THEN Root ELSE Entered(q[n - 1], key[n])]
    BY <1>7
  <2>2. DOMAIN q = 0..N /\ q = [n \in 0..N |-> q[n]]
    BY <2>1
  <2>3. \A n \in 0..N : q[n] = IF n = 0 THEN Root ELSE Entered(q[n - 1], key[n])
    BY <2>1
  <2>4. 0 \in 0..N /\ \A n \in 1..N : n \in 0..N /\ n # 0
    BY <1>1
  <2> QED
    BY <2>2, <2>3, <2>4
<1>10. \A n \in 0..N : q[n] \in Paths
  <2>1. q[0] \in Paths
    BY <1>4, <1>9
  <2>2. ASSUME NEW n \in 1..N, q[n - 1] \in Paths PROVE q[n] \in Paths
    <3>1. key[n] \in S
      BY <1>1
    <3>2. Entered(q[n - 1], key[n]) \in Paths
      BY <1>2, <2>2, <3>1
    <3> QED
      BY <1>9, <3>2
  <2> QED
    BY <1>1, <2>1, <2>2, StaysIn
<1>11. q \in [0..N -> Paths]
  BY <1>9, <1>10
<1> QED
  BY <1>8, <1>9, <1>11 DEF N, Paths

\* A path that is normalised begins with a segment that leads up, or has none.
Upward(path) == path # <<>> /\ Head(path) = Up
Inward(path) == \A k \in 1..Len(path) : path[k] # Up

\* One segment: whatever leads up first goes on to, and what does not leads where the walk does.
LEMMA OneSegment ==
    ASSUME NEW S, NEW path \in Seq(S), NEW segment \in S, Root \in Seq(S), Upward(path) \/ Inward(path)
    PROVE  LET next == Shortened(path, segment) IN
           /\ Upward(next) \/ Inward(next)
           /\ Upward(path) => Upward(next)
           /\ Inward(path) /\ Inward(next) => Entered(Root \o path, segment) = Root \o next
<1> DEFINE next == Shortened(path, segment)
<1>1. Len(path) \in Nat /\ Len(Root) = 2
  BY DEF Root
<1>2. CASE segment \in Here
  BY <1>2 DEF Shortened, Entered
<1>3. CASE segment \notin Here /\ segment = Up /\ path # <<>> /\ Last(path) # Up
  <2>1. next = Front(path) /\ Len(path) > 0
    BY <1>3 DEF Shortened
  <2>2. Len(next) = Len(path) - 1 /\ \A k \in 1..(Len(path) - 1) : next[k] = path[k]
    <3>1. next = SubSeq(path, 1, Len(path) - 1)
      BY <2>1 DEF Front
    <3> HIDE DEF next
    <3>2. 1 \in 1..(Len(path) + 1) /\ Len(path) - 1 \in (1 - 1)..Len(path)
      BY <1>1, <2>1
    <3>3. /\ Len(next) = IF 1 <= Len(path) - 1 THEN (Len(path) - 1) - 1 + 1 ELSE 0
          /\ \A k \in 1..((Len(path) - 1) - 1 + 1) : next[k] = path[1 + k - 1]
      BY <3>1, <3>2, SubSeqProperties
    <3>4. Len(next) = Len(path) - 1
      <4> DEFINE L == Len(path)
      <4>1. L \in Nat /\ L > 0 /\ Len(next) = IF 1 <= L - 1 THEN ((L - 1) - 1) + 1 ELSE 0
        BY <1>1, <2>1, <3>3
      <4> HIDE DEF L
      <4>2. Len(next) = L - 1
        BY <4>1
      <4> QED
        BY <4>2 DEF L
    <3>5. ASSUME NEW k \in 1..(Len(path) - 1) PROVE next[k] = path[k]
      <4>1. 1 + k - 1 = k /\ k \in 1..((Len(path) - 1) - 1 + 1)
        BY <1>1
      <4> QED
        BY <3>3, <4>1
    <3> QED
      BY <3>4, <3>5
  <2>3. Upward(path) => Upward(next)
    BY <1>1, <1>3, <2>1, <2>2 DEF Upward, Last
  <2>4. Inward(path) => Inward(next)
    BY <1>1, <2>2 DEF Inward
  <2>5. Root \o path # <<>>
    <3>1. Len(Root \o path) = Len(Root) + Len(path)
      BY ConcatProperties
    <3> QED
      BY <1>1, <3>1
  <2>6. Front(Root \o path) = Root \o next
    <3> DEFINE whole == Root \o path
               whole2 == Root \o next
    <3>1. /\ whole \in Seq(S) /\ Len(whole) = 2 + Len(path)
          /\ \A k \in 1..Len(whole) : whole[k] = IF k <= 2 THEN Root[k] ELSE path[k - 2]
      <4>1. /\ whole \in Seq(S) /\ Len(whole) = Len(Root) + Len(path)
            /\ \A k \in 1..Len(Root) + Len(path) : whole[k] = IF k <= Len(Root) THEN Root[k] ELSE path[k - Len(Root)]
        BY ConcatProperties
      <4> HIDE DEF whole
      <4> QED
        BY <1>1, <4>1
    <3>2. next \in Seq(S)
      BY <1>1, <2>1 DEF Front
    <3>3. /\ whole2 \in Seq(S) /\ Len(whole2) = 1 + Len(path)
          /\ \A k \in 1..Len(whole2) : whole2[k] = IF k <= 2 THEN Root[k] ELSE next[k - 2]
      <4>1. /\ whole2 \in Seq(S) /\ Len(whole2) = Len(Root) + Len(next)
            /\ \A k \in 1..Len(Root) + Len(next) : whole2[k] = IF k <= Len(Root) THEN Root[k] ELSE next[k - Len(Root)]
        <5> HIDE DEF next
        <5> QED
          BY <3>2, ConcatProperties
      <4>2. Len(Root) + Len(next) = 1 + Len(path)
        BY <1>1, <2>2
      <4> HIDE DEF whole2, next
      <4> QED
        BY <1>1, <4>1, <4>2
    <3>4. \A k \in 1..Len(whole2) : k \in 1..Len(whole) /\ whole2[k] = whole[k]
      <4> HIDE DEF whole, whole2, next
      <4> SUFFICES ASSUME NEW k \in 1..Len(whole2) PROVE k \in 1..Len(whole) /\ whole2[k] = whole[k]
        OBVIOUS
      <4>1. k \in 1..(1 + Len(path)) /\ k \in 1..Len(whole)
        BY <1>1, <3>1, <3>3
      <4>2. whole2[k] = IF k <= 2 THEN Root[k] ELSE next[k - 2]
        BY <3>3
      <4>3. whole[k] = IF k <= 2 THEN Root[k] ELSE path[k - 2]
        BY <3>1, <4>1
      <4>4. k > 2 => k - 2 \in 1..(Len(path) - 1)
        BY <1>1, <4>1
      <4>5. k > 2 => next[k - 2] = path[k - 2]
        BY <2>2, <4>4
      <4> QED
        BY <4>1, <4>2, <4>3, <4>5
    <3> HIDE DEF whole, whole2, next
    <3> DEFINE front == SubSeq(whole, 1, Len(whole) - 1)
    <3>5. front \in Seq(S) /\ Len(front) = 1 + Len(path) /\ \A k \in 1..Len(front) : front[k] = whole[k]
      BY <1>1, <2>1, <3>1
    <3> HIDE DEF front
    <3>6. front = whole2
      BY <3>3, <3>4, <3>5, SeqEqual
    <3> QED
      BY <3>6 DEF Front, front, whole, whole2
  <2> QED
    <3>1. Entered(Root \o path, segment) = Front(Root \o path)
      BY <1>3, <2>5 DEF Entered
    <3> QED
      BY <2>3, <2>4, <2>6, <3>1
<1>4. CASE segment \notin Here /\ (segment # Up \/ path = <<>> \/ Last(path) = Up)
  <2>1. next = Append(path, segment)
    BY <1>4 DEF Shortened
  <2>2. Len(next) = Len(path) + 1 /\ next[Len(path) + 1] = segment /\ \A k \in 1..Len(path) : next[k] = path[k]
    BY <1>1, <2>1
  <2>3. Upward(path) => Upward(next)
    BY <1>1, <2>1, <2>2 DEF Upward
  <2>4. CASE segment # Up
    <3>1. Inward(path) => Inward(next)
      BY <1>1, <2>2, <2>4 DEF Inward
    <3>2. Entered(Root \o path, segment) = Append(Root \o path, segment)
      BY <1>4, <2>4 DEF Entered
    <3>3. Append(Root \o path, segment) = Root \o Append(path, segment)
      BY SMTT(30), <1>1
    <3> QED
      BY <2>1, <2>3, <3>1, <3>2, <3>3
  <2>5. CASE segment = Up
    <3>1. ~Inward(next)
      BY <1>1, <2>2, <2>5 DEF Inward
    <3>2. CASE path = <<>>
      <4>1. Len(path) = 0 /\ Head(next) = Up /\ next # <<>>
        BY <2>1, <2>5, <3>2
      <4> QED
        BY <2>3, <3>1, <4>1 DEF Upward
    <3>3. CASE path # <<>> /\ Last(path) = Up
      <4>1. ~Inward(path)
        BY <1>1, <3>3 DEF Inward, Last
      <4> QED
        BY <2>3, <3>1, <4>1
    <3> QED
      BY <1>4, <2>5, <3>2, <3>3
  <2> QED
    BY <2>4, <2>5
<1> QED
  BY <1>2, <1>3, <1>4

\* A safe key leads where its normalised path says, inside the root.
LEMMA SafeKeysLeadIn ==
    ASSUME NEW S, NEW key \in Seq(S), Root \in Seq(S), SafeKey(key)
    PROVE  Walk(key) = Root \o Normalise(key) /\ Normalise(key) \in Seq(S)
<1> DEFINE N == Len(key)
<1>1. N \in Nat /\ \A n \in 1..N : key[n] \in S
  OBVIOUS
<1>2. PICK path : /\ path \in [0..N -> Seq(S)] /\ path[0] = <<>>
                  /\ \A n \in 1..N : path[n] = Shortened(path[n - 1], key[n])
                  /\ Normalise(key) = path[N]
  BY NormaliseSteps
<1>3. PICK way : /\ way \in [0..N -> Seq(S)] /\ way[0] = Root
                 /\ \A n \in 1..N : way[n] = Entered(way[n - 1], key[n])
                 /\ Walk(key) = way[N]
  BY WalkSteps
<1> HIDE DEF N
<1> DEFINE K == {n \in 0..N : /\ Upward(path[n]) \/ Inward(path[n])
                              /\ Inward(path[n]) => way[n] = Root \o path[n]}
<1>4. 0 \in K
  <2>1. Inward(path[0]) /\ way[0] = Root \o path[0]
    <3>1. Inward(<<>>) /\ Root \o <<>> = Root
      BY DEF Inward, Root
    <3> QED
      BY <1>2, <1>3, <3>1
  <2> QED
    BY <1>1, <2>1
<1>5. ASSUME NEW n \in 1..N, n - 1 \in K PROVE n \in K
  <2>1. n \in 0..N /\ n - 1 \in 0..N /\ path[n - 1] \in Seq(S) /\ key[n] \in S
    BY <1>1, <1>2
  <2>2. path[n] = Shortened(path[n - 1], key[n]) /\ way[n] = Entered(way[n - 1], key[n])
    BY <1>2, <1>3
  <2>3. (Upward(path[n - 1]) \/ Inward(path[n - 1])) /\ (Inward(path[n - 1]) => way[n - 1] = Root \o path[n - 1])
    BY <1>5
  <2>4. /\ Upward(path[n]) \/ Inward(path[n])
        /\ Upward(path[n - 1]) => Upward(path[n])
        /\ Inward(path[n - 1]) /\ Inward(path[n]) => Entered(Root \o path[n - 1], key[n]) = Root \o path[n]
    BY SMTT(30), <2>1, <2>2, <2>3, OneSegment
  <2>5. ASSUME Inward(path[n]) PROVE ~Upward(path[n])
    <3>1. path[n] \in Seq(S)
      BY <1>2, <2>1
    <3> QED
      BY <2>5, <3>1 DEF Upward, Inward
  <2> QED
    BY <2>1, <2>2, <2>3, <2>4, <2>5
<1> HIDE DEF K
<1>6. \A n \in 1..N : n - 1 \in K => n \in K
  BY <1>5
<1>7. N \in K
  <2>1. \A n \in 0..N : n \in K
    BY <1>1, <1>4, <1>6, EveryPlace
  <2> QED
    BY <1>1, <2>1
<1>8. ~Upward(path[N])
  BY <1>2 DEF SafeKey, Upward
<1>9. path[N] \in Seq(S)
  BY <1>1, <1>2
<1> QED
  BY <1>2, <1>3, <1>7, <1>8, <1>9 DEF K

-----------------------------------------------------------------------------
\* Where the document of an upload lies; each has a place of its own.
PlaceOf(u) == Root \o MaterialKey(u)

\* Where each document is on its way, and what there is of it.
UploadTrue(u) ==
    /\ upload[u] \in {"none", "writing", "written", "failed", "done"}
    /\ removal[u] \in {"none", "gone", "done", "cascaded"}
    /\ upload[u] # "done" => rowOf[u] = NoRow /\ removal[u] = "none"
    /\ upload[u] = "done" /\ removal[u] \in {"none", "gone"} => rowOf[u] = MaterialKey(u)
    /\ removal[u] \in {"done", "cascaded"} => rowOf[u] = NoRow
    /\ removal[u] \in {"gone", "done"} => FilesAt(PlaceOf(u)) = {}
    /\ upload[u] = "none" => FilesAt(PlaceOf(u)) = {}
    /\ upload[u] \in {"written", "done"} => \A f \in FilesAt(PlaceOf(u)) : f.whole
    /\ upload[u] \in {"written", "done"} /\ removal[u] = "none" /\ losses = 0 => FilesAt(PlaceOf(u)) # {}
ReaderTrue(u) ==
    /\ reader[u] = [key |-> reader[u].key, got |-> reader[u].got]
    /\ reader[u].key = NoRow => reader[u].got = {}
    /\ reader[u].key # NoRow => upload[u] = "done" /\ reader[u].key = MaterialKey(u)
    /\ \A f \in reader[u].got : f.of = u /\ f.whole
Whereabouts(u) == UploadTrue(u) /\ ReaderTrue(u)

DisksTrue == \A f \in disk : f.of \in Uploads /\ f.path = PlaceOf(f.of)
TriedTrue == tried.path # Refused => tried.path = Walk(tried.key) /\ IsPrefix(Root, tried.path)
RefusalTrue == ~IsPrefix(Root, Walk(tried.key)) => tried.path = Refused

StorageInv ==
    /\ losses \in Nat /\ DisksTrue
    /\ DOMAIN rowOf = Uploads /\ DOMAIN upload = Uploads /\ DOMAIN removal = Uploads /\ DOMAIN reader = Uploads
    /\ \A u \in Uploads : Whereabouts(u)
    /\ TriedTrue /\ RefusalTrue

\* Sequences of up to three, one after the other.
LEMMA OneMore ==
    ASSUME NEW a, NEW b, NEW c
    PROVE  Append(<<a>>, b) = <<a, b>> /\ Append(<<a, b>>, c) = <<a, b, c>>
<1> DEFINE S == {a, b, c}
           two == <<a, b>>
           three == <<a, b, c>>
           more == Append(<<a>>, b)
           most == Append(<<a, b>>, c)
<1>1. two \in Seq(S) /\ Len(two) = 2 /\ two[1] = a /\ two[2] = b
  OBVIOUS
<1>2. three \in Seq(S) /\ Len(three) = 3 /\ three[1] = a /\ three[2] = b /\ three[3] = c
  OBVIOUS
<1>3. more \in Seq(S) /\ Len(more) = 2 /\ more[1] = a /\ more[2] = b
  <2>1. <<a>> \in Seq(S) /\ Len(<<a>>) = 1 /\ <<a>>[1] = a /\ b \in S
    OBVIOUS
  <2> QED
    BY <2>1, AppendProperties
<1>4. most \in Seq(S) /\ Len(most) = 3 /\ most[1] = a /\ most[2] = b /\ most[3] = c
  <2>1. c \in S
    OBVIOUS
  <2> QED
    BY <1>1, <2>1, AppendProperties
<1> HIDE DEF S, two, three, more, most
<1>5. \A n \in 1..Len(two) : more[n] = two[n]
  BY <1>1, <1>3
<1>6. \A n \in 1..Len(three) : most[n] = three[n]
  BY <1>2, <1>4
<1>7. more = two
  BY <1>1, <1>3, <1>5, SeqEqual
<1>8. most = three
  BY <1>2, <1>4, <1>6, SeqEqual
<1> QED
  BY <1>7, <1>8 DEF more, most, two, three

\* A key of an upload leads to its own place.
LEMMA PlacesApart ==
    /\ \A u \in Uploads : Resolve(MaterialKey(u)) = PlaceOf(u) /\ MaterialKey(u) # NoRow
    /\ \A u, v \in Uploads : PlaceOf(u) = PlaceOf(v) => u = v
<1>1. ASSUME NEW u \in Uploads PROVE Resolve(MaterialKey(u)) = PlaceOf(u) /\ MaterialKey(u) # NoRow
  <2> DEFINE S == {"materials", "project", u}
             key == MaterialKey(u)
  <2>1. key \in Seq(S) /\ Len(key) = 3 /\ key[1] = "materials" /\ key[2] = "project" /\ key[3] = u
    BY DEF MaterialKey
  <2>2. \A n \in 1..3 : key[n] \notin Here /\ key[n] # Up
    <3>1. u \notin Here /\ u # Up
      BY StorageAssumption
    <3>2. "materials" \notin Here /\ "materials" # Up /\ "project" \notin Here /\ "project" # Up
      BY DEF Here, Up
    <3> QED
      BY <2>1, <3>1, <3>2
  <2> HIDE DEF key, S
  <2>3. PICK path : /\ path \in [0..Len(key) -> Seq(S)] /\ path[0] = <<>>
                    /\ \A n \in 1..Len(key) : path[n] = Shortened(path[n - 1], key[n])
                    /\ Normalise(key) = path[Len(key)]
    BY <2>1, NormaliseSteps
  <2>4. \A n \in 1..3 : path[n] = Append(path[n - 1], key[n])
    <3>1. \A n \in 1..3 : path[n] = Shortened(path[n - 1], key[n])
      BY <2>1, <2>3
    <3> QED
      BY <2>2, <3>1 DEF Shortened
  <2>5. path[1] = <<key[1]>> /\ path[2] = <<key[1], key[2]>> /\ path[3] = <<key[1], key[2], key[3]>>
    <3>1. path[1] = Append(path[0], key[1])
      <4>1. path[1] = Append(path[1 - 1], key[1])
        BY <2>4
      <4>2. 1 - 1 = 0
        OBVIOUS
      <4> QED
        BY <4>1, <4>2
    <3>2. path[2] = Append(path[1], key[2])
      <4>1. path[2] = Append(path[2 - 1], key[2])
        BY <2>4
      <4>2. 2 - 1 = 1
        OBVIOUS
      <4> QED
        BY <4>1, <4>2
    <3>3. path[3] = Append(path[2], key[3])
      <4>1. path[3] = Append(path[3 - 1], key[3])
        BY <2>4
      <4>2. 3 - 1 = 2
        OBVIOUS
      <4> QED
        BY <4>1, <4>2
    <3>4. path[1] = <<key[1]>>
      <4>1. path[1] = Append(<<>>, key[1])
        BY <2>3, <3>1
      <4> QED
        BY <4>1
    <3>5. path[2] = <<key[1], key[2]>>
      <4>1. path[2] = Append(<<key[1]>>, key[2])
        BY <3>2, <3>4
      <4> QED
        BY <4>1, OneMore
    <3>6. path[3] = <<key[1], key[2], key[3]>>
      <4>1. path[3] = Append(<<key[1], key[2]>>, key[3])
        BY <3>3, <3>5
      <4>2. Append(<<key[1], key[2]>>, key[3]) = <<key[1], key[2], key[3]>>
        BY OneMore
      <4> QED
        BY <4>1, <4>2, Zenon
    <3> QED
      BY <3>4, <3>5, <3>6
  <2>6. key = <<key[1], key[2], key[3]>>
    BY <2>1
  <2>7. Normalise(key) = key
    BY <2>1, <2>3, <2>5, <2>6
  <2>8. SafeKey(key)
    <3>1. key # <<>> /\ Head(key) = "materials"
      <4>1. key # <<>>
        <5>1. Len(<<>>) = 0
          OBVIOUS
        <5>2. Len(key) = 3
          BY <2>1
        <5> QED
          BY <5>1, <5>2
      <4>2. Head(key) = key[1]
        BY <2>1, <4>1
      <4> QED
        BY <2>1, <4>1, <4>2
    <3>2. "materials" # "" /\ "materials" # Up
      BY DEF Up
    <3> QED
      BY <2>7, <3>1, <3>2 DEF SafeKey
  <2> QED
    <3>1. key # NoRow
      <4>1. Len(NoRow) = 0
        BY DEF NoRow
      <4> QED
        BY SMTT(30), <2>1, <4>1
    <3>2. Resolve(key) = Root \o key
      BY <2>7, <2>8 DEF Resolve
    <3> QED
      BY <3>1, <3>2 DEF PlaceOf, key
<1>2. ASSUME NEW u \in Uploads, NEW v \in Uploads, PlaceOf(u) = PlaceOf(v) PROVE u = v
  <2>1. PlaceOf(u)[5] = u /\ PlaceOf(v)[5] = v
    BY DEF PlaceOf, Root, MaterialKey
  <2> QED
    BY <1>2, <2>1
<1> QED
  BY <1>1, <1>2

\* At first there is nothing.
LEMMA StorageStarts == StorageInit => StorageInv
<1> SUFFICES ASSUME StorageInit PROVE StorageInv
  OBVIOUS
<1>1. \A u \in Uploads : Whereabouts(u)
  BY DEF StorageInit, Whereabouts, UploadTrue, ReaderTrue, FilesAt, NoRow
<1>2. TriedTrue
  BY DEF StorageInit, TriedTrue
<1>3. RefusalTrue
  BY DEF StorageInit, RefusalTrue
<1> QED
  BY <1>1, <1>2, <1>3 DEF StorageInit, StorageInv, DisksTrue

\* What a sequence begins with is a prefix of it.
LEMMA PrefixOfConcat == ASSUME NEW S, NEW s \in Seq(S), NEW t \in Seq(S) PROVE IsPrefix(s, s \o t)
<1> DEFINE whole == s \o t
<1>1. /\ whole \in Seq(S) /\ Len(whole) = Len(s) + Len(t)
      /\ \A k \in 1..Len(s) + Len(t) : whole[k] = IF k <= Len(s) THEN s[k] ELSE t[k - Len(s)]
  BY ConcatProperties
<1>2. Len(s) \in Nat /\ Len(t) \in Nat
  OBVIOUS
<1> HIDE DEF whole
<1>3. Len(s) <= Len(whole) /\ \A k \in 1..Len(s) : whole[k] = s[k]
  BY <1>1, <1>2
<1>4. SubSeq(whole, 1, Len(s)) = SubSeq(s, 1, Len(s))
  <2>1. SubSeq(s, 1, Len(s)) = s
    BY SubSeqFull
  <2>2. \A k \in 1..Len(s) : whole[k] \in S
    BY <1>3
  <2> DEFINE first == SubSeq(whole, 1, Len(s))
  <2>3. /\ first \in Seq(S) /\ Len(first) = IF 1 <= Len(s) THEN Len(s) - 1 + 1 ELSE 0
        /\ \A k \in 1..(Len(s) - 1 + 1) : first[k] = whole[1 + k - 1]
    BY <1>2, <2>2, SubSeqProperties
  <2> HIDE DEF first
  <2>4. Len(first) = Len(s)
    BY <1>2, <2>3
  <2>5. ASSUME NEW k \in 1..Len(s) PROVE first[k] = s[k]
    <3>1. 1 + k - 1 = k /\ k \in 1..(Len(s) - 1 + 1)
      BY <1>2
    <3> QED
      BY <1>3, <2>3, <3>1
  <2>6. first = s
    BY <2>3, <2>4, <2>5, SeqEqual
  <2> QED
    BY <2>1, <2>6 DEF first
<1> QED
  BY <1>3, <1>4 DEF IsPrefix, whole

\* A key is tried.
LEMMA KeyTried == StorageInv /\ TryKey => StorageInv'
<1> SUFFICES ASSUME StorageInv, TryKey PROVE StorageInv'
  OBVIOUS
<1>1. PICK key \in BoundedSeq(Segments, MaxSegments) : tried' = [key |-> key, path |-> Resolve(key)]
  BY DEF TryKey
<1>2. /\ UNCHANGED <<disk, rowOf, upload, removal, reader, losses>>
      /\ tried'.key = key /\ tried'.path = Resolve(key)
  BY <1>1 DEF TryKey
<1> DEFINE S == Segments \cup {"srv", "storage"}
<1>3. key \in Seq(S) /\ Root \in Seq(S) /\ Len(Root) = 2
  <2>1. \E m \in 0..MaxSegments : key \in [1..m -> Segments]
    BY DEF BoundedSeq, SeqOf
  <2>2. MaxSegments \in Nat
    BY StorageAssumption
  <2>3. key \in Seq(S)
    BY <2>1, <2>2
  <2> QED
    BY <2>3 DEF Root
<1> HIDE DEF S
<1>4. SafeKey(key) => Resolve(key) = Walk(key) /\ IsPrefix(Root, Walk(key))
  <2> SUFFICES ASSUME SafeKey(key) PROVE Resolve(key) = Walk(key) /\ IsPrefix(Root, Walk(key))
    OBVIOUS
  <2>1. Walk(key) = Root \o Normalise(key) /\ Normalise(key) \in Seq(S)
    BY <1>3, SafeKeysLeadIn
  <2>2. Resolve(key) = Walk(key)
    BY <2>1 DEF Resolve
  <2>3. IsPrefix(Root, Root \o Normalise(key))
    BY <1>3, <2>1, PrefixOfConcat
  <2> QED
    BY <2>1, <2>2, <2>3
<1>5. ~SafeKey(key) => Resolve(key) = Refused
  BY DEF Resolve
<1>6. TriedTrue' /\ RefusalTrue'
  <2>1. TriedTrue' <=> (tried'.path # Refused => tried'.path = Walk(tried'.key) /\ IsPrefix(Root, tried'.path))
    BY DEF TriedTrue
  <2>2. RefusalTrue' <=> (~IsPrefix(Root, Walk(tried'.key)) => tried'.path = Refused)
    BY DEF RefusalTrue
  <2> QED
    BY <1>2, <1>4, <1>5, <2>1, <2>2
<1>7. DisksTrue'
  BY <1>2 DEF StorageInv, DisksTrue
<1>8. \A u \in Uploads : Whereabouts(u)'
  BY <1>2 DEF StorageInv, Whereabouts, UploadTrue, ReaderTrue, FilesAt
<1> QED
  BY <1>2, <1>6, <1>7, <1>8 DEF StorageInv

\* A step of one upload: what it does to its own document, and no other.
LEMMA OneUpload ==
    ASSUME StorageInv, NEW u \in Uploads, UNCHANGED tried,
           losses' \in Nat, losses' >= losses,
           DisksTrue',
           \A v \in Uploads : v # u => FilesAt(PlaceOf(v))' = FilesAt(PlaceOf(v)),
           /\ DOMAIN rowOf' = Uploads /\ DOMAIN upload' = Uploads /\ DOMAIN removal' = Uploads
           /\ DOMAIN reader' = Uploads,
           \A v \in Uploads : v # u =>
               /\ rowOf'[v] = rowOf[v] /\ upload'[v] = upload[v] /\ removal'[v] = removal[v]
               /\ reader'[v] = reader[v],
           Whereabouts(u)'
    PROVE  StorageInv'
<1>1. TriedTrue' /\ RefusalTrue'
  BY DEF StorageInv, TriedTrue, RefusalTrue
<1>2. \A v \in Uploads : Whereabouts(v)'
  <2> SUFFICES ASSUME NEW v \in Uploads, v # u PROVE Whereabouts(v)'
    OBVIOUS
  <2>1. losses' = 0 => losses = 0
    BY DEF StorageInv
  <2>2. Whereabouts(v)
    BY DEF StorageInv
  <2>3. rowOf'[v] = rowOf[v] /\ upload'[v] = upload[v] /\ removal'[v] = removal[v] /\ reader'[v] = reader[v]
    OBVIOUS
  <2>4. FilesAt(PlaceOf(v))' = FilesAt(PlaceOf(v))
    OBVIOUS
  <2>5. UploadTrue(v)'
    BY <2>1, <2>2, <2>3, <2>4 DEF Whereabouts, UploadTrue
  <2>6. ReaderTrue(v)'
    BY <2>2, <2>3 DEF Whereabouts, ReaderTrue
  <2> QED
    BY <2>5, <2>6 DEF Whereabouts
<1> QED
  BY <1>1, <1>2 DEF StorageInv

\* What changes of the files at the place of one upload changes nowhere else.
LEMMA ElsewhereUntouched ==
    ASSUME StorageInv, NEW u \in Uploads, NEW whole \in BOOLEAN
    PROVE  LET put == Written(PlaceOf(u), u, whole)
               gone == disk \ FilesAt(PlaceOf(u))
           IN  /\ \A f \in put \cup gone : f.of \in Uploads /\ f.path = PlaceOf(f.of)
               /\ \A v \in Uploads : v # u =>
                     /\ {f \in put : f.path = PlaceOf(v)} = FilesAt(PlaceOf(v))
                     /\ {f \in gone : f.path = PlaceOf(v)} = FilesAt(PlaceOf(v))
               /\ {f \in put : f.path = PlaceOf(u)} = {[path |-> PlaceOf(u), of |-> u, whole |-> whole]}
               /\ {f \in gone : f.path = PlaceOf(u)} = {}
<1> DEFINE put == Written(PlaceOf(u), u, whole)
           gone == disk \ FilesAt(PlaceOf(u))
           new == [path |-> PlaceOf(u), of |-> u, whole |-> whole]
<1>1. new.of = u /\ new.path = PlaceOf(u)
  OBVIOUS
<1>2. put = gone \cup {new}
  BY DEF Written
<1>3. \A f : f \in gone <=> f \in disk /\ f.path # PlaceOf(u)
  BY DEF FilesAt
<1>4. DisksTrue
  BY DEF StorageInv
<1>5. \A v \in Uploads : v # u => PlaceOf(v) # PlaceOf(u)
  BY PlacesApart
<1> HIDE DEF put, gone, new
<1>6. \A f \in put \cup gone : f.of \in Uploads /\ f.path = PlaceOf(f.of)
  BY <1>1, <1>2, <1>3, <1>4 DEF DisksTrue
<1>7. ASSUME NEW v \in Uploads, v # u
      PROVE  /\ {f \in put : f.path = PlaceOf(v)} = FilesAt(PlaceOf(v))
             /\ {f \in gone : f.path = PlaceOf(v)} = FilesAt(PlaceOf(v))
  BY <1>1, <1>2, <1>3, <1>5, <1>7 DEF FilesAt
<1>8. {f \in put : f.path = PlaceOf(u)} = {new} /\ {f \in gone : f.path = PlaceOf(u)} = {}
  BY <1>1, <1>2, <1>3
<1> QED
  BY <1>6, <1>7, <1>8 DEF put, gone, new

\* A file is begun, ...
LEMMA FileBegun == ASSUME NEW u \in Uploads, StorageInv, BeginPut(u), tried.key = <<>> PROVE StorageInv'
<1>1. /\ upload[u] = "none" /\ disk' = Written(PlaceOf(u), u, FALSE)
      /\ upload' = [upload EXCEPT ![u] = "writing"]
      /\ UNCHANGED <<rowOf, removal, reader, tried, losses>>
  BY PlacesApart DEF BeginPut
<1>2. Whereabouts(u)
  BY DEF StorageInv
<1>3. /\ DisksTrue'
      /\ \A v \in Uploads : v # u => FilesAt(PlaceOf(v))' = FilesAt(PlaceOf(v))
  BY <1>1, ElsewhereUntouched DEF DisksTrue, FilesAt
<1>4. upload'[u] = "writing" /\ \A v \in Uploads : v # u => upload'[v] = upload[v]
  BY <1>1 DEF StorageInv
<1>5. Whereabouts(u)'
  <2>1. UploadTrue(u)'
    BY <1>1, <1>2, <1>4 DEF Whereabouts, UploadTrue
  <2>2. ReaderTrue(u)'
    BY <1>1, <1>2, <1>4 DEF Whereabouts, ReaderTrue
  <2> QED
    BY <2>1, <2>2 DEF Whereabouts
<1>6. losses' \in Nat /\ losses' >= losses /\ DOMAIN upload' = Uploads
  BY <1>1 DEF StorageInv
<1> QED
  BY <1>1, <1>3, <1>4, <1>5, <1>6, OneUpload DEF StorageInv

\* ... and finished, or not.
LEMMA FileEnded == ASSUME NEW u \in Uploads, StorageInv, EndPut(u), tried.key = <<>> PROVE StorageInv'
<1>1. PICK well \in BOOLEAN :
          /\ Loses(~well)
          /\ disk' = IF well THEN Written(PlaceOf(u), u, TRUE) ELSE disk
          /\ upload' = [upload EXCEPT ![u] = IF well THEN "written" ELSE "failed"]
  BY PlacesApart DEF EndPut
<1>2. upload[u] = "writing" /\ UNCHANGED <<rowOf, removal, reader, tried>>
  BY DEF EndPut
<1>3. Whereabouts(u)
  BY DEF StorageInv
<1>4. losses' \in Nat /\ losses' >= losses /\ DOMAIN upload' = Uploads /\ (~well => losses' # 0)
  BY <1>1 DEF StorageInv, Loses
<1>5. \A v \in Uploads : v # u => upload'[v] = upload[v]
  BY <1>1 DEF StorageInv
<1>6. /\ DisksTrue'
      /\ \A v \in Uploads : v # u => FilesAt(PlaceOf(v))' = FilesAt(PlaceOf(v))
      /\ well => FilesAt(PlaceOf(u))' = {[path |-> PlaceOf(u), of |-> u, whole |-> TRUE]}
  <2>1. CASE well
    BY <1>1, <2>1, ElsewhereUntouched DEF DisksTrue, FilesAt
  <2>2. CASE ~well
    BY <1>1, <2>2 DEF StorageInv, DisksTrue, FilesAt
  <2> QED
    BY <2>1, <2>2
<1>7. Whereabouts(u)'
  <2>1. CASE well
    <3>1. upload'[u] = "written"
      BY <1>1, <2>1 DEF StorageInv
    <3>2. \A f \in FilesAt(PlaceOf(u))' : f.whole
      BY <1>6, <2>1
    <3>3. FilesAt(PlaceOf(u))' # {}
      BY <1>6, <2>1
    <3>4. UploadTrue(u)'
      BY <1>2, <1>3, <3>1, <3>2, <3>3 DEF Whereabouts, UploadTrue
    <3>5. ReaderTrue(u)'
      BY <1>2, <1>3, <3>1 DEF Whereabouts, ReaderTrue
    <3> QED
      BY <3>4, <3>5 DEF Whereabouts
  <2>2. CASE ~well
    <3>1. upload'[u] = "failed"
      BY <1>1, <2>2 DEF StorageInv
    <3>2. UploadTrue(u)'
      BY <1>2, <1>3, <3>1 DEF Whereabouts, UploadTrue
    <3>3. ReaderTrue(u)'
      BY <1>2, <1>3, <3>1 DEF Whereabouts, ReaderTrue
    <3> QED
      BY <3>2, <3>3 DEF Whereabouts
  <2> QED
    BY <2>1, <2>2
<1> QED
  BY <1>2, <1>4, <1>5, <1>6, <1>7, OneUpload DEF StorageInv

\* The row is made, or not.
LEMMA RowMade == ASSUME NEW u \in Uploads, StorageInv, CreateRow(u), tried.key = <<>> PROVE StorageInv'
<1>1. PICK well \in BOOLEAN :
          /\ Loses(~well)
          /\ rowOf' = IF well THEN [rowOf EXCEPT ![u] = MaterialKey(u)] ELSE rowOf
          /\ upload' = [upload EXCEPT ![u] = IF well THEN "done" ELSE "failed"]
  BY DEF CreateRow
<1>2. upload[u] = "written" /\ UNCHANGED <<disk, removal, reader, tried>>
  BY DEF CreateRow
<1>3. Whereabouts(u)
  BY DEF StorageInv
<1>4. /\ losses' \in Nat /\ losses' >= losses /\ (losses' = 0 => losses = 0)
      /\ DOMAIN upload' = Uploads /\ DOMAIN rowOf' = Uploads
  BY <1>1 DEF StorageInv, Loses
<1>5. \A v \in Uploads : v # u => upload'[v] = upload[v] /\ rowOf'[v] = rowOf[v]
  BY <1>1 DEF StorageInv
<1>6. DisksTrue' /\ \A v \in Uploads : FilesAt(PlaceOf(v))' = FilesAt(PlaceOf(v))
  BY <1>2 DEF StorageInv, DisksTrue, FilesAt
<1>7. Whereabouts(u)'
  <2>1. CASE well
    <3>1. upload'[u] = "done" /\ rowOf'[u] = MaterialKey(u)
      BY <1>1, <2>1 DEF StorageInv
    <3>2. UploadTrue(u)'
      BY <1>2, <1>3, <1>4, <1>6, <3>1 DEF Whereabouts, UploadTrue
    <3>3. ReaderTrue(u)'
      BY <1>2, <1>3, <3>1 DEF Whereabouts, ReaderTrue
    <3> QED
      BY <3>2, <3>3 DEF Whereabouts
  <2>2. CASE ~well
    <3>1. upload'[u] = "failed" /\ rowOf'[u] = rowOf[u]
      BY <1>1, <2>2 DEF StorageInv
    <3>2. UploadTrue(u)'
      BY <1>2, <1>3, <1>6, <3>1 DEF Whereabouts, UploadTrue
    <3>3. ReaderTrue(u)'
      BY <1>2, <1>3, <3>1 DEF Whereabouts, ReaderTrue
    <3> QED
      BY <3>2, <3>3 DEF Whereabouts
  <2> QED
    BY <2>1, <2>2
<1> QED
  BY <1>2, <1>4, <1>5, <1>6, <1>7, OneUpload DEF StorageInv

\* A row that is there has the key of its upload.
LEMMA RowsLeadHome ==
    ASSUME StorageInv, NEW u \in Uploads
    PROVE  /\ rowOf[u] # NoRow => upload[u] = "done" /\ rowOf[u] = MaterialKey(u) /\ Resolve(rowOf[u]) = PlaceOf(u)
           /\ removal[u] = "none" /\ upload[u] = "done" => rowOf[u] # NoRow
<1>1. Whereabouts(u)
  BY DEF StorageInv
<1>2. Resolve(MaterialKey(u)) = PlaceOf(u) /\ MaterialKey(u) # NoRow
  BY PlacesApart
<1> QED
  BY <1>1, <1>2 DEF Whereabouts, UploadTrue

\* The file goes, ...
LEMMA FileGone == ASSUME NEW u \in Uploads, StorageInv, DeleteFile(u), tried.key = <<>> PROVE StorageInv'
<1>1. /\ rowOf[u] # NoRow /\ removal[u] = "none"
      /\ disk' = disk \ FilesAt(PlaceOf(u))
      /\ removal' = [removal EXCEPT ![u] = "gone"]
      /\ UNCHANGED <<rowOf, upload, reader, tried, losses>>
  BY RowsLeadHome DEF DeleteFile
<1>2. Whereabouts(u) /\ upload[u] = "done"
  BY <1>1, RowsLeadHome DEF StorageInv
<1>3. /\ DisksTrue'
      /\ \A v \in Uploads : v # u => FilesAt(PlaceOf(v))' = FilesAt(PlaceOf(v))
      /\ FilesAt(PlaceOf(u))' = {}
  BY <1>1, ElsewhereUntouched DEF DisksTrue, FilesAt
<1>4. removal'[u] = "gone" /\ \A v \in Uploads : v # u => removal'[v] = removal[v]
  BY <1>1 DEF StorageInv
<1>5. Whereabouts(u)'
  <2>1. UploadTrue(u)'
    BY <1>1, <1>2, <1>3, <1>4 DEF Whereabouts, UploadTrue
  <2>2. ReaderTrue(u)'
    BY <1>1, <1>2 DEF Whereabouts, ReaderTrue
  <2> QED
    BY <2>1, <2>2 DEF Whereabouts
<1>6. losses' \in Nat /\ losses' >= losses /\ DOMAIN removal' = Uploads
  BY <1>1 DEF StorageInv
<1> QED
  BY <1>1, <1>3, <1>4, <1>5, <1>6, OneUpload DEF StorageInv

\* ... and the row, or not; ...
LEMMA RowGone == ASSUME NEW u \in Uploads, StorageInv, DeleteRow(u), tried.key = <<>> PROVE StorageInv'
<1>1. PICK well \in BOOLEAN :
          /\ Loses(~well)
          /\ rowOf' = IF well THEN [rowOf EXCEPT ![u] = NoRow] ELSE rowOf
          /\ removal' = [removal EXCEPT ![u] = IF well THEN "done" ELSE "none"]
  BY DEF DeleteRow
<1>2. removal[u] = "gone" /\ UNCHANGED <<disk, upload, reader, tried>>
  BY DEF DeleteRow
<1>3. Whereabouts(u)
  BY DEF StorageInv
<1>4. /\ losses' \in Nat /\ losses' >= losses /\ (losses' = 0 => losses = 0) /\ (~well => losses' # 0)
      /\ DOMAIN removal' = Uploads /\ DOMAIN rowOf' = Uploads
  BY <1>1 DEF StorageInv, Loses
<1>5. \A v \in Uploads : v # u => removal'[v] = removal[v] /\ rowOf'[v] = rowOf[v]
  BY <1>1 DEF StorageInv
<1>6. DisksTrue' /\ \A v \in Uploads : FilesAt(PlaceOf(v))' = FilesAt(PlaceOf(v))
  BY <1>2 DEF StorageInv, DisksTrue, FilesAt
<1>7. Whereabouts(u)'
  <2>1. CASE well
    <3>1. removal'[u] = "done" /\ rowOf'[u] = NoRow
      BY <1>1, <2>1 DEF StorageInv
    <3>2. UploadTrue(u)'
      BY <1>2, <1>3, <1>4, <1>6, <3>1 DEF Whereabouts, UploadTrue
    <3>3. ReaderTrue(u)'
      BY <1>2, <1>3 DEF Whereabouts, ReaderTrue
    <3> QED
      BY <3>2, <3>3 DEF Whereabouts
  <2>2. CASE ~well
    <3>1. removal'[u] = "none" /\ rowOf'[u] = rowOf[u]
      BY <1>1, <2>2 DEF StorageInv
    <3>2. losses' # 0
      BY <1>4, <2>2
    <3>3. UploadTrue(u)'
      BY <1>2, <1>3, <1>6, <3>1, <3>2 DEF Whereabouts, UploadTrue
    <3>4. ReaderTrue(u)'
      BY <1>2, <1>3 DEF Whereabouts, ReaderTrue
    <3> QED
      BY <3>3, <3>4 DEF Whereabouts
  <2> QED
    BY <2>1, <2>2
<1> QED
  BY <1>2, <1>4, <1>5, <1>6, <1>7, OneUpload DEF StorageInv

\* ... or it goes by cascade, and the file stays.
LEMMA RowCascaded == ASSUME NEW u \in Uploads, StorageInv, CascadeToRow(u), tried.key = <<>> PROVE StorageInv'
<1>1. /\ rowOf[u] # NoRow /\ removal[u] = "none"
      /\ rowOf' = [rowOf EXCEPT ![u] = NoRow]
      /\ removal' = [removal EXCEPT ![u] = "cascaded"]
      /\ UNCHANGED <<disk, upload, reader, tried, losses>>
  BY DEF CascadeToRow
<1>2. Whereabouts(u) /\ upload[u] = "done"
  BY <1>1, RowsLeadHome DEF StorageInv
<1>3. DisksTrue' /\ \A v \in Uploads : FilesAt(PlaceOf(v))' = FilesAt(PlaceOf(v))
  BY <1>1 DEF StorageInv, DisksTrue, FilesAt
<1>4. /\ removal'[u] = "cascaded" /\ rowOf'[u] = NoRow
      /\ \A v \in Uploads : v # u => removal'[v] = removal[v] /\ rowOf'[v] = rowOf[v]
  BY <1>1 DEF StorageInv
<1>5. Whereabouts(u)'
  <2>1. UploadTrue(u)'
    BY <1>1, <1>2, <1>3, <1>4 DEF Whereabouts, UploadTrue
  <2>2. ReaderTrue(u)'
    BY <1>1, <1>2 DEF Whereabouts, ReaderTrue
  <2> QED
    BY <2>1, <2>2 DEF Whereabouts
<1>6. losses' \in Nat /\ losses' >= losses /\ DOMAIN removal' = Uploads /\ DOMAIN rowOf' = Uploads
  BY <1>1 DEF StorageInv
<1> QED
  BY <1>1, <1>3, <1>4, <1>5, <1>6, OneUpload DEF StorageInv

\* Reading: the key is looked up, ...
LEMMA KeyLookedUp == ASSUME NEW u \in Uploads, StorageInv, LookUp(u), tried.key = <<>> PROVE StorageInv'
<1>1. /\ rowOf[u] # NoRow
      /\ reader' = [reader EXCEPT ![u] = [key |-> rowOf[u], got |-> {}]]
      /\ UNCHANGED <<disk, rowOf, upload, removal, tried, losses>>
  BY DEF LookUp
<1>2. Whereabouts(u) /\ upload[u] = "done" /\ rowOf[u] = MaterialKey(u)
  BY <1>1, RowsLeadHome DEF StorageInv
<1>3. DisksTrue' /\ \A v \in Uploads : FilesAt(PlaceOf(v))' = FilesAt(PlaceOf(v))
  BY <1>1 DEF StorageInv, DisksTrue, FilesAt
<1>4. /\ reader'[u] = [key |-> rowOf[u], got |-> {}]
      /\ \A v \in Uploads : v # u => reader'[v] = reader[v]
  BY <1>1 DEF StorageInv
<1>5. Whereabouts(u)'
  <2>1. UploadTrue(u)'
    BY <1>1, <1>2, <1>3 DEF Whereabouts, UploadTrue
  <2>2. ReaderTrue(u)'
    <3>1. reader'[u].key = MaterialKey(u) /\ reader'[u].got = {} /\ upload'[u] = "done"
      BY <1>1, <1>2, <1>4
    <3>2. reader'[u] = [key |-> reader'[u].key, got |-> reader'[u].got]
      BY <1>4
    <3> QED
      BY <3>1, <3>2, PlacesApart DEF ReaderTrue
  <2> QED
    BY <2>1, <2>2 DEF Whereabouts
<1>6. losses' \in Nat /\ losses' >= losses /\ DOMAIN reader' = Uploads
  BY <1>1 DEF StorageInv
<1> QED
  BY <1>1, <1>3, <1>4, <1>5, <1>6, OneUpload DEF StorageInv

\* ... and the document is read.
LEMMA DocumentRead == ASSUME NEW u \in Uploads, StorageInv, ReadDocument(u), tried.key = <<>> PROVE StorageInv'
<1>1. Whereabouts(u)
  BY DEF StorageInv
<1>2. reader[u].key # NoRow /\ upload[u] = "done" /\ Resolve(reader[u].key) = PlaceOf(u)
  BY <1>1, PlacesApart DEF ReadDocument, Whereabouts, ReaderTrue
<1>3. /\ reader' = [reader EXCEPT ![u].got = FilesAt(PlaceOf(u))]
      /\ UNCHANGED <<disk, rowOf, upload, removal, tried, losses>>
  BY <1>2 DEF ReadDocument
<1>4. DisksTrue' /\ \A v \in Uploads : FilesAt(PlaceOf(v))' = FilesAt(PlaceOf(v))
  BY <1>3 DEF StorageInv, DisksTrue, FilesAt
<1>5. reader[u] = [key |-> reader[u].key, got |-> reader[u].got]
  BY <1>1 DEF Whereabouts, ReaderTrue
<1>6. /\ reader'[u] = [reader[u] EXCEPT !.got = FilesAt(PlaceOf(u))]
      /\ \A v \in Uploads : v # u => reader'[v] = reader[v]
  BY <1>3 DEF StorageInv
<1>7. reader'[u] = [key |-> reader[u].key, got |-> FilesAt(PlaceOf(u))]
  BY <1>5, <1>6
<1>8. \A f \in FilesAt(PlaceOf(u)) : f.of = u /\ f.whole
  <2>1. \A f \in FilesAt(PlaceOf(u)) : f.of = u
    BY PlacesApart DEF StorageInv, DisksTrue, FilesAt
  <2> QED
    BY <1>1, <1>2, <2>1 DEF Whereabouts, UploadTrue
<1>9. Whereabouts(u)'
  <2>1. UploadTrue(u)'
    BY <1>1, <1>3, <1>4 DEF Whereabouts, UploadTrue
  <2>2. ReaderTrue(u)'
    <3>1. reader'[u].key = reader[u].key /\ reader'[u].got = FilesAt(PlaceOf(u)) /\ upload'[u] = "done"
      BY <1>2, <1>3, <1>7
    <3>2. reader'[u] = [key |-> reader'[u].key, got |-> reader'[u].got]
      BY <1>7
    <3>3. reader[u].key = MaterialKey(u)
      BY <1>1, <1>2 DEF Whereabouts, ReaderTrue
    <3> QED
      BY <1>2, <1>8, <3>1, <3>2, <3>3 DEF ReaderTrue
  <2> QED
    BY <2>1, <2>2 DEF Whereabouts
<1>10. losses' \in Nat /\ losses' >= losses /\ DOMAIN reader' = Uploads
  BY <1>3 DEF StorageInv
<1> QED
  BY <1>3, <1>4, <1>6, <1>9, <1>10, OneUpload DEF StorageInv

\* Every step of the storage.
LEMMA StorageMoves == StorageInv /\ [StorageNext]_storageVars => StorageInv'
<1> SUFFICES ASSUME StorageInv, [StorageNext]_storageVars PROVE StorageInv'
  OBVIOUS
<1>1. CASE TryKey
  BY <1>1, KeyTried
<1>2. ASSUME NEW u \in Uploads, tried.key = <<>>,
             \/ BeginPut(u) \/ EndPut(u) \/ CreateRow(u)
             \/ DeleteFile(u) \/ DeleteRow(u) \/ CascadeToRow(u)
             \/ LookUp(u) \/ ReadDocument(u)
      PROVE  StorageInv'
  BY <1>2, FileBegun, FileEnded, RowMade, FileGone, RowGone, RowCascaded, KeyLookedUp, DocumentRead
<1>3. CASE UNCHANGED storageVars
  BY <1>3 DEF storageVars, StorageInv, DisksTrue, Whereabouts, UploadTrue, ReaderTrue, FilesAt, TriedTrue, RefusalTrue
<1> QED
  BY <1>1, <1>2, <1>3 DEF StorageNext

\* What the invariant says of documents and keys.
LEMMA StorageMeans == StorageInv => DocumentsKept
<1> SUFFICES ASSUME StorageInv PROVE DocumentsKept
  OBVIOUS
<1>1. KeysContained
  BY DEF StorageInv, TriedTrue, RefusalTrue, KeysContained
<1>2. ASSUME NEW u \in Uploads, NEW f \in FilesAt(PlaceOf(u)) PROVE f.of = u
  <2>1. f \in disk /\ f.path = PlaceOf(u)
    BY DEF FilesAt
  <2>2. f.of \in Uploads /\ f.path = PlaceOf(f.of)
    BY <2>1 DEF StorageInv, DisksTrue
  <2> QED
    BY <2>1, <2>2, PlacesApart
<1>3. DocumentsWhole
  <2> SUFFICES ASSUME NEW u \in Uploads
               PROVE  /\ rowOf[u] # NoRow /\ FilesAt(Resolve(rowOf[u])) = {} =>
                            removal[u] = "gone" \/ losses > 0
                      /\ rowOf[u] # NoRow => \A f \in FilesAt(Resolve(rowOf[u])) : f.of = u /\ f.whole
                      /\ \A f \in reader[u].got : f.of = u /\ f.whole
    BY DEF DocumentsWhole
  <2>1. Whereabouts(u) /\ losses \in Nat
    BY DEF StorageInv
  <2>2. rowOf[u] # NoRow => upload[u] = "done" /\ Resolve(rowOf[u]) = PlaceOf(u)
    BY RowsLeadHome
  <2>3. ASSUME rowOf[u] # NoRow, FilesAt(PlaceOf(u)) = {} PROVE removal[u] = "gone" \/ losses > 0
    <3>1. upload[u] = "done"
      BY <2>2, <2>3
    <3>2. removal[u] \in {"none", "gone"}
      BY <2>1, <2>3 DEF Whereabouts, UploadTrue
    <3>3. losses # 0 \/ removal[u] # "none"
      BY <2>1, <2>3, <3>1 DEF Whereabouts, UploadTrue
    <3>4. losses # 0 => losses > 0
      BY <2>1
    <3> QED
      BY <3>2, <3>3, <3>4
  <2>4. ASSUME rowOf[u] # NoRow, NEW f \in FilesAt(PlaceOf(u)) PROVE f.of = u /\ f.whole
    BY <1>2, <2>1, <2>2, <2>4 DEF Whereabouts, UploadTrue
  <2>5. \A f \in reader[u].got : f.of = u /\ f.whole
    BY <2>1 DEF Whereabouts, ReaderTrue
  <2> QED
    BY <2>2, <2>3, <2>4, <2>5
<1>4. NoOtherOrphans
  <2> SUFFICES ASSUME NEW f \in disk, \A u \in Uploads : rowOf[u] = NoRow \/ Resolve(rowOf[u]) # f.path
               PROVE  upload[f.of] \in {"writing", "written", "failed"} \/ removal[f.of] = "cascaded"
    BY DEF NoOtherOrphans
  <2> DEFINE u == f.of
  <2>1. u \in Uploads /\ f \in FilesAt(PlaceOf(u)) /\ f.path = PlaceOf(u)
    BY DEF StorageInv, DisksTrue, FilesAt
  <2>2. Whereabouts(u)
    BY <2>1 DEF StorageInv
  <2>3. rowOf[u] = NoRow
    BY <2>1, RowsLeadHome
  <2> HIDE DEF u
  <2>4. upload[u] # "none" /\ removal[u] \notin {"gone", "done"}
    BY <2>1, <2>2 DEF Whereabouts, UploadTrue
  <2>5. ~(upload[u] = "done" /\ removal[u] = "none")
    BY <2>1, <2>3, RowsLeadHome
  <2> QED
    BY <2>2, <2>4, <2>5 DEF Whereabouts, UploadTrue, u
<1> QED
  BY <1>1, <1>3, <1>4 DEF DocumentsKept

-----------------------------------------------------------------------------
(* Reading *)

\* The sum of some numbers is made number by number.
LEMMA SumSteps ==
    ASSUME NEW numbers \in Seq(Nat)
    PROVE  \E sum \in [0..Len(numbers) -> Nat] :
              /\ sum[0] = 0 /\ \A n \in 1..Len(numbers) : sum[n] = sum[n - 1] + numbers[n]
              /\ SumOf(numbers) = sum[Len(numbers)]
<1> DEFINE N == Len(numbers)
           step == [n \in 1..N |-> [total \in Nat |-> total + numbers[n]]]
           Is(sum) == sum = [n \in 0..N |-> IF n = 0 THEN 0 ELSE sum[n - 1] + numbers[n]]
           q == CHOOSE sum : Is(sum)
<1>1. N \in Nat /\ \A n \in 1..N : numbers[n] \in Nat
  OBVIOUS
<1>3. step \in [1..N -> [Nat -> Nat]]
  <2> HIDE DEF N
  <2> QED
    BY <1>1
<1>5. PICK f : Built(f, N, Nat, 0, step)
  <2> HIDE DEF step, N
  <2> QED
    BY <1>1, <1>3, StepByStep
<1>6. Is(f)
  <2>1. \A n \in 1..N : f[n] = f[n - 1] + numbers[n]
    <3> SUFFICES ASSUME NEW n \in 1..N PROVE f[n] = f[n - 1] + numbers[n]
      OBVIOUS
    <3>3. step[n] = [total \in Nat |-> total + numbers[n]]
      OBVIOUS
    <3> HIDE DEF step, N
    <3>1. f[n] = step[n][f[n - 1]] /\ n - 1 \in 0..N
      BY <1>1, <1>5 DEF Built
    <3>2. f[n - 1] \in Nat
      <4>1. f \in [0..N -> Nat]
        BY <1>5 DEF Built
      <4> QED
        BY <3>1, <4>1
    <3> QED
      BY <3>1, <3>2, <3>3
  <2> HIDE DEF N, step
  <2> QED
    BY <1>1, <1>5, <2>1 DEF Built
<1>7. Is(q)
  <2> HIDE DEF Is
  <2> QED
    BY <1>6
<1>8. SumOf(numbers) = q[N]
  BY DEF SumOf
<1> HIDE DEF q, N, step
<1>9. q[0] = 0 /\ (\A n \in 1..N : q[n] = q[n - 1] + numbers[n]) /\ DOMAIN q = 0..N
      /\ q = [n \in 0..N |-> q[n]]
  <2>1. q = [n \in 0..N |-> IF n = 0 THEN 0 ELSE q[n - 1] + numbers[n]]
    BY <1>7
  <2>2. DOMAIN q = 0..N /\ q = [n \in 0..N |-> q[n]]
    BY <2>1
  <2>3. \A n \in 0..N : q[n] = IF n = 0 THEN 0 ELSE q[n - 1] + numbers[n]
    BY <2>1
  <2>4. 0 \in 0..N /\ \A n \in 1..N : n \in 0..N /\ n # 0
    BY <1>1
  <2> QED
    BY <2>2, <2>3, <2>4
<1>10. \A n \in 0..N : q[n] \in Nat
  <2>1. q[0] \in Nat
    BY <1>9
  <2>2. ASSUME NEW n \in 1..N, q[n - 1] \in Nat PROVE q[n] \in Nat
    <3>1. numbers[n] \in Nat
      BY <1>1
    <3>2. q[n] = q[n - 1] + numbers[n]
      BY <1>9
    <3> QED
      BY <2>2, <3>1, <3>2
  <2> QED
    BY <1>1, <2>1, <2>2, StaysIn
<1>11. q \in [0..N -> Nat]
  BY <1>9, <1>10
<1> QED
  BY <1>8, <1>9, <1>11 DEF N

\* A sum of natural numbers is one, and one more number adds to it.
LEMMA SumFacts ==
    /\ \A numbers \in Seq(Nat) : SumOf(numbers) \in Nat
    /\ SumOf(<<>>) = 0
    /\ \A numbers \in Seq(Nat), x \in Nat : SumOf(Append(numbers, x)) = SumOf(numbers) + x
<1>1. ASSUME NEW numbers \in Seq(Nat) PROVE SumOf(numbers) \in Nat
  <2>1. PICK sum \in [0..Len(numbers) -> Nat] : SumOf(numbers) = sum[Len(numbers)]
    BY SumSteps
  <2>2. Len(numbers) \in 0..Len(numbers)
    OBVIOUS
  <2> QED
    BY <2>1, <2>2
<1>2. SumOf(<<>>) = 0
  <2>1. <<>> \in Seq(Nat) /\ Len(<<>>) = 0
    OBVIOUS
  <2>2. PICK sum \in [0..Len(<<>>) -> Nat] : sum[0] = 0 /\ SumOf(<<>>) = sum[Len(<<>>)]
    BY <2>1, SumSteps
  <2> QED
    BY <2>1, <2>2
<1>3. ASSUME NEW numbers \in Seq(Nat), NEW x \in Nat
      PROVE  SumOf(Append(numbers, x)) = SumOf(numbers) + x
  <2> DEFINE more == Append(numbers, x)
             N == Len(numbers)
  <2>1. /\ more \in Seq(Nat) /\ Len(more) = N + 1 /\ more[N + 1] = x
        /\ \A n \in 1..N : more[n] = numbers[n]
    BY AppendProperties
  <2>2. PICK sum \in [0..N -> Nat] :
              /\ sum[0] = 0 /\ \A n \in 1..N : sum[n] = sum[n - 1] + numbers[n]
              /\ SumOf(numbers) = sum[N]
    BY SumSteps
  <2>3. N \in Nat
    OBVIOUS
  <2> HIDE DEF more, N
  <2>4. PICK total \in [0..(N + 1) -> Nat] :
              /\ total[0] = 0 /\ \A n \in 1..(N + 1) : total[n] = total[n - 1] + more[n]
              /\ SumOf(more) = total[N + 1]
    BY <2>1, SumSteps
  <2> DEFINE K == {n \in 0..N : total[n] = sum[n]}
  <2>5. 0 \in K
    BY <2>2, <2>3, <2>4
  <2>6. \A n \in 1..N : n - 1 \in K => n \in K
    <3> SUFFICES ASSUME NEW n \in 1..N, n - 1 \in K PROVE n \in K
      OBVIOUS
    <3>1. n \in 1..(N + 1) /\ n \in 0..N
      BY <2>3
    <3>2. total[n] = total[n - 1] + more[n] /\ sum[n] = sum[n - 1] + numbers[n] /\ more[n] = numbers[n]
      BY <2>1, <2>2, <2>4, <3>1
    <3>3. total[n] = sum[n]
      BY <3>2
    <3> QED
      BY <3>1, <3>3
  <2> HIDE DEF K
  <2>7. N \in K
    <3>1. \A n \in 0..N : n \in K
      BY <2>3, <2>5, <2>6, EveryPlace
    <3> QED
      BY <2>3, <3>1
  <2>8. total[N] = sum[N]
    BY <2>7 DEF K
  <2>9. total[N + 1] = total[N] + more[N + 1]
    <3>1. N + 1 \in 1..(N + 1) /\ (N + 1) - 1 = N
      BY <2>3
    <3> QED
      BY <2>4, <3>1
  <2> QED
    BY <2>1, <2>2, <2>4, <2>8, <2>9 DEF more
<1> QED
  BY <1>1, <1>2, <1>3

\* The length of a text is a number.
LEMMA LengthsTrue == \A text \in Seq(Nat) : TextLength(text) \in Nat
<1> SUFFICES ASSUME NEW text \in Seq(Nat) PROVE TextLength(text) \in Nat
  OBVIOUS
<1> DEFINE lengths == [i \in DOMAIN text |-> LengthOf(text[i])]
<1>1. lengths \in Seq(Nat)
  <2>1. \A i \in 1..Len(text) : LengthOf(text[i]) \in Nat
    BY DEF LengthOf, Stray
  <2>2. Len(text) \in Nat /\ DOMAIN text = 1..Len(text)
    OBVIOUS
  <2>3. lengths = [i \in 1..Len(text) |-> LengthOf(text[i])]
    BY <2>2
  <2> QED
    BY <2>1, <2>2, <2>3
<1> HIDE DEF lengths
<1>2. SumOf(lengths) \in Nat
  BY <1>1, SumFacts
<1> QED
  BY <1>2 DEF TextLength, lengths

-----------------------------------------------------------------------------
\* The tokens of some sentences of a page.
TokensIn(t, p, parts) == SumOf([n \in DOMAIN parts |-> t[p][parts[n]]])

\* They are what the model counts, and one sentence more adds its own.
LEMMA TokenFacts ==
    ASSUME NEW t \in Seq(Seq(Nat)), NEW p \in 1..Len(t),
           NEW parts \in Seq(1..Len(t[p])), NEW i \in 1..Len(t[p])
    PROVE  /\ TokensIn(t, p, parts) \in Nat
           /\ TokensIn(t, p, Append(parts, i)) = TokensIn(t, p, parts) + t[p][i]
<1> DEFINE L == Len(t[p])
           numbers == [n \in DOMAIN parts |-> t[p][parts[n]]]
           longer == Append(parts, i)
           more == [n \in DOMAIN longer |-> t[p][longer[n]]]
<1>1. t[p] \in Seq(Nat) /\ L \in Nat /\ \A n \in 1..L : t[p][n] \in Nat
  OBVIOUS
<1>2. /\ longer \in Seq(1..L) /\ Len(longer) = Len(parts) + 1 /\ longer[Len(parts) + 1] = i
      /\ \A n \in 1..Len(parts) : longer[n] = parts[n]
  BY AppendProperties
<1>3. Len(parts) \in Nat /\ \A n \in 1..Len(parts) : parts[n] \in 1..L
  BY SMTT(30)
<1>4. DOMAIN parts = 1..Len(parts) /\ i \in 1..L
  OBVIOUS
<1> HIDE DEF L, longer
<1>5. numbers \in Seq(Nat) /\ Len(numbers) = Len(parts) /\ \A n \in 1..Len(parts) : numbers[n] = t[p][parts[n]]
  <2>1. \A n \in 1..Len(parts) : t[p][parts[n]] \in Nat
    BY <1>1, <1>3
  <2> QED
    BY <1>3, <1>4, <2>1
<1>6. /\ more \in Seq(Nat) /\ Len(more) = Len(parts) + 1
      /\ \A n \in 1..(Len(parts) + 1) : more[n] = t[p][longer[n]]
  <2>1. DOMAIN longer = 1..(Len(parts) + 1) /\ Len(parts) + 1 \in Nat
    BY <1>2, <1>3
  <2>2. \A n \in 1..(Len(parts) + 1) : longer[n] \in 1..L
    BY <1>2, ElementOfSeq
  <2>3. \A n \in 1..(Len(parts) + 1) : t[p][longer[n]] \in Nat
    BY <1>1, <2>2
  <2> QED
    BY <2>1, <2>3
<1> HIDE DEF numbers, more
<1>7. more = Append(numbers, t[p][i])
  <2> DEFINE x == t[p][i]
             most == Append(numbers, x)
  <2>1. x \in Nat
    BY <1>1, <1>4
  <2>2. /\ most \in Seq(Nat) /\ Len(most) = Len(parts) + 1 /\ most[Len(parts) + 1] = x
        /\ \A n \in 1..Len(parts) : most[n] = numbers[n]
    BY <1>5, <2>1, AppendProperties
  <2> HIDE DEF x, most
  <2>3. \A n \in 1..Len(more) : more[n] = most[n]
    <3> SUFFICES ASSUME NEW n \in 1..(Len(parts) + 1) PROVE more[n] = most[n]
      BY <1>6
    <3>1. CASE n = Len(parts) + 1
      <4>1. more[n] = t[p][i] /\ most[n] = x
        BY <1>2, <1>6, <2>2, <3>1
      <4> QED
        BY <4>1 DEF x
    <3>2. CASE n \in 1..Len(parts)
      <4>1. more[n] = t[p][longer[n]]
        BY <1>6
      <4>2. longer[n] = parts[n] /\ numbers[n] = t[p][parts[n]] /\ most[n] = numbers[n]
        BY <1>2, <1>5, <2>2, <3>2
      <4> QED
        BY <4>1, <4>2
    <3> QED
      BY <1>3, <3>1, <3>2
  <2> QED
    BY <1>6, <2>2, <2>3, SeqEqual DEF most, x
<1>8. t[p][i] \in Nat
  BY <1>1, <1>4
<1>9. SumOf(numbers) \in Nat /\ SumOf(more) = SumOf(numbers) + t[p][i]
  BY <1>5, <1>7, <1>8, SumFacts
<1> QED
  BY <1>9 DEF TokensIn, numbers, more, longer

-----------------------------------------------------------------------------
\* A piece: a chunk, or the buffer as the chunk it is going to be.
Pieces == [page : Nat, parts : Seq(Nat)]
Piece(p, parts) == [page |-> p, parts |-> parts]
Final(q) == q.parts[Len(q.parts)]
Amount(t, q) == TokensIn(t, q.page, q.parts)

\* Sentences of one page, in their order and none of them a fragment.
PieceTrue(t, q) ==
    /\ q.page \in 1..Len(t) /\ Len(q.parts) > 0
    /\ \A m \in 1..Len(q.parts) : q.parts[m] \in 1..Len(t[q.page]) /\ t[q.page][q.parts[m]] # Stray
    /\ \A m, n \in 1..Len(q.parts) : m < n => q.parts[m] < q.parts[n]

\* The first piece of a page, ...
StandsAlone(t, r) == Amount(t, r) > TargetTokens => Len(r.parts) = 1

\* ... one that carries n sentences over from q, ...
Carries(t, q, r, n) ==
    /\ n < Len(r.parts)
    /\ \A m \in 1..n : r.parts[m] = q.parts[Len(q.parts) - n + m]
    /\ \A m \in (n + 1)..Len(r.parts) : r.parts[m] > Final(q)
    /\ n = 0 => Len(q.parts) = 1 /\ Amount(t, q) > OverlapTokens
    /\ n = Len(q.parts) => Amount(t, q) <= OverlapTokens
    /\ Amount(t, r) > TargetTokens => Len(r.parts) = n + 1

\* ... and the one or the other.
NextTo(t, q, r) ==
    \/ q.page < r.page /\ StandsAlone(t, r)
    \/ q.page = r.page /\ \E n \in 0..Len(q.parts) : Carries(t, q, r, n)
Earlier(q, r) == q.page < r.page \/ (q.page = r.page /\ Final(q) < Final(r))

\* Pieces one after the other.
Strung(t, s) ==
    /\ \A k \in 1..Len(s) : PieceTrue(t, s[k])
    /\ Len(s) > 0 => StandsAlone(t, s[1])
    /\ \A k \in 2..Len(s) : NextTo(t, s[k - 1], s[k])
    /\ \A k, l \in 1..Len(s) : k < l => Earlier(s[k], s[l])

\* What may come next.
Fits(t, s, q) ==
    /\ PieceTrue(t, q)
    /\ Len(s) = 0 => StandsAlone(t, q)
    /\ Len(s) > 0 => NextTo(t, s[Len(s)], q)
    /\ \A k \in 1..Len(s) : Earlier(s[k], q)

\* Pieces stay strung when a fitting one is added, ...
LEMMA StrungOn ==
    ASSUME NEW t, NEW s \in Seq(Pieces), NEW q \in Pieces, Strung(t, s), Fits(t, s, q)
    PROVE  Strung(t, Append(s, q))
<1> DEFINE N == Len(s)
           more == Append(s, q)
<1>1. N \in Nat /\ Len(more) = N + 1 /\ more[N + 1] = q /\ \A k \in 1..N : more[k] = s[k]
  BY AppendProperties
<1> HIDE DEF N, more
<1>2. ASSUME NEW k \in 1..Len(more) PROVE PieceTrue(t, more[k])
  BY <1>1, <1>2 DEF Strung, Fits, N
<1>3. StandsAlone(t, more[1])
  <2>1. CASE N = 0
    BY <1>1, <2>1 DEF Fits, N
  <2>2. CASE N > 0
    BY <1>1, <2>2 DEF Strung, N
  <2> QED
    BY <1>1, <2>1, <2>2
<1>4. ASSUME NEW k \in 2..Len(more) PROVE NextTo(t, more[k - 1], more[k])
  <2>1. CASE k = N + 1
    <3>1. N > 0 /\ k - 1 = N /\ N \in 1..N
      BY <1>1, <2>1
    <3> QED
      BY <1>1, <2>1, <3>1 DEF Fits, N
  <2>2. CASE k \in 2..N
    <3>1. k \in 1..N /\ k - 1 \in 1..N
      BY <1>1, <2>2
    <3> QED
      BY <1>1, <2>2, <3>1 DEF Strung, N
  <2> QED
    BY <1>1, <2>1, <2>2
<1>5. ASSUME NEW k \in 1..Len(more), NEW l \in 1..Len(more), k < l PROVE Earlier(more[k], more[l])
  <2>1. CASE l = N + 1
    BY <1>1, <1>5, <2>1 DEF Fits, N
  <2>2. CASE l \in 1..N
    BY <1>1, <1>5, <2>2 DEF Strung, N
  <2> QED
    BY <1>1, <2>1, <2>2
<1> QED
  BY <1>2, <1>3, <1>4, <1>5 DEF Strung, more

\* ... and what comes before the last one is strung, and fits it.
LEMMA StrungBefore ==
    ASSUME NEW t, NEW s \in Seq(Pieces), NEW q \in Pieces, Strung(t, Append(s, q))
    PROVE  Strung(t, s) /\ Fits(t, s, q)
<1> DEFINE N == Len(s)
           more == Append(s, q)
<1>1. N \in Nat /\ Len(more) = N + 1 /\ more[N + 1] = q /\ \A k \in 1..N : more[k] = s[k]
  BY AppendProperties
<1>2. Strung(t, more)
  OBVIOUS
<1> HIDE DEF N, more
<1>3. \A k \in 1..N : PieceTrue(t, s[k])
  BY <1>1, <1>2 DEF Strung
<1>4. N > 0 => StandsAlone(t, s[1])
  BY <1>1, <1>2 DEF Strung
<1>5. ASSUME NEW k \in 2..N PROVE NextTo(t, s[k - 1], s[k])
  <2>1. k \in 2..(N + 1) /\ k \in 1..N /\ k - 1 \in 1..N
    BY <1>1
  <2> QED
    BY <1>1, <1>2, <2>1 DEF Strung
<1>6. ASSUME NEW k \in 1..N, NEW l \in 1..N, k < l PROVE Earlier(s[k], s[l])
  <2>1. k \in 1..(N + 1) /\ l \in 1..(N + 1)
    BY <1>1
  <2> QED
    BY <1>1, <1>2, <1>6, <2>1 DEF Strung
<1>7. PieceTrue(t, q)
  BY <1>1, <1>2 DEF Strung
<1>8. N = 0 => StandsAlone(t, q)
  BY <1>1, <1>2 DEF Strung
<1>9. N > 0 => NextTo(t, s[N], q)
  <2> SUFFICES ASSUME N > 0 PROVE NextTo(t, s[N], q)
    OBVIOUS
  <2>1. N + 1 \in 2..(N + 1) /\ (N + 1) - 1 = N /\ N \in 1..N
    BY <1>1
  <2> QED
    BY <1>1, <1>2, <2>1 DEF Strung
<1>10. ASSUME NEW k \in 1..N PROVE Earlier(s[k], q)
  <2>1. k \in 1..(N + 1) /\ N + 1 \in 1..(N + 1) /\ k < N + 1
    BY <1>1
  <2> QED
    BY <1>1, <1>2, <2>1 DEF Strung
<1> QED
  BY <1>3, <1>4, <1>5, <1>6, <1>7, <1>8, <1>9, <1>10 DEF Strung, Fits, N

-----------------------------------------------------------------------------
\* Sentence i of a page comes after some of its sentences.
ComesAfter(t, p, parts, i) ==
    /\ t \in Seq(Seq(Nat)) /\ p \in 1..Len(t) /\ parts \in Seq(Nat)
    /\ Len(parts) > 0 => PieceTrue(t, Piece(p, parts))
    /\ i \in 1..Len(t[p]) /\ t[p][i] # Stray
    /\ \A m \in 1..Len(parts) : parts[m] < i

\* One sentence more in a piece.
LEMMA MoreSentences ==
    ASSUME NEW t, NEW p, NEW parts, NEW i, ComesAfter(t, p, parts, i)
    PROVE  LET q == Piece(p, Append(parts, i)) IN
           /\ q \in Pieces /\ PieceTrue(t, q) /\ Final(q) = i /\ q.page = p
           /\ Len(q.parts) = Len(parts) + 1
           /\ \A m \in 1..Len(parts) : q.parts[m] = parts[m]
           /\ Amount(t, q) = Amount(t, Piece(p, parts)) + t[p][i]
           /\ Amount(t, Piece(p, parts)) \in Nat
<1> SUFFICES ASSUME t \in Seq(Seq(Nat)), p \in 1..Len(t), parts \in Seq(Nat),
                    Len(parts) > 0 => PieceTrue(t, Piece(p, parts)),
                    i \in 1..Len(t[p]), t[p][i] # Stray, \A m \in 1..Len(parts) : parts[m] < i
             PROVE  LET q == Piece(p, Append(parts, i)) IN
                    /\ q \in Pieces /\ PieceTrue(t, q) /\ Final(q) = i /\ q.page = p
                    /\ Len(q.parts) = Len(parts) + 1
                    /\ \A m \in 1..Len(parts) : q.parts[m] = parts[m]
                    /\ Amount(t, q) = Amount(t, Piece(p, parts)) + t[p][i]
                    /\ Amount(t, Piece(p, parts)) \in Nat
  BY Zenon DEF ComesAfter
<1> DEFINE longer == Append(parts, i)
           q == Piece(p, longer)
           N == Len(parts)
<1>1. p \in Nat /\ i \in Nat /\ N \in Nat
  OBVIOUS
<1>2. /\ longer \in Seq(Nat) /\ Len(longer) = N + 1 /\ longer[N + 1] = i
      /\ \A m \in 1..N : longer[m] = parts[m]
  BY <1>1, AppendProperties
<1>3. \A m \in 1..N : parts[m] \in 1..Len(t[p]) /\ t[p][parts[m]] # Stray
  BY SMTT(30) DEF PieceTrue, Piece
<1>4. \A m, n \in 1..N : m < n => parts[m] < parts[n]
  BY SMTT(30) DEF PieceTrue, Piece
<1>5. parts \in Seq(1..Len(t[p]))
  <2> DEFINE L == Len(t[p])
  <2>1. DOMAIN parts = 1..N /\ parts = [m \in 1..N |-> parts[m]]
    OBVIOUS
  <2>2. \A m \in 1..N : parts[m] \in 1..L
    BY <1>3
  <2> HIDE DEF N, L
  <2>3. parts \in [1..N -> 1..L]
    BY <2>1, <2>2
  <2>4. Len(parts) = N
    BY DEF N
  <2> QED
    BY <1>1, <2>3, <2>4 DEF L
<1>6. /\ TokensIn(t, p, parts) \in Nat
      /\ TokensIn(t, p, longer) = TokensIn(t, p, parts) + t[p][i]
  BY <1>5, TokenFacts
<1> HIDE DEF longer, N
<1>7. q \in Pieces /\ q.page = p /\ q.parts = longer
  BY <1>1, <1>2 DEF Pieces, Piece
<1>8. Amount(t, q) = TokensIn(t, p, longer) /\ Amount(t, Piece(p, parts)) = TokensIn(t, p, parts)
  BY <1>7 DEF Amount, Piece
<1> HIDE DEF q
<1>9. ASSUME NEW m \in 1..(N + 1) PROVE longer[m] \in 1..Len(t[p]) /\ t[p][longer[m]] # Stray
  <2>1. CASE m = N + 1
    BY <1>2, <2>1
  <2>2. CASE m \in 1..N
    BY <1>2, <1>3, <2>2
  <2>3. m = N + 1 \/ m \in 1..N
    BY <1>1
  <2> QED
    BY <2>1, <2>2, <2>3
<1>10. ASSUME NEW m \in 1..(N + 1), NEW n \in 1..(N + 1), m < n PROVE longer[m] < longer[n]
  <2>1. m \in 1..N
    BY <1>1, <1>10
  <2>2. CASE n = N + 1
    BY <1>2, <2>1, <2>2 DEF N
  <2>3. CASE n \in 1..N
    BY <1>2, <1>4, <1>10, <2>1, <2>3
  <2>4. n = N + 1 \/ n \in 1..N
    BY <1>1
  <2> QED
    BY <2>2, <2>3, <2>4
<1>11. PieceTrue(t, q)
  <2>1. q.page \in 1..Len(t) /\ Len(q.parts) > 0 /\ Len(q.parts) = N + 1
    BY <1>1, <1>2, <1>7
  <2>2. \A m \in 1..Len(q.parts) : q.parts[m] \in 1..Len(t[q.page]) /\ t[q.page][q.parts[m]] # Stray
    BY <1>7, <1>9, <2>1
  <2>3. \A m, n \in 1..Len(q.parts) : m < n => q.parts[m] < q.parts[n]
    BY <1>7, <1>10, <2>1
  <2> QED
    BY <2>1, <2>2, <2>3 DEF PieceTrue
<1>12. Final(q) = i
  BY <1>2, <1>7 DEF Final
<1> QED
  BY <1>2, <1>6, <1>7, <1>8, <1>11, <1>12 DEF q, longer, N

\* What a piece carries over does not change while it grows within its budget.
LEMMA StillCarries ==
    ASSUME NEW t, NEW p, NEW parts, NEW i, ComesAfter(t, p, parts, i), Len(parts) > 0,
           Amount(t, Piece(p, parts)) + t[p][i] <= TargetTokens,
           NEW q \in Pieces, Len(q.parts) > 0, Final(q) < i,
           NEW n \in 0..Len(q.parts), Carries(t, q, Piece(p, parts), n)
    PROVE  Carries(t, q, Piece(p, Append(parts, i)), n)
<1> DEFINE r == Piece(p, parts)
           more == Piece(p, Append(parts, i))
           N == Len(parts)
<1>1. /\ more \in Pieces /\ Len(more.parts) = N + 1 /\ Final(more) = i
      /\ \A m \in 1..N : more.parts[m] = parts[m]
      /\ Amount(t, more) = Amount(t, r) + t[p][i]
  BY MoreSentences
<1>0. parts \in Seq(Nat) /\ i \in Nat /\ t[p][i] \in Nat /\ Amount(t, r) \in Nat
  <2>1. parts \in Seq(Nat) /\ t \in Seq(Seq(Nat)) /\ p \in 1..Len(t) /\ i \in 1..Len(t[p])
    BY DEF ComesAfter
  <2>2. Amount(t, r) \in Nat
    BY MoreSentences
  <2>3. t[p] \in Seq(Nat)
    BY <2>1, ElementOfSeq
  <2>4. t[p][i] \in Nat
    BY <2>1, <2>3, ElementOfSeq
  <2>5. i \in Nat
    BY <2>1
  <2> HIDE DEF r
  <2> QED
    BY <2>1, <2>2, <2>4, <2>5
<1>2. more.parts[N + 1] = i
  BY <1>1 DEF Final
<1>3. r.parts = parts /\ Carries(t, q, r, n) /\ N \in Nat
  BY <1>0 DEF Piece
<1>4. ~(Amount(t, more) > TargetTokens)
  <2>1. Amount(t, r) + t[p][i] <= TargetTokens
    OBVIOUS
  <2>2. TargetTokens \in Nat
    BY ReadingAssumption
  <2> DEFINE a == Amount(t, r)
             b == Amount(t, more)
             c == t[p][i]
  <2>3. b = a + c /\ a \in Nat /\ c \in Nat /\ a + c <= TargetTokens
    BY <1>0, <1>1, <2>1
  <2> HIDE DEF a, b, c
  <2>4. ~(b > TargetTokens)
    BY <2>2, <2>3
  <2> QED
    BY <2>4 DEF b
<1> HIDE DEF more, r, N
<1>5. n < N /\ n \in Nat
  BY <1>3 DEF Carries, N
<1>6. ASSUME NEW m \in 1..n PROVE more.parts[m] = q.parts[Len(q.parts) - n + m]
  <2>1. m \in 1..N
    BY <1>3, <1>5
  <2> QED
    BY <1>1, <1>3, <2>1 DEF Carries
<1>7. ASSUME NEW m \in (n + 1)..(N + 1) PROVE more.parts[m] > Final(q)
  <2>1. CASE m = N + 1
    BY <1>2, <2>1
  <2>2. CASE m \in (n + 1)..N
    <3>1. m \in 1..N
      BY <1>3, <1>5, <2>2
    <3> QED
      BY <1>1, <1>3, <2>2, <3>1 DEF Carries, N
  <2>3. m = N + 1 \/ m \in (n + 1)..N
    BY <1>3, <1>5
  <2> QED
    BY <2>1, <2>2, <2>3
<1>8. n < N + 1
  BY <1>3, <1>5
<1> QED
  BY <1>1, <1>3, <1>4, <1>6, <1>7, <1>8 DEF Carries, more

\* Some numbers up to a bound have a greatest one.
LEMMA GreatestNumber ==
    ASSUME NEW N \in Nat, NEW T \in SUBSET (0..N), T # {}
    PROVE  Max(T) \in T /\ \A n \in T : Max(T) >= n
<1> DEFINE U == {m \in Nat : \A n \in T : n <= m}
<1>1. N \in U
  OBVIOUS
<1>2. PICK g \in U : \A m \in U : g <= m
  <2>1. U \in SUBSET Nat
    OBVIOUS
  <2>2. U # {}
    <3> HIDE DEF U
    <3> QED
      BY <1>1
  <2> HIDE DEF U
  <2> QED
    BY <2>1, <2>2, LeastNumber
<1>3. g \in T
  <2> SUFFICES ASSUME g \notin T PROVE FALSE
    OBVIOUS
  <2>1. g \in Nat /\ \A n \in T : n \in Nat /\ n < g
    BY <1>2
  <2>2. g > 0
    <3>1. PICK n \in T : TRUE
      OBVIOUS
    <3> QED
      BY <2>1, <3>1
  <2>3. g - 1 \in U
    BY <2>1, <2>2
  <2> QED
    BY <1>2, <2>1, <2>3
<1>4. \E x \in T : \A y \in T : x >= y
  BY <1>2, <1>3
<1> QED
  BY <1>4 DEF Max

\* The last n sentences.
LEMMA TheLast ==
    ASSUME NEW S, NEW parts \in Seq(S), NEW n \in 0..Len(parts)
    PROVE  /\ LastOf(parts, n) \in Seq(S) /\ Len(LastOf(parts, n)) = n
           /\ \A m \in 1..n : LastOf(parts, n)[m] = parts[Len(parts) - n + m]
           /\ n = Len(parts) => LastOf(parts, n) = parts
<1> DEFINE N == Len(parts)
           a == N - n + 1
           cut == SubSeq(parts, a, N)
<1>1. N \in Nat /\ n \in Nat /\ n <= N /\ \A m \in 1..N : parts[m] \in S
  OBVIOUS
<1> HIDE DEF N
<1>2. \A m \in a..N : parts[m] \in S
  BY <1>1
<1>3. a \in Int /\ N \in Int
  BY <1>1
<1> HIDE DEF a
<1>4. /\ cut \in Seq(S) /\ Len(cut) = IF a <= N THEN N - a + 1 ELSE 0
      /\ \A m \in 1..(N - a + 1) : cut[m] = parts[a + m - 1]
  BY <1>2, <1>3, SubSeqProperties
<1> HIDE DEF cut
<1>5. Len(cut) = n
  BY <1>1, <1>4 DEF a
<1>6. ASSUME NEW m \in 1..n PROVE cut[m] = parts[N - n + m]
  <2>1. m \in 1..(N - a + 1) /\ a + m - 1 = N - n + m
    BY <1>1 DEF a
  <2> QED
    BY <1>4, <2>1
<1>7. ASSUME n = N PROVE cut = parts
  <2>1. \A m \in 1..n : cut[m] = parts[m]
    <3> SUFFICES ASSUME NEW m \in 1..n PROVE cut[m] = parts[m]
      OBVIOUS
    <3>1. N - n + m = m
      BY <1>1, <1>7
    <3> QED
      BY <1>6, <3>1
  <2>2. Len(cut) = Len(parts)
    BY <1>5, <1>7 DEF N
  <2> QED
    BY <1>4, <1>5, <2>1, <2>2, SeqEqual
<1>8. LastOf(parts, n) = cut
  BY DEF LastOf, cut, a, N
<1> QED
  BY <1>4, <1>5, <1>6, <1>7, <1>8 DEF N

\* Nothing amounts to nothing.
LEMMA NoTokens == ASSUME NEW t, NEW p PROVE TokensIn(t, p, <<>>) = 0
<1> DEFINE numbers == [n \in DOMAIN <<>> |-> t[p][<<>>[n]]]
<1>1. DOMAIN <<>> = {}
  OBVIOUS
<1>2. numbers = <<>>
  <2>1. DOMAIN numbers = 1..0 /\ 1..0 = {}
    BY <1>1
  <2>2. numbers \in [1..0 -> Nat]
    BY <1>1, <2>1
  <2>3. numbers \in Seq(Nat) /\ Len(numbers) = 0
    BY <2>1, <2>2
  <2> QED
    BY <2>3
<1>3. TokensIn(t, p, <<>>) = SumOf(numbers)
  BY DEF TokensIn
<1> HIDE DEF numbers
<1> QED
  BY <1>2, <1>3, SumFacts

-----------------------------------------------------------------------------
\* A chunk that follows a full one begins with the end of it.
LEMMA CarriedOver ==
    ASSUME NEW p, NEW parts, NEW i, ComesAfter(texts, p, parts, i), Len(parts) > 0
    PROVE  LET r == Piece(p, Append(TrailingOverlap(p, parts), i)) IN
           /\ TrailingOverlap(p, parts) \in Seq(Nat)
           /\ r \in Pieces /\ r.page = p /\ PieceTrue(texts, r) /\ Final(r) = i
           /\ \E n \in 0..Len(parts) : Carries(texts, Piece(p, parts), r, n)
<1> DEFINE N == Len(parts)
           q == Piece(p, parts)
           fits == {n \in 0..Len(parts) : TokensOf(p, LastOf(parts, n)) <= OverlapTokens}
           most == Max(fits)
           n0 == IF most = 0 /\ N > 1 THEN 1 ELSE most
           carry == TrailingOverlap(p, parts)
           r == Piece(p, Append(carry, i))
           L == Len(texts[p])
<1>1. /\ texts \in Seq(Seq(Nat)) /\ p \in 1..Len(texts) /\ parts \in Seq(Nat) /\ N \in Nat /\ N > 0
      /\ PieceTrue(texts, q)
      /\ i \in 1..L /\ texts[p][i] # Stray /\ \A m \in 1..N : parts[m] < i
  <2>1. /\ texts \in Seq(Seq(Nat)) /\ p \in 1..Len(texts) /\ parts \in Seq(Nat)
        /\ PieceTrue(texts, Piece(p, parts))
        /\ i \in 1..Len(texts[p]) /\ texts[p][i] # Stray
    BY DEF ComesAfter
  <2>2. \A m \in 1..Len(parts) : parts[m] < i
    BY DEF ComesAfter
  <2>3. Len(parts) \in Nat
    BY <2>1
  <2> HIDE DEF fits, most, n0, carry, r
  <2> QED
    BY <2>1, <2>2, <2>3
<1>2. q.page = p /\ q.parts = parts
  BY DEF Piece
<1>3. /\ \A m \in 1..N : parts[m] \in 1..L /\ texts[p][parts[m]] # Stray
      /\ \A m, n \in 1..N : m < n => parts[m] < parts[n]
  BY <1>1, <1>2 DEF PieceTrue
<1>4. \A n \in 0..N : /\ LastOf(parts, n) \in Seq(Nat) /\ Len(LastOf(parts, n)) = n
                      /\ \A m \in 1..n : LastOf(parts, n)[m] = parts[N - n + m]
                      /\ n = N => LastOf(parts, n) = parts
  BY <1>1, TheLast
<1>5. \A s : TokensOf(p, s) = TokensIn(texts, p, s)
  BY DEF TokensOf, TokensIn
<1>6. 0 \in fits
  <2>1. 0 \in 0..N /\ LastOf(parts, 0) \in Seq(Nat) /\ Len(LastOf(parts, 0)) = 0
    BY <1>1, <1>4
  <2>2. LastOf(parts, 0) = <<>>
    BY <2>1, EmptySeq
  <2>3. TokensOf(p, <<>>) = 0
    BY <1>5, NoTokens
  <2>4. 0 <= OverlapTokens
    BY ReadingAssumption
  <2> QED
    BY <2>1, <2>2, <2>3, <2>4
<1>7. fits \in SUBSET (0..N)
  OBVIOUS
<1>8. /\ \A n \in fits : n \in 0..N /\ TokensOf(p, LastOf(parts, n)) <= OverlapTokens
      /\ \A n \in 0..N : n \notin fits => ~(TokensOf(p, LastOf(parts, n)) <= OverlapTokens)
  OBVIOUS
<1>9. carry = LastOf(parts, n0)
  <2>1. carry = IF Max(fits) = 0 /\ Len(parts) > 1 THEN LastOf(parts, 1) ELSE LastOf(parts, Max(fits))
    BY DEF TrailingOverlap
  <2> HIDE DEF fits, carry
  <2> QED
    BY <2>1
<1> HIDE DEF N, q, fits, carry, L
<1>10. most \in fits /\ \A n \in fits : most >= n
  BY <1>1, <1>6, <1>7, GreatestNumber
<1> HIDE DEF most
<1>11. n0 \in 0..N /\ n0 \in Nat
  BY <1>1, <1>8, <1>10
<1>12. n0 = 0 => N = 1 /\ Amount(texts, q) > OverlapTokens
  <2> SUFFICES ASSUME n0 = 0 PROVE N = 1 /\ Amount(texts, q) > OverlapTokens
    OBVIOUS
  <2>1. most = 0 /\ N = 1
    BY <1>1, <1>8, <1>10
  <2>2. 1 \notin fits
    BY <1>10, <2>1
  <2>3. LastOf(parts, 1) = parts /\ 1 \in 0..N
    BY <1>1, <1>4, <2>1
  <2>4. ~(TokensOf(p, parts) <= OverlapTokens)
    BY <1>8, <2>2, <2>3
  <2>5. Amount(texts, q) = TokensOf(p, parts)
    BY <1>2, <1>5 DEF Amount
  <2>6. Amount(texts, q) \in Nat /\ OverlapTokens \in Nat
    BY MoreSentences, ReadingAssumption DEF q
  <2> QED
    BY <2>1, <2>4, <2>5, <2>6
<1>13. n0 = N => Amount(texts, q) <= OverlapTokens
  <2> SUFFICES ASSUME n0 = N PROVE Amount(texts, q) <= OverlapTokens
    OBVIOUS
  <2>1. most = N
    BY <1>1, <1>8, <1>10
  <2>2. TokensOf(p, LastOf(parts, N)) <= OverlapTokens /\ LastOf(parts, N) = parts
    BY <1>1, <1>4, <1>8, <1>10, <2>1
  <2> QED
    BY <1>2, <1>5, <2>2 DEF Amount
<1> HIDE DEF n0
<1>14. /\ carry \in Seq(Nat) /\ Len(carry) = n0
       /\ \A m \in 1..n0 : carry[m] = parts[N - n0 + m]
  BY <1>4, <1>9, <1>11
<1>15. \A m \in 1..n0 : N - n0 + m \in 1..N
  BY <1>1, <1>11
<1>16. ComesAfter(texts, p, carry, i)
  <2>1. \A m \in 1..n0 : carry[m] \in 1..L /\ texts[p][carry[m]] # Stray /\ carry[m] < i
    BY <1>1, <1>3, <1>14, <1>15
  <2>2. ASSUME NEW m \in 1..n0, NEW n \in 1..n0, m < n PROVE carry[m] < carry[n]
    <3>1. N - n0 + m \in 1..N /\ N - n0 + n \in 1..N /\ N - n0 + m < N - n0 + n
      BY <1>1, <1>11, <1>15, <2>2
    <3>2. parts[N - n0 + m] < parts[N - n0 + n]
      BY <1>3, <3>1
    <3> QED
      BY <1>14, <3>2
  <2>3. Len(carry) > 0 => PieceTrue(texts, Piece(p, carry))
    BY <1>1, <1>14, <2>1, <2>2 DEF PieceTrue, Piece, L
  <2> QED
    BY <1>1, <1>14, <2>1, <2>3 DEF ComesAfter, L
<1>17. /\ r \in Pieces /\ PieceTrue(texts, r) /\ Final(r) = i /\ r.page = p
       /\ Len(r.parts) = n0 + 1 /\ \A m \in 1..n0 : r.parts[m] = carry[m]
  BY <1>14, <1>16, MoreSentences
<1> HIDE DEF r
<1>18. Carries(texts, q, r, n0)
  <2>1. \A m \in 1..n0 : r.parts[m] = q.parts[Len(q.parts) - n0 + m]
    BY <1>2, <1>14, <1>17 DEF N
  <2>2. Final(q) < i /\ Final(q) \in Nat /\ i \in Nat
    <3>1. Final(q) = parts[N] /\ N \in 1..N
      BY <1>1, <1>2 DEF Final, N
    <3> QED
      BY <1>1, <1>3, <3>1
  <2>3. ASSUME NEW m \in (n0 + 1)..Len(r.parts) PROVE r.parts[m] > Final(q)
    <3>1. m = Len(r.parts)
      BY <1>11, <1>17
    <3> QED
      BY <1>17, <2>2, <3>1 DEF Final
  <2>4. n0 < Len(r.parts) /\ Len(r.parts) = n0 + 1
    BY <1>11, <1>17
  <2>5. Len(q.parts) = N
    BY <1>2 DEF N
  <2> QED
    BY <1>12, <1>13, <2>1, <2>3, <2>4, <2>5 DEF Carries
<1> QED
  BY <1>11, <1>14, <1>17, <1>18 DEF r, q, N, carry

-----------------------------------------------------------------------------
\* Piece k is the first one that has sentence i.
Fresh(s, k, i) ==
    /\ \E m \in 1..Len(s[k].parts) : s[k].parts[m] = i
    /\ k > 1 /\ s[k - 1].page = s[k].page => i > Final(s[k - 1])
Held(s, p, i) == \E k \in 1..Len(s) : s[k].page = p /\ Fresh(s, k, i)

\* What is held stays held when a piece is added, ...
LEMMA HeldOn ==
    ASSUME NEW s \in Seq(Pieces), NEW q \in Pieces, NEW p, NEW i, Held(s, p, i)
    PROVE  Held(Append(s, q), p, i)
<1> DEFINE N == Len(s)
           more == Append(s, q)
<1>1. N \in Nat /\ Len(more) = N + 1 /\ more[N + 1] = q /\ \A k \in 1..N : more[k] = s[k]
  BY AppendProperties
<1>2. PICK k \in 1..N : s[k].page = p /\ Fresh(s, k, i)
  BY DEF Held
<1> HIDE DEF N, more
<1>3. k \in 1..Len(more) /\ more[k] = s[k] /\ k \in Nat
  BY <1>1
<1>4. k > 1 => more[k - 1] = s[k - 1]
  <2>1. k > 1 => k - 1 \in 1..N
    BY <1>1
  <2> QED
    BY <1>1, <2>1
<1>5. Fresh(more, k, i)
  BY <1>2, <1>3, <1>4 DEF Fresh
<1> QED
  BY <1>2, <1>3, <1>5 DEF Held, more

\* ... or the last one gets longer, ...
LEMMA HeldLonger ==
    ASSUME NEW s \in Seq(Pieces), NEW q \in Pieces, NEW r \in Pieces, q.page = r.page,
           \A m \in 1..Len(q.parts) : \E n \in 1..Len(r.parts) : r.parts[n] = q.parts[m],
           NEW p, NEW i, Held(Append(s, q), p, i)
    PROVE  Held(Append(s, r), p, i)
<1> DEFINE N == Len(s)
           old == Append(s, q)
           more == Append(s, r)
<1>1. N \in Nat /\ Len(old) = N + 1 /\ old[N + 1] = q /\ \A k \in 1..N : old[k] = s[k]
  BY AppendProperties
<1>2. Len(more) = N + 1 /\ more[N + 1] = r /\ \A k \in 1..N : more[k] = s[k]
  BY AppendProperties
<1>3. PICK k \in 1..Len(old) : old[k].page = p /\ Fresh(old, k, i)
  BY DEF Held
<1> HIDE DEF N, old, more
<1>4. k \in Nat /\ k \in 1..Len(more) /\ (k > 1 => k - 1 \in 1..N)
  BY <1>1, <1>2
<1>5. more[k].page = old[k].page
  BY <1>1, <1>2
<1>6. \E m \in 1..Len(more[k].parts) : more[k].parts[m] = i
  <2>1. PICK m \in 1..Len(old[k].parts) : old[k].parts[m] = i
    BY <1>3 DEF Fresh
  <2>2. CASE k = N + 1
    BY <1>1, <1>2, <2>1, <2>2
  <2>3. CASE k \in 1..N
    BY <1>1, <1>2, <2>1, <2>3
  <2>4. k = N + 1 \/ k \in 1..N
    BY <1>1
  <2> QED
    BY <2>2, <2>3, <2>4
<1>7. k > 1 => more[k - 1] = old[k - 1]
  BY <1>1, <1>2, <1>4
<1>8. Fresh(more, k, i)
  BY <1>3, <1>5, <1>6, <1>7 DEF Fresh
<1> QED
  BY <1>3, <1>4, <1>5, <1>8 DEF Held, more

\* ... and so is its last sentence.
LEMMA HeldNow ==
    ASSUME NEW s \in Seq(Pieces), NEW q \in Pieces, Len(q.parts) > 0,
           \A k \in 1..Len(s) : Earlier(s[k], q)
    PROVE  Held(Append(s, q), q.page, Final(q))
<1> DEFINE N == Len(s)
           more == Append(s, q)
<1>1. N \in Nat /\ Len(more) = N + 1 /\ more[N + 1] = q /\ \A k \in 1..N : more[k] = s[k]
  BY AppendProperties
<1>2. q.page \in Nat /\ q.parts \in Seq(Nat)
  BY DEF Pieces
<1>3. Len(q.parts) \in 1..Len(q.parts) /\ Final(q) \in Nat
  BY <1>2 DEF Final
<1> HIDE DEF more, N
<1>4. ASSUME N > 0, more[N].page = q.page PROVE Final(q) > Final(more[N])
  <2>1. N \in 1..N /\ more[N] = s[N]
    BY <1>1, <1>4
  <2>2. Earlier(s[N], q)
    BY <2>1 DEF N
  <2>3. s[N] \in Pieces
    BY <2>1 DEF N
  <2>4. Final(s[N]) < Final(q)
    BY <1>2, <1>4, <2>1, <2>2 DEF Earlier
  <2> QED
    BY <2>1, <2>4
<1>5. (N + 1) - 1 = N /\ (N + 1 > 1 => N > 0) /\ N + 1 \in 1..Len(more)
  BY <1>1
<1>6. Fresh(more, N + 1, Final(q))
  <2>1. \E m \in 1..Len(more[N + 1].parts) : more[N + 1].parts[m] = Final(q)
    BY <1>1, <1>3 DEF Final
  <2> QED
    BY <1>1, <1>4, <1>5, <2>1 DEF Fresh
<1> QED
  BY <1>1, <1>5, <1>6 DEF Held, more

-----------------------------------------------------------------------------
\* The cursor at is past sentence i of page p.
Handled(at, p, i) == p < at[1] \/ (p = at[1] /\ i < at[2])

\* The pieces are in order, and hold what the cursor is past.
Packed(t, at, s) ==
    /\ Strung(t, s)
    /\ \A k \in 1..Len(s) : \A m \in 1..Len(s[k].parts) : Handled(at, s[k].page, s[k].parts[m])
    /\ \A p \in 1..Len(t) : \A i \in 1..Len(t[p]) :
          t[p][i] # Stray /\ Handled(at, p, i) => Held(s, p, i)

PackingInv ==
    /\ texts \in Seq(Seq(Nat))
    /\ cursor = <<cursor[1], cursor[2]>> /\ cursor[1] \in Nat \ {0} /\ cursor[2] \in Nat \ {0}
    /\ chunks \in Seq(Pieces) /\ buffer \in Seq(Nat)
    /\ Len(buffer) > 0 => cursor[1] \in 1..Len(texts)
    /\ Packed(texts, cursor, Flushed)
    /\ Len(buffer) = 0 => \A k \in 1..Len(chunks) : chunks[k].page < cursor[1]
    /\ stage = "done" => ~(cursor[1] \in 1..Len(texts))

\* What is packed with the buffer, and without it.
LEMMA PackedBoth ==
    ASSUME PackingInv
    PROVE  /\ Len(buffer) = 0 => Flushed = chunks
           /\ Len(buffer) > 0 => /\ Flushed = Append(chunks, Piece(cursor[1], buffer))
                                 /\ Piece(cursor[1], buffer) \in Pieces
                                 /\ Fits(texts, chunks, Piece(cursor[1], buffer))
           /\ Flushed \in Seq(Pieces) /\ Strung(texts, chunks)
<1>1. buffer \in Seq(Nat) /\ chunks \in Seq(Pieces) /\ Strung(texts, Flushed) /\ cursor[1] \in Nat
  BY DEF PackingInv, Packed
<1>2. CASE Len(buffer) = 0
  <2>1. buffer = <<>>
    BY <1>1, <1>2, EmptySeq
  <2>2. Flushed = chunks
    BY <2>1 DEF Flushed
  <2> QED
    BY <1>1, <1>2, <2>2
<1>3. CASE Len(buffer) > 0
  <2> DEFINE q == Piece(cursor[1], buffer)
  <2>1. buffer # <<>>
    BY <1>3
  <2>2. Flushed = Append(chunks, q)
    BY <2>1 DEF Flushed, Page, Piece
  <2>3. q \in Pieces
    BY <1>1 DEF Piece, Pieces
  <2> HIDE DEF q
  <2>4. Flushed \in Seq(Pieces)
    BY <1>1, <2>2, <2>3, AppendProperties
  <2>5. Strung(texts, chunks) /\ Fits(texts, chunks, q)
    BY <1>1, <2>2, <2>3, StrungBefore
  <2> QED
    BY <1>3, <2>2, <2>3, <2>4, <2>5 DEF q
<1>4. Len(buffer) = 0 \/ Len(buffer) > 0
  BY <1>1
<1> QED
  BY <1>2, <1>3, <1>4

\* The cursor moves on by one sentence.
LEMMA HandledOn ==
    ASSUME NEW p \in Nat, NEW i \in Nat, NEW p2 \in Nat, NEW i2 \in Nat
    PROVE  Handled(<<p, i + 1>>, p2, i2) <=> Handled(<<p, i>>, p2, i2) \/ (p2 = p /\ i2 = i)
<1>1. Handled(<<p, i + 1>>, p2, i2) <=> p2 < p \/ (p2 = p /\ i2 < i + 1)
  BY DEF Handled
<1>2. Handled(<<p, i>>, p2, i2) <=> p2 < p \/ (p2 = p /\ i2 < i)
  BY DEF Handled
<1> QED
  BY <1>1, <1>2

\* No sentence of a piece comes after its last.
LEMMA FinalIsLast ==
    ASSUME NEW t, NEW q \in Pieces, PieceTrue(t, q)
    PROVE  /\ Final(q) \in Nat /\ Len(q.parts) \in 1..Len(q.parts)
           /\ \A m \in 1..Len(q.parts) : q.parts[m] \in Nat /\ q.parts[m] <= Final(q)
<1>1. q.parts \in Seq(Nat) /\ Len(q.parts) \in Nat /\ Len(q.parts) > 0
  BY DEF Pieces, PieceTrue
<1>2. \A m \in 1..Len(q.parts) : q.parts[m] \in Nat
  BY <1>1
<1>3. ASSUME NEW m \in 1..Len(q.parts) PROVE q.parts[m] <= q.parts[Len(q.parts)]
  <2>1. CASE m = Len(q.parts)
    BY <1>2, <2>1
  <2>2. CASE m < Len(q.parts)
    <3>1. Len(q.parts) \in 1..Len(q.parts)
      BY <1>1
    <3>2. q.parts[m] < q.parts[Len(q.parts)]
      BY <2>2, <3>1 DEF PieceTrue
    <3> QED
      BY <1>2, <3>1, <3>2
  <2> QED
    BY <1>1, <2>1, <2>2
<1> QED
  BY <1>1, <1>2, <1>3 DEF Final

\* A piece that fits takes the sentence at the cursor.
LEMMA PackedWithNew ==
    ASSUME NEW t, NEW p \in Nat, NEW i \in Nat, NEW s \in Seq(Pieces), Packed(t, <<p, i>>, s),
           NEW q \in Pieces, Fits(t, s, q), q.page = p, Final(q) = i
    PROVE  Packed(t, <<p, i + 1>>, Append(s, q))
<1> DEFINE N == Len(s)
           more == Append(s, q)
<1>1. N \in Nat /\ Len(more) = N + 1 /\ more[N + 1] = q /\ \A k \in 1..N : more[k] = s[k]
  BY AppendProperties
<1>2. Strung(t, s) /\ PieceTrue(t, q)
  BY DEF Packed, Fits
<1>3. Strung(t, more)
  BY <1>2, StrungOn
<1>4. Held(more, p, i)
  <2>1. Len(q.parts) > 0 /\ \A k \in 1..Len(s) : Earlier(s[k], q)
    BY <1>2 DEF Fits, PieceTrue
  <2> QED
    BY <2>1, HeldNow
<1> HIDE DEF N
<1>5. ASSUME NEW k \in 1..(N + 1), NEW m \in 1..Len(more[k].parts)
      PROVE  Handled(<<p, i + 1>>, more[k].page, more[k].parts[m])
  <2>1. CASE k = N + 1
    <3>1. more[k] = q /\ q.parts[m] \in Nat /\ q.parts[m] <= i
      BY <1>1, <1>2, <2>1, FinalIsLast
    <3>2. q.parts[m] < i + 1
      BY <3>1
    <3> QED
      BY <3>1, <3>2 DEF Handled
  <2>2. CASE k \in 1..N
    <3>1. more[k] = s[k] /\ s[k] \in Pieces
      BY <1>1, <2>2 DEF N
    <3>2. Handled(<<p, i>>, s[k].page, s[k].parts[m])
      BY <2>2, <3>1 DEF Packed, N
    <3>3. s[k].page \in Nat /\ s[k].parts[m] \in Nat
      <4>1. s[k].page \in Nat /\ s[k].parts \in Seq(Nat) /\ m \in 1..Len(s[k].parts)
        BY <3>1 DEF Pieces
      <4> QED
        BY <4>1, ElementOfSeq
    <3>4. ASSUME NEW p2 \in Nat, NEW i2 \in Nat, Handled(<<p, i>>, p2, i2)
          PROVE  Handled(<<p, i + 1>>, p2, i2)
      BY <3>4, HandledOn
    <3>5. Handled(<<p, i + 1>>, s[k].page, s[k].parts[m])
      BY <3>2, <3>3, <3>4
    <3> QED
      BY <3>1, <3>5
  <2>3. k = N + 1 \/ k \in 1..N
    BY <1>1
  <2> QED
    BY <2>1, <2>2, <2>3
<1>6. ASSUME NEW p2 \in 1..Len(t), NEW i2 \in 1..Len(t[p2]), t[p2][i2] # Stray, Handled(<<p, i + 1>>, p2, i2)
      PROVE  Held(more, p2, i2)
  <2>1. CASE Handled(<<p, i>>, p2, i2)
    <3>1. Held(s, p2, i2)
      BY <1>6, <2>1 DEF Packed
    <3> QED
      BY <3>1, HeldOn
  <2>2. CASE p2 = p /\ i2 = i
    BY <1>4, <2>2
  <2>3. p2 \in Nat /\ i2 \in Nat
    OBVIOUS
  <2>4. Handled(<<p, i>>, p2, i2) \/ (p2 = p /\ i2 = i)
    BY <1>6, <2>3, HandledOn
  <2> QED
    BY <2>1, <2>2, <2>4
<1> HIDE DEF more
<1> QED
  BY <1>1, <1>3, <1>5, <1>6 DEF Packed, more

\* The last piece takes the sentence at the cursor.
LEMMA PackedWithLonger ==
    ASSUME NEW t, NEW p \in Nat, NEW i \in Nat, NEW s \in Seq(Pieces), NEW q \in Pieces,
           Packed(t, <<p, i>>, Append(s, q)), q.page = p,
           NEW r \in Pieces, Fits(t, s, r), r.page = p, Final(r) = i, Len(r.parts) = Len(q.parts) + 1,
           \A m \in 1..Len(q.parts) : r.parts[m] = q.parts[m]
    PROVE  Packed(t, <<p, i + 1>>, Append(s, r))
<1> DEFINE N == Len(s)
           old == Append(s, q)
           more == Append(s, r)
<1>1. N \in Nat /\ Len(old) = N + 1 /\ old[N + 1] = q /\ \A k \in 1..N : old[k] = s[k]
  BY AppendProperties
<1>2. Len(more) = N + 1 /\ more[N + 1] = r /\ \A k \in 1..N : more[k] = s[k]
  BY AppendProperties
<1>3. Strung(t, s) /\ PieceTrue(t, r)
  <2>1. Strung(t, old)
    BY DEF Packed
  <2> QED
    BY <2>1, StrungBefore DEF Fits
<1>4. Strung(t, more)
  BY <1>3, StrungOn
<1>5. Held(more, p, i)
  <2>1. Len(r.parts) > 0 /\ \A k \in 1..Len(s) : Earlier(s[k], r)
    BY <1>3 DEF Fits, PieceTrue
  <2> QED
    BY <2>1, HeldNow
<1>6. \A m \in 1..Len(q.parts) : \E n \in 1..Len(r.parts) : r.parts[n] = q.parts[m]
  <2>1. Len(q.parts) \in Nat
    BY DEF Pieces
  <2>2. \A m \in 1..Len(q.parts) : m \in 1..Len(r.parts)
    BY <2>1
  <2> QED
    BY <2>2
<1> HIDE DEF N
<1>7. ASSUME NEW k \in 1..(N + 1), NEW m \in 1..Len(more[k].parts)
      PROVE  Handled(<<p, i + 1>>, more[k].page, more[k].parts[m])
  <2>1. CASE k = N + 1
    <3>1. more[k] = r /\ r.parts[m] \in Nat /\ r.parts[m] <= i
      BY <1>2, <1>3, <2>1, FinalIsLast
    <3>2. r.parts[m] < i + 1
      BY <3>1
    <3> QED
      BY <3>1, <3>2 DEF Handled
  <2>2. CASE k \in 1..N
    <3>1. more[k] = s[k] /\ s[k] \in Pieces /\ old[k] = s[k] /\ k \in 1..Len(old)
      BY <1>1, <1>2, <2>2 DEF N
    <3>2. Handled(<<p, i>>, s[k].page, s[k].parts[m])
      BY <3>1 DEF Packed
    <3>3. s[k].page \in Nat /\ s[k].parts[m] \in Nat
      <4>1. s[k].page \in Nat /\ s[k].parts \in Seq(Nat) /\ m \in 1..Len(s[k].parts)
        BY <3>1 DEF Pieces
      <4> QED
        BY <4>1, ElementOfSeq
    <3>4. ASSUME NEW p2 \in Nat, NEW i2 \in Nat, Handled(<<p, i>>, p2, i2)
          PROVE  Handled(<<p, i + 1>>, p2, i2)
      BY <3>4, HandledOn
    <3>5. Handled(<<p, i + 1>>, s[k].page, s[k].parts[m])
      BY <3>2, <3>3, <3>4
    <3> QED
      BY <3>1, <3>5
  <2>3. k = N + 1 \/ k \in 1..N
    BY <1>1
  <2> QED
    BY <2>1, <2>2, <2>3
<1>8. ASSUME NEW p2 \in 1..Len(t), NEW i2 \in 1..Len(t[p2]), t[p2][i2] # Stray, Handled(<<p, i + 1>>, p2, i2)
      PROVE  Held(more, p2, i2)
  <2>1. CASE Handled(<<p, i>>, p2, i2)
    <3>1. Held(old, p2, i2)
      BY <1>8, <2>1 DEF Packed
    <3>2. q.page = r.page
      OBVIOUS
    <3> QED
      BY <1>6, <3>1, <3>2, HeldLonger
  <2>2. CASE p2 = p /\ i2 = i
    BY <1>5, <2>2
  <2>3. p2 \in Nat /\ i2 \in Nat
    OBVIOUS
  <2>4. Handled(<<p, i>>, p2, i2) \/ (p2 = p /\ i2 = i)
    BY <1>8, <2>3, HandledOn
  <2> QED
    BY <2>1, <2>2, <2>4
<1> HIDE DEF more
<1> QED
  BY <1>2, <1>4, <1>7, <1>8 DEF Packed, more

\* Nothing is taken when there is a fragment at the cursor, ...
LEMMA PackedPastFragment ==
    ASSUME NEW t, NEW p \in Nat, NEW i \in Nat, NEW s \in Seq(Pieces), Packed(t, <<p, i>>, s), t[p][i] = Stray
    PROVE  Packed(t, <<p, i + 1>>, s)
<1>1. ASSUME NEW k \in 1..Len(s), NEW m \in 1..Len(s[k].parts)
      PROVE  Handled(<<p, i + 1>>, s[k].page, s[k].parts[m])
  <2>1. Handled(<<p, i>>, s[k].page, s[k].parts[m])
    BY DEF Packed
  <2>2. s[k].page \in Nat /\ s[k].parts[m] \in Nat
    <3>1. s[k] \in Pieces
      OBVIOUS
    <3>2. s[k].page \in Nat /\ s[k].parts \in Seq(Nat)
      BY <3>1 DEF Pieces
    <3> QED
      BY <3>2, ElementOfSeq
  <2> QED
    BY <2>1, <2>2, HandledOn
<1>2. ASSUME NEW p2 \in 1..Len(t), NEW i2 \in 1..Len(t[p2]), t[p2][i2] # Stray, Handled(<<p, i + 1>>, p2, i2)
      PROVE  Held(s, p2, i2)
  <2>1. p2 \in Nat /\ i2 \in Nat
    OBVIOUS
  <2>2. Handled(<<p, i>>, p2, i2)
    BY <1>2, <2>1, HandledOn
  <2> QED
    BY <1>2, <2>2 DEF Packed
<1> QED
  BY <1>1, <1>2 DEF Packed

\* ... or the end of a page.
LEMMA PackedPastPage ==
    ASSUME NEW t \in Seq(Seq(Nat)), NEW p \in 1..Len(t), NEW i \in Nat, i \notin 1..Len(t[p]), i > 0,
           NEW s \in Seq(Pieces), Packed(t, <<p, i>>, s)
    PROVE  Packed(t, <<p + 1, 1>>, s)
<1>1. ASSUME NEW k \in 1..Len(s), NEW m \in 1..Len(s[k].parts)
      PROVE  Handled(<<p + 1, 1>>, s[k].page, s[k].parts[m])
  <2>1. s[k].page < p \/ s[k].page = p
    BY DEF Packed, Handled
  <2>2. s[k].page \in Nat /\ p \in Nat
    <3>1. s[k] \in Pieces
      BY ElementOfSeq
    <3>2. s[k].page \in Nat
      BY <3>1 DEF Pieces
    <3>3. p \in Nat
      OBVIOUS
    <3> QED
      BY <3>2, <3>3
  <2>3. \A n \in Nat : n < p \/ n = p => n < p + 1
    BY <2>2
  <2>4. s[k].page < p + 1
    BY <2>1, <2>2, <2>3
  <2> QED
    BY <2>4 DEF Handled
<1>2. ASSUME NEW p2 \in 1..Len(t), NEW i2 \in 1..Len(t[p2]), t[p2][i2] # Stray, Handled(<<p + 1, 1>>, p2, i2)
      PROVE  Held(s, p2, i2)
  <2>1. p2 < p + 1 \/ (p2 = p + 1 /\ i2 < 1)
    BY <1>2 DEF Handled
  <2>2. p2 < p \/ p2 = p
    BY <2>1
  <2>3. p2 = p => i2 < i
    <3> SUFFICES ASSUME p2 = p PROVE i2 < i
      OBVIOUS
    <3>1. Len(t[p]) \in Nat /\ i2 \in 1..Len(t[p])
      OBVIOUS
    <3> QED
      BY <3>1
  <2>4. Handled(<<p, i>>, p2, i2)
    BY <2>2, <2>3 DEF Handled
  <2> QED
    BY <1>2, <2>4 DEF Packed
<1> QED
  BY <1>1, <1>2 DEF Packed

-----------------------------------------------------------------------------
\* What became of the text of a page.
PageKept(p) ==
    \/ texts[p] = layer[p]
    \/ NeedsOcr(p) /\ TextLength(texts[p]) > TextLength(layer[p])

DocumentInv ==
    /\ layer \in Seq(Seq(Nat)) /\ \A p \in DOMAIN found : found[p] \in Seq(Nat)
    /\ stage # "extract" =>
          /\ texts \in Seq(Seq(Nat)) /\ Len(texts) = Len(layer)
          /\ \A p \in 1..Len(layer) : PageKept(p)

ReadingInv ==
    /\ stage \in {"extract", "ocr", "check", "failed", "chunk", "done"}
    /\ DocumentInv
    /\ stage \notin {"chunk", "done"} => cursor = <<1, 1>> /\ buffer = <<>> /\ chunks = <<>>
    /\ stage \in {"chunk", "done"} => PackingInv

\* At first there is nothing.
LEMMA ReadingStarts == ReadingInit => ReadingInv
<1> SUFFICES ASSUME ReadingInit PROVE ReadingInv
  OBVIOUS
<1>1. layer \in Seq(Seq(Nat)) /\ DOMAIN found = {}
  BY DEF ReadingInit
<1> QED
  BY <1>1 DEF ReadingInit, ReadingInv, DocumentInv

\* The text of a page is made of sizes.
LEMMA TextsTrue == \A text \in Text : text \in Seq(Nat)
<1> SUFFICES ASSUME NEW text \in Text PROVE text \in Seq(Nat)
  OBVIOUS
<1>1. PICK m \in 0..MaxSentences : text \in [1..m -> Sizes]
  BY DEF Text, BoundedSeq, SeqOf
<1>2. MaxSentences \in Nat /\ Sizes \subseteq Nat
  BY ReadingAssumption
<1>3. m \in Nat /\ text \in [1..m -> Nat]
  <2>1. m \in Nat
    BY <1>2
  <2>2. \A n \in 1..m : text[n] \in Nat
    BY <1>1, <1>2
  <2>3. DOMAIN text = 1..m /\ text = [n \in 1..m |-> text[n]]
    BY <1>1
  <2> QED
    BY <2>1, <2>2, <2>3
<1> QED
  BY <1>3

\* A page is extracted.
LEMMA PageExtracted == ReadingInv /\ ExtractPage => ReadingInv'
<1> SUFFICES ASSUME ReadingInv, ExtractPage PROVE ReadingInv'
  OBVIOUS
<1>1. PICK text \in Text : layer' = Append(layer, text)
  BY DEF ExtractPage
<1>2. stage = "extract" /\ UNCHANGED <<stage, found, texts, cursor, buffer, chunks>>
  BY DEF ExtractPage
<1>3. layer' \in Seq(Seq(Nat))
  <2>1. text \in Seq(Nat) /\ layer \in Seq(Seq(Nat))
    BY TextsTrue DEF ReadingInv, DocumentInv
  <2> QED
    BY <1>1, <2>1, AppendProperties
<1>4. DocumentInv'
  BY <1>2, <1>3 DEF ReadingInv, DocumentInv
<1> QED
  BY <1>2, <1>4 DEF ReadingInv

\* The text layer is what is read on, if recognition does not change it.
LEMMA ExtractionOver == ReadingInv /\ ExtractEnds => ReadingInv'
<1> SUFFICES ASSUME ReadingInv, ExtractEnds PROVE ReadingInv'
  OBVIOUS
<1>1. /\ stage = "extract" /\ stage' \in {"ocr", "check"} /\ texts' = layer
      /\ UNCHANGED <<layer, found, cursor, buffer, chunks>>
  BY DEF ExtractEnds
<1>2. \A p \in 1..Len(layer') : PageKept(p)'
  BY <1>1 DEF PageKept
<1>3. DocumentInv'
  BY <1>1, <1>2 DEF ReadingInv, DocumentInv
<1> QED
  BY <1>1, <1>3 DEF ReadingInv

\* What recognition reads on a page is a text.
LEMMA PageRecognised == ReadingInv /\ RecognisePage => ReadingInv'
<1> SUFFICES ASSUME ReadingInv, RecognisePage PROVE ReadingInv'
  OBVIOUS
<1> DEFINE p == Min(PagesForOcr \ DOMAIN found)
<1>1. PICK text \in Text : found' = [q \in DOMAIN found \cup {p} |-> IF q = p THEN text ELSE found[q]]
  BY DEF RecognisePage
<1>2. stage = "ocr" /\ UNCHANGED <<stage, layer, texts, cursor, buffer, chunks>>
  BY DEF RecognisePage
<1> HIDE DEF p
<1>3. ASSUME NEW q \in DOMAIN found' PROVE found'[q] \in Seq(Nat)
  <2>1. text \in Seq(Nat) /\ \A r \in DOMAIN found : found[r] \in Seq(Nat)
    BY TextsTrue DEF ReadingInv, DocumentInv
  <2>2. q \in DOMAIN found \cup {p} /\ found'[q] = IF q = p THEN text ELSE found[q]
    BY <1>1
  <2> QED
    BY <2>1, <2>2
<1>4. \A q \in 1..Len(layer') : PageKept(q)'
  BY <1>2 DEF ReadingInv, DocumentInv, PageKept, NeedsOcr
<1>5. DocumentInv'
  BY <1>2, <1>3, <1>4 DEF ReadingInv, DocumentInv
<1> QED
  BY <1>2, <1>5 DEF ReadingInv

\* A page that recognition reads more on is the page that needed it.
LEMMA ResultsMerged == ReadingInv /\ MergeOcrResults => ReadingInv'
<1> SUFFICES ASSUME ReadingInv, MergeOcrResults PROVE ReadingInv'
  OBVIOUS
<1>1. /\ stage = "ocr" /\ stage' = "check" /\ DOMAIN found = PagesForOcr
      /\ texts' = [p \in DOMAIN layer |-> Better(p)]
      /\ UNCHANGED <<layer, found, cursor, buffer, chunks>>
  BY DEF MergeOcrResults
<1>2. layer \in Seq(Seq(Nat)) /\ (\A p \in DOMAIN found : found[p] \in Seq(Nat)) /\ DOMAIN layer = 1..Len(layer)
  BY DEF ReadingInv, DocumentInv
<1>3. ASSUME NEW p \in 1..Len(layer)
      PROVE  /\ Better(p) \in Seq(Nat)
             /\ Better(p) = layer[p] \/ (NeedsOcr(p) /\ TextLength(Better(p)) > TextLength(layer[p]))
  <2>1. layer[p] \in Seq(Nat)
    BY <1>2, ElementOfSeq
  <2>2. CASE p \in DOMAIN found /\ TextLength(found[p]) > TextLength(layer[p])
    <3>1. Better(p) = found[p]
      BY <2>2 DEF Better
    <3>2. NeedsOcr(p)
      BY <1>1, <2>2 DEF PagesForOcr
    <3> QED
      BY <1>2, <2>2, <3>1, <3>2
  <2>3. CASE ~(p \in DOMAIN found /\ TextLength(found[p]) > TextLength(layer[p]))
    <3>1. Better(p) = layer[p]
      BY <2>3 DEF Better
    <3> QED
      BY <2>1, <3>1
  <2> QED
    BY <2>2, <2>3
<1>4. texts' \in Seq(Seq(Nat)) /\ Len(texts') = Len(layer)
  <2>1. Len(layer) \in Nat
    BY <1>2
  <2>2. texts' = [p \in 1..Len(layer) |-> Better(p)]
    BY <1>1, <1>2
  <2>3. \A p \in 1..Len(layer) : Better(p) \in Seq(Nat)
    BY <1>3
  <2>4. texts' \in [1..Len(layer) -> Seq(Nat)]
    BY <2>2, <2>3
  <2> QED
    BY <2>1, <2>4
<1>5. ASSUME NEW p \in 1..Len(layer) PROVE PageKept(p)'
  <2>1. texts'[p] = Better(p)
    BY <1>1, <1>2
  <2>2. NeedsOcr(p)' <=> NeedsOcr(p)
    BY <1>1 DEF NeedsOcr
  <2> QED
    BY <1>1, <1>3, <2>1, <2>2 DEF PageKept
<1>6. DocumentInv'
  BY <1>1, <1>4, <1>5 DEF ReadingInv, DocumentInv
<1> QED
  BY <1>1, <1>6 DEF ReadingInv

\* Without recognition the text layer is read on.
LEMMA RecognitionFailed == ReadingInv /\ OcrFails => ReadingInv'
<1> SUFFICES ASSUME ReadingInv, OcrFails PROVE ReadingInv'
  OBVIOUS
<1>1. /\ stage = "ocr" /\ stage' = "check" /\ found' = << >>
      /\ UNCHANGED <<layer, texts, cursor, buffer, chunks>>
  BY DEF OcrFails
<1>2. DOMAIN found' = {}
  BY <1>1
<1>3. \A p \in 1..Len(layer') : PageKept(p)'
  BY <1>1 DEF ReadingInv, DocumentInv, PageKept, NeedsOcr
<1>4. DocumentInv'
  BY <1>1, <1>2, <1>3 DEF ReadingInv, DocumentInv
<1> QED
  BY <1>1, <1>4 DEF ReadingInv

\* Nothing is packed before the first sentence.
LEMMA NothingPacked ==
    ASSUME texts \in Seq(Seq(Nat)), cursor = <<1, 1>>, buffer = <<>>, chunks = <<>>, stage # "done"
    PROVE  PackingInv
<1>1. Flushed = <<>> /\ Len(buffer) = 0 /\ Len(chunks) = 0 /\ chunks \in Seq(Pieces) /\ buffer \in Seq(Nat)
  BY DEF Flushed
<1>2. cursor[1] = 1 /\ cursor[2] = 1 /\ cursor = <<cursor[1], cursor[2]>>
  OBVIOUS
<1>3. Strung(texts, <<>>)
  BY DEF Strung
<1>4. ASSUME NEW p \in 1..Len(texts), NEW i \in 1..Len(texts[p]) PROVE ~Handled(cursor, p, i)
  <2>1. ~(p < 1) /\ ~(i < 1)
    OBVIOUS
  <2> QED
    BY <1>2, <2>1 DEF Handled
<1>5. Packed(texts, cursor, Flushed)
  BY <1>1, <1>3, <1>4 DEF Packed
<1> QED
  BY <1>1, <1>2, <1>5 DEF PackingInv

\* The packing begins with nothing packed.
LEMMA TextChecked == ReadingInv /\ CheckText => ReadingInv'
<1> SUFFICES ASSUME ReadingInv, CheckText PROVE ReadingInv'
  OBVIOUS
<1>1. /\ stage = "check" /\ stage' \in {"failed", "chunk"}
      /\ UNCHANGED <<layer, found, texts, cursor, buffer, chunks>>
  BY DEF CheckText
<1>2. \A p \in 1..Len(layer') : PageKept(p)'
  BY <1>1 DEF ReadingInv, DocumentInv, PageKept, NeedsOcr
<1>3. DocumentInv'
  BY <1>1, <1>2 DEF ReadingInv, DocumentInv
<1>4. PackingInv'
  <2>1. PackingInv
    BY <1>1, NothingPacked DEF ReadingInv, DocumentInv
  <2> QED
    BY <1>1, <2>1 DEF PackingInv, Flushed, Page
<1> QED
  BY <1>1, <1>3, <1>4 DEF ReadingInv

-----------------------------------------------------------------------------
\* What is packed comes before the sentence at the cursor.
LEMMA PackedEarlier ==
    ASSUME NEW t, NEW p \in Nat, NEW i \in Nat, NEW s \in Seq(Pieces), Packed(t, <<p, i>>, s),
           NEW r, r.page = p, Final(r) = i
    PROVE  \A k \in 1..Len(s) :
              /\ Earlier(s[k], r)
              /\ s[k].page = p => \A m \in 1..Len(s[k].parts) : s[k].parts[m] < i
<1> SUFFICES ASSUME NEW k \in 1..Len(s)
             PROVE  /\ Earlier(s[k], r)
                    /\ s[k].page = p => \A m \in 1..Len(s[k].parts) : s[k].parts[m] < i
  OBVIOUS
<1>1. s[k] \in Pieces /\ PieceTrue(t, s[k])
  BY DEF Packed, Strung
<1>2. \A m \in 1..Len(s[k].parts) : Handled(<<p, i>>, s[k].page, s[k].parts[m])
  BY DEF Packed
<1>3. s[k].page \in Nat
  BY <1>1 DEF Pieces
<1>4. \A m \in 1..Len(s[k].parts) : s[k].page < p \/ (s[k].page = p /\ s[k].parts[m] < i)
  BY <1>2 DEF Handled
<1>5. Len(s[k].parts) \in 1..Len(s[k].parts)
  BY <1>1, FinalIsLast
<1>6. s[k].page < p \/ (s[k].page = p /\ Final(s[k]) < i)
  BY <1>4, <1>5 DEF Final
<1> QED
  BY <1>3, <1>4, <1>6 DEF Earlier

\* The sentence at the cursor, and what is in the buffer.
LEMMA AtTheCursor ==
    ASSUME ReadingInv, TakeSentence
    PROVE  /\ PackingInv /\ stage = "chunk" /\ UNCHANGED <<stage, layer, found, texts>>
           /\ cursor[1] \in 1..Len(texts) /\ cursor[2] \in 1..Len(texts[cursor[1]])
           /\ cursor[1] \in Nat /\ cursor[2] \in Nat
           /\ cursor' = <<cursor[1], cursor[2] + 1>>
           /\ texts[cursor[1]][cursor[2]] # Stray /\ Len(buffer) > 0 =>
                 ComesAfter(texts, cursor[1], buffer, cursor[2])
<1> DEFINE p == cursor[1]
           i == cursor[2]
<1>1. PackingInv /\ stage = "chunk" /\ UNCHANGED <<stage, layer, found, texts>>
  BY DEF ReadingInv, TakeSentence
<1>2. texts \in Seq(Seq(Nat)) /\ p \in DOMAIN texts /\ i \in DOMAIN texts[p] /\ cursor' = <<p, i + 1>>
  BY <1>1 DEF TakeSentence, Page, PackingInv
<1>3. DOMAIN texts = 1..Len(texts) /\ texts[p] \in Seq(Nat)
  BY <1>2
<1>4. DOMAIN texts[p] = 1..Len(texts[p])
  BY <1>3
<1>5. p \in 1..Len(texts) /\ i \in 1..Len(texts[p]) /\ p \in Nat /\ i \in Nat
  BY <1>2, <1>3, <1>4
<1>6. ASSUME texts[p][i] # Stray, Len(buffer) > 0 PROVE ComesAfter(texts, p, buffer, i)
  <2> DEFINE q == Piece(p, buffer)
             N == Len(chunks)
  <2>1. /\ Flushed = Append(chunks, q) /\ q \in Pieces /\ Fits(texts, chunks, q)
        /\ Flushed \in Seq(Pieces) /\ chunks \in Seq(Pieces)
    BY <1>1, <1>6, PackedBoth DEF PackingInv
  <2>2. q.page = p /\ q.parts = buffer
    BY DEF Piece
  <2> HIDE DEF q
  <2>3. Len(Flushed) = N + 1 /\ Flushed[N + 1] = q /\ N \in Nat
    BY <2>1, AppendProperties
  <2> HIDE DEF N
  <2>4. Packed(texts, <<p, i>>, Flushed)
    BY <1>1 DEF PackingInv
  <2>5. \A m \in 1..Len(buffer) : Handled(<<p, i>>, p, buffer[m])
    <3>1. N + 1 \in 1..Len(Flushed)
      BY <2>3
    <3> QED
      BY <2>2, <2>3, <2>4, <3>1 DEF Packed
  <2>6. \A m \in 1..Len(buffer) : buffer[m] < i
    <3>1. ~(p < p)
      BY <1>5
    <3> HIDE DEF p, i
    <3> QED
      BY <2>5, <3>1 DEF Handled
  <2>7. buffer \in Seq(Nat) /\ PieceTrue(texts, q)
    BY <1>1, <2>1 DEF PackingInv, Fits
  <2> QED
    BY <1>2, <1>5, <1>6, <2>6, <2>7 DEF ComesAfter, q
<1> QED
  BY <1>1, <1>2, <1>5, <1>6

\* A sentence is taken.
LEMMA SentenceTaken == ReadingInv /\ TakeSentence => ReadingInv'
<1> SUFFICES ASSUME ReadingInv, TakeSentence PROVE ReadingInv'
  OBVIOUS
<1> DEFINE p == cursor[1]
           i == cursor[2]
           size == texts[p][i]
           full == buffer # <<>> /\ TokensOf(p, buffer) + size > TargetTokens
           kept == IF full THEN TrailingOverlap(p, buffer) ELSE buffer
           q == Piece(p, buffer)
           r == Piece(p, Append(kept, i))
<1>1. /\ PackingInv /\ stage = "chunk" /\ UNCHANGED <<stage, layer, found, texts>>
      /\ p \in 1..Len(texts) /\ i \in 1..Len(texts[p]) /\ p \in Nat /\ i \in Nat
      /\ cursor' = <<p, i + 1>>
      /\ size # Stray /\ Len(buffer) > 0 => ComesAfter(texts, p, buffer, i)
  BY AtTheCursor
<1>2. IF size = Stray THEN UNCHANGED <<buffer, chunks>>
      ELSE buffer' = Append(kept, i) /\ chunks' = IF full THEN Flushed ELSE chunks
  BY DEF TakeSentence, Page
<1>3. /\ texts \in Seq(Seq(Nat)) /\ buffer \in Seq(Nat) /\ chunks \in Seq(Pieces)
      /\ Packed(texts, <<p, i>>, Flushed)
      /\ Len(buffer) = 0 => \A k \in 1..Len(chunks) : chunks[k].page < p
      /\ Len(buffer) \in Nat /\ (buffer = <<>> <=> Len(buffer) = 0)
  <2>1. /\ texts \in Seq(Seq(Nat)) /\ buffer \in Seq(Nat) /\ chunks \in Seq(Pieces)
        /\ Len(buffer) = 0 => \A k \in 1..Len(chunks) : chunks[k].page < p
        /\ Packed(texts, cursor, Flushed) /\ cursor = <<p, i>>
    BY <1>1 DEF PackingInv
  <2>2. Packed(texts, <<p, i>>, Flushed)
    BY <2>1
  <2>3. Len(buffer) \in Nat /\ (buffer = <<>> <=> Len(buffer) = 0)
    BY <2>1, EmptySeq
  <2> QED
    BY <2>1, <2>2, <2>3
<1>4. /\ Len(buffer) = 0 => Flushed = chunks
      /\ Len(buffer) > 0 => Flushed = Append(chunks, q) /\ q \in Pieces /\ Fits(texts, chunks, q)
      /\ Flushed \in Seq(Pieces) /\ Strung(texts, chunks)
  BY <1>1, PackedBoth
<1>5. cursor'[1] = p /\ cursor'[2] = i + 1 /\ cursor' = <<cursor'[1], cursor'[2]>>
  BY <1>1
<1>6. DocumentInv'
  BY <1>1 DEF ReadingInv, DocumentInv, PageKept, NeedsOcr
<1>10. cursor'[1] \in Nat \ {0} /\ cursor'[2] \in Nat \ {0} /\ stage' # "done" /\ cursor'[1] \in 1..Len(texts)
  BY <1>1, <1>5
<1>7. SUFFICES PackingInv'
  BY <1>1, <1>6 DEF ReadingInv
<1>8. CASE size = Stray
  <2>1. UNCHANGED <<buffer, chunks>>
    BY <1>2, <1>8
  <2>2. Flushed' = Flushed
    BY <1>5, <2>1 DEF Flushed, Page
  <2>3. Packed(texts, <<p, i + 1>>, Flushed)
    BY <1>1, <1>3, <1>4, <1>8, PackedPastFragment
  <2>4. Packed(texts, cursor, Flushed)'
    BY <1>1, <2>2, <2>3
  <2> QED
    <3>1. Len(buffer') = 0 => \A k \in 1..Len(chunks') : chunks'[k].page < cursor'[1]
      BY <1>3, <1>5, <2>1
    <3>2. /\ texts' \in Seq(Seq(Nat)) /\ chunks' \in Seq(Pieces) /\ buffer' \in Seq(Nat)
          /\ cursor'[1] \in 1..Len(texts') /\ stage' # "done"
      BY <1>1, <1>3, <1>10, <2>1
    <3> QED
      BY <1>5, <1>10, <2>4, <3>1, <3>2, Zenon DEF PackingInv
<1>9. CASE size # Stray
  <2>0. q.page = p /\ q.parts = buffer /\ r.page = p /\ r.parts = Append(kept, i)
    BY DEF Piece
  <2>1. buffer' = Append(kept, i) /\ chunks' = IF full THEN Flushed ELSE chunks
    BY <1>2, <1>9
  <2>2. SUFFICES /\ kept \in Seq(Nat) /\ chunks' \in Seq(Pieces)
                 /\ Packed(texts, <<p, i + 1>>, Append(chunks', r))
    <3> SUFFICES ASSUME kept \in Seq(Nat), chunks' \in Seq(Pieces), Packed(texts, <<p, i + 1>>, Append(chunks', r))
                 PROVE  PackingInv'
      OBVIOUS
    <3> HIDE DEF kept
    <3>1. buffer' \in Seq(Nat) /\ Len(buffer') > 0 /\ ~(Len(buffer') = 0)
      BY <1>1, <2>1, AppendProperties
    <3>2. buffer' # <<>>
      BY <3>1
    <3>3. Flushed' = Append(chunks', r)
      BY <1>5, <2>1, <3>2 DEF Flushed, Page, Piece
    <3> HIDE DEF r
    <3>4. Packed(texts, cursor, Flushed)'
      BY <1>1, <3>3
    <3> QED
      <4>1. texts' = texts /\ chunks' \in Seq(Pieces)
        BY <1>1, <1>3
      <4> QED
        BY <1>3, <1>5, <1>10, <3>1, <3>4, <4>1 DEF PackingInv
  <2>3. CASE Len(buffer) = 0
    <3>1. kept = buffer /\ chunks' = chunks /\ buffer = <<>> /\ Flushed = chunks
      BY <1>3, <1>4, <2>1, <2>3
    <3>2. ComesAfter(texts, p, buffer, i)
      BY <1>1, <1>3, <1>9, <2>3 DEF ComesAfter
    <3> HIDE DEF kept, full
    <3>3. r \in Pieces /\ PieceTrue(texts, r) /\ Final(r) = i /\ Len(r.parts) = 1
      <4>1. ComesAfter(texts, p, kept, i)
        BY <3>1, <3>2
      <4>2. r \in Pieces /\ PieceTrue(texts, r) /\ Final(r) = i /\ Len(r.parts) = Len(kept) + 1
        BY <4>1, MoreSentences
      <4>3. Len(kept) = 0
        BY <2>3, <3>1
      <4> QED
        BY <4>2, <4>3
    <3>4. StandsAlone(texts, r)
      BY <3>3 DEF StandsAlone
    <3> HIDE DEF r
    <3>5. Fits(texts, chunks, r)
      <4>1. \A k \in 1..Len(chunks) : chunks[k].page < r.page
        BY <1>3, <2>0, <2>3
      <4>2. Len(chunks) > 0 => Len(chunks) \in 1..Len(chunks)
        BY <1>3
      <4> QED
        BY <3>3, <3>4, <4>1, <4>2 DEF Fits, NextTo, Earlier
    <3>6. Packed(texts, <<p, i + 1>>, Append(chunks, r))
      BY <1>1, <1>3, <2>0, <3>1, <3>3, <3>5, PackedWithNew
    <3> QED
      BY <1>3, <3>1, <3>6
  <2>4. CASE Len(buffer) > 0 /\ ~full
    <3>1. kept = buffer /\ chunks' = chunks /\ buffer # <<>>
      BY <1>3, <2>1, <2>4
    <3>0. size \in Nat
      <4>1. texts[p] \in Seq(Nat)
        BY <1>1, <1>3, ElementOfSeq
      <4> HIDE DEF p, i
      <4> QED
        BY <1>1, <4>1, ElementOfSeq DEF size
    <3>2. ComesAfter(texts, p, buffer, i)
      BY <1>1, <1>9, <2>4
    <3>3. Amount(texts, q) + size <= TargetTokens
      <4>1. Amount(texts, q) \in Nat /\ size \in Nat /\ TargetTokens \in Nat
        <5>1. Amount(texts, q) \in Nat
          BY <3>2, MoreSentences
        <5>2. size \in Nat
          BY <3>0
        <5> QED
          BY <5>1, <5>2, ReadingAssumption
      <4>2. Amount(texts, q) = TokensOf(p, buffer)
        BY <2>0 DEF Amount, TokensOf, TokensIn
      <4>3. ~(TokensOf(p, buffer) + size > TargetTokens)
        BY <2>4, <3>1
      <4> HIDE DEF q, size
      <4> QED
        BY <4>1, <4>2, <4>3
    <3> HIDE DEF kept, full
    <3>4. /\ r \in Pieces /\ PieceTrue(texts, r) /\ Final(r) = i /\ Len(r.parts) = Len(buffer) + 1
          /\ \A m \in 1..Len(buffer) : r.parts[m] = buffer[m]
          /\ Amount(texts, r) = Amount(texts, q) + size /\ Amount(texts, q) \in Nat
      BY <3>1, <3>2, MoreSentences
    <3>5. StandsAlone(texts, r)
      <4>1. Amount(texts, r) <= TargetTokens /\ Amount(texts, r) \in Nat
        <5> HIDE DEF r, q, size
        <5> QED
          BY <3>0, <3>3, <3>4
      <4>2. TargetTokens \in Nat
        BY ReadingAssumption
      <4> HIDE DEF r
      <4> QED
        BY <4>1, <4>2 DEF StandsAlone
    <3>6. \A k \in 1..Len(chunks) : /\ Earlier(chunks[k], r)
                                    /\ chunks[k].page = p => Final(chunks[k]) < i
      <4> SUFFICES ASSUME NEW k \in 1..Len(chunks)
                   PROVE  Earlier(chunks[k], r) /\ (chunks[k].page = p => Final(chunks[k]) < i)
        OBVIOUS
      <4>1. Flushed[k] = chunks[k] /\ k \in 1..Len(Flushed)
        <5>1. Flushed = Append(chunks, q) /\ q \in Pieces
          BY <1>4, <2>4
        <5> HIDE DEF q
        <5>2. Len(Flushed) = Len(chunks) + 1 /\ \A l \in 1..Len(chunks) : Flushed[l] = chunks[l]
          BY <1>3, <5>1, AppendProperties
        <5> QED
          BY <1>3, <5>2
      <4>2. /\ Earlier(Flushed[k], r)
            /\ Flushed[k].page = p => \A m \in 1..Len(Flushed[k].parts) : Flushed[k].parts[m] < i
        BY ZenonT(60), <1>1, <1>3, <1>4, <2>0, <3>4, <4>1, PackedEarlier
      <4>3. Len(chunks[k].parts) \in 1..Len(chunks[k].parts)
        <5>1. chunks[k] \in Pieces /\ PieceTrue(texts, chunks[k])
          BY <1>3, <1>4 DEF Strung
        <5> QED
          BY <5>1, FinalIsLast
      <4> QED
        BY <4>1, <4>2, <4>3 DEF Final
    <3>7. Len(chunks) > 0 => NextTo(texts, chunks[Len(chunks)], r)
      <4> SUFFICES ASSUME Len(chunks) > 0 PROVE NextTo(texts, chunks[Len(chunks)], r)
        OBVIOUS
      <4> DEFINE l == chunks[Len(chunks)]
      <4>1. Len(chunks) \in 1..Len(chunks)
        BY <1>3
      <4>2. l \in Pieces /\ PieceTrue(texts, l) /\ NextTo(texts, l, q) /\ (l.page = p => Final(l) < i)
        BY <1>3, <1>4, <2>4, <3>6, <4>1 DEF Strung, Fits
      <4> HIDE DEF l
      <4>3. CASE l.page < q.page
        <5>1. l.page < r.page
          BY <2>0, <4>3
        <5> HIDE DEF r
        <5> QED
          BY <3>5, <5>1 DEF NextTo, l
      <4>4. CASE ~(l.page < q.page)
        <5>1. l.page = q.page
          BY <4>2, <4>4 DEF NextTo
        <5>2. PICK n \in 0..Len(l.parts) : Carries(texts, l, q, n)
          BY <4>2, <4>4 DEF NextTo
        <5>3. Final(l) < i /\ Len(l.parts) > 0
          BY <2>0, <4>2, <5>1 DEF PieceTrue
        <5>4. Carries(texts, l, r, n)
          BY <2>4, <3>1, <3>2, <3>3, <4>2, <5>2, <5>3, StillCarries
        <5>5. l.page = r.page
          BY <2>0, <5>1
        <5> HIDE DEF r
        <5> QED
          BY <5>4, <5>5 DEF NextTo, l
      <4> QED
        BY <4>3, <4>4 DEF l
    <3>8. Fits(texts, chunks, r)
      <4> HIDE DEF r
      <4> QED
        BY <3>4, <3>5, <3>6, <3>7 DEF Fits
    <3>9. Packed(texts, <<p, i + 1>>, Append(chunks, r))
      <4>1. Packed(texts, <<p, i>>, Append(chunks, q)) /\ q \in Pieces
        BY <1>3, <1>4, <2>4
      <4> HIDE DEF q, r, p, i
      <4> QED
        BY <1>1, <1>3, <2>0, <3>4, <3>8, <4>1, PackedWithLonger
    <3> QED
      BY <1>3, <3>1, <3>9
  <2>5. CASE Len(buffer) > 0 /\ full
    <3>1. kept = TrailingOverlap(p, buffer) /\ chunks' = Flushed
      BY <2>1, <2>5
    <3>2. ComesAfter(texts, p, buffer, i)
      BY <1>1, <1>9, <2>5
    <3> HIDE DEF kept, full
    <3>3. /\ r \in Pieces /\ PieceTrue(texts, r) /\ Final(r) = i
          /\ \E n \in 0..Len(buffer) : Carries(texts, q, r, n)
      BY <2>5, <3>1, <3>2, CarriedOver
    <3>4. Flushed = Append(chunks, q) /\ q \in Pieces
      BY <1>4, <2>5
    <3> DEFINE N == Len(Flushed)
    <3>5. N = Len(chunks) + 1 /\ Flushed[N] = q /\ N > 0
      BY <1>3, <3>4, AppendProperties
    <3>6. NextTo(texts, q, r)
      BY <2>0, <3>3 DEF NextTo
    <3>7. \A k \in 1..N : Earlier(Flushed[k], r)
      BY <1>1, <1>3, <1>4, <2>0, <3>3, PackedEarlier
    <3> HIDE DEF N
    <3>8. Fits(texts, Flushed, r)
      <4> HIDE DEF r, q
      <4> QED
        BY <3>3, <3>5, <3>6, <3>7 DEF Fits, N
    <3>9. Packed(texts, <<p, i + 1>>, Append(Flushed, r))
      <4> HIDE DEF q, r, p, i
      <4> QED
        BY <1>1, <1>3, <1>4, <2>0, <3>3, <3>8, PackedWithNew
    <3>10. kept \in Seq(Nat)
      BY <2>5, <3>1, <3>2, CarriedOver
    <3> QED
      BY <1>4, <3>1, <3>9, <3>10
  <2> QED
    BY <1>3, <2>3, <2>4, <2>5
<1> QED
  BY <1>8, <1>9
\* A page is over.
LEMMA PageEnded == ReadingInv /\ EndPage => ReadingInv'
<1> SUFFICES ASSUME ReadingInv, EndPage PROVE ReadingInv'
  OBVIOUS
<1> DEFINE p == cursor[1]
           i == cursor[2]
<1>1. /\ PackingInv /\ stage = "chunk" /\ UNCHANGED <<stage, layer, found, texts>>
      /\ chunks' = Flushed /\ buffer' = <<>> /\ cursor' = <<p + 1, 1>>
      /\ p \in DOMAIN texts /\ i \notin DOMAIN texts[p]
  BY DEF ReadingInv, EndPage, Page
<1>2. /\ texts \in Seq(Seq(Nat)) /\ cursor = <<p, i>> /\ i \in Nat /\ i > 0
      /\ Packed(texts, <<p, i>>, Flushed)
  <2>1. texts \in Seq(Seq(Nat)) /\ cursor = <<p, i>> /\ i \in Nat /\ i > 0 /\ Packed(texts, cursor, Flushed)
    BY <1>1 DEF PackingInv
  <2> QED
    BY <2>1
<1>3. p \in 1..Len(texts) /\ i \notin 1..Len(texts[p]) /\ p \in Nat
  <2>1. DOMAIN texts = 1..Len(texts) /\ texts[p] \in Seq(Nat)
    BY <1>1, <1>2
  <2>2. DOMAIN texts[p] = 1..Len(texts[p])
    BY <2>1
  <2> QED
    BY <1>1, <2>1, <2>2
<1>4. Flushed \in Seq(Pieces)
  BY <1>1, PackedBoth
<1>5. DocumentInv'
  BY <1>1 DEF ReadingInv, DocumentInv, PageKept, NeedsOcr
<1>6. cursor'[1] = p + 1 /\ cursor'[2] = 1 /\ cursor' = <<cursor'[1], cursor'[2]>>
  BY <1>1
<1>7. Len(buffer') = 0 /\ buffer' \in Seq(Nat)
  BY <1>1
<1>8. Flushed' = Flushed
  BY <1>1 DEF Flushed
<1>9. Packed(texts, cursor, Flushed)'
  <2>1. Packed(texts, <<p + 1, 1>>, Flushed)
    BY <1>2, <1>3, <1>4, PackedPastPage
  <2> QED
    BY <1>1, <1>8, <2>1
<1>10. ASSUME NEW k \in 1..Len(Flushed) PROVE Flushed[k].page < p + 1
  <2>1. Flushed[k] \in Pieces /\ PieceTrue(texts, Flushed[k])
    BY <1>2, <1>4 DEF Packed, Strung
  <2>2. Len(Flushed[k].parts) \in 1..Len(Flushed[k].parts) /\ Flushed[k].page \in Nat
    BY <2>1, FinalIsLast DEF Pieces
  <2>3. Handled(<<p, i>>, Flushed[k].page, Flushed[k].parts[Len(Flushed[k].parts)])
    BY <1>2, <2>2 DEF Packed
  <2>4. Flushed[k].page < p \/ Flushed[k].page = p
    BY <2>3 DEF Handled
  <2> QED
    BY <1>3, <2>2, <2>4
<1> HIDE DEF p, i
<1>11. PackingInv'
  <2>1. \A k \in 1..Len(chunks') : chunks'[k].page < cursor'[1]
    BY <1>1, <1>6, <1>10
  <2>2. cursor'[1] \in Nat \ {0} /\ cursor'[2] \in Nat \ {0} /\ ~(Len(buffer') > 0) /\ stage' # "done"
    BY <1>1, <1>3, <1>6, <1>7
  <2>3. texts' \in Seq(Seq(Nat)) /\ chunks' \in Seq(Pieces)
    BY <1>1, <1>2, <1>4
  <2> QED
    BY <1>6, <1>7, <1>9, <2>1, <2>2, <2>3, Zenon DEF PackingInv
<1> QED
  BY <1>1, <1>5, <1>11 DEF ReadingInv

\* All pages are over.
LEMMA ChunkingOver == ReadingInv /\ ChunkingEnds => ReadingInv'
<1> SUFFICES ASSUME ReadingInv, ChunkingEnds PROVE ReadingInv'
  OBVIOUS
<1>1. /\ PackingInv /\ stage' = "done" /\ UNCHANGED <<layer, found, texts, cursor, buffer, chunks>>
      /\ cursor[1] \notin DOMAIN texts /\ stage = "chunk"
  BY DEF ReadingInv, ChunkingEnds, Page
<1>2. ~(cursor[1] \in 1..Len(texts))
  BY <1>1 DEF PackingInv
<1>3. DocumentInv'
  BY <1>1 DEF ReadingInv, DocumentInv, PageKept, NeedsOcr
<1>4. Packed(texts, cursor, Flushed)'
  BY <1>1 DEF PackingInv, Flushed, Page
<1>5. PackingInv'
  BY <1>1, <1>2, <1>4 DEF PackingInv
<1> QED
  BY <1>1, <1>3, <1>5 DEF ReadingInv

\* Every step of the reading keeps its invariant.
LEMMA ReadingMoves == ReadingInv /\ [ReadingNext]_readingVars => ReadingInv'
<1> SUFFICES ASSUME ReadingInv, [ReadingNext]_readingVars PROVE ReadingInv'
  OBVIOUS
<1>1. CASE UNCHANGED readingVars
  <2>1. UNCHANGED <<stage, layer, found, texts, cursor, buffer, chunks>>
    BY <1>1 DEF readingVars
  <2>2. DocumentInv'
    BY <2>1 DEF ReadingInv, DocumentInv, PageKept, NeedsOcr
  <2>3. PackingInv => PackingInv'
    <3>1. Flushed' = Flushed
      BY <2>1 DEF Flushed, Page
    <3> QED
      BY <2>1, <3>1 DEF PackingInv
  <2> QED
    BY <2>1, <2>2, <2>3 DEF ReadingInv
<1> QED
  BY <1>1, PageExtracted, ExtractionOver, PageRecognised, ResultsMerged, RecognitionFailed, TextChecked,
     SentenceTaken, PageEnded, ChunkingOver DEF ReadingNext
-----------------------------------------------------------------------------
\* At any time the chunks are strung.
LEMMA ChunksStrung == ReadingInv => chunks \in Seq(Pieces) /\ Strung(texts, chunks)
<1> SUFFICES ASSUME ReadingInv PROVE chunks \in Seq(Pieces) /\ Strung(texts, chunks)
  OBVIOUS
<1>1. CASE stage \in {"chunk", "done"}
  BY <1>1, PackedBoth DEF ReadingInv, PackingInv
<1>2. CASE stage \notin {"chunk", "done"}
  <2>1. chunks = <<>>
    BY <1>2 DEF ReadingInv
  <2>2. chunks \in Seq(Pieces) /\ Len(chunks) = 0
    BY <2>1
  <2> QED
    BY <2>2 DEF Strung
<1> QED
  BY <1>1, <1>2

\* The sentences of a chunk are those at its places.
LEMMA PartsAre ==
    ASSUME chunks \in Seq(Pieces), Strung(texts, chunks), NEW k \in DOMAIN chunks
    PROVE  /\ k \in 1..Len(chunks) /\ chunks[k] \in Pieces /\ PieceTrue(texts, chunks[k])
           /\ chunks[k].parts \in Seq(Nat) /\ DOMAIN chunks[k].parts = 1..Len(chunks[k].parts)
           /\ PartsOf(k) = {chunks[k].parts[m] : m \in 1..Len(chunks[k].parts)}
           /\ Tokens(k) = Amount(texts, chunks[k])
<1>1. k \in 1..Len(chunks) /\ chunks[k] \in Pieces
  OBVIOUS
<1>2. PieceTrue(texts, chunks[k])
  BY <1>1 DEF Strung
<1>3. chunks[k].parts \in Seq(Nat)
  BY <1>1 DEF Pieces
<1>4. DOMAIN chunks[k].parts = 1..Len(chunks[k].parts)
  BY <1>3
<1>5. PartsOf(k) = {chunks[k].parts[m] : m \in 1..Len(chunks[k].parts)}
  BY <1>4 DEF PartsOf, ToSet
<1>6. Tokens(k) = Amount(texts, chunks[k])
  BY DEF Tokens, TokensOf, Amount, TokensIn
<1> QED
  BY <1>1, <1>2, <1>3, <1>4, <1>5, <1>6

\* What a chunk carries over are its first sentences, up to the last one before.
LEMMA CarriedAre ==
    ASSUME chunks \in Seq(Pieces), Strung(texts, chunks), NEW k \in DOMAIN chunks, SamePage(k)
    PROVE  /\ k - 1 \in DOMAIN chunks
           /\ \E n \in 0..Len(chunks[k - 1].parts) :
                 /\ Carries(texts, chunks[k - 1], chunks[k], n)
                 /\ Carried(k) = {chunks[k].parts[m] : m \in 1..n}
           /\ \A i \in PartsOf(k) : i \in Carried(k) <=> ~(i > Final(chunks[k - 1]))
<1> DEFINE q == chunks[k - 1]
           r == chunks[k]
<1>1. /\ k \in 1..Len(chunks) /\ r \in Pieces /\ PieceTrue(texts, r)
      /\ PartsOf(k) = {r.parts[m] : m \in 1..Len(r.parts)}
  BY PartsAre
<1>2. k > 1 /\ q.page = r.page
  BY DEF SamePage
<1>3. k - 1 \in DOMAIN chunks /\ k \in 2..Len(chunks)
  BY <1>1, <1>2
<1>4. q \in Pieces /\ PieceTrue(texts, q) /\ PartsOf(k - 1) = {q.parts[m] : m \in 1..Len(q.parts)}
  BY <1>3, PartsAre
<1>5. NextTo(texts, q, r)
  BY <1>3 DEF Strung
<1>6. Carried(k) = PartsOf(k) \cap PartsOf(k - 1)
  BY DEF Carried
<1> HIDE DEF q, r
<1>7. PICK n \in 0..Len(q.parts) : Carries(texts, q, r, n)
  <2>1. q.page \in Nat /\ ~(q.page < r.page)
    BY <1>2, <1>4 DEF Pieces
  <2> QED
    BY <1>5, <2>1 DEF NextTo
<1>8. /\ Final(q) \in Nat
      /\ \A m \in 1..Len(q.parts) : q.parts[m] \in Nat /\ q.parts[m] <= Final(q)
  BY <1>4, FinalIsLast
<1>9. Len(q.parts) \in Nat /\ Len(r.parts) \in Nat /\ n \in Nat /\ n < Len(r.parts) /\ n <= Len(q.parts)
  <2>1. q.parts \in Seq(Nat) /\ r.parts \in Seq(Nat)
    BY <1>1, <1>4 DEF Pieces
  <2>2. n < Len(r.parts)
    BY <1>7 DEF Carries
  <2>3. Len(q.parts) \in Nat /\ Len(r.parts) \in Nat
    BY <2>1
  <2> QED
    BY <1>7, <2>2, <2>3
<1>10. \A m \in 1..Len(r.parts) : r.parts[m] \in Nat
  BY <1>1, FinalIsLast
<1>11. ASSUME NEW m \in 1..n
       PROVE  r.parts[m] \in PartsOf(k) /\ r.parts[m] \in PartsOf(k - 1) /\ ~(r.parts[m] > Final(q))
  <2>1. m \in 1..Len(r.parts) /\ Len(q.parts) - n + m \in 1..Len(q.parts)
    BY <1>9
  <2>2. r.parts[m] = q.parts[Len(q.parts) - n + m]
    BY <1>7 DEF Carries
  <2>3. r.parts[m] \in Nat /\ r.parts[m] <= Final(q)
    BY <1>8, <2>1, <2>2
  <2>4. r.parts[m] \in PartsOf(k) /\ r.parts[m] \in PartsOf(k - 1)
    BY <1>1, <1>4, <2>1, <2>2
  <2> QED
    BY <1>8, <2>3, <2>4
<1>12. ASSUME NEW m \in 1..Len(r.parts), m \notin 1..n
       PROVE  r.parts[m] > Final(q) /\ r.parts[m] \notin PartsOf(k - 1)
  <2>1. m \in (n + 1)..Len(r.parts)
    BY <1>9, <1>12
  <2>2. r.parts[m] > Final(q)
    BY <1>7, <2>1 DEF Carries
  <2> QED
    BY SMTT(30), <1>4, <1>8, <1>10, <2>2
<1>13. Carried(k) = {r.parts[m] : m \in 1..n}
  BY <1>1, <1>6, <1>11, <1>12
<1>14. ASSUME NEW i \in PartsOf(k) PROVE i \in Carried(k) <=> ~(i > Final(q))
  <2>1. PICK m \in 1..Len(r.parts) : i = r.parts[m]
    BY <1>1
  <2> QED
    BY <1>6, <1>11, <1>12, <2>1
<1> QED
  BY <1>3, <1>7, <1>13, <1>14 DEF q, r

\* What a chunk has beside that is fresh.
LEMMA FreshAre ==
    ASSUME chunks \in Seq(Pieces), Strung(texts, chunks), NEW k \in DOMAIN chunks, NEW i
    PROVE  i \in PartsOf(k) \ Carried(k) <=> Fresh(chunks, k, i)
<1>1. PartsOf(k) = {chunks[k].parts[m] : m \in 1..Len(chunks[k].parts)}
  BY PartsAre
<1>2. CASE SamePage(k)
  BY <1>1, <1>2, CarriedAre DEF Fresh, SamePage
<1>3. CASE ~SamePage(k)
  BY <1>1, <1>3 DEF Fresh, SamePage, Carried
<1> QED
  BY <1>2, <1>3

\* Nothing is fresh twice.
LEMMA FreshOnce ==
    ASSUME NEW t, NEW s \in Seq(Pieces), Strung(t, s), NEW i,
           NEW k \in 1..Len(s), NEW l \in 1..Len(s), k < l, s[k].page = s[l].page,
           Fresh(s, k, i), Fresh(s, l, i)
    PROVE  FALSE
<1>1. l - 1 \in 1..Len(s) /\ l > 1 /\ (k = l - 1 \/ k < l - 1) /\ l - 1 < l
  OBVIOUS
<1>2. \A m \in 1..Len(s) : s[m] \in Pieces /\ PieceTrue(t, s[m]) /\ s[m].page \in Nat /\ Final(s[m]) \in Nat
  <2> SUFFICES ASSUME NEW m \in 1..Len(s)
               PROVE  s[m] \in Pieces /\ PieceTrue(t, s[m]) /\ s[m].page \in Nat /\ Final(s[m]) \in Nat
    OBVIOUS
  <2>1. s[m] \in Pieces /\ PieceTrue(t, s[m])
    BY DEF Strung
  <2> QED
    BY <2>1, FinalIsLast DEF Pieces
<1>3. Earlier(s[l - 1], s[l])
  BY <1>1 DEF Strung
<1>4. k = l - 1 \/ Earlier(s[k], s[l - 1])
  BY <1>1 DEF Strung
<1>5. s[l - 1].page = s[l].page
  BY <1>1, <1>2, <1>3, <1>4 DEF Earlier
<1>6. i > Final(s[l - 1])
  BY <1>1, <1>5 DEF Fresh
<1>7. i \in Nat /\ i <= Final(s[k])
  <2>1. PICK m \in 1..Len(s[k].parts) : s[k].parts[m] = i
    BY DEF Fresh
  <2> QED
    BY <1>2, <2>1, FinalIsLast
<1>8. Final(s[k]) <= Final(s[l - 1])
  BY <1>1, <1>2, <1>4, <1>5 DEF Earlier
<1> QED
  BY <1>1, <1>2, <1>6, <1>7, <1>8

\* The properties of the reading follow from its invariant.
LEMMA TextStays == ReadingInv => NoTextLost
<1> SUFFICES ASSUME ReadingInv, stage \notin {"extract", "ocr"}, NEW p \in DOMAIN layer
             PROVE  /\ TextLength(texts[p]) >= TextLength(layer[p])
                    /\ ~NeedsOcr(p) => texts[p] = layer[p]
  BY DEF NoTextLost
<1>1. layer \in Seq(Seq(Nat)) /\ texts \in Seq(Seq(Nat)) /\ Len(texts) = Len(layer)
  BY DEF ReadingInv, DocumentInv
<1>2. p \in 1..Len(layer) /\ p \in 1..Len(texts)
  BY <1>1
<1>3. PageKept(p)
  BY <1>2 DEF ReadingInv, DocumentInv
<1>4. layer[p] \in Seq(Nat) /\ texts[p] \in Seq(Nat)
  BY <1>1, <1>2, ElementOfSeq
<1>5. TextLength(layer[p]) \in Nat /\ TextLength(texts[p]) \in Nat
  BY <1>4, LengthsTrue
<1> QED
  BY <1>3, <1>5 DEF PageKept

\* Nothing is left in the buffer when the packing is over.
LEMMA AllHeld ==
    ASSUME ReadingInv, stage = "done", NEW p \in DOMAIN texts, NEW i \in DOMAIN texts[p], texts[p][i] # Stray
    PROVE  Held(chunks, p, i)
<1>1. /\ texts \in Seq(Seq(Nat)) /\ cursor = <<cursor[1], cursor[2]>> /\ cursor[1] \in Nat \ {0}
      /\ ~(cursor[1] \in 1..Len(texts)) /\ ~(Len(buffer) > 0) /\ buffer \in Seq(Nat)
      /\ Packed(texts, cursor, Flushed)
  BY DEF ReadingInv, PackingInv
<1>2. Packed(texts, cursor, chunks)
  <2>1. Len(buffer) = 0
    BY <1>1
  <2>2. Flushed = chunks
    BY <2>1, PackedBoth DEF ReadingInv
  <2> QED
    BY <1>1, <2>2
<1>3. p \in 1..Len(texts) /\ i \in 1..Len(texts[p])
  <2>1. DOMAIN texts = 1..Len(texts) /\ texts[p] \in Seq(Nat)
    BY <1>1
  <2>2. DOMAIN texts[p] = 1..Len(texts[p])
    BY <2>1
  <2> QED
    BY <2>1, <2>2
<1>4. Handled(cursor, p, i)
  <2> DEFINE at == cursor[1]
             L == Len(texts)
  <2>1. L \in Nat /\ at \in Nat \ {0} /\ ~(at \in 1..L) /\ p \in 1..L
    BY <1>1, <1>3
  <2> HIDE DEF at, L
  <2>2. p < at
    BY <2>1
  <2> QED
    BY <2>2 DEF Handled, at
<1> QED
  BY <1>2, <1>3, <1>4 DEF Packed

\* Every sentence is fresh in one chunk, and a fragment in none.
LEMMA SentencesHeldOnce == ReadingInv => EverySentenceOnce
<1> SUFFICES ASSUME ReadingInv, stage = "done", NEW p \in DOMAIN texts, NEW i \in DOMAIN texts[p]
             PROVE  LET new == {k \in DOMAIN chunks : chunks[k].page = p /\ i \in PartsOf(k) \ Carried(k)} IN
                    IF texts[p][i] = Stray THEN new = {} ELSE \E k \in DOMAIN chunks : new = {k}
  BY DEF EverySentenceOnce
<1> DEFINE new == {k \in DOMAIN chunks : chunks[k].page = p /\ i \in PartsOf(k) \ Carried(k)}
<1>1. chunks \in Seq(Pieces) /\ Strung(texts, chunks)
  BY ChunksStrung
<1>2. DOMAIN chunks = 1..Len(chunks)
  BY <1>1
<1>3. \A k \in DOMAIN chunks : k \in new <=> chunks[k].page = p /\ Fresh(chunks, k, i)
  BY <1>1, FreshAre
<1>4. new \subseteq DOMAIN chunks
  OBVIOUS
<1> HIDE DEF new
<1>5. CASE texts[p][i] = Stray
  <2> SUFFICES ASSUME NEW k \in new PROVE FALSE
    BY <1>5 DEF new
  <2>1. k \in 1..Len(chunks) /\ chunks[k].page = p /\ Fresh(chunks, k, i)
    BY <1>2, <1>3, <1>4
  <2>2. PICK m \in 1..Len(chunks[k].parts) : chunks[k].parts[m] = i
    BY <2>1 DEF Fresh
  <2>3. PieceTrue(texts, chunks[k])
    BY <1>1, <2>1 DEF Strung
  <2> QED
    BY <1>5, <2>1, <2>2, <2>3 DEF PieceTrue
<1>6. CASE texts[p][i] # Stray
  <2>1. PICK k \in 1..Len(chunks) : chunks[k].page = p /\ Fresh(chunks, k, i)
    BY <1>6, AllHeld DEF Held
  <2>2. k \in new
    BY <1>2, <1>3, <2>1
  <2>3. ASSUME NEW l \in new PROVE l = k
    <3>1. l \in 1..Len(chunks) /\ chunks[l].page = p /\ Fresh(chunks, l, i)
      BY <1>2, <1>3, <1>4
    <3>2. ~(k < l)
      BY <1>1, <2>1, <3>1, FreshOnce
    <3>3. ~(l < k)
      BY <1>1, <2>1, <3>1, FreshOnce
    <3> QED
      BY <3>1, <3>2, <3>3
  <2>4. new = {k}
    BY <2>2, <2>3
  <2> QED
    BY <1>2, <1>6, <2>1, <2>4 DEF new
<1> QED
  BY <1>5, <1>6

\* The chunks are in the order of the document.
LEMMA ChunksOrdered == ReadingInv => InOrder
<1> SUFFICES ASSUME ReadingInv PROVE InOrder
  OBVIOUS
<1>1. chunks \in Seq(Pieces) /\ Strung(texts, chunks)
  BY ChunksStrung
<1>2. ASSUME NEW k \in DOMAIN chunks, NEW m \in DOMAIN chunks[k].parts, NEW n \in DOMAIN chunks[k].parts, m < n
      PROVE  chunks[k].parts[m] < chunks[k].parts[n]
  BY <1>1, <1>2, PartsAre DEF PieceTrue
<1>3. ASSUME NEW k \in DOMAIN chunks, k > 1
      PROVE  \/ chunks[k - 1].page < chunks[k].page
             \/ SamePage(k) /\ Last(chunks[k - 1].parts) < Last(chunks[k].parts)
  <2>1. k \in 1..Len(chunks) /\ k - 1 \in 1..Len(chunks) /\ k - 1 < k
    BY <1>1, <1>3
  <2>2. Earlier(chunks[k - 1], chunks[k])
    BY <1>1, <2>1 DEF Strung
  <2> QED
    BY <1>3, <2>2 DEF Earlier, SamePage, Final, Last
<1> QED
  BY <1>2, <1>3 DEF InOrder

\* They are within their budget.
LEMMA ChunksSmall == ReadingInv => WithinBudget
<1> SUFFICES ASSUME ReadingInv, NEW k \in DOMAIN chunks, Tokens(k) > TargetTokens
             PROVE  \E i \in PartsOf(k) : PartsOf(k) \ Carried(k) = {i}
  BY DEF WithinBudget
<1>1. chunks \in Seq(Pieces) /\ Strung(texts, chunks)
  BY ChunksStrung
<1> DEFINE r == chunks[k]
<1>2. /\ k \in 1..Len(chunks) /\ PartsOf(k) = {r.parts[m] : m \in 1..Len(r.parts)}
      /\ Tokens(k) = Amount(texts, r) /\ r \in Pieces
  BY <1>1, PartsAre
<1>3. CASE ~SamePage(k)
  <2>1. StandsAlone(texts, r)
    <3>1. CASE k = 1
      BY <1>1, <1>2, <3>1 DEF Strung
    <3>2. CASE k > 1
      <4>1. k \in 2..Len(chunks) /\ chunks[k - 1].page # r.page
        BY <1>2, <1>3, <3>2 DEF SamePage
      <4>2. NextTo(texts, chunks[k - 1], r)
        BY <1>1, <4>1 DEF Strung
      <4> QED
        BY <4>1, <4>2 DEF NextTo
    <3> QED
      BY <1>2, <3>1, <3>2
  <2>2. Len(r.parts) = 1
    BY <1>2, <2>1 DEF StandsAlone
  <2>3. PartsOf(k) = {r.parts[1]} /\ Carried(k) = {}
    <3> HIDE DEF r
    <3> QED
      BY <1>2, <1>3, <2>2 DEF Carried
  <2> QED
    BY <2>3
<1>4. CASE SamePage(k)
  <2> DEFINE q == chunks[k - 1]
  <2>1. PICK n \in 0..Len(q.parts) : Carries(texts, q, r, n) /\ Carried(k) = {r.parts[m] : m \in 1..n}
    BY <1>1, <1>4, CarriedAre
  <2>2. \A i \in PartsOf(k) : i \in Carried(k) <=> ~(i > Final(q))
    BY <1>1, <1>4, CarriedAre
  <2> HIDE DEF q, r
  <2>3. Len(r.parts) = n + 1 /\ n \in Nat
    BY <1>2, <2>1 DEF Carries
  <2>4. r.parts[n + 1] > Final(q) /\ r.parts[n + 1] \in PartsOf(k)
    BY <1>2, <2>1, <2>3 DEF Carries
  <2>5. ASSUME NEW i \in PartsOf(k) PROVE i \in Carried(k) \/ i = r.parts[n + 1]
    <3>1. PICK m \in 1..(n + 1) : i = r.parts[m]
      BY <1>2, <2>3
    <3>2. m = n + 1 \/ m \in 1..n
      BY <2>3
    <3> QED
      BY <2>1, <3>1, <3>2
  <2> QED
    BY <2>2, <2>4, <2>5
<1> QED
  BY <1>3, <1>4

\* They overlap.
LEMMA ChunksOverlap == ReadingInv => Overlapping
<1> SUFFICES ASSUME ReadingInv, NEW k \in DOMAIN chunks, SamePage(k)
             PROVE  LET before == chunks[k - 1].parts
                        parts == chunks[k].parts IN
                    \E n \in 0..Len(before) :
                        /\ n < Len(parts) /\ Carried(k) = {parts[m] : m \in 1..n}
                        /\ \A m \in 1..n : parts[m] = before[Len(before) - n + m]
                        /\ n = 0 => Len(before) = 1 /\ Tokens(k - 1) > OverlapTokens
                        /\ n = Len(before) => Tokens(k - 1) <= OverlapTokens
  BY DEF Overlapping
<1>1. chunks \in Seq(Pieces) /\ Strung(texts, chunks)
  BY ChunksStrung
<1> DEFINE q == chunks[k - 1]
           r == chunks[k]
<1>2. k - 1 \in DOMAIN chunks
  BY <1>1, CarriedAre
<1>3. Tokens(k - 1) = Amount(texts, q)
  BY <1>1, <1>2, PartsAre
<1>4. PICK n \in 0..Len(q.parts) : Carries(texts, q, r, n) /\ Carried(k) = {r.parts[m] : m \in 1..n}
  BY <1>1, CarriedAre
<1>5. /\ n < Len(r.parts)
      /\ \A m \in 1..n : r.parts[m] = q.parts[Len(q.parts) - n + m]
      /\ n = 0 => Len(q.parts) = 1 /\ Tokens(k - 1) > OverlapTokens
      /\ n = Len(q.parts) => Tokens(k - 1) <= OverlapTokens
  BY <1>3, <1>4 DEF Carries
<1> QED
  BY <1>4, <1>5

\* What the invariant of the reading says of a document.
LEMMA ReadingMeans == ReadingInv => ChunksFaithful
  BY TextStays, SentencesHeldOnce, ChunksOrdered, ChunksSmall, ChunksOverlap DEF ChunksFaithful

-----------------------------------------------------------------------------
(* Timing *)

OpenRow == [id : Nat \ {0}, within : Nat, around : Nat, start : Nat, depth : Nat]
SpanRow == [id : Nat \ {0}, within : Nat, around : Nat, depth : Nat, start : Nat, duration : Nat]

TimingTypeOK ==
    /\ elapsed \in Nat /\ depth \in Nat /\ sideBySide \in BOOLEAN
    /\ open \in Seq(OpenRow) /\ spans \in Seq(SpanRow)

\* Spans are numbered as they begin, and each number is used once; a span that is open is
\* within one that is, or within none.
Numbered ==
    /\ \A k \in DOMAIN open : open[k].id <= Len(open) + Len(spans) /\ open[k].start <= elapsed
    /\ \A m, n \in DOMAIN open : open[m].id = open[n].id => m = n
    /\ \A k \in DOMAIN open : open[k].within = Session \/ \E m \in DOMAIN open : open[m].id = open[k].within
    /\ \A k \in DOMAIN spans : \A m \in DOMAIN open : spans[k].id # open[m].id
    /\ \A k \in DOMAIN spans : spans[k].id <= Len(open) + Len(spans) /\ spans[k].within <= Len(open) + Len(spans)

\* Of two spans one within the other, the inner one began later; if it is over it ended
\* before now, up to the rounding.
Within ==
    /\ \A i, o \in DOMAIN open : open[i].within = open[o].id => open[o].start <= open[i].start
    /\ \A k \in DOMAIN spans : 2 * (spans[k].start + spans[k].duration) <= elapsed + 2
    /\ \A k \in DOMAIN spans : \A o \in DOMAIN open :
          spans[k].within = open[o].id => spans[k].start >= RoundedHalves(open[o].start)

\* As long as no caller has two spans open, each open span is around the next one.
Stacked ==
    ~sideBySide =>
        /\ depth = Len(open)
        /\ \A k \in DOMAIN open :
              /\ open[k].within = (IF k = 1 THEN Session ELSE open[k - 1].id)
              /\ open[k].around = k - 1 /\ open[k].depth = k - 1
        /\ \A k \in DOMAIN spans : spans[k].depth = spans[k].around

TimingInv == TimingTypeOK /\ Numbered /\ Within /\ Stacked /\ SpansNested

\* Half of a time, rounded.
LEMMA Halves ==
    /\ \A n \in Nat : RoundedHalves(n) \in Nat /\ n <= 2 * RoundedHalves(n) /\ 2 * RoundedHalves(n) <= n + 1
    /\ \A m, n \in Nat : m <= n => RoundedHalves(m) <= RoundedHalves(n)
  BY DEF RoundedHalves

\* The rows of open and closed spans have their types.
LEMMA RowsTyped ==
    ASSUME TimingTypeOK
    PROVE  /\ \A k \in DOMAIN open :
                 /\ open[k] \in OpenRow
                 /\ open[k].id \in Nat \ {0} /\ open[k].within \in Nat /\ open[k].around \in Nat
                 /\ open[k].start \in Nat /\ open[k].depth \in Nat
           /\ \A k \in DOMAIN spans :
                 /\ spans[k] \in SpanRow
                 /\ spans[k].id \in Nat \ {0} /\ spans[k].within \in Nat /\ spans[k].around \in Nat
                 /\ spans[k].depth \in Nat /\ spans[k].start \in Nat /\ spans[k].duration \in Nat
<1>1. /\ \A k \in DOMAIN open : open[k] \in OpenRow
      /\ \A k \in DOMAIN spans : spans[k] \in SpanRow
  BY DEF TimingTypeOK
<1> QED
  BY <1>1 DEF OpenRow, SpanRow

\* As many spans have begun as are open or closed.
LEMMA HaveBegun ==
    ASSUME TimingTypeOK, Numbered
    PROVE  Began = Len(open) + Len(spans)
<1> DEFINE D == 1..Len(open)
           f == [k \in D |-> open[k].id]
<1>1. D = DOMAIN open /\ Len(open) \in Nat
  BY DEF TimingTypeOK
<1>2. Opened = {f[k] : k \in D}
  BY <1>1, RangeEquality DEF Opened, TimingTypeOK, ToSet
<1>3. f \in Bijection(D, Opened)
  BY <1>1, <1>2 DEF Numbered, Bijection, Injection, Surjection, IsInjective
<1>4. IsFiniteSet(D) /\ Cardinality(D) = Len(open)
  <2>1. IsFiniteSet(1..Len(open)) /\ Cardinality(1..Len(open)) = IF 1 > Len(open) THEN 0 ELSE Len(open) - 1 + 1
    BY <1>1, FS_Interval
  <2> QED
    BY <1>1, <2>1
<1>5. Cardinality(Opened) = Len(open)
  <2>1. ExistsBijection(D, Opened)
    BY <1>3 DEF ExistsBijection
  <2> QED
    BY <1>4, <2>1, FS_Bijection
<1> QED
  BY <1>5 DEF Began

\* A row of a span, and of its end.
LEMMA PushedRow ==
    ASSUME TimingTypeOK, NEW span \in OpenRow, span.start <= elapsed
    PROVE  \E c \in SpanRow :
              /\ Pushed(span) = Append(spans, c)
              /\ c.id = span.id /\ c.within = span.within /\ c.around = span.around /\ c.depth = span.depth
              /\ c.start = RoundedHalves(span.start)
              /\ elapsed <= 2 * (c.start + c.duration) /\ 2 * (c.start + c.duration) <= elapsed + 2
<1> DEFINE start == RoundedHalves(span.start)
           duration == RoundedHalves(elapsed - span.start)
           c == [id |-> span.id, within |-> span.within, around |-> span.around, depth |-> span.depth,
                 start |-> start, duration |-> duration]
<1>1. span.id \in Nat \ {0} /\ span.within \in Nat /\ span.around \in Nat /\ span.depth \in Nat /\ span.start \in Nat
  BY DEF OpenRow
<1>2. /\ start \in Nat /\ duration \in Nat
      /\ span.start <= 2 * start /\ 2 * start <= span.start + 1
      /\ elapsed - span.start <= 2 * duration /\ 2 * duration <= elapsed - span.start + 1
  <2>1. elapsed - span.start \in Nat
    BY <1>1 DEF TimingTypeOK
  <2> QED
    BY <1>1, <2>1, Halves
<1>3. elapsed <= 2 * (start + duration) /\ 2 * (start + duration) <= elapsed + 2
  <2> HIDE DEF start, duration
  <2> QED
    BY <1>1, <1>2 DEF TimingTypeOK
<1>4. Pushed(span) = Append(spans, c)
  BY DEF Pushed
<1>5. c \in SpanRow
  BY <1>1, <1>2 DEF SpanRow
<1> HIDE DEF start, duration
<1> QED
  BY <1>3, <1>4, <1>5 DEF start

\* Time passes.
LEMMA ClockKeeps == ASSUME TimingInv, ClockRuns PROVE TimingInv'
<1>1. elapsed \in Nat /\ elapsed' = elapsed + 1 /\ UNCHANGED <<depth, open, spans, sideBySide>>
  BY DEF TimingInv, TimingTypeOK, ClockRuns
<1>2. TimingTypeOK' /\ Stacked' /\ SpansNested'
  BY <1>1 DEF TimingInv, TimingTypeOK, Stacked, SpansNested
<1>3. Numbered'
  <2>1. \A k \in DOMAIN open : open[k].start \in Nat
    BY RowsTyped DEF TimingInv
  <2> QED
    BY <1>1, <2>1 DEF TimingInv, Numbered
<1>4. Within'
  <2>1. \A k \in DOMAIN spans : spans[k].start \in Nat /\ spans[k].duration \in Nat
    BY RowsTyped DEF TimingInv
  <2> QED
    BY <1>1, <2>1 DEF TimingInv, Within
<1> QED
  BY <1>2, <1>3, <1>4 DEF TimingInv

\* A mark, when no span is open.
LEMMA MarkKeeps == ASSUME TimingInv, MarkSpan PROVE TimingInv'
<1> DEFINE L == Len(spans)
           span == [id |-> Began + 1, within |-> Session, around |-> 0, start |-> 0, depth |-> depth]
<1>1. /\ TimingTypeOK /\ Numbered /\ open = <<>> /\ L \in Nat /\ DOMAIN open = {} /\ Len(open) = 0
      /\ UNCHANGED <<elapsed, depth, open, sideBySide>>
  BY DEF TimingInv, TimingTypeOK, MarkSpan
<1>2. Began = L
  BY <1>1, HaveBegun
<1>3. span \in OpenRow /\ span.start <= elapsed
  BY <1>1, <1>2 DEF OpenRow, TimingTypeOK, Session
<1>4. PICK c \in SpanRow :
          /\ spans' = Append(spans, c) /\ c.id = L + 1 /\ c.within = 0 /\ c.around = 0 /\ c.depth = depth
          /\ 2 * (c.start + c.duration) <= elapsed + 2
  <2>1. spans' = Pushed(span)
    BY DEF MarkSpan
  <2>2. span.id = L + 1 /\ span.within = 0 /\ span.around = 0 /\ span.depth = depth
    BY <1>2 DEF Session
  <2> HIDE DEF span
  <2> QED
    BY <1>1, <1>3, <2>1, <2>2, PushedRow
<1>5. /\ spans' \in Seq(SpanRow) /\ Len(spans') = L + 1 /\ spans'[L + 1] = c /\ DOMAIN spans' = 1..(L + 1)
      /\ \A k \in 1..L : spans'[k] = spans[k] /\ spans[k] \in SpanRow
      /\ DOMAIN spans = 1..L
  BY <1>1, <1>4 DEF TimingTypeOK
<1> HIDE DEF L
<1>6. \A k \in 1..(L + 1) : k = L + 1 \/ k \in 1..L
  BY <1>1
<1>7. TimingTypeOK'
  BY <1>1, <1>5 DEF TimingTypeOK
<1>8. Numbered'
  <2>1. \A k \in DOMAIN spans' : spans'[k].id <= 0 + (L + 1) /\ spans'[k].within <= 0 + (L + 1)
    <3>1. \A k \in 1..L : spans[k].id <= L /\ spans[k].within <= L /\ spans[k].id \in Nat /\ spans[k].within \in Nat
      BY <1>1, <1>5 DEF Numbered, SpanRow, L
    <3> QED
      BY <1>1, <1>4, <1>5, <1>6, <3>1
  <2> QED
    BY <1>1, <1>5, <2>1 DEF Numbered
<1>9. Within'
  <2>1. \A k \in DOMAIN spans' : 2 * (spans'[k].start + spans'[k].duration) <= elapsed + 2
    BY <1>4, <1>5, <1>6 DEF TimingInv, Within
  <2> QED
    BY <1>1, <2>1 DEF Within
<1>10. Stacked'
  <2>1. ~sideBySide => depth = 0
    BY <1>1 DEF TimingInv, Stacked
  <2> QED
    BY <1>1, <1>4, <1>5, <1>6, <2>1 DEF TimingInv, Stacked
<1>11. SpansNested'
  <2> SUFFICES ASSUME NEW i \in 1..(L + 1), NEW o \in 1..(L + 1), spans'[i].within = spans'[o].id
               PROVE  /\ spans'[i].start >= spans'[o].start
                      /\ spans'[i].start + spans'[i].duration <= spans'[o].start + spans'[o].duration + 1
    BY <1>5, RangeEquality DEF SpansNested, ToSet
  <2>1. i # L + 1
    <3>1. spans'[o] \in SpanRow
      BY <1>4, <1>5, <1>6
    <3>2. spans'[o].id # 0
      BY <3>1 DEF SpanRow
    <3> QED
      BY <1>4, <1>5, <3>2
  <2>2. i \in 1..L
    BY <1>6, <2>1
  <2>3. spans[i].within <= L
    BY <1>1, <1>5, <2>2 DEF Numbered, L
  <2>4. o # L + 1
    BY SMTT(30), <1>1, <1>4, <1>5, <2>2, <2>3 DEF SpanRow
  <2> QED
    BY <1>5, <1>6, <2>2, <2>4 DEF TimingInv, SpansNested, ToSet
<1> QED
  BY <1>7, <1>8, <1>9, <1>10, <1>11 DEF TimingInv

\* A span is opened.
LEMMA OpeningKeeps ==
    ASSUME TimingInv, NEW within \in Nat, OpenSpan(within)
    PROVE  TimingInv'
<1> DEFINE K == Len(open)
           L == Len(spans)
           c == [id |-> Began + 1, within |-> within, around |-> Around(within), start |-> elapsed, depth |-> depth]
<1>1. /\ TimingTypeOK /\ Numbered /\ K \in Nat /\ L \in Nat /\ elapsed \in Nat /\ depth \in Nat
      /\ DOMAIN open = 1..K /\ DOMAIN spans = 1..L
      /\ depth' = depth + 1 /\ UNCHANGED <<elapsed, spans>>
  BY DEF TimingInv, TimingTypeOK, OpenSpan
<1>2. Began = K + L
  BY <1>1, HaveBegun
<1>3. within = Session \/ \E m \in 1..K : open[m].id = within
  <2>1. within = Session \/ \E s \in ToSet(open) : s.id = within
    BY DEF OpenSpan, Opened
  <2> QED
    BY <1>1, <2>1, RangeEquality DEF ToSet
<1>4. ASSUME NEW m \in 1..K, open[m].id = within
      PROVE  Around(within) = 1 + open[m].around
  <2>1. open[m] \in ToSet(open)
    BY <1>1 DEF ToSet
  <2>2. \A s \in ToSet(open) : s.id = within => s = open[m]
    BY <1>1, <1>4 DEF ToSet, Numbered
  <2>3. (CHOOSE s \in ToSet(open) : s.id = within) = open[m]
    BY <1>4, <2>1, <2>2
  <2>4. within # Session
    BY <1>1, <1>4, RowsTyped DEF Session
  <2> QED
    BY <2>3, <2>4 DEF Around
<1>5. Around(within) \in Nat
  <2>1. CASE within = Session
    BY <2>1 DEF Around
  <2>2. CASE \E m \in 1..K : open[m].id = within
    BY <1>1, <1>4, <2>2, RowsTyped
  <2> QED
    BY <1>3, <2>1, <2>2
<1>6. c \in OpenRow
  BY <1>1, <1>2, <1>5 DEF OpenRow
<1>7. /\ open' \in Seq(OpenRow) /\ Len(open') = K + 1 /\ open'[K + 1] = c /\ DOMAIN open' = 1..(K + 1)
      /\ \A k \in 1..K : open'[k] = open[k]
  <2>1. open' = Append(open, c)
    BY DEF OpenSpan
  <2> HIDE DEF c
  <2> QED
    BY <1>1, <1>6, <2>1 DEF TimingTypeOK
<1>8. c.id = K + L + 1 /\ c.within = within /\ c.around = Around(within) /\ c.start = elapsed /\ c.depth = depth
  BY <1>2
<1>9. sideBySide' \in BOOLEAN /\ (~sideBySide' => ~sideBySide /\ \A m \in 1..K : open[m].within # within)
  BY <1>1 DEF OpenSpan, ToSet, TimingTypeOK
<1> HIDE DEF c, K, L
<1>10. \A k \in 1..(K + 1) : k = K + 1 \/ k \in 1..K
  BY <1>1
<1>11. /\ \A k \in 1..K : open[k].id \in Nat \ {0} /\ open[k].id <= K + L /\ open[k].start \in Nat /\ open[k].start <= elapsed
       /\ \A k \in 1..L : /\ spans[k].id \in Nat \ {0} /\ spans[k].id <= K + L
                          /\ spans[k].within \in Nat /\ spans[k].within <= K + L
  BY <1>1, RowsTyped DEF Numbered, K, L
<1>12. TimingTypeOK'
  BY <1>1, <1>7, <1>9 DEF TimingTypeOK
<1>13. Numbered'
  <2>1. \A k \in 1..(K + 1) : open'[k].id <= (K + 1) + L /\ open'[k].start <= elapsed
    <3>1. \A k \in 1..K : open[k].id <= (K + 1) + L /\ open[k].start <= elapsed
      BY <1>1, <1>11
    <3>2. open'[K + 1].id <= (K + 1) + L /\ open'[K + 1].start <= elapsed
      BY <1>1, <1>7, <1>8
    <3> QED
      BY <1>7, <1>10, <3>1, <3>2
  <2>2. \A m, n \in 1..(K + 1) : open'[m].id = open'[n].id => m = n
    <3>1. \A m \in 1..K : open[m].id # K + L + 1
      BY <1>1, <1>11
    <3> QED
      BY SMTT(30), <1>1, <1>7, <1>8, <1>10, <3>1 DEF Numbered
  <2>3. \A k \in 1..(K + 1) : open'[k].within = Session \/ \E m \in 1..(K + 1) : open'[m].id = open'[k].within
    <3>1. \A m \in 1..K : m \in 1..(K + 1)
      BY <1>1
    <3>2. \A k \in 1..K : open[k].within = Session \/ \E m \in 1..K : open[m].id = open[k].within
      BY <1>1 DEF Numbered
    <3>3. ASSUME NEW w, w = Session \/ \E m \in 1..K : open[m].id = w
          PROVE  w = Session \/ \E m \in 1..(K + 1) : open'[m].id = w
      BY <1>7, <3>1, <3>3
    <3>4. \A k \in 1..(K + 1) : open'[k].within = Session \/ \E m \in 1..K : open[m].id = open'[k].within
      BY <1>3, <1>7, <1>8, <1>10, <3>2
    <3> QED
      BY <3>3, <3>4
  <2>4. \A k \in 1..L : \A m \in 1..(K + 1) : spans[k].id # open'[m].id
    <3>1. \A k \in 1..L : spans[k].id # K + L + 1
      BY <1>1, <1>11
    <3> QED
      <4>1. \A k \in 1..L : \A m \in 1..K : spans[k].id # open[m].id
        BY <1>1 DEF Numbered
      <4> QED
        BY <1>7, <1>8, <1>10, <3>1, <4>1
  <2>5. \A k \in 1..L : spans[k].id <= (K + 1) + L /\ spans[k].within <= (K + 1) + L
    BY <1>1, <1>11
  <2> QED
    BY <1>1, <1>7, <2>1, <2>2, <2>3, <2>4, <2>5 DEF Numbered, L
<1>14. Within'
  <2>1. \A m \in 1..K : open[m].within # K + L + 1
    <3>1. \A m \in 1..K : open[m].within = 0 \/ \E n \in 1..K : open[n].id = open[m].within
      BY <1>1 DEF Numbered, Session
    <3> QED
      BY <1>1, <1>11, <3>1
  <2>2. within # K + L + 1
    BY <1>1, <1>3, <1>11 DEF Session
  <2>3. ASSUME NEW i \in 1..(K + 1), NEW o \in 1..(K + 1), open'[i].within = open'[o].id
        PROVE  open'[o].start <= open'[i].start
    <3>1. o \in 1..K /\ open'[o] = open[o] /\ open[o].start <= elapsed
      BY <1>7, <1>8, <1>10, <1>11, <2>1, <2>2, <2>3
    <3>2. CASE i = K + 1
      BY <1>7, <1>8, <3>1, <3>2
    <3>3. CASE i \in 1..K
      BY <1>1, <1>7, <2>3, <3>1, <3>3 DEF TimingInv, Within
    <3> QED
      BY <1>10, <3>2, <3>3
  <2>4. \A k \in 1..L : spans[k].within # K + L + 1
    BY <1>1, <1>11
  <2>5. ASSUME NEW k \in 1..L, NEW o \in 1..(K + 1), spans[k].within = open'[o].id
        PROVE  spans[k].start >= RoundedHalves(open'[o].start)
    <3>1. o \in 1..K
      BY <1>7, <1>8, <1>10, <2>4, <2>5
    <3>2. spans[k].within = open[o].id /\ open'[o].start = open[o].start
      BY <1>7, <2>5, <3>1
    <3>3. Within
      BY DEF TimingInv
    <3>4. spans[k].start >= RoundedHalves(open[o].start)
      BY <1>1, <3>1, <3>2, <3>3 DEF Within
    <3> QED
      BY <3>2, <3>4
  <2> QED
    BY <1>1, <1>7, <2>3, <2>5 DEF TimingInv, Within
<1>15. Stacked'
  <2> SUFFICES ASSUME ~sideBySide'
               PROVE  /\ depth' = K + 1
                      /\ \A k \in 1..(K + 1) :
                            /\ open'[k].within = (IF k = 1 THEN Session ELSE open'[k - 1].id)
                            /\ open'[k].around = k - 1 /\ open'[k].depth = k - 1
                      /\ \A k \in 1..L : spans[k].depth = spans[k].around
    BY <1>1, <1>7 DEF Stacked
  <2>1. /\ depth = K
        /\ \A k \in 1..K : /\ open[k].within = (IF k = 1 THEN Session ELSE open[k - 1].id)
                           /\ open[k].around = k - 1 /\ open[k].depth = k - 1
        /\ \A k \in 1..L : spans[k].depth = spans[k].around
        /\ \A m \in 1..K : open[m].within # within
    BY <1>1, <1>9 DEF TimingInv, Stacked, K
  <2>2. within = (IF K = 0 THEN Session ELSE open[K].id)
    <3>1. CASE K = 0
      BY <1>3, <3>1
    <3>2. CASE K # 0
      <4>1. 1 \in 1..K /\ open[1].within = Session
        BY <1>1, <2>1, <3>2
      <4>2. PICK m \in 1..K : open[m].id = within
        BY <1>3, <2>1, <4>1
      <4>3. m + 1 \in 1..K => open[m + 1].within = open[m].id
        BY <1>1, <2>1
      <4>4. m = K
        BY <1>1, <2>1, <4>2, <4>3
      <4> QED
        BY <3>2, <4>2, <4>4
    <3> QED
      BY <3>1, <3>2
  <2>3. Around(within) = K
    <3>1. CASE K = 0
      BY <2>2, <3>1 DEF Around
    <3>2. CASE K # 0
      BY <1>1, <1>4, <2>1, <2>2, <3>2
    <3> QED
      BY <3>1, <3>2
  <2>4. ASSUME NEW k \in 1..K
        PROVE  /\ open'[k].within = (IF k = 1 THEN Session ELSE open'[k - 1].id)
               /\ open'[k].around = k - 1 /\ open'[k].depth = k - 1
    <3>1. k # 1 => k - 1 \in 1..K
      BY <1>1
    <3> QED
      BY <1>7, <2>1, <3>1
  <2>5. /\ open'[K + 1].within = (IF K + 1 = 1 THEN Session ELSE open'[(K + 1) - 1].id)
        /\ open'[K + 1].around = (K + 1) - 1 /\ open'[K + 1].depth = (K + 1) - 1
    <3>1. K # 0 => K \in 1..K
      BY <1>1
    <3> QED
      BY <1>1, <1>7, <1>8, <2>1, <2>2, <2>3, <3>1
  <2> QED
    BY <1>1, <1>10, <2>1, <2>4, <2>5
<1>16. SpansNested'
  BY <1>1 DEF TimingInv, SpansNested
<1> QED
  BY <1>12, <1>13, <1>14, <1>15, <1>16 DEF TimingInv

\* What is left when one of a sequence is removed.
LEMMA Remaining ==
    ASSUME NEW S, NEW s \in Seq(S), NEW k \in 1..Len(s)
    PROVE  LET r == RemoveAt(s, k) IN
           /\ r \in Seq(S) /\ Len(r) = Len(s) - 1
           /\ \A i \in 1..(k - 1) : r[i] = s[i]
           /\ \A i \in k..(Len(s) - 1) : r[i] = s[i + 1]
<1> DEFINE p == SubSeq(s, 1, k - 1)
           q == SubSeq(s, k + 1, Len(s))
           r == RemoveAt(s, k)
<1>1. p \in Seq(S) /\ Len(p) = k - 1 /\ \A i \in 1..(k - 1) : p[i] = s[i]
  OBVIOUS
<1>2. q \in Seq(S) /\ Len(q) = Len(s) - k /\ \A i \in 1..(Len(s) - k) : q[i] = s[k + i]
  OBVIOUS
<1>3. r = p \o q
  BY DEF RemoveAt
<1>4. k \in Nat /\ Len(s) \in Nat /\ k >= 1 /\ k <= Len(s)
  OBVIOUS
<1> HIDE DEF p, q, r
<1>5. r \in Seq(S) /\ Len(r) = Len(s) - 1 /\ \A i \in 1..(k - 1) : r[i] = s[i]
  BY SMTT(30), <1>1, <1>2, <1>3, <1>4
<1>6. ASSUME NEW i \in k..(Len(s) - 1) PROVE r[i] = s[i + 1]
  <2>1. i - (k - 1) \in 1..(Len(s) - k) /\ k + (i - (k - 1)) = i + 1 /\ i \notin 1..(k - 1) /\ i \in 1..(Len(s) - 1)
    BY <1>4
  <2>2. r[i] = q[i - (k - 1)]
    BY <1>1, <1>2, <1>3, <1>4, <2>1
  <2> QED
    BY <1>2, <2>1, <2>2
<1> QED
  BY <1>5, <1>6 DEF r

\* A span is closed, whichever has nothing open within it.
LEMMA ClosingKeeps ==
    ASSUME TimingInv, NEW k \in DOMAIN open, CloseSpan(k)
    PROVE  TimingInv'
<1> DEFINE K == Len(open)
           L == Len(spans)
           at(m) == IF m < k THEN m ELSE m + 1
           span == open[k]
<1>1. /\ TimingTypeOK /\ Numbered /\ K \in Nat /\ L \in Nat /\ elapsed \in Nat
      /\ DOMAIN open = 1..K /\ DOMAIN spans = 1..L /\ k \in 1..K /\ k \in Nat /\ K >= 1
      /\ span \in OpenRow /\ span.start <= elapsed
      /\ UNCHANGED <<elapsed, sideBySide>>
  BY RowsTyped DEF TimingInv, TimingTypeOK, Numbered, CloseSpan
<1>2. /\ open' \in Seq(OpenRow) /\ Len(open') = K - 1 /\ DOMAIN open' = 1..(K - 1)
      /\ \A m \in 1..(K - 1) : at(m) \in 1..K /\ at(m) # k /\ open'[m] = open[at(m)]
  <2>1. /\ open' \in Seq(OpenRow) /\ Len(open') = K - 1
        /\ \A i \in 1..(k - 1) : open'[i] = open[i]
        /\ \A i \in k..(K - 1) : open'[i] = open[i + 1]
    BY <1>1, Remaining DEF TimingTypeOK, CloseSpan
  <2>2. ASSUME NEW m \in 1..(K - 1)
        PROVE  at(m) \in 1..K /\ at(m) # k /\ open'[m] = open[at(m)]
    <3>1. CASE m < k
      <4>1. m \in 1..(k - 1)
        BY <1>1, <3>1
      <4> QED
        BY <1>1, <2>1, <3>1, <4>1
    <3>2. CASE ~(m < k)
      <4>1. m \in k..(K - 1)
        BY <1>1, <3>2
      <4> QED
        BY <1>1, <2>1, <3>2, <4>1
    <3> QED
      BY <3>1, <3>2
  <2> HIDE DEF at
  <2> QED
    BY <1>1, <2>1, <2>2
<1>3. \A m, n \in 1..(K - 1) : at(m) = at(n) => m = n
  BY <1>1
<1>4. \A m \in 1..K : m # k => \E n \in 1..(K - 1) : at(n) = m
  <2> SUFFICES ASSUME NEW m \in 1..K, m # k PROVE \E n \in 1..(K - 1) : at(n) = m
    OBVIOUS
  <2>1. CASE m < k
    <3>1. m \in 1..(K - 1) /\ at(m) = m
      BY <1>1, <2>1
    <3> QED
      BY <3>1
  <2>2. CASE m > k
    <3>1. m - 1 \in 1..(K - 1) /\ at(m - 1) = m
      BY <1>1, <2>2
    <3> QED
      BY <3>1
  <2> QED
    BY <1>1, <2>1, <2>2
<1>5. PICK c \in SpanRow :
          /\ spans' = Append(spans, c)
          /\ c.id = span.id /\ c.within = span.within /\ c.around = span.around /\ c.depth = span.depth
          /\ c.start = RoundedHalves(span.start)
          /\ elapsed <= 2 * (c.start + c.duration) /\ 2 * (c.start + c.duration) <= elapsed + 2
  BY <1>1, PushedRow DEF CloseSpan
<1>6. /\ spans' \in Seq(SpanRow) /\ Len(spans') = L + 1 /\ spans'[L + 1] = c /\ DOMAIN spans' = 1..(L + 1)
      /\ \A n \in 1..L : spans'[n] = spans[n]
  BY <1>1, <1>5 DEF TimingTypeOK
<1>7. \A m \in 1..K : open[m].within # span.id
  BY <1>1 DEF CloseSpan, ToSet
<1>8. depth' = span.depth
  BY DEF CloseSpan, DepthRestored
<1>9. /\ \A m \in 1..K : /\ open[m].id \in Nat \ {0} /\ open[m].id <= K + L /\ open[m].start \in Nat
                         /\ open[m].within \in Nat
      /\ \A n \in 1..L : /\ spans[n].id \in Nat \ {0} /\ spans[n].id <= K + L
                         /\ spans[n].within \in Nat /\ spans[n].within <= K + L
                         /\ spans[n].start \in Nat /\ spans[n].duration \in Nat
  BY <1>1, RowsTyped DEF Numbered
<1>10. \A n \in 1..(L + 1) : n = L + 1 \/ n \in 1..L
  BY <1>1
<1> HIDE DEF K, L, at, span
<1>11. TimingTypeOK'
  <2>1. span.depth \in Nat
    BY <1>1 DEF OpenRow
  <2> QED
    BY <1>1, <1>2, <1>6, <1>8, <2>1 DEF TimingInv, TimingTypeOK
<1>12. Numbered'
  <2>1. \A m \in 1..(K - 1) : open'[m].id <= (K - 1) + (L + 1) /\ open'[m].start <= elapsed
    <3>1. (K - 1) + (L + 1) = K + L
      BY <1>1
    <3> QED
      BY <1>1, <1>2, <1>9, <3>1 DEF Numbered
  <2>2. \A m, n \in 1..(K - 1) : open'[m].id = open'[n].id => m = n
    BY <1>1, <1>2, <1>3 DEF Numbered
  <2>3. ASSUME NEW m \in 1..(K - 1), open'[m].within # Session
        PROVE  \E n \in 1..(K - 1) : open'[n].id = open'[m].within
    <3>1. PICK n \in 1..K : open[n].id = open[at(m)].within
      BY <1>1, <1>2, <2>3 DEF Numbered
    <3>2. n # k
      BY <1>2, <1>7, <3>1 DEF span
    <3>3. PICK j \in 1..(K - 1) : at(j) = n
      BY <1>4, <3>2
    <3> QED
      BY <1>2, <3>1, <3>3
  <2>4. \A n \in 1..(L + 1) : \A m \in 1..(K - 1) : spans'[n].id # open'[m].id
    <3>1. \A m \in 1..(K - 1) : open'[m].id # span.id
      BY <1>1, <1>2 DEF Numbered, span
    <3>2. \A n \in 1..L : \A m \in 1..(K - 1) : spans[n].id # open'[m].id
      <4>1. \A n \in 1..L : \A m \in 1..K : spans[n].id # open[m].id
        BY <1>1 DEF Numbered
      <4> QED
        BY <1>2, <4>1
    <3> QED
      BY <1>5, <1>6, <1>10, <3>1, <3>2
  <2>5. \A n \in 1..(L + 1) : spans'[n].id <= (K - 1) + (L + 1) /\ spans'[n].within <= (K - 1) + (L + 1)
    <3>1. (K - 1) + (L + 1) = K + L
      BY <1>1
    <3>2. span.id <= K + L /\ span.within <= K + L
      <4>1. span.within = 0 \/ \E m \in 1..K : open[m].id = span.within
        BY <1>1 DEF Numbered, Session, span
      <4> QED
        BY <1>1, <1>9, <4>1 DEF span
    <3> QED
      BY <1>5, <1>6, <1>9, <1>10, <3>1, <3>2
  <2>6. \A m \in 1..(K - 1) : open'[m].within = Session \/ \E n \in 1..(K - 1) : open'[n].id = open'[m].within
    BY <2>3
  <2>7. DOMAIN open' = 1..(K - 1) /\ Len(open') = K - 1 /\ DOMAIN spans' = 1..(L + 1) /\ Len(spans') = L + 1
        /\ elapsed' = elapsed
    BY <1>1, <1>2, <1>6
  <2> HIDE DEF Session
  <2> QED
    BY <2>1, <2>2, <2>4, <2>5, <2>6, <2>7 DEF Numbered
<1>13. Within'
  <2>1. \A i, o \in 1..(K - 1) : open'[i].within = open'[o].id => open'[o].start <= open'[i].start
    BY <1>1, <1>2 DEF TimingInv, Within
  <2>2. \A n \in 1..(L + 1) : 2 * (spans'[n].start + spans'[n].duration) <= elapsed + 2
    BY <1>1, <1>5, <1>6, <1>10 DEF TimingInv, Within
  <2>3. ASSUME NEW n \in 1..(L + 1), NEW o \in 1..(K - 1), spans'[n].within = open'[o].id
        PROVE  spans'[n].start >= RoundedHalves(open'[o].start)
    <3>1. CASE n = L + 1
      <4>1. open[at(o)].start <= span.start /\ open[at(o)].start \in Nat /\ span.start \in Nat
        BY <1>1, <1>2, <1>5, <1>6, <1>9, <2>3, <3>1 DEF TimingInv, Within, span
      <4>2. RoundedHalves(open[at(o)].start) <= RoundedHalves(span.start)
        BY <4>1, Halves
      <4>3. RoundedHalves(open[at(o)].start) \in Nat /\ RoundedHalves(span.start) \in Nat
        BY <4>1, Halves
      <4> QED
        BY <1>2, <1>5, <1>6, <3>1, <4>2, <4>3
    <3>2. CASE n \in 1..L
      BY <1>1, <1>2, <1>6, <2>3, <3>2 DEF TimingInv, Within
    <3> QED
      BY <1>10, <3>1, <3>2
  <2> QED
    BY <1>1, <1>2, <1>6, <2>1, <2>2, <2>3 DEF Within
<1>14. Stacked'
  <2> SUFFICES ASSUME ~sideBySide
               PROVE  /\ depth' = K - 1
                      /\ \A m \in 1..(K - 1) :
                            /\ open'[m].within = (IF m = 1 THEN Session ELSE open'[m - 1].id)
                            /\ open'[m].around = m - 1 /\ open'[m].depth = m - 1
                      /\ \A n \in 1..(L + 1) : spans'[n].depth = spans'[n].around
    BY <1>1, <1>2, <1>6 DEF Stacked
  <2>1. /\ \A m \in 1..K : /\ open[m].within = (IF m = 1 THEN Session ELSE open[m - 1].id)
                           /\ open[m].around = m - 1 /\ open[m].depth = m - 1
        /\ \A n \in 1..L : spans[n].depth = spans[n].around
    BY <1>1 DEF TimingInv, Stacked
  <2>2. k = K
    <3> SUFFICES ASSUME k # K PROVE FALSE
      OBVIOUS
    <3>1. k + 1 \in 1..K /\ k + 1 # 1 /\ (k + 1) - 1 = k
      BY <1>1
    <3> QED
      BY <1>7, <2>1, <3>1 DEF span
  <2>3. \A m \in 1..(K - 1) : at(m) = m /\ m \in 1..K /\ (m # 1 => m - 1 \in 1..(K - 1))
    BY <1>1, <2>2 DEF at
  <2>4. \A m \in 1..(K - 1) : open'[m] = open[m]
    BY <1>2, <2>3
  <2>5. ASSUME NEW m \in 1..(K - 1)
        PROVE  /\ open'[m].within = (IF m = 1 THEN Session ELSE open'[m - 1].id)
               /\ open'[m].around = m - 1 /\ open'[m].depth = m - 1
    BY <2>1, <2>3, <2>4
  <2>6. depth' = K - 1 /\ span.depth = span.around
    BY <1>1, <1>8, <2>1, <2>2 DEF span
  <2>7. \A n \in 1..(L + 1) : spans'[n].depth = spans'[n].around
    BY <1>5, <1>6, <1>10, <2>1, <2>6
  <2> QED
    BY <2>5, <2>6, <2>7
<1>15. SpansNested'
  <2> SUFFICES ASSUME NEW i \in 1..(L + 1), NEW o \in 1..(L + 1), spans'[i].within = spans'[o].id
               PROVE  /\ spans'[i].start >= spans'[o].start
                      /\ spans'[i].start + spans'[i].duration <= spans'[o].start + spans'[o].duration + 1
    BY <1>6, RangeEquality DEF SpansNested, ToSet
  <2>1. i # L + 1
    <3> SUFFICES ASSUME i = L + 1 PROVE FALSE
      OBVIOUS
    <3>1. spans'[o].id = span.within
      BY <1>5, <1>6
    <3>2. CASE o = L + 1
      BY <1>1, <1>5, <1>6, <1>7, <3>1, <3>2 DEF span
    <3>3. CASE o \in 1..L
      <4>1. span.within # Session
        BY <1>6, <1>9, <3>1, <3>3 DEF Session
      <4>2. PICK m \in 1..K : open[m].id = span.within
        BY <1>1, <4>1 DEF Numbered, span
      <4> QED
        BY <1>1, <1>6, <3>1, <3>3, <4>2 DEF Numbered
    <3> QED
      BY <1>10, <3>2, <3>3
  <2>2. i \in 1..L /\ spans'[i] = spans[i]
    BY <1>6, <1>10, <2>1
  <2>3. CASE o \in 1..L
    BY <1>1, <1>6, <2>2, <2>3 DEF TimingInv, SpansNested, ToSet
  <2>4. CASE o = L + 1
    <3>1. spans[i].within = span.id
      BY <1>5, <1>6, <2>2, <2>4
    <3>2. spans[i].start >= RoundedHalves(span.start) /\ 2 * (spans[i].start + spans[i].duration) <= elapsed + 2
      BY <1>1, <2>2, <3>1 DEF TimingInv, Within, span
    <3>3. c.start \in Nat /\ c.duration \in Nat /\ spans[i].start \in Nat /\ spans[i].duration \in Nat
      BY <1>9, <2>2 DEF SpanRow
    <3>4. spans[i].start + spans[i].duration <= c.start + c.duration + 1
      <4>1. \A a, b, x, y, e \in Nat : e <= 2 * (a + b) /\ 2 * (x + y) <= e + 2 => x + y <= a + b + 1
        OBVIOUS
      <4> QED
        BY <1>1, <1>5, <3>2, <3>3, <4>1
    <3> QED
      BY <1>5, <1>6, <2>2, <2>4, <3>2, <3>4
  <2> QED
    BY <1>10, <2>3, <2>4
<1> QED
  BY <1>11, <1>12, <1>13, <1>14, <1>15 DEF TimingInv

\* The invariant of a session holds at its beginning,
LEMMA TimingStarts == TimingInit => TimingInv
<1> SUFFICES ASSUME TimingInit PROVE TimingInv
  OBVIOUS
<1>1. elapsed = 0 /\ depth = 0 /\ open = <<>> /\ spans = <<>> /\ sideBySide = FALSE
  BY DEF TimingInit
<1>2. /\ DOMAIN open = {} /\ DOMAIN spans = {} /\ Len(open) = 0
      /\ open \in Seq(OpenRow) /\ spans \in Seq(SpanRow)
  BY <1>1
<1>3. TimingTypeOK
  BY <1>1, <1>2 DEF TimingTypeOK
<1>4. SpansNested
  BY <1>2 DEF SpansNested, ToSet
<1> QED
  BY <1>1, <1>2, <1>3, <1>4 DEF TimingInv, Numbered, Within, Stacked

\* each of its steps keeps it,
LEMMA TimingMoves == TimingInv /\ [TimingNext]_timingVars => TimingInv'
<1> SUFFICES ASSUME TimingInv, [TimingNext]_timingVars PROVE TimingInv'
  OBVIOUS
<1>1. CASE UNCHANGED timingVars
  BY <1>1 DEF timingVars, TimingInv, TimingTypeOK, Numbered, Within, Stacked, SpansNested
<1>2. CASE TimingNext
  <2>1. MaxSpans \in Nat /\ \A w \in 0..MaxSpans : w \in Nat
    BY TimingAssumption
  <2> QED
    BY <1>2, <2>1, ClockKeeps, MarkKeeps, OpeningKeeps, ClosingKeeps DEF TimingNext
<1> QED
  BY <1>1, <1>2

\* and it means that depths and times are those of spans around each other.
LEMMA TimingMeans == TimingInv => DepthsTrue /\ SpansNested
<1> SUFFICES ASSUME TimingInv PROVE DepthsTrue
  BY DEF TimingInv
<1>1. TimingTypeOK /\ Stacked
  BY DEF TimingInv
<1> QED
  BY <1>1 DEF DepthsTrue, Stacked, ToSet, TimingTypeOK

-----------------------------------------------------------------------------
(* Prompts *)

\* A strict order of a set, as the set of its pairs.
StrictOrder(R, S) ==
    /\ \A a \in S : <<a, a>> \notin R
    /\ \A a, b, c \in S : <<a, b>> \in R /\ <<b, c>> \in R => <<a, c>> \in R
    /\ \A a, b \in S : a # b => <<a, b>> \in R \/ <<b, a>> \in R
Under(R, S, c) == {a \in S : <<a, c>> \in R}

\* In a strict order of a finite set each has its rank: as many are before the n-th as there
\* should be, and there is one such for each n.
LEMMA Ranks ==
    ASSUME NEW S, IsFiniteSet(S), NEW R, StrictOrder(R, S)
    PROVE  /\ Cardinality(S) \in Nat
           /\ \A c \in S : Cardinality(Under(R, S, c)) \in 0..(Cardinality(S) - 1)
           /\ \A a, c \in S : <<a, c>> \in R => Cardinality(Under(R, S, a)) < Cardinality(Under(R, S, c))
           /\ \A n \in 0..(Cardinality(S) - 1) : \E c \in S : Cardinality(Under(R, S, c)) = n
<1> DEFINE N == Cardinality(S)
           rank == [c \in S |-> Cardinality(Under(R, S, c))]
<1>1. N \in Nat
  BY FS_CardinalityType
<1>2. ASSUME NEW c \in S
      PROVE  IsFiniteSet(Under(R, S, c)) /\ rank[c] \in 0..(N - 1)
  <2>1. IsFiniteSet(S \ {c}) /\ Cardinality(S \ {c}) = N - 1
    BY FS_RemoveElement
  <2>2. Under(R, S, c) \in SUBSET (S \ {c})
    BY DEF Under, StrictOrder
  <2>3. IsFiniteSet(Under(R, S, c)) /\ Cardinality(Under(R, S, c)) <= N - 1
    BY <2>1, <2>2, FS_Subset
  <2>4. Cardinality(Under(R, S, c)) \in Nat
    BY <2>3, FS_CardinalityType
  <2> QED
    BY <1>1, <2>3, <2>4
<1>3. ASSUME NEW a \in S, NEW c \in S, <<a, c>> \in R
      PROVE  rank[a] < rank[c]
  <2> DEFINE A == Under(R, S, a)
  <2>1. a \notin A /\ A \cup {a} \in SUBSET Under(R, S, c)
    BY <1>3 DEF Under, StrictOrder
  <2>2. IsFiniteSet(A) /\ IsFiniteSet(Under(R, S, c))
    BY <1>2
  <2> HIDE DEF A
  <2>3. Cardinality(A \cup {a}) = Cardinality(A) + 1
    BY <2>1, <2>2, FS_AddElement
  <2>4. Cardinality(A \cup {a}) <= Cardinality(Under(R, S, c))
    BY <2>1, <2>2, FS_Subset
  <2>5. Cardinality(A) \in Nat /\ Cardinality(Under(R, S, c)) \in Nat
    BY <2>2, FS_CardinalityType
  <2>6. Cardinality(A) < Cardinality(Under(R, S, c))
    BY <2>3, <2>4, <2>5
  <2> QED
    BY <2>6 DEF A
<1> HIDE DEF N
<1>4. rank \in [S -> 0..(N - 1)]
  BY <1>2
<1>5. \A a, c \in S : rank[a] = rank[c] => a = c
  <2>1. \A a \in S : rank[a] \in Nat
    BY <1>1, <1>2
  <2> HIDE DEF rank
  <2> SUFFICES ASSUME NEW a \in S, NEW c \in S, rank[a] = rank[c], a # c PROVE FALSE
    OBVIOUS
  <2>2. <<a, c>> \in R \/ <<c, a>> \in R
    BY DEF StrictOrder
  <2>3. rank[a] < rank[c] \/ rank[c] < rank[a]
    BY <1>3, <2>2
  <2>4. rank[a] \in Nat /\ rank[c] \in Nat
    BY <2>1
  <2> QED
    BY <2>3, <2>4
<1>6. rank \in Injection(S, 0..(N - 1))
  BY <1>4, <1>5 DEF Injection, IsInjective
<1>7. IsFiniteSet(0..(N - 1)) /\ Cardinality(0..(N - 1)) = N
  <2>1. /\ IsFiniteSet(0..(N - 1))
        /\ Cardinality(0..(N - 1)) = IF 0 > N - 1 THEN 0 ELSE (N - 1) - 0 + 1
    BY <1>1, FS_Interval
  <2> QED
    BY <1>1, <2>1
<1>8. rank \in Surjection(S, 0..(N - 1))
  BY <1>6, <1>7, FS_Injection DEF N
<1>9. \A n \in 0..(N - 1) : \E c \in S : rank[c] = n
  BY <1>8 DEF Surjection
<1> QED
  BY <1>1, <1>2, <1>3, <1>9 DEF N

\* So they can be listed in that order.
Listing(R, S) == [n \in 1..Cardinality(S) |-> CHOOSE c \in S : Cardinality(Under(R, S, c)) = n - 1]

ListsAll(order, R, S) ==
    /\ order \in Seq(S) /\ Len(order) = Cardinality(S) /\ Cardinality(S) \in Nat
    /\ \A m, n \in 1..Len(order) : order[m] = order[n] => m = n
    /\ \A c \in S : \E n \in 1..Len(order) : order[n] = c
    /\ \A n \in 1..Len(order), c \in S :
          <<c, order[n]>> \in R <=> \E m \in 1..(n - 1) : order[m] = c

\* Each has one place in the list, and before it those that come before it.
LEMMA ListedInOrder ==
    ASSUME NEW S, IsFiniteSet(S), NEW R, StrictOrder(R, S)
    PROVE  ListsAll(Listing(R, S), R, S)
<1> DEFINE order == Listing(R, S)
           N == Cardinality(S)
           rank(c) == Cardinality(Under(R, S, c))
<1>1. /\ N \in Nat
      /\ \A c \in S : rank(c) \in 0..(N - 1)
      /\ \A a, c \in S : <<a, c>> \in R => rank(a) < rank(c)
      /\ \A n \in 0..(N - 1) : \E c \in S : rank(c) = n
  BY Ranks
<1>2. order = [n \in 1..N |-> CHOOSE c \in S : rank(c) = n - 1]
  BY DEF Listing
<1> HIDE DEF N, rank, order
<1>3. ASSUME NEW n \in 1..N PROVE order[n] \in S /\ rank(order[n]) = n - 1
  <2>1. n - 1 \in 0..(N - 1)
    BY <1>1
  <2>2. \E c \in S : rank(c) = n - 1
    BY <1>1, <2>1
  <2> QED
    BY <1>2, <2>2
<1>4. order \in Seq(S) /\ Len(order) = N
  <2>1. order \in [1..N -> S]
    BY <1>2, <1>3
  <2> QED
    BY <1>1, <2>1
<1>5. \A m, n \in 1..N : order[m] = order[n] => m = n
  BY <1>1, <1>3
<1>6. ASSUME NEW c \in S PROVE rank(c) + 1 \in 1..N /\ order[rank(c) + 1] = c
  <2>1. rank(c) \in 0..(N - 1)
    BY <1>1
  <2>2. rank(c) + 1 \in 1..N /\ (rank(c) + 1) - 1 = rank(c)
    BY <1>1, <2>1
  <2>3. order[rank(c) + 1] \in S /\ rank(order[rank(c) + 1]) = rank(c)
    BY <1>3, <2>2
  <2>4. rank(c) \in Int
    BY <2>1
  <2>5. \A a \in S : rank(a) = rank(c) => a = c
    <3> SUFFICES ASSUME NEW a \in S, rank(a) = rank(c), a # c PROVE FALSE
      OBVIOUS
    <3>1. rank(a) < rank(c) \/ rank(c) < rank(a)
      BY <1>1 DEF StrictOrder
    <3> QED
      BY <2>4, <3>1
  <2> QED
    BY <2>2, <2>3, <2>5
<1>7. \A c \in S : \E n \in 1..N : order[n] = c
  BY <1>6
<1>8. ASSUME NEW n \in 1..N, NEW c \in S
      PROVE  <<c, order[n]>> \in R <=> \E m \in 1..(n - 1) : order[m] = c
  <2>1. rank(c) \in 0..(N - 1) /\ rank(order[n]) = n - 1 /\ order[n] \in S /\ n \in Nat /\ N \in Nat
    BY <1>1, <1>3
  <2>2. ASSUME <<c, order[n]>> \in R PROVE \E m \in 1..(n - 1) : order[m] = c
    <3>1. rank(c) < n - 1
      BY <1>1, <2>1, <2>2
    <3>2. rank(c) + 1 \in 1..(n - 1)
      BY <2>1, <3>1
    <3> QED
      BY <1>6, <3>2
  <2>3. ASSUME NEW m \in 1..(n - 1), order[m] = c PROVE <<c, order[n]>> \in R
    <3>1. m \in 1..N /\ m # n /\ m < n /\ m \in Nat
      BY <2>1
    <3>2. c # order[n]
      BY <1>5, <2>3, <3>1
    <3>3. ~(<<order[n], c>> \in R)
      <4>1. rank(c) = m - 1
        BY <1>3, <2>3, <3>1
      <4>2. ~(n - 1 < m - 1)
        BY <2>1, <3>1
      <4> QED
        BY <1>1, <2>1, <4>1, <4>2
    <3> QED
      BY <2>1, <3>2, <3>3 DEF StrictOrder
  <2> QED
    BY <2>2, <2>3
<1> QED
  BY <1>1, <1>4, <1>5, <1>7, <1>8 DEF N, order, ListsAll

(* What the models are told *)

PromptMessages == [thread : Threads, role : {"USER", "ASSISTANT"}, turn : Turns]
TurnStates == [at : {"idle", "asked", "saved", "told", "done"}, thread : Threads \cup {NoThread},
               history : Seq(PromptMessages)]
TurnRuns(t) == turn[t].at \in {"asked", "saved", "told"}

PromptsTypeOK ==
    /\ messages \in [Threads -> Seq(PromptMessages)]
    /\ started \in SUBSET Threads
    /\ turn \in [Turns -> TurnStates]

\* A conversation holds its own messages, no two alike, and of a turn under way only the
\* question, once it is saved.
OwnMessages(thread) ==
    LET all == messages[thread] IN
    /\ \A k \in 1..Len(all) : all[k].thread = thread
    /\ \A j, k \in 1..Len(all) : all[j] = all[k] => j = k
    /\ \A k \in 1..Len(all) :
          /\ turn[all[k].turn].at \in {"saved", "told", "done"}
          /\ turn[all[k].turn].at # "done" => all[k].role = "USER"

\* What is told are the last of the first n messages, and none of these is of the turn.
Recalled(told, all, t) ==
    \E n \in 0..Len(all) : \E d \in 0..n :
        /\ Len(told) = n - d
        /\ \A j \in 1..(n - d) : told[j] = all[d + j]
        /\ \A k \in 1..n : all[k].turn # t

TurnRemembers(t) ==
    TurnRuns(t) =>
        /\ turn[t].thread \in started
        /\ turn[t].at # "asked" => messages[turn[t].thread] # <<>>
        /\ Recalled(turn[t].history, messages[turn[t].thread], t)

NewestThere ==
    /\ started # {} => recent \in started
    /\ started # {} /\ messages[recent] # <<>> =>
          /\ newest.thread = recent
          /\ \E k \in 1..Len(messages[recent]) : messages[recent][k] = newest

PromptsInv ==
    /\ PromptsTypeOK
    /\ \A thread \in Threads : OwnMessages(thread)
    /\ \A thread \in Threads : messages[thread] # <<>> => thread \in started
    /\ \A t \in Turns : TurnRemembers(t)
    /\ NewestThere
    /\ SummaryOfNewest
    /\ WeakestTold

AreLast(told, all, limit) ==
    /\ told \in Seq(PromptMessages)
    /\ \E d \in 0..Len(all) :
          /\ Len(told) = Len(all) - d
          /\ \A j \in 1..(Len(all) - d) : told[j] = all[d + j]
          /\ d = 0 \/ Len(told) = limit

\* The newest messages are the last ones of the conversation: all of it, or as many as asked.
LEMMA LatestAre ==
    ASSUME NEW all \in Seq(PromptMessages), NEW thread, messages[thread] = all,
           NEW limit \in Nat \ {0}, NEW told, told = LatestMessages(thread, limit)
    PROVE  AreLast(told, all, limit)
<1> DEFINE N == Len(all)
           a == IF N > limit THEN N - limit + 1 ELSE 1
           d == a - 1
<1>1. N \in Nat
  BY LenProperties
<1>2. told = SubSeq(all, a, N)
  BY DEF LatestMessages
<1>3. a \in Int /\ a >= 1 /\ a <= N + 1 /\ (a = 1 \/ N - a + 1 = limit)
  <2> HIDE DEF N
  <2> QED
    BY <1>1
<1>4. \A m \in a..N : all[m] \in PromptMessages
  <2> SUFFICES ASSUME NEW m \in a..N PROVE all[m] \in PromptMessages
    OBVIOUS
  <2> HIDE DEF a
  <2>1. m \in 1..Len(all)
    BY <1>1, <1>3
  <2> QED
    BY <2>1, ElementOfSeq
<1> HIDE DEF a
<1>5. /\ told \in Seq(PromptMessages) /\ Len(told) = IF a <= N THEN N - a + 1 ELSE 0
      /\ \A m \in 1..(N - a + 1) : told[m] = all[a + m - 1]
  <2> HIDE DEF N
  <2>1. /\ SubSeq(all, a, N) \in Seq(PromptMessages)
        /\ Len(SubSeq(all, a, N)) = IF a <= N THEN N - a + 1 ELSE 0
        /\ \A m \in 1..(N - a + 1) : SubSeq(all, a, N)[m] = all[a + m - 1]
    BY <1>1, <1>3, <1>4, SubSeqProperties
  <2> QED
    BY <1>2, <2>1
<1> HIDE DEF N
<1>6. d \in 0..N /\ Len(told) = N - d /\ N - d = N - a + 1
  BY <1>1, <1>3, <1>5
<1>7. d = 0 \/ Len(told) = limit
  BY <1>1, <1>3, <1>6
<1>8. ASSUME NEW j \in 1..(N - d) PROVE told[j] = all[d + j]
  <2>1. j \in 1..(N - a + 1) /\ a + j - 1 = d + j
    BY <1>1, <1>3, <1>6
  <2>2. told[j] = all[a + j - 1]
    BY <1>5, <2>1
  <2> QED
    BY <2>1, <2>2
<1> HIDE DEF d
<1>9. /\ told \in Seq(PromptMessages)
      /\ d \in 0..N /\ Len(told) = N - d
      /\ \A j \in 1..(N - d) : told[j] = all[d + j]
      /\ d = 0 \/ Len(told) = limit
  BY <1>5, <1>6, <1>7, <1>8
<1> QED
  BY <1>9 DEF N, AreLast

\* What is told of a conversation stays as it is told when a message joins it.
LEMMA RecalledKept ==
    ASSUME NEW all \in Seq(PromptMessages), NEW message \in PromptMessages, NEW told, NEW t,
           Recalled(told, all, t)
    PROVE  Recalled(told, Append(all, message), t)
<1> DEFINE more == Append(all, message)
<1>1. /\ Len(more) = Len(all) + 1
      /\ \A k \in 1..Len(all) : more[k] = all[k]
  BY AppendProperties
<1>2. Len(all) \in Nat
  BY LenProperties
<1>3. PICK n \in 0..Len(all) : \E d \in 0..n :
        /\ Len(told) = n - d
        /\ \A j \in 1..(n - d) : told[j] = all[d + j]
        /\ \A k \in 1..n : all[k].turn # t
  BY DEF Recalled
<1>4. PICK d \in 0..n :
        /\ Len(told) = n - d
        /\ \A j \in 1..(n - d) : told[j] = all[d + j]
        /\ \A k \in 1..n : all[k].turn # t
  BY <1>3
<1> HIDE DEF more
<1>5. n \in 0..Len(more)
  BY <1>1, <1>2
<1>6. ASSUME NEW j \in 1..(n - d) PROVE told[j] = more[d + j]
  <2>1. d + j \in 1..Len(all)
    BY <1>2
  <2> QED
    BY <1>1, <1>4, <2>1
<1>7. ASSUME NEW k \in 1..n PROVE more[k].turn # t
  <2>1. k \in 1..Len(all)
    BY <1>2
  <2> QED
    BY <1>1, <1>4, <2>1
<1>8. Recalled(told, more, t)
  BY <1>4, <1>5, <1>6, <1>7 DEF Recalled
<1> QED
  BY <1>8 DEF more

\* At the beginning there is nothing.
LEMMA PromptsStart == PromptsInit => PromptsInv
<1> SUFFICES ASSUME PromptsInit PROVE PromptsInv
  OBVIOUS
<1>1. PromptsTypeOK
  <2>1. <<>> \in Seq(PromptMessages)
    BY EmptySeq
  <2>2. messages \in [Threads -> Seq(PromptMessages)]
    BY <2>1 DEF PromptsInit
  <2>3. NoTurn \in TurnStates
    BY <2>1 DEF NoTurn, TurnStates
  <2> QED
    BY <2>2, <2>3 DEF PromptsInit, PromptsTypeOK
<1>2. \A thread \in Threads : messages[thread] = <<>>
  BY DEF PromptsInit
<1>3. \A thread \in Threads : OwnMessages(thread)
  BY <1>2 DEF OwnMessages
<1>4. \A t \in Turns : TurnRemembers(t)
  BY DEF PromptsInit, NoTurn, TurnRemembers, TurnRuns
<1>5. NewestThere
  BY DEF PromptsInit, NewestThere
<1>6. SummaryOfNewest /\ WeakestTold
  BY DEF PromptsInit, SummaryOfNewest, WeakestTold, NoAdvice
<1> QED
  BY <1>1, <1>2, <1>3, <1>4, <1>5, <1>6 DEF PromptsInv

\* The weakest concepts are told first, and as many as fit.
LEMMA AdvisedWeakest == ASSUME PromptAssumption, WeakestTold, AskAdviser PROVE WeakestTold'
<1>1. PICK mastery \in [Known -> Levels] :
        adviser' = [mastery |-> mastery,
                    lines |-> SubSeq(WeakestFirst(mastery), 1,
                        IF Cardinality(Known) < MaxConcepts THEN Cardinality(Known) ELSE MaxConcepts)]
  BY DEF AskAdviser
<1> DEFINE R == {pair \in Known \X Known : ToldBefore(mastery, pair[1], pair[2])}
           order == WeakestFirst(mastery)
           N == Cardinality(Known)
           L == IF N < MaxConcepts THEN N ELSE MaxConcepts
           lines == SubSeq(order, 1, L)
<1>2. \A a, b \in Known : <<a, b>> \in R <=> ToldBefore(mastery, a, b)
  OBVIOUS
<1>3. \A c \in Known : c \in Nat /\ mastery[c] \in Nat
  BY DEF PromptAssumption
<1> HIDE DEF R
<1>4. StrictOrder(R, Known)
  <2>1. \A a \in Known : <<a, a>> \notin R
    BY <1>2, <1>3 DEF ToldBefore
  <2>2. ASSUME NEW a \in Known, NEW b \in Known, NEW c \in Known, <<a, b>> \in R, <<b, c>> \in R
        PROVE  <<a, c>> \in R
    <3>1. ToldBefore(mastery, a, b) /\ ToldBefore(mastery, b, c)
      BY <1>2, <2>2
    <3>2. /\ a \in Nat /\ b \in Nat /\ c \in Nat
          /\ mastery[a] \in Nat /\ mastery[b] \in Nat /\ mastery[c] \in Nat
      BY <1>3
    <3>3. ToldBefore(mastery, a, c)
      BY <3>1, <3>2 DEF ToldBefore
    <3> QED
      BY <1>2, <3>3
  <2>3. ASSUME NEW a \in Known, NEW b \in Known, a # b PROVE <<a, b>> \in R \/ <<b, a>> \in R
    <3>1. a \in Nat /\ b \in Nat /\ mastery[a] \in Nat /\ mastery[b] \in Nat
      BY <1>3
    <3>2. ToldBefore(mastery, a, b) \/ ToldBefore(mastery, b, a)
      BY <2>3, <3>1 DEF ToldBefore
    <3> QED
      BY <1>2, <3>2
  <2> QED
    BY <2>1, <2>2, <2>3 DEF StrictOrder
<1>5. order = Listing(R, Known)
  <2>1. ASSUME NEW c \in Known PROVE {a \in Known : ToldBefore(mastery, a, c)} = Under(R, Known, c)
    BY <1>2 DEF Under
  <2>2. order = [n \in 1..N |-> CHOOSE c \in Known : Cardinality({a \in Known : ToldBefore(mastery, a, c)}) = n - 1]
    BY DEF WeakestFirst
  <2>3. \A n \in 1..N : (CHOOSE c \in Known : Cardinality({a \in Known : ToldBefore(mastery, a, c)}) = n - 1)
                        = (CHOOSE c \in Known : Cardinality(Under(R, Known, c)) = n - 1)
    BY <2>1
  <2> QED
    BY <2>2, <2>3 DEF Listing
<1> HIDE DEF order
<1>6. /\ order \in Seq(Known) /\ Len(order) = N /\ N \in Nat
      /\ \A m, n \in 1..Len(order) : order[m] = order[n] => m = n
      /\ \A c \in Known : \E n \in 1..Len(order) : order[n] = c
      /\ \A n \in 1..Len(order), c \in Known :
            <<c, order[n]>> \in R <=> \E m \in 1..(n - 1) : order[m] = c
  <2>1. IsFiniteSet(Known)
    BY DEF PromptAssumption
  <2>2. ListsAll(order, R, Known)
    BY <1>4, <1>5, <2>1, ListedInOrder
  <2> QED
    BY <2>2 DEF ListsAll, N
<1>7. MaxConcepts \in Nat \ {0}
  BY DEF PromptAssumption
<1> HIDE DEF N
<1>8. L \in Nat /\ L <= N /\ (L = N \/ L = MaxConcepts)
  BY <1>6, <1>7
<1> HIDE DEF L
<1>9. lines \in Seq(Known) /\ Len(lines) = L /\ \A k \in 1..L : lines[k] = order[k]
  <2>1. \A k \in 1..L : order[k] \in Known
    <3> SUFFICES ASSUME NEW k \in 1..L PROVE order[k] \in Known
      OBVIOUS
    <3>1. k \in 1..Len(order)
      BY <1>6, <1>8
    <3> QED
      BY <1>6, <3>1, ElementOfSeq
  <2>2. /\ lines \in Seq(Known) /\ Len(lines) = IF 1 <= L THEN L - 1 + 1 ELSE 0
        /\ \A k \in 1..(L - 1 + 1) : lines[k] = order[1 + k - 1]
    BY <1>8, <2>1, SubSeqProperties
  <2> HIDE DEF lines
  <2>3. Len(lines) = L
    BY <1>8, <2>2
  <2>4. ASSUME NEW k \in 1..L PROVE lines[k] = order[k]
    <3>1. k \in 1..(L - 1 + 1) /\ 1 + k - 1 = k
      BY <1>8
    <3>2. lines[k] = order[1 + k - 1]
      BY <2>2, <3>1
    <3> QED
      BY <3>1, <3>2
  <2> QED
    BY <2>2, <2>3, <2>4
<1> HIDE DEF lines
<1>10. adviser'.mastery = mastery /\ adviser'.lines = lines
  BY <1>1 DEF lines, L, N, order
<1>11. DOMAIN lines = 1..L /\ ToSet(lines) = {lines[k] : k \in 1..L}
  BY <1>9, LenProperties DEF ToSet
<1>12. Len(lines) = Cardinality(ToSet(lines))
  <2>1. \A j, k \in 1..L : lines[j] = lines[k] => j = k
    <3> SUFFICES ASSUME NEW j \in 1..L, NEW k \in 1..L, lines[j] = lines[k] PROVE j = k
      OBVIOUS
    <3>1. j \in 1..Len(order) /\ k \in 1..Len(order)
      BY <1>6, <1>8
    <3> QED
      BY <1>6, <1>9, <3>1
  <2>2. lines \in [1..L -> ToSet(lines)]
    BY <1>9, <1>11
  <2>3. lines \in Surjection(1..L, ToSet(lines))
    BY <1>11, <2>2 DEF Surjection
  <2>4. lines \in Injection(1..L, ToSet(lines))
    BY <2>1, <2>2 DEF Injection, IsInjective
  <2>5. IsFiniteSet(1..L) /\ Cardinality(1..L) = L
    <3>1. IsFiniteSet(1..L) /\ Cardinality(1..L) = IF 1 > L THEN 0 ELSE L - 1 + 1
      BY <1>8, FS_Interval
    <3> QED
      BY <1>8, <3>1
  <2> QED
    BY <1>9, <2>3, <2>4, <2>5, FS_Surjection
<1>13. ToSet(lines) = Known \/ Len(lines) = MaxConcepts
  <2>1. CASE L = MaxConcepts
    BY <1>9, <2>1
  <2>2. CASE L = N
    <3>1. \A k \in 1..L : lines[k] \in Known
      BY <1>9, ElementOfSeq
    <3>2. \A c \in Known : \E k \in 1..L : lines[k] = c
      BY <1>6, <1>9, <2>2
    <3> QED
      BY ZenonT(60), <1>11, <3>1, <3>2
  <2> QED
    BY <1>8, <2>1, <2>2
<1>14. ASSUME NEW k \in DOMAIN lines, NEW c \in Known, mastery[c] < mastery[lines[k]]
       PROVE  \E j \in 1..(k - 1) : lines[j] = c
  <2>1. k \in 1..L /\ lines[k] = order[k] /\ k \in 1..Len(order)
    BY <1>6, <1>8, <1>9, <1>11
  <2>2. order[k] \in Known
    BY <1>6, <2>1, ElementOfSeq
  <2>3. <<c, order[k]>> \in R
    BY <1>2, <1>14, <2>1, <2>2 DEF ToldBefore
  <2>4. PICK m \in 1..(k - 1) : order[m] = c
    BY <1>6, <2>1, <2>3
  <2>5. m \in 1..L
    BY <1>8, <2>1
  <2> QED
    BY <1>9, <2>4, <2>5
<1> QED
  BY <1>10, <1>12, <1>13, <1>14 DEF WeakestTold

\* A turn begins with the last messages of its conversation, none of which is its own.
LEMMA ReadHistoryKeeps ==
    ASSUME PromptAssumption, PromptsInv, NEW t \in Turns, ReadHistory(t) PROVE PromptsInv'
<1>1. PICK thread \in Threads :
        /\ turn' = [turn EXCEPT ![t] = [@ EXCEPT !.at = "asked", !.thread = thread,
                                                 !.history = LatestMessages(thread, Window)]]
        /\ started' = started \cup {thread}
        /\ recent' = IF thread \in started THEN recent ELSE thread
  BY DEF ReadHistory
<1>2. turn[t].at = "idle" /\ messages' = messages /\ newest' = newest /\ summing' = summing /\ adviser' = adviser
  BY DEF ReadHistory
<1> DEFINE all == messages[thread]
           told == LatestMessages(thread, Window)
<1>3. /\ messages \in [Threads -> Seq(PromptMessages)] /\ started \in SUBSET Threads
      /\ turn \in [Turns -> TurnStates]
  BY DEF PromptsInv, PromptsTypeOK
<1>4. all \in Seq(PromptMessages) /\ Len(all) \in Nat
  BY <1>3, LenProperties
<1>5. Window \in Nat \ {0}
  BY DEF PromptAssumption
<1>6. AreLast(told, all, Window)
  <2> HIDE DEF all, told
  <2>1. told = LatestMessages(thread, Window) /\ messages[thread] = all
    BY DEF told, all
  <2> QED
    BY <1>4, <1>5, <2>1, LatestAre
<1> HIDE DEF told
<1>7. /\ turn'[t] = [turn[t] EXCEPT !.at = "asked", !.thread = thread, !.history = told]
      /\ \A u \in Turns \ {t} : turn'[u] = turn[u]
  BY <1>1, <1>3 DEF told
<1>8. turn[t] \in TurnStates
  BY <1>3
<1>9. turn'[t].at = "asked" /\ turn'[t].thread = thread /\ turn'[t].history = told
  BY <1>7, <1>8 DEF TurnStates
<1>10. turn'[t] \in TurnStates
  BY <1>6, <1>7, <1>8 DEF TurnStates, AreLast
<1>11. turn' \in [Turns -> TurnStates]
  <2>1. DOMAIN turn' = Turns /\ turn' = [u \in Turns |-> turn'[u]]
    BY <1>1, <1>3
  <2>2. \A u \in Turns : turn'[u] \in TurnStates
    BY <1>3, <1>7, <1>10
  <2> QED
    BY <2>1, <2>2
<1>12. ASSUME NEW any \in Threads, NEW k \in 1..Len(messages[any])
       PROVE  messages[any][k].turn \in Turns \ {t}
  <2>1. messages[any] \in Seq(PromptMessages)
    BY <1>3
  <2>2. messages[any][k] \in PromptMessages
    BY <2>1, ElementOfSeq
  <2>3. turn[messages[any][k].turn].at \in {"saved", "told", "done"}
    BY DEF PromptsInv, OwnMessages
  <2> QED
    BY <1>2, <2>2, <2>3 DEF PromptMessages
<1>13. ASSUME NEW any \in Threads PROVE OwnMessages(any)'
  <2>1. OwnMessages(any)
    BY DEF PromptsInv
  <2>2. \A k \in 1..Len(messages[any]) : turn'[messages[any][k].turn] = turn[messages[any][k].turn]
    BY <1>7, <1>12
  <2> QED
    BY <1>2, <2>1, <2>2 DEF OwnMessages
<1>14. Recalled(told, all, t)
  <2>1. PICK d \in 0..Len(all) :
            /\ Len(told) = Len(all) - d
            /\ \A j \in 1..(Len(all) - d) : told[j] = all[d + j]
    BY <1>6 DEF AreLast
  <2>2. \A k \in 1..Len(all) : all[k].turn # t
    BY <1>12
  <2> HIDE DEF all
  <2>3. Len(all) \in 0..Len(all)
    BY <1>4
  <2> QED
    BY <2>1, <2>2, <2>3 DEF Recalled
<1>15. ASSUME NEW u \in Turns PROVE TurnRemembers(u)'
  <2>1. CASE u = t
    BY <1>1, <1>2, <1>9, <1>14, <2>1 DEF TurnRemembers
  <2>2. CASE u # t
    <3>1. TurnRemembers(u) /\ turn'[u] = turn[u]
      BY <1>7, <2>2 DEF PromptsInv
    <3>2. \A c \in started : c \in started'
      BY <1>1
    <3> QED
      BY <1>2, <3>1, <3>2 DEF TurnRemembers, TurnRuns
  <2> QED
    BY <2>1, <2>2
<1>16. NewestThere'
  <2>1. NewestThere
    BY DEF PromptsInv
  <2>2. CASE thread \in started
    <3>1. started' = started /\ recent' = recent
      BY <1>1, <2>2
    <3> QED
      BY <1>2, <2>1, <3>1 DEF NewestThere
  <2>3. CASE thread \notin started
    <3>1. recent' = thread /\ thread \in started' /\ messages'[thread] = <<>>
      BY <1>1, <1>2, <2>3 DEF PromptsInv
    <3> QED
      BY <3>1 DEF NewestThere
  <2> QED
    BY <2>2, <2>3
<1>17. PromptsTypeOK'
  BY <1>1, <1>2, <1>3, <1>11 DEF PromptsTypeOK
<1>18. \A any \in Threads : messages'[any] # <<>> => any \in started'
  BY <1>1, <1>2 DEF PromptsInv
<1>19. SummaryOfNewest' /\ WeakestTold'
  BY <1>2 DEF PromptsInv, SummaryOfNewest, WeakestTold
<1> QED
  BY <1>13, <1>15, <1>16, <1>17, <1>18, <1>19 DEF PromptsInv

\* A turn that writes its question, or its answer and is done.
Writes(t, role) ==
    /\ turn[t].at \in {"asked", "saved", "told"}
    /\ PutMessage(t, role)
    /\ turn' \in [Turns -> TurnStates]
    /\ \A u \in Turns \ {t} : turn'[u] = turn[u]
    /\ \/ /\ role = "USER" /\ turn[t].at = "asked" /\ turn'[t].at = "saved"
          /\ turn'[t].thread = turn[t].thread /\ turn'[t].history = turn[t].history
       \/ role = "ASSISTANT" /\ turn[t].at # "asked" /\ turn'[t].at = "done"
    /\ started' = started

\* Where the message goes, and that nothing else there is of its kind.
Joins(t, role, thread, message) ==
    /\ thread \in Threads /\ thread \in started /\ message \in PromptMessages
    /\ message.thread = thread /\ message.role = role /\ message.turn = t
    /\ messages' \in [Threads -> Seq(PromptMessages)]
    /\ messages'[thread] = Append(messages[thread], message)
    /\ \A any \in Threads \ {thread} : messages'[any] = messages[any]
    /\ \A k \in 1..Len(messages[thread]) : messages[thread][k] # message
    /\ role = "USER" => \A any \in Threads : \A k \in 1..Len(messages[any]) :
                           messages[any][k].turn # t

\* A message that is written joins its conversation, and is new there.
LEMMA MessageJoins ==
    ASSUME PromptsInv, NEW t \in Turns, NEW role, Writes(t, role),
           NEW thread, thread = turn[t].thread, NEW message, message = Message(thread, role, t)
    PROVE  Joins(t, role, thread, message)
<1>1. /\ messages \in [Threads -> Seq(PromptMessages)] /\ started \in SUBSET Threads
      /\ turn \in [Turns -> TurnStates]
  BY DEF PromptsInv, PromptsTypeOK
<1>2. TurnRemembers(t) /\ TurnRuns(t)
  BY DEF PromptsInv, Writes, TurnRuns
<1>3. thread \in Threads /\ thread \in started
  BY <1>1, <1>2 DEF TurnRemembers
<1>4. role \in {"USER", "ASSISTANT"}
  BY DEF Writes
<1>5. message \in PromptMessages /\ message.thread = thread /\ message.role = role /\ message.turn = t
  BY <1>3, <1>4 DEF Message, PromptMessages
<1>6. messages' = [messages EXCEPT ![thread] = Append(@, message)]
  BY DEF Writes, PutMessage
<1>7. messages[thread] \in Seq(PromptMessages)
  BY <1>1, <1>3
<1>8. Append(messages[thread], message) \in Seq(PromptMessages)
  BY <1>5, <1>7, AppendProperties
<1>9. /\ messages' \in [Threads -> Seq(PromptMessages)]
      /\ messages'[thread] = Append(messages[thread], message)
      /\ \A any \in Threads \ {thread} : messages'[any] = messages[any]
  BY <1>1, <1>3, <1>6, <1>8
<1>10. ASSUME role = "USER", NEW any \in Threads, NEW k \in 1..Len(messages[any])
       PROVE  messages[any][k].turn # t
  <2>1. turn[messages[any][k].turn].at \in {"saved", "told", "done"}
    BY DEF PromptsInv, OwnMessages
  <2>2. turn[t].at = "asked"
    BY <1>10 DEF Writes
  <2> QED
    BY <2>1, <2>2
<1>11. ASSUME NEW k \in 1..Len(messages[thread]), messages[thread][k] = message PROVE FALSE
  <2>1. messages[thread][k].turn = t /\ messages[thread][k].role = role
    BY <1>5, <1>11
  <2>2. turn[t].at \in {"saved", "told", "done"} /\ (turn[t].at # "done" => role = "USER")
    BY <1>3, <2>1 DEF PromptsInv, OwnMessages
  <2>3. role # "USER"
    BY <1>3, <1>10, <2>1
  <2> QED
    BY <2>2, <2>3 DEF Writes
<1> QED
  BY <1>3, <1>5, <1>9, <1>10, <1>11 DEF Joins

\* Each conversation has its own messages after it as before, and each turn remembers.
LEMMA WritingKeeps ==
    ASSUME PromptsInv, NEW t \in Turns, NEW role, Writes(t, role)
    PROVE  /\ PromptsTypeOK'
           /\ \A thread \in Threads : OwnMessages(thread)'
           /\ \A thread \in Threads : messages'[thread] # <<>> => thread \in started'
           /\ \A u \in Turns : TurnRemembers(u)'
<1> DEFINE thread == turn[t].thread
           message == Message(thread, role, t)
           all == messages[thread]
<1>1. /\ thread \in Threads /\ thread \in started /\ message \in PromptMessages
      /\ message.thread = thread /\ message.role = role /\ message.turn = t
      /\ messages' \in [Threads -> Seq(PromptMessages)]
      /\ messages'[thread] = Append(messages[thread], message)
      /\ \A any \in Threads \ {thread} : messages'[any] = messages[any]
      /\ \A k \in 1..Len(messages[thread]) : messages[thread][k] # message
      /\ role = "USER" => \A any \in Threads : \A k \in 1..Len(messages[any]) :
                             messages[any][k].turn # t
  <2> HIDE DEF thread, message
  <2>1. Joins(t, role, thread, message)
    BY MessageJoins DEF thread, message
  <2> QED
    BY <2>1 DEF Joins
<1> HIDE DEF thread, message
<1>2. /\ messages \in [Threads -> Seq(PromptMessages)] /\ started \in SUBSET Threads
      /\ turn \in [Turns -> TurnStates]
  BY DEF PromptsInv, PromptsTypeOK
<1>3. all \in Seq(PromptMessages) /\ Len(all) \in Nat
  BY <1>1, <1>2, LenProperties
<1>4. /\ Append(all, message) # <<>> /\ Len(Append(all, message)) = Len(all) + 1
      /\ \A k \in 1..Len(all) : Append(all, message)[k] = all[k]
      /\ Append(all, message)[Len(all) + 1] = message
  BY <1>1, <1>3, AppendProperties
<1>5. started' = started /\ \A u \in Turns \ {t} : turn'[u] = turn[u]
  BY DEF Writes
<1>6. PromptsTypeOK'
  BY <1>1, <1>2, <1>5 DEF PromptsTypeOK, Writes
<1>7. ASSUME NEW any \in Threads PROVE messages'[any] # <<>> => any \in started'
  BY <1>1, <1>5 DEF PromptsInv
<1>8. ASSUME NEW any \in Threads, NEW k \in 1..Len(messages[any])
      PROVE  /\ turn'[messages[any][k].turn].at \in {"saved", "told", "done"}
             /\ turn'[messages[any][k].turn].at # "done" => messages[any][k].role = "USER"
  <2>1. messages[any] \in Seq(PromptMessages)
    BY <1>2
  <2>2. messages[any][k] \in PromptMessages
    BY <2>1, ElementOfSeq
  <2>3. messages[any][k].turn \in Turns
    BY <2>2 DEF PromptMessages
  <2>4. CASE messages[any][k].turn # t
    <3>1. turn'[messages[any][k].turn] = turn[messages[any][k].turn]
      BY <1>5, <2>3, <2>4
    <3> QED
      BY <3>1 DEF PromptsInv, OwnMessages
  <2>5. CASE messages[any][k].turn = t
    <3>1. turn'[t].at = "done"
      BY <1>1, <2>5 DEF Writes
    <3> QED
      BY <2>5, <3>1
  <2> QED
    BY <2>4, <2>5
<1>9. ASSUME NEW any \in Threads PROVE OwnMessages(any)'
  <2>1. OwnMessages(any)
    BY DEF PromptsInv
  <2>2. CASE any # thread
    <3>1. messages'[any] = messages[any]
      BY <1>1, <2>2
    <3> QED
      BY <1>8, <2>1, <3>1 DEF OwnMessages
  <2>3. CASE any = thread
    <3> DEFINE more == Append(all, message)
    <3>1. messages'[any] = more /\ OwnMessages(thread)
      BY <1>1, <2>1, <2>3
    <3>2. /\ \A k \in 1..Len(all) : more[k] = all[k] /\ more[k].thread = thread /\ more[k] # message
          /\ more[Len(all) + 1] = message /\ Len(more) = Len(all) + 1
      BY <1>1, <1>4, <3>1 DEF OwnMessages
    <3>3. \A j, k \in 1..Len(all) : more[j] = more[k] => j = k
      BY <1>4, <3>1 DEF OwnMessages
    <3>4. /\ turn'[message.turn].at \in {"saved", "told", "done"}
          /\ turn'[message.turn].at # "done" => message.role = "USER"
      BY <1>1 DEF Writes
    <3>5. ASSUME NEW k \in 1..Len(all)
          PROVE  /\ turn'[more[k].turn].at \in {"saved", "told", "done"}
                 /\ turn'[more[k].turn].at # "done" => more[k].role = "USER"
      BY <1>1, <1>4, <1>8
    <3> HIDE DEF more, all
    <3>6. \A k \in 1..Len(more) : k \in 1..Len(all) \/ k = Len(all) + 1
      BY <1>3, <3>2
    <3>7. \A k \in 1..Len(more) : more[k].thread = thread
      BY <1>1, <3>2, <3>6
    <3>8. \A j, k \in 1..Len(more) : more[j] = more[k] => j = k
      <4> SUFFICES ASSUME NEW j \in 1..Len(more), NEW k \in 1..Len(more), more[j] = more[k] PROVE j = k
        OBVIOUS
      <4>1. /\ j \in 1..Len(all) \/ j = Len(all) + 1
            /\ k \in 1..Len(all) \/ k = Len(all) + 1
        BY <3>6
      <4> QED
        BY <3>2, <3>3, <4>1
    <3>9. \A k \in 1..Len(more) :
             /\ turn'[more[k].turn].at \in {"saved", "told", "done"}
             /\ turn'[more[k].turn].at # "done" => more[k].role = "USER"
      BY <3>2, <3>4, <3>5, <3>6
    <3> QED
      BY <2>3, <3>1, <3>7, <3>8, <3>9 DEF OwnMessages
  <2> QED
    BY <2>2, <2>3
<1>10. ASSUME NEW u \in Turns, TurnRuns(u) PROVE
         /\ turn[u].thread \in started
         /\ turn[u].at # "asked" => messages'[turn[u].thread] # <<>>
         /\ Recalled(turn[u].history, messages'[turn[u].thread], u)
  <2> DEFINE own == turn[u].thread
  <2>1. TurnRemembers(u)
    BY DEF PromptsInv
  <2>2. own \in started /\ own \in Threads /\ Recalled(turn[u].history, messages[own], u)
        /\ (turn[u].at # "asked" => messages[own] # <<>>)
    BY <1>2, <1>10, <2>1 DEF TurnRemembers
  <2> HIDE DEF own
  <2>3. CASE own # thread
    <3>1. messages'[own] = messages[own]
      BY <1>1, <2>2, <2>3
    <3> QED
      BY <2>2, <3>1 DEF own
  <2>4. CASE own = thread
    <3>1. messages'[own] = Append(all, message) /\ messages'[own] # <<>>
      BY <1>1, <1>4, <2>4
    <3>2. Recalled(turn[u].history, all, u)
      BY <2>2, <2>4
    <3>3. Recalled(turn[u].history, Append(all, message), u)
      <4> HIDE DEF all
      <4> QED
        BY <1>1, <1>3, <3>2, RecalledKept
    <3> QED
      BY <2>2, <3>1, <3>3 DEF own
  <2> QED
    BY <2>3, <2>4
<1>11. ASSUME NEW u \in Turns PROVE TurnRemembers(u)'
  <2>1. CASE u # t
    <3>1. turn'[u] = turn[u]
      BY <1>5, <2>1
    <3> QED
      BY <1>5, <1>10, <3>1 DEF TurnRemembers, TurnRuns
  <2>2. CASE u = t /\ turn'[t].at = "done"
    BY <2>2 DEF TurnRemembers, TurnRuns
  <2>3. CASE u = t /\ turn'[t].at # "done"
    <3>1. turn'[t].thread = thread /\ turn'[t].history = turn[t].history /\ TurnRuns(t)
      BY <2>3 DEF Writes, TurnRuns, thread
    <3>2. Recalled(turn[t].history, messages'[thread], t)
      BY <1>10, <3>1 DEF thread
    <3>3. messages'[thread] # <<>>
      BY <1>1, <1>4
    <3> QED
      BY <1>1, <1>5, <2>3, <3>1, <3>2, <3>3 DEF TurnRemembers
  <2> QED
    BY <2>1, <2>2, <2>3
<1> QED
  BY <1>6, <1>7, <1>9, <1>11

\* The question is the newest of all, in the conversation touched last.
LEMMA SaveQuestionKeeps == ASSUME PromptsInv, NEW t \in Turns, SaveQuestion(t) PROVE PromptsInv'
<1> DEFINE thread == turn[t].thread
           message == Message(thread, "USER", t)
           all == messages[thread]
<1>1. turn \in [Turns -> TurnStates] /\ messages \in [Threads -> Seq(PromptMessages)] /\ turn[t].at = "asked"
  BY DEF PromptsInv, PromptsTypeOK, SaveQuestion
<1>2. turn' = [turn EXCEPT ![t].at = "saved"]
  BY DEF SaveQuestion
<1>3. /\ turn'[t].at = "saved" /\ turn'[t].thread = turn[t].thread /\ turn'[t].history = turn[t].history
      /\ turn'[t] \in TurnStates
  BY <1>1, <1>2 DEF TurnStates
<1>4. turn' \in [Turns -> TurnStates] /\ \A u \in Turns \ {t} : turn'[u] = turn[u]
  BY <1>1, <1>2, <1>3
<1>5. Writes(t, "USER")
  BY <1>1, <1>3, <1>4 DEF Writes, SaveQuestion
<1>6. /\ PromptsTypeOK' /\ \A any \in Threads : OwnMessages(any)'
      /\ \A any \in Threads : messages'[any] # <<>> => any \in started'
      /\ \A u \in Turns : TurnRemembers(u)'
  BY <1>5, WritingKeeps
<1>7. /\ thread \in Threads /\ thread \in started /\ message \in PromptMessages
      /\ message.thread = thread /\ messages'[thread] = Append(all, message)
  <2>1. Joins(t, "USER", thread, message)
    BY <1>5, MessageJoins
  <2> HIDE DEF thread, message, all
  <2>2. messages[thread] = all
    BY DEF all
  <2> QED
    BY <2>1, <2>2 DEF Joins
<1>8. newest' = message /\ recent' = thread /\ started' = started
      /\ summing' = summing /\ adviser' = adviser
  BY DEF SaveQuestion
<1>9. all \in Seq(PromptMessages)
  BY <1>1, <1>7
<1> HIDE DEF thread, message, all
<1>10. /\ Len(all) \in Nat /\ Len(Append(all, message)) = Len(all) + 1
       /\ Append(all, message)[Len(all) + 1] = message
  BY <1>7, <1>9, AppendProperties, LenProperties
<1>11. \E k \in 1..Len(messages'[thread]) : messages'[thread][k] = message
  <2>1. Len(all) + 1 \in 1..Len(Append(all, message))
    BY <1>10
  <2> QED
    BY <1>7, <1>10, <2>1
<1>12. NewestThere'
  BY <1>7, <1>8, <1>11 DEF NewestThere
<1>13. SummaryOfNewest' /\ WeakestTold'
  BY <1>8 DEF PromptsInv, SummaryOfNewest, WeakestTold
<1> QED
  BY <1>6, <1>12, <1>13 DEF PromptsInv

\* An answer joins a conversation that has its question already.
LEMMA SaveAnswerKeeps == ASSUME PromptsInv, NEW t \in Turns, SaveAnswer(t) PROVE PromptsInv'
<1> DEFINE thread == turn[t].thread
           message == Message(thread, "ASSISTANT", t)
           all == messages[thread]
<1>1. /\ turn \in [Turns -> TurnStates] /\ messages \in [Threads -> Seq(PromptMessages)]
      /\ turn[t].at \in {"saved", "told"}
  BY DEF PromptsInv, PromptsTypeOK, SaveAnswer
<1>2. turn' = [turn EXCEPT ![t] = Done]
  BY DEF SaveAnswer
<1>3. Done \in TurnStates /\ Done.at = "done"
  <2>1. <<>> \in Seq(PromptMessages)
    BY EmptySeq
  <2> QED
    BY <2>1 DEF Done, NoTurn, TurnStates
<1>4. /\ turn' \in [Turns -> TurnStates] /\ turn'[t].at = "done"
      /\ \A u \in Turns \ {t} : turn'[u] = turn[u]
  BY <1>1, <1>2, <1>3
<1>5. Writes(t, "ASSISTANT")
  BY <1>1, <1>4 DEF Writes, SaveAnswer
<1>6. /\ PromptsTypeOK' /\ \A any \in Threads : OwnMessages(any)'
      /\ \A any \in Threads : messages'[any] # <<>> => any \in started'
      /\ \A u \in Turns : TurnRemembers(u)'
  BY <1>5, WritingKeeps
<1>7. /\ thread \in Threads /\ message \in PromptMessages
      /\ messages'[thread] = Append(all, message)
      /\ \A any \in Threads \ {thread} : messages'[any] = messages[any]
  <2>1. Joins(t, "ASSISTANT", thread, message)
    BY <1>5, MessageJoins
  <2> HIDE DEF thread, message, all
  <2>2. messages[thread] = all
    BY DEF all
  <2> QED
    BY <2>1, <2>2 DEF Joins
<1>8. newest' = newest /\ recent' = recent /\ started' = started
      /\ summing' = summing /\ adviser' = adviser
  BY DEF SaveAnswer
<1>9. all \in Seq(PromptMessages) /\ all # <<>>
  BY <1>1, <1>7 DEF PromptsInv, TurnRemembers, TurnRuns
<1>10. started \in SUBSET Threads /\ NewestThere
  BY DEF PromptsInv, PromptsTypeOK
<1> HIDE DEF thread, message
<1>11. CASE recent # thread
  <2>1. started # {} => messages'[recent] = messages[recent]
    BY <1>7, <1>10, <1>11 DEF NewestThere
  <2>2. NewestThere'
    BY <1>8, <1>10, <2>1 DEF NewestThere
  <2>3. SummaryOfNewest' /\ WeakestTold'
    BY <1>8 DEF PromptsInv, SummaryOfNewest, WeakestTold
  <2> QED
    BY <1>6, <2>2, <2>3 DEF PromptsInv
<1>12. CASE recent = thread
  <2>1. /\ Len(all) \in Nat /\ Len(Append(all, message)) = Len(all) + 1
        /\ \A k \in 1..Len(all) : Append(all, message)[k] = all[k]
    <3> HIDE DEF all
    <3> QED
      BY <1>7, <1>9, AppendProperties, LenProperties
  <2>2. ASSUME started # {}
        PROVE  /\ newest.thread = thread
               /\ \E k \in 1..Len(messages'[thread]) : messages'[thread][k] = newest
    <3>1. newest.thread = thread /\ \E k \in 1..Len(all) : all[k] = newest
      BY <1>9, <1>10, <1>12, <2>2 DEF NewestThere
    <3> HIDE DEF all
    <3>2. PICK k \in 1..Len(all) : all[k] = newest
      BY <3>1
    <3>3. k \in 1..Len(Append(all, message)) /\ Append(all, message)[k] = newest
      BY <2>1, <3>2
    <3> QED
      BY <1>7, <3>1, <3>3
  <2>3. NewestThere'
    BY <1>8, <1>10, <1>12, <2>2 DEF NewestThere
  <2>4. SummaryOfNewest' /\ WeakestTold'
    BY <1>8 DEF PromptsInv, SummaryOfNewest, WeakestTold
  <2> QED
    BY <1>6, <2>3, <2>4 DEF PromptsInv
<1> QED
  BY <1>11, <1>12

\* Composing the prompt, and failing, write nothing.
LEMMA TurnPasses ==
    ASSUME PromptsInv, NEW t \in Turns, ComposePrompt(t) \/ TurnFails(t) PROVE PromptsInv'
<1>1. /\ turn \in [Turns -> TurnStates] /\ messages \in [Threads -> Seq(PromptMessages)]
      /\ started \in SUBSET Threads
  BY DEF PromptsInv, PromptsTypeOK
<1>2. /\ messages' = messages /\ started' = started /\ recent' = recent /\ newest' = newest
      /\ summing' = summing /\ adviser' = adviser
  BY DEF ComposePrompt, TurnFails
<1>3. Done \in TurnStates /\ Done.at = "done"
  <2>1. <<>> \in Seq(PromptMessages)
    BY EmptySeq
  <2> QED
    BY <2>1 DEF Done, NoTurn, TurnStates
<1>4. /\ turn' \in [Turns -> TurnStates]
      /\ \A u \in Turns \ {t} : turn'[u] = turn[u]
      /\ \/ /\ turn[t].at = "saved" /\ turn'[t].at = "told"
            /\ turn'[t].thread = turn[t].thread /\ turn'[t].history = turn[t].history
         \/ turn'[t].at = "done"
  <2>1. CASE ComposePrompt(t)
    <3>1. turn' = [turn EXCEPT ![t].at = "told"] /\ turn[t].at = "saved"
      BY <2>1 DEF ComposePrompt
    <3>2. /\ turn'[t].at = "told" /\ turn'[t].thread = turn[t].thread /\ turn'[t].history = turn[t].history
          /\ turn'[t] \in TurnStates
      BY <1>1, <3>1 DEF TurnStates
    <3> QED
      BY <1>1, <3>1, <3>2
  <2>2. CASE TurnFails(t)
    <3>1. turn' = [turn EXCEPT ![t] = Done]
      BY <2>2 DEF TurnFails
    <3> QED
      BY <1>1, <1>3, <3>1
  <2> QED
    BY <2>1, <2>2
<1>5. ASSUME NEW any \in Threads PROVE OwnMessages(any)'
  <2>1. OwnMessages(any)
    BY DEF PromptsInv
  <2>2. ASSUME NEW k \in 1..Len(messages[any])
        PROVE  /\ turn'[messages[any][k].turn].at \in {"saved", "told", "done"}
               /\ turn'[messages[any][k].turn].at # "done" => messages[any][k].role = "USER"
    <3>1. messages[any] \in Seq(PromptMessages)
      BY <1>1
    <3>2. messages[any][k] \in PromptMessages
      BY <3>1, ElementOfSeq
    <3>3. messages[any][k].turn \in Turns
      BY <3>2 DEF PromptMessages
    <3>4. CASE messages[any][k].turn # t
      <4>1. turn'[messages[any][k].turn] = turn[messages[any][k].turn]
        BY <1>4, <3>3, <3>4
      <4> QED
        BY <2>1, <4>1 DEF OwnMessages
    <3>5. CASE messages[any][k].turn = t
      <4>1. /\ turn[t].at \in {"saved", "told", "done"}
            /\ turn[t].at # "done" => messages[any][k].role = "USER"
        BY <2>1, <3>5 DEF OwnMessages
      <4> QED
        BY <1>4, <3>5, <4>1
    <3> QED
      BY <3>4, <3>5
  <2> QED
    BY <1>2, <2>1, <2>2 DEF OwnMessages
<1>6. ASSUME NEW u \in Turns PROVE TurnRemembers(u)'
  <2>1. TurnRemembers(u)
    BY DEF PromptsInv
  <2>2. CASE u # t
    <3>1. turn'[u] = turn[u]
      BY <1>4, <2>2
    <3> QED
      BY <1>2, <2>1, <3>1 DEF TurnRemembers, TurnRuns
  <2>3. CASE u = t /\ turn'[t].at = "done"
    BY <2>3 DEF TurnRemembers, TurnRuns
  <2>4. CASE u = t /\ turn'[t].at # "done"
    BY <1>2, <1>4, <2>1, <2>4 DEF TurnRemembers, TurnRuns
  <2> QED
    BY <2>2, <2>3, <2>4
<1>7. PromptsTypeOK'
  BY <1>1, <1>2, <1>4 DEF PromptsTypeOK
<1>8. NewestThere'
  BY <1>2 DEF PromptsInv, NewestThere
<1>9. SummaryOfNewest' /\ WeakestTold'
  BY <1>2 DEF PromptsInv, SummaryOfNewest, WeakestTold
<1> QED
  BY <1>2, <1>5, <1>6, <1>7, <1>8, <1>9 DEF PromptsInv

\* What the note-taker and the adviser are told leaves the conversations as they are.
LEMMA TurnsUntouched ==
    ASSUME PromptsInv, UNCHANGED <<messages, started, recent, newest, turn>>,
           SummaryOfNewest', WeakestTold'
    PROVE  PromptsInv'
<1>1. PromptsTypeOK'
  BY DEF PromptsInv, PromptsTypeOK
<1>2. ASSUME NEW any \in Threads PROVE OwnMessages(any)'
  BY DEF PromptsInv, OwnMessages
<1>3. ASSUME NEW u \in Turns PROVE TurnRemembers(u)'
  BY DEF PromptsInv, TurnRemembers, TurnRuns
<1>4. NewestThere'
  BY DEF PromptsInv, NewestThere
<1>5. \A any \in Threads : messages'[any] # <<>> => any \in started'
  BY DEF PromptsInv
<1> QED
  BY <1>1, <1>2, <1>3, <1>4, <1>5 DEF PromptsInv

\* What is summed up are the last messages of the conversation that has the newest question.
LEMMA SummaryReads ==
    ASSUME PromptAssumption, PromptsInv, ReadConversation PROVE SummaryOfNewest'
<1> DEFINE all == messages[recent]
           told == LatestMessages(recent, SummaryTurns)
<1>1. /\ summing' = [of |-> told, newest |-> newest]
      /\ started # {} /\ all # <<>>
  BY DEF ReadConversation
<1>2. recent \in Threads /\ all \in Seq(PromptMessages)
  BY <1>1 DEF PromptsInv, PromptsTypeOK, NewestThere
<1>3. newest.thread = recent /\ \E k \in 1..Len(all) : all[k] = newest
  BY <1>1 DEF PromptsInv, NewestThere
<1>4. \A k \in 1..Len(all) : all[k].thread = recent
  BY <1>2 DEF PromptsInv, OwnMessages
<1>5. SummaryTurns \in Nat \ {0}
  BY DEF PromptAssumption
<1>6. AreLast(told, all, SummaryTurns)
  <2> HIDE DEF all, told
  <2>1. told = LatestMessages(recent, SummaryTurns) /\ messages[recent] = all
    BY DEF told, all
  <2> QED
    BY <1>2, <1>5, <2>1, LatestAre
<1>7. Len(all) \in Nat
  <2> HIDE DEF all
  <2> QED
    BY <1>2, LenProperties
<1> HIDE DEF told, all
<1>8. PICK d \in 0..Len(all) :
        /\ Len(told) = Len(all) - d
        /\ \A j \in 1..(Len(all) - d) : told[j] = all[d + j]
        /\ d = 0 \/ Len(told) = SummaryTurns
  BY <1>6 DEF AreLast
<1>9. DOMAIN told = 1..(Len(all) - d)
  <2>1. told \in Seq(PromptMessages)
    BY <1>6 DEF AreLast
  <2> QED
    BY <1>8, <2>1, LenProperties
<1>10. ASSUME NEW k \in DOMAIN told PROVE told[k].thread = newest.thread
  <2>1. d + k \in 1..Len(all)
    BY <1>7, <1>9
  <2> QED
    BY <1>3, <1>4, <1>8, <1>9, <2>1
<1>11. newest \in ToSet(told) \/ Len(told) = SummaryTurns
  <2> SUFFICES ASSUME d = 0 PROVE newest \in ToSet(told)
    BY <1>8
  <2>1. PICK k \in 1..Len(all) : all[k] = newest
    BY <1>3
  <2>2. k \in 1..(Len(all) - d) /\ d + k = k
    BY <1>7
  <2>3. told[k] = newest
    BY <1>8, <2>1, <2>2
  <2> QED
    BY <1>9, <2>2, <2>3 DEF ToSet
<1>12. summing'.of = told /\ summing'.newest = newest
  BY <1>1
<1> QED
  BY <1>10, <1>11, <1>12 DEF SummaryOfNewest

\* Every step keeps the invariant.
LEMMA PromptsMove ==
    ASSUME PromptAssumption, PromptsInv, [PromptsNext]_promptVars PROVE PromptsInv'
<1>1. ASSUME NEW t \in Turns, ReadHistory(t) PROVE PromptsInv'
  BY <1>1, ReadHistoryKeeps
<1>2. ASSUME NEW t \in Turns, SaveQuestion(t) PROVE PromptsInv'
  BY <1>2, SaveQuestionKeeps
<1>3. ASSUME NEW t \in Turns, ComposePrompt(t) \/ TurnFails(t) PROVE PromptsInv'
  BY <1>3, TurnPasses
<1>4. ASSUME NEW t \in Turns, SaveAnswer(t) PROVE PromptsInv'
  BY <1>4, SaveAnswerKeeps
<1>5. CASE ReadConversation
  <2>1. UNCHANGED <<messages, started, recent, newest, turn, adviser>>
    BY <1>5 DEF ReadConversation
  <2>2. WeakestTold'
    BY <2>1 DEF PromptsInv, WeakestTold
  <2> QED
    BY <1>5, <2>1, <2>2, SummaryReads, TurnsUntouched
<1>6. CASE SummaryEnds
  <2>1. UNCHANGED <<messages, started, recent, newest, turn, adviser>> /\ summing' = NoSummary
    BY <1>6 DEF SummaryEnds
  <2>2. WeakestTold' /\ SummaryOfNewest'
    BY <2>1 DEF PromptsInv, WeakestTold, SummaryOfNewest
  <2> QED
    BY <2>1, <2>2, TurnsUntouched
<1>7. CASE AskAdviser
  <2>1. UNCHANGED <<messages, started, recent, newest, turn, summing>>
    BY <1>7 DEF AskAdviser
  <2>2. SummaryOfNewest' /\ WeakestTold
    BY <2>1 DEF PromptsInv, SummaryOfNewest
  <2>3. WeakestTold'
    BY <1>7, <2>2, AdvisedWeakest
  <2> QED
    BY <2>1, <2>2, <2>3, TurnsUntouched
<1>8. CASE UNCHANGED promptVars
  <2>1. UNCHANGED <<messages, started, recent, newest, turn, summing, adviser>>
    BY <1>8 DEF promptVars
  <2>2. SummaryOfNewest' /\ WeakestTold'
    BY <2>1 DEF PromptsInv, SummaryOfNewest, WeakestTold
  <2> QED
    BY <2>1, <2>2, TurnsUntouched
<1> QED
  BY <1>1, <1>2, <1>3, <1>4, <1>5, <1>6, <1>7, <1>8 DEF PromptsNext

\* What the invariant says of what is told.
LEMMA PromptsMean == PromptsInv => ToldTrue
<1> SUFFICES ASSUME PromptsInv PROVE HistoryTold
  BY DEF PromptsInv, ToldTrue
<1> SUFFICES ASSUME NEW t \in Turns, turn[t].at \in {"asked", "saved", "told"}
             PROVE  LET all == messages[turn[t].thread]
                        told == turn[t].history
                        Place(message) == CHOOSE k \in DOMAIN all : all[k] = message
                    IN
                    /\ \A message \in ToSet(told) : message.turn # t /\ message \in ToSet(all)
                    /\ \A k \in 1..(Len(told) - 1) : Place(told[k + 1]) = Place(told[k]) + 1
                    /\ \A k \in DOMAIN all :
                          all[k].turn = t /\ told # <<>> => Place(Last(told)) < k
  BY Zenon DEF HistoryTold
<1> DEFINE all == messages[turn[t].thread]
           told == turn[t].history
           Place(message) == CHOOSE k \in DOMAIN all : all[k] = message
<1>1. /\ turn[t].thread \in Threads /\ Recalled(told, all, t) /\ OwnMessages(turn[t].thread)
      /\ all \in Seq(PromptMessages) /\ told \in Seq(PromptMessages)
  <2>1. TurnRemembers(t) /\ TurnRuns(t) /\ turn[t] \in TurnStates
    BY DEF PromptsInv, PromptsTypeOK, TurnRuns
  <2>2. turn[t].thread \in Threads /\ Recalled(told, all, t)
    BY <2>1 DEF TurnRemembers, PromptsInv, PromptsTypeOK
  <2> QED
    BY <2>1, <2>2 DEF PromptsInv, PromptsTypeOK, TurnStates
<1>2. \A j, k \in 1..Len(all) : all[j] = all[k] => j = k
  BY <1>1 DEF OwnMessages
<1>3. DOMAIN all = 1..Len(all) /\ Len(all) \in Nat /\ DOMAIN told = 1..Len(told)
  BY <1>1, LenProperties
<1>4. ASSUME NEW k \in 1..Len(all) PROVE Place(all[k]) = k
  BY <1>2, <1>3
<1> HIDE DEF all, told, Place
<1>5. PICK n \in 0..Len(all) : \E d \in 0..n :
        /\ Len(told) = n - d
        /\ \A j \in 1..(n - d) : told[j] = all[d + j]
        /\ \A k \in 1..n : all[k].turn # t
  BY <1>1 DEF Recalled
<1>6. PICK d \in 0..n :
        /\ Len(told) = n - d
        /\ \A j \in 1..(n - d) : told[j] = all[d + j]
        /\ \A k \in 1..n : all[k].turn # t
  BY <1>5
<1>7. ASSUME NEW j \in 1..Len(told)
      PROVE  /\ d + j \in 1..n /\ d + j \in 1..Len(all) /\ told[j] = all[d + j]
             /\ Place(told[j]) = d + j
  <2>1. j \in 1..(n - d) /\ d + j \in 1..n /\ d + j \in 1..Len(all)
    BY <1>3, <1>6
  <2>2. told[j] = all[d + j]
    BY <1>6, <2>1
  <2> QED
    BY <1>4, <2>1, <2>2
<1>8. ASSUME NEW message \in ToSet(told) PROVE message.turn # t /\ message \in ToSet(all)
  <2>1. PICK j \in 1..Len(told) : message = told[j]
    BY <1>3 DEF ToSet
  <2>2. d + j \in 1..n /\ d + j \in 1..Len(all) /\ message = all[d + j]
    BY <1>7, <2>1
  <2> QED
    BY <1>3, <1>6, <2>2 DEF ToSet
<1>9. ASSUME NEW k \in 1..(Len(told) - 1)
      PROVE  Place(told[k + 1])
             = Place(told[k]) + 1
  <2>1. k \in 1..Len(told) /\ k + 1 \in 1..Len(told)
    BY <1>6
  <2>2. /\ Place(told[k]) = d + k
        /\ Place(told[k + 1]) = d + (k + 1)
    BY <1>7, <2>1
  <2>3. d + (k + 1) = (d + k) + 1
    OBVIOUS
  <2> QED
    BY <2>2, <2>3
<1>10. ASSUME NEW k \in DOMAIN all, all[k].turn = t, told # <<>>
       PROVE  Place(Last(told)) < k
  <2>1. Len(told) \in 1..Len(told)
    <3>1. Len(told) \in Nat \ {0}
      BY <1>1, <1>10, EmptySeq
    <3> QED
      BY <3>1
  <2>2. Place(told[Len(told)]) = d + Len(told)
    BY <1>7, <2>1
  <2>3. d + Len(told) = n
    BY <1>6
  <2>4. Last(told) = told[Len(told)]
    BY DEF Last
  <2>5. k \in 1..Len(all) /\ ~(k \in 1..n)
    BY <1>3, <1>6, <1>10
  <2>6. n < k
    BY <1>3, <2>5
  <2> QED
    BY <2>2, <2>3, <2>4, <2>6
<1> QED
  BY <1>8, <1>9, <1>10 DEF all, told, Place
=============================================================================
