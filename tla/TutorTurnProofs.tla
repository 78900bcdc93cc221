--------------------------- MODULE TutorTurnProofs ---------------------------
(***************************************************************************)
(* The safety properties of a tutor turn, for any pages, turns, pieces and   *)
(* faults.  The inductive invariant has three layers, each proved with the   *)
(* help of the ones before it:                                               *)
(*                                                                         *)
(*   TypeInv     the types, but for the bound on the pieces a page shows;    *)
(*   ServerInv   what the server has stored of a turn at each of its steps,  *)
(*               and which AiRequest row it has left;                        *)
(*   PageInv     how the pieces a page shows and the events on their way to  *)
(*               it add up to the server's turn.                             *)
(*                                                                         *)
(* The page's bound is not a matter of types: it holds because every piece   *)
(* on the page or on its way was counted by the server first.                *)
(***************************************************************************)
EXTENDS TutorTurn, FiniteSetTheorems, FunctionTheorems, TLAPS

-----------------------------------------------------------------------------
(* Types *)

\* The page, before it is known how many pieces it can show.
LooseChat == [turn : Turns \cup {None}, listening : BOOLEAN, thread : Turns \cup {None},
              retryable : Turns \cup {None}, refreshing : BOOLEAN,
              draft : [of : Turns \cup {None}, pieces : Nat,
                       status : {"none", "streaming", "refused", "done"}]]

TypeInv ==
    /\ thread \in [Turns -> Seq(Message)]
    /\ turn \in [Turns -> Turn]
    /\ wire \in [Turns -> Wire]
    /\ aiRequest \in [Turns -> Seq({"SUCCESS", "FAILED"})]
    /\ chat \in [Chats -> LooseChat]
    /\ hit \in SUBSET Turns
    /\ \A t \in Turns : turn[t].at # "unused" => turn[t].question \in Turns
    /\ \A t \in Turns : turn[t].saving => turn[t].at # "unused"
    /\ \A c \in Chats : chat[c].listening => chat[c].turn # None

LEMMA NoneIsNoTurn == None \notin Turns
BY DEF None, Turns

LEMMA InitTypeInv == Init => TypeInv
<1>1. SUFFICES ASSUME Init PROVE TypeInv OBVIOUS
<1>2. \A t \in Turns : turn[t] = Unused BY <1>1 DEF Init
<1>3. Unused \in Turn BY TutorAssumption DEF Unused, Turn, Step, Pieces
<1>4. thread \in [Turns -> Seq(Message)] /\ aiRequest \in [Turns -> Seq({"SUCCESS", "FAILED"})]
  BY <1>1 DEF Init
<1>5. turn \in [Turns -> Turn] BY <1>1, <1>3 DEF Init
<1>6. wire \in [Turns -> Wire] BY <1>1 DEF Init, Wire
<1>7. chat \in [Chats -> LooseChat] BY <1>1 DEF Init, LooseChat, NoDraft
<1>8. \A t \in Turns : turn[t].at = "unused" /\ ~turn[t].saving BY <1>2 DEF Unused
<1>9. \A c \in Chats : ~chat[c].listening BY <1>1 DEF Init
<1> QED BY <1>1, <1>4, <1>5, <1>6, <1>7, <1>8, <1>9 DEF Init, TypeInv

-----------------------------------------------------------------------------
(* What the assignments of the actions amount to, field by field *)

Others(t) == turn' \in [Turns -> Turn] /\ \A s \in Turns \ {t} : turn'[s] = turn[s]

Same(t) ==
    /\ turn'[t].question = turn[t].question /\ turn'[t].thread = turn[t].thread
    /\ turn'[t].saving = turn[t].saving /\ turn'[t].pieces = turn[t].pieces
    /\ turn'[t].called = turn[t].called

LEMMA TurnChanges ==
    ASSUME TypeInv, NEW t \in Turns, NEW b \in Turn, turn' = [turn EXCEPT ![t] = b]
    PROVE  Others(t) /\ turn'[t] = b
BY DEF TypeInv, Others

LEMMA GoFacts ==
    ASSUME TypeInv, NEW t \in Turns, NEW a \in Step, Go(t, a)
    PROVE  Others(t) /\ Same(t) /\ turn'[t].at = a
<1>1. turn[t] \in Turn BY DEF TypeInv
<1>2. PICK b : b = [turn[t] EXCEPT !.at = a] OBVIOUS
<1>3. /\ b \in Turn /\ b.at = a
      /\ b.question = turn[t].question /\ b.thread = turn[t].thread
      /\ b.saving = turn[t].saving /\ b.pieces = turn[t].pieces
      /\ b.called = turn[t].called
  BY <1>1, <1>2 DEF Turn
<1>4. turn' = [turn EXCEPT ![t] = b] BY <1>2 DEF Go
<1>5. Others(t) /\ turn'[t] = b BY <1>3, <1>4, TurnChanges
<1> QED BY <1>3, <1>5 DEF Same

LEMMA RetrieveFacts ==
    ASSUME TypeInv, NEW t \in Turns, Retrieve(t)
    PROVE  Others(t) /\ Same(t) /\ turn[t].at = "gather" /\ turn'[t].at \in {"gather", "throw"}
<1>1. turn[t] \in Turn /\ turn[t].at = "gather" BY DEF TypeInv, Retrieve, At
<1>2. ASSUME NEW e \in {"none", "some"}, turn' = [turn EXCEPT ![t].evidence = e]
      PROVE  Others(t) /\ Same(t) /\ turn'[t].at = "gather"
  <2>1. PICK b : b = [turn[t] EXCEPT !.evidence = e] OBVIOUS
  <2>2. /\ b \in Turn /\ b.at = "gather"
        /\ b.question = turn[t].question /\ b.thread = turn[t].thread
        /\ b.saving = turn[t].saving /\ b.pieces = turn[t].pieces
        /\ b.called = turn[t].called
    BY <1>1, <2>1 DEF Turn
  <2>3. turn' = [turn EXCEPT ![t] = b] BY <1>2, <2>1
  <2>4. Others(t) /\ turn'[t] = b BY <2>2, <2>3, TurnChanges
  <2> QED BY <2>2, <2>4 DEF Same
<1>3. CASE Go(t, "throw") BY <1>1, <1>3, GoFacts DEF Step
<1> QED BY <1>1, <1>2, <1>3 DEF Retrieve

LEMMA FindFacts ==
    ASSUME TypeInv, NEW t \in Turns, FindConversation(t)
    PROVE  /\ Others(t) /\ turn[t].at = "open" /\ turn'[t].at = "gather"
           /\ turn'[t].question = turn[t].question /\ turn'[t].thread \in Turns
           /\ turn'[t].saving /\ turn'[t].pieces = turn[t].pieces
           /\ turn'[t].called = turn[t].called
<1>1. turn[t] \in Turn /\ turn[t].at = "open" BY DEF TypeInv, FindConversation, At
<1>2. PICK n : n = IF turn[t].thread = None THEN t ELSE turn[t].thread OBVIOUS
<1>3. n \in Turns BY <1>1, <1>2 DEF Turn
<1>4. PICK b : b = [turn[t] EXCEPT !.at = "gather", !.saving = TRUE, !.thread = n] OBVIOUS
<1>5. /\ b \in Turn /\ b.at = "gather" /\ b.saving
      /\ b.question = turn[t].question /\ b.thread = n
      /\ b.pieces = turn[t].pieces /\ b.called = turn[t].called
  BY <1>1, <1>3, <1>4 DEF Turn, Step
<1>6. turn' = [turn EXCEPT ![t] = b] BY <1>1, <1>2, <1>4 DEF FindConversation, TypeInv, Turn
<1>7. Others(t) /\ turn'[t] = b BY <1>5, <1>6, TurnChanges
<1> QED BY <1>1, <1>3, <1>5, <1>7

LEMMA SaveFacts ==
    ASSUME TypeInv, NEW t \in Turns, turn' = [turn EXCEPT ![t].saving = FALSE]
    PROVE  /\ Others(t) /\ turn'[t].at = turn[t].at
           /\ turn'[t].question = turn[t].question /\ turn'[t].thread = turn[t].thread
           /\ ~turn'[t].saving /\ turn'[t].pieces = turn[t].pieces
           /\ turn'[t].called = turn[t].called
<1>1. turn[t] \in Turn BY DEF TypeInv
<1>2. PICK b : b = [turn[t] EXCEPT !.saving = FALSE] OBVIOUS
<1>3. /\ b \in Turn /\ b.at = turn[t].at /\ ~b.saving
      /\ b.question = turn[t].question /\ b.thread = turn[t].thread
      /\ b.pieces = turn[t].pieces /\ b.called = turn[t].called
  BY <1>1, <1>2 DEF Turn
<1>4. turn' = [turn EXCEPT ![t] = b] BY <1>2
<1>5. Others(t) /\ turn'[t] = b BY <1>3, <1>4, TurnChanges
<1> QED BY <1>3, <1>5

LEMMA CallFacts ==
    ASSUME TypeInv, NEW t \in Turns,
           turn' = [turn EXCEPT ![t].at = "stream", ![t].called = TRUE]
    PROVE  /\ Others(t) /\ turn'[t].at = "stream"
           /\ turn'[t].question = turn[t].question /\ turn'[t].thread = turn[t].thread
           /\ turn'[t].saving = turn[t].saving /\ turn'[t].pieces = turn[t].pieces
           /\ turn'[t].called
<1>1. turn[t] \in Turn BY DEF TypeInv
<1>2. PICK b : b = [turn[t] EXCEPT !.at = "stream", !.called = TRUE] OBVIOUS
<1>3. /\ b \in Turn /\ b.at = "stream" /\ b.called
      /\ b.question = turn[t].question /\ b.thread = turn[t].thread
      /\ b.pieces = turn[t].pieces /\ b.saving = turn[t].saving
  BY <1>1, <1>2 DEF Turn, Step
<1>4. turn' = [turn EXCEPT ![t] = b] BY <1>1, <1>2 DEF TypeInv
<1>5. Others(t) /\ turn'[t] = b BY <1>3, <1>4, TurnChanges
<1> QED BY <1>3, <1>5

LEMMA PieceFacts ==
    ASSUME TypeInv, NEW t \in Turns, turn[t].pieces < MaxPieces,
           turn' = [turn EXCEPT ![t].pieces = @ + 1]
    PROVE  /\ Others(t) /\ turn'[t].at = turn[t].at
           /\ turn'[t].question = turn[t].question /\ turn'[t].thread = turn[t].thread
           /\ turn'[t].saving = turn[t].saving /\ turn'[t].pieces = turn[t].pieces + 1
           /\ turn'[t].called = turn[t].called
<1>1. turn[t] \in Turn BY DEF TypeInv
<1>2. PICK n : n = turn[t].pieces + 1 OBVIOUS
<1>3. n \in Pieces BY <1>1, <1>2, TutorAssumption DEF Turn, Pieces
<1>4. PICK b : b = [turn[t] EXCEPT !.pieces = n] OBVIOUS
<1>5. /\ b \in Turn /\ b.at = turn[t].at /\ b.pieces = n
      /\ b.question = turn[t].question /\ b.thread = turn[t].thread
      /\ b.saving = turn[t].saving /\ b.called = turn[t].called
  BY <1>1, <1>3, <1>4 DEF Turn
<1>6. turn' = [turn EXCEPT ![t] = b] BY <1>2, <1>4
<1>7. Others(t) /\ turn'[t] = b BY <1>5, <1>6, TurnChanges
<1> QED BY <1>2, <1>5, <1>7

LEMMA SaveFailsFacts ==
    ASSUME TypeInv, NEW t \in Turns,
           turn' = [turn EXCEPT ![t].saving = FALSE, ![t].at = IF @ = "gather" THEN "throw" ELSE @]
    PROVE  /\ Others(t) /\ turn'[t].at = IF turn[t].at = "gather" THEN "throw" ELSE turn[t].at
           /\ turn'[t].question = turn[t].question /\ turn'[t].thread = turn[t].thread
           /\ ~turn'[t].saving /\ turn'[t].pieces = turn[t].pieces
           /\ turn'[t].called = turn[t].called
<1>1. turn[t] \in Turn BY DEF TypeInv
<1>2. PICK a : a = IF turn[t].at = "gather" THEN "throw" ELSE turn[t].at OBVIOUS
<1>3. a \in Step BY <1>1, <1>2 DEF Turn, Step
<1>4. PICK b : b = [turn[t] EXCEPT !.saving = FALSE, !.at = a] OBVIOUS
<1>5. /\ b \in Turn /\ b.at = a /\ ~b.saving
      /\ b.question = turn[t].question /\ b.thread = turn[t].thread
      /\ b.pieces = turn[t].pieces /\ b.called = turn[t].called
  BY <1>1, <1>3, <1>4 DEF Turn
<1>6. turn' = [turn EXCEPT ![t] = b] BY <1>1, <1>2, <1>4 DEF TypeInv, Turn
<1>7. Others(t) /\ turn'[t] = b BY <1>5, <1>6, TurnChanges
<1> QED BY <1>2, <1>5, <1>7

LEMMA DiesFacts ==
    ASSUME TypeInv, NEW t \in Turns,
           turn' = [turn EXCEPT ![t].at = "over", ![t].saving = FALSE]
    PROVE  /\ Others(t) /\ turn'[t].at = "over"
           /\ turn'[t].question = turn[t].question /\ turn'[t].thread = turn[t].thread
           /\ ~turn'[t].saving /\ turn'[t].pieces = turn[t].pieces
           /\ turn'[t].called = turn[t].called
<1>1. turn[t] \in Turn BY DEF TypeInv
<1>2. PICK b : b = [turn[t] EXCEPT !.at = "over", !.saving = FALSE] OBVIOUS
<1>3. /\ b \in Turn /\ b.at = "over" /\ ~b.saving
      /\ b.question = turn[t].question /\ b.thread = turn[t].thread
      /\ b.pieces = turn[t].pieces /\ b.called = turn[t].called
  BY <1>1, <1>2 DEF Turn, Step
<1>4. turn' = [turn EXCEPT ![t] = b] BY <1>1, <1>2 DEF TypeInv
<1>5. Others(t) /\ turn'[t] = b BY <1>3, <1>4, TurnChanges
<1> QED BY <1>3, <1>5

LEMMA SendFacts ==
    ASSUME TypeInv, NEW c \in Chats, NEW t \in Turns, NEW q \in Turns, Send(c, t, q)
    PROVE  /\ Others(t) /\ turn[t].at = "unused" /\ turn'[t].at = "preflight"
           /\ turn'[t].question = q /\ ~turn'[t].saving /\ turn'[t].pieces = 0
           /\ ~turn'[t].called
<1>1. turn[t].at = "unused" BY DEF Send
<1>2. chat[c].thread \in Turns \cup {None} BY DEF TypeInv, LooseChat
<1>3. PICK b : b = [Unused EXCEPT !.at = "preflight", !.question = q, !.thread = chat[c].thread]
  OBVIOUS
<1>4. /\ b \in Turn /\ b.at = "preflight" /\ ~b.saving
      /\ b.question = q /\ b.pieces = 0 /\ ~b.called
  <2>1. PICK u : u = Unused OBVIOUS
  <2>2. /\ u \in Turn /\ ~u.saving /\ u.pieces = 0 /\ ~u.called
    BY <2>1, TutorAssumption DEF Turn, Step, Unused, Pieces
  <2>3. b = [u EXCEPT !.at = "preflight", !.question = q, !.thread = chat[c].thread]
    BY <1>3, <2>1
  <2> QED BY <1>2, <2>2, <2>3 DEF Turn, Step
<1>5. turn' = [turn EXCEPT ![t] = b] BY <1>3 DEF Send
<1>6. Others(t) /\ turn'[t] = b BY <1>4, <1>5, TurnChanges
<1> QED BY <1>1, <1>4, <1>6

\* The same for connections.
OtherWires(t) == wire' \in [Turns -> Wire] /\ \A s \in Turns \ {t} : wire'[s] = wire[s]

LEMMA WireChanges ==
    ASSUME TypeInv, NEW t \in Turns, NEW w \in Wire, wire' = [wire EXCEPT ![t] = w]
    PROVE  OtherWires(t) /\ wire'[t] = w
BY DEF TypeInv, OtherWires

LEMMA PutFacts ==
    ASSUME TypeInv, NEW t \in Turns, NEW events \in Seq(Event), Put(t, events)
    PROVE  /\ OtherWires(t) /\ wire'[t].up = wire[t].up
           /\ wire'[t].events = IF wire[t].up THEN wire[t].events \o events ELSE wire[t].events
<1>1. wire[t] \in Wire BY DEF TypeInv
<1>2. PICK e : e = IF wire[t].up THEN wire[t].events \o events ELSE wire[t].events OBVIOUS
<1>3. e \in Seq(Event) BY <1>1, <1>2 DEF Wire
<1>4. PICK w : w = [wire[t] EXCEPT !.events = e] OBVIOUS
<1>5. w \in Wire /\ w.up = wire[t].up /\ w.events = e BY <1>1, <1>3, <1>4 DEF Wire
<1>6. wire' = [wire EXCEPT ![t] = w] BY <1>2, <1>4 DEF Put
<1>7. OtherWires(t) /\ wire'[t] = w BY <1>5, <1>6, WireChanges
<1> QED BY <1>2, <1>5, <1>7

LEMMA DownFacts ==
    ASSUME TypeInv, NEW t \in Turns, wire' = [wire EXCEPT ![t].up = FALSE]
    PROVE  OtherWires(t) /\ ~wire'[t].up /\ wire'[t].events = wire[t].events
<1>1. wire[t] \in Wire BY DEF TypeInv
<1>2. PICK w : w = [wire[t] EXCEPT !.up = FALSE] OBVIOUS
<1>3. w \in Wire /\ ~w.up /\ w.events = wire[t].events BY <1>1, <1>2 DEF Wire
<1>4. wire' = [wire EXCEPT ![t] = w] BY <1>2
<1>5. OtherWires(t) /\ wire'[t] = w BY <1>3, <1>4, WireChanges
<1> QED BY <1>3, <1>5

LEMMA UpFacts ==
    ASSUME TypeInv, NEW t \in Turns, wire' = [wire EXCEPT ![t].up = TRUE]
    PROVE  OtherWires(t) /\ wire'[t].up /\ wire'[t].events = wire[t].events
<1>1. wire[t] \in Wire BY DEF TypeInv
<1>2. PICK w : w = [wire[t] EXCEPT !.up = TRUE] OBVIOUS
<1>3. w \in Wire /\ w.up /\ w.events = wire[t].events BY <1>1, <1>2 DEF Wire
<1>4. wire' = [wire EXCEPT ![t] = w] BY <1>2
<1>5. OtherWires(t) /\ wire'[t] = w BY <1>3, <1>4, WireChanges
<1> QED BY <1>3, <1>5

LEMMA EmptiedFacts ==
    ASSUME TypeInv, NEW t \in Turns, wire' = [wire EXCEPT ![t].events = <<>>]
    PROVE  OtherWires(t) /\ wire'[t].up = wire[t].up /\ wire'[t].events = <<>>
<1>1. wire[t] \in Wire BY DEF TypeInv
<1>2. PICK w : w = [wire[t] EXCEPT !.events = <<>>] OBVIOUS
<1>3. w \in Wire /\ w.up = wire[t].up /\ w.events = <<>>
  <2>1. PICK e : e = <<>> OBVIOUS
  <2>2. e \in Seq(Event) BY <2>1
  <2>3. w = [wire[t] EXCEPT !.events = e] BY <1>2, <2>1
  <2>4. w \in Wire /\ w.up = wire[t].up /\ w.events = e BY <1>1, <2>2, <2>3 DEF Wire
  <2> QED BY <2>1, <2>4
<1>4. wire' = [wire EXCEPT ![t] = w] BY <1>2
<1>5. OtherWires(t) /\ wire'[t] = w BY <1>3, <1>4, WireChanges
<1> QED BY <1>3, <1>5

\* The same for pages.
OtherChats(c) == chat' \in [Chats -> LooseChat] /\ \A d \in Chats \ {c} : chat'[d] = chat[d]

LEMMA ChatChanges ==
    ASSUME TypeInv, NEW c \in Chats, NEW x \in LooseChat, chat' = [chat EXCEPT ![c] = x]
    PROVE  OtherChats(c) /\ chat'[c] = x
BY DEF TypeInv, OtherChats

LEMMA FieldTypes ==
    ASSUME NEW slot \in LooseChat
    PROVE  /\ slot.turn \in Turns \cup {None} /\ slot.listening \in BOOLEAN
           /\ slot.retryable \in Turns \cup {None}
           /\ slot.draft.of \in Turns \cup {None} /\ slot.draft.pieces \in Nat
           /\ slot.draft.status \in {"none", "streaming", "refused", "done"}
BY DEF LooseChat

LEMMA NoDraftType ==
    /\ NoDraft \in [of : Turns \cup {None}, pieces : Nat,
                    status : {"none", "streaming", "refused", "done"}]
    /\ NoDraft.status = "none" /\ NoDraft.pieces = 0
BY DEF NoDraft

LEMMA FinishedFacts ==
    ASSUME NEW slot \in LooseChat
    PROVE  /\ Finished(slot) \in LooseChat
           /\ Finished(slot).turn = None /\ ~Finished(slot).listening
           /\ Finished(slot).retryable = slot.retryable /\ Finished(slot).draft = slot.draft
BY DEF LooseChat, Finished

LEMMA GaveUpFacts ==
    ASSUME TypeInv, NEW slot \in LooseChat, slot.turn \in Turns
    PROVE  /\ GaveUp(slot) \in LooseChat
           /\ GaveUp(slot).turn = None /\ ~GaveUp(slot).listening
           /\ GaveUp(slot).retryable = turn[slot.turn].question
           /\ GaveUp(slot).draft.status = "none" /\ GaveUp(slot).draft.pieces = 0
<1>1. turn[slot.turn].question \in Turns \cup {None} BY DEF TypeInv, Turn
<1>2. PICK f : f = Finished(slot) OBVIOUS
<1>3. f \in LooseChat /\ f.turn = None /\ ~f.listening BY <1>2, FinishedFacts
<1>4. PICK q : q = turn[slot.turn].question OBVIOUS
<1>5. PICK n : n = NoDraft OBVIOUS
<1>6. /\ n \in [of : Turns \cup {None}, pieces : Nat,
                status : {"none", "streaming", "refused", "done"}]
      /\ n.status = "none" /\ n.pieces = 0
  BY <1>5, NoDraftType
<1>7. GaveUp(slot) = [f EXCEPT !.retryable = q, !.draft = n]
  BY <1>2, <1>4, <1>5 DEF GaveUp
<1> QED BY <1>1, <1>3, <1>4, <1>6, <1>7 DEF LooseChat

\* The page goes on with its turn.
Listens(x, slot) ==
    x \in LooseChat /\ x.turn = slot.turn /\ x.retryable = slot.retryable

LEMMA PatchedFacts ==
    ASSUME NEW slot \in LooseChat,
           NEW d \in [of : Turns \cup {None}, pieces : Nat,
                      status : {"none", "streaming", "refused", "done"}]
    PROVE  /\ Listens(Patched(slot, d), slot)
           /\ Patched(slot, d).listening = slot.listening
           /\ slot.draft.status = "none" => Patched(slot, d).draft = slot.draft
           /\ slot.draft.status # "none" => Patched(slot, d).draft = d
BY DEF Patched, LooseChat, Listens

LEMMA HereFacts ==
    ASSUME TypeInv, NEW slot \in LooseChat, slot.turn \in Turns
    PROVE  LET here == [slot EXCEPT !.thread = turn[slot.turn].thread]
           IN  /\ Listens(here, slot) /\ here.listening = slot.listening
               /\ here.draft = slot.draft
<1>1. turn[slot.turn].thread \in Turns \cup {None} BY DEF TypeInv, Turn
<1>2. PICK h : h = turn[slot.turn].thread OBVIOUS
<1> QED BY <1>1, <1>2 DEF LooseChat, Listens

\* What each event leaves on the page.
LEMMA SeenFacts ==
    ASSUME TypeInv, NEW slot \in LooseChat, slot.turn \in Turns, NEW e \in Event
    PROVE  LET x == Seen(slot, e)
           IN  /\ x \in LooseChat
               /\ e = "rejected" => /\ x.turn = None /\ ~x.listening
                                    /\ x.draft.status = "none" /\ x.draft.pieces = 0
               /\ e = "end" => /\ x.turn = None /\ ~x.listening
                               /\ x.retryable = slot.retryable /\ x.draft = slot.draft
               /\ e \notin {"rejected", "end"} => x.turn = slot.turn
               /\ e \in {"headers", "citations"} =>
                     x.draft = slot.draft /\ x.retryable = slot.retryable
               /\ e \in {"delta", "insufficient_evidence", "done"} =>
                     /\ x.retryable = slot.retryable
                     /\ slot.draft.status = "none" => x.draft = slot.draft
                     /\ slot.draft.status # "none" => x.draft.of = slot.draft.of
               /\ e = "delta" /\ slot.draft.status # "none" =>
                     /\ x.draft.pieces = slot.draft.pieces + 1
                     /\ x.draft.status = slot.draft.status
               /\ e \in {"insufficient_evidence", "done"} /\ slot.draft.status # "none" =>
                     x.draft.pieces = slot.draft.pieces /\ x.draft.status \in {"refused", "done"}
               /\ e = "error" =>
                     x.draft = slot.draft /\ x.retryable = turn[slot.turn].question
<1> DEFINE here == [slot EXCEPT !.thread = turn[slot.turn].thread]
           Draft == [of : Turns \cup {None}, pieces : Nat,
                     status : {"none", "streaming", "refused", "done"}]
<1>1. slot.draft \in Draft BY DEF LooseChat
<1>2. Listens(here, slot) /\ here.listening = slot.listening /\ here.draft = slot.draft
  BY HereFacts
<1>3. here \in LooseChat BY <1>2 DEF Listens
<1> HIDE DEF here
<1>4. CASE e = "rejected"
  <2>1. Seen(slot, e) = GaveUp(slot) BY <1>4 DEF Seen
  <2> QED BY <1>4, <2>1, GaveUpFacts
<1>5. CASE e = "end"
  <2>1. Seen(slot, e) = Finished(slot) BY <1>5 DEF Seen
  <2> QED BY <1>5, <2>1, FinishedFacts
<1>6. CASE e = "headers"
  <2>1. Seen(slot, e) = [slot EXCEPT !.listening = TRUE] BY <1>6 DEF Seen
  <2> QED BY <1>6, <2>1 DEF LooseChat
<1>7. CASE e = "citations"
  <2>1. Seen(slot, e) = here BY <1>7 DEF Seen, here
  <2> QED BY <1>2, <1>7, <2>1 DEF Listens
<1>8. CASE e = "delta"
  <2>1. PICK d : d = [slot.draft EXCEPT !.pieces = @ + 1] OBVIOUS
  <2>2. /\ d \in Draft /\ d.of = slot.draft.of /\ d.pieces = slot.draft.pieces + 1
        /\ d.status = slot.draft.status
    BY <1>1, <2>1
  <2>3. Seen(slot, e) = Patched(slot, d) BY <1>8, <2>1 DEF Seen
  <2>4. /\ Listens(Patched(slot, d), slot)
        /\ slot.draft.status = "none" => Patched(slot, d).draft = slot.draft
        /\ slot.draft.status # "none" => Patched(slot, d).draft = d
    BY <2>2, PatchedFacts
  <2> QED BY <1>8, <2>2, <2>3, <2>4 DEF Listens
<1>9. CASE e = "insufficient_evidence"
  <2>1. PICK d : d = [slot.draft EXCEPT !.status = "refused"] OBVIOUS
  <2>2. /\ d \in Draft /\ d.of = slot.draft.of /\ d.pieces = slot.draft.pieces
        /\ d.status = "refused"
    BY <1>1, <2>1
  <2>3. Seen(slot, e) = Patched(here, d) BY <1>9, <2>1 DEF Seen, here
  <2>4. /\ Listens(Patched(here, d), here)
        /\ here.draft.status = "none" => Patched(here, d).draft = here.draft
        /\ here.draft.status # "none" => Patched(here, d).draft = d
    BY <1>3, <2>2, PatchedFacts
  <2> QED BY <1>2, <1>9, <2>2, <2>3, <2>4 DEF Listens
<1>10. CASE e = "done"
  <2>1. PICK d : d = [slot.draft EXCEPT !.status = IF @ = "refused" THEN @ ELSE "done"] OBVIOUS
  <2>2. /\ d \in Draft /\ d.of = slot.draft.of /\ d.pieces = slot.draft.pieces
        /\ d.status \in {"refused", "done"}
    BY <1>1, <2>1
  <2>3. Seen(slot, e) = Patched(here, d) BY <1>10, <2>1 DEF Seen, here
  <2>4. /\ Listens(Patched(here, d), here)
        /\ here.draft.status = "none" => Patched(here, d).draft = here.draft
        /\ here.draft.status # "none" => Patched(here, d).draft = d
    BY <1>3, <2>2, PatchedFacts
  <2> QED BY <1>2, <1>10, <2>2, <2>3, <2>4 DEF Listens
<1>11. CASE e = "error"
  <2>1. PICK q : q = turn[slot.turn].question OBVIOUS
  <2>2. q \in Turns \cup {None} BY <2>1 DEF TypeInv, Turn
  <2>3. Seen(slot, e) = [slot EXCEPT !.retryable = q] BY <1>11, <2>1 DEF Seen
  <2> QED BY <1>11, <2>1, <2>2, <2>3 DEF LooseChat
<1> QED BY <1>4, <1>5, <1>6, <1>7, <1>8, <1>9, <1>10, <1>11 DEF Event

LEMMA SendPage ==
    ASSUME TypeInv, NEW c \in Chats, NEW t \in Turns, NEW q \in Turns, Send(c, t, q)
    PROVE  /\ OtherChats(c) /\ chat[c].turn = None
           /\ chat'[c].turn = t /\ ~chat'[c].listening /\ chat'[c].retryable = None
           /\ chat'[c].draft.of = t /\ chat'[c].draft.pieces = 0
           /\ chat'[c].draft.status = "streaming"
<1>1. chat[c] \in LooseChat BY DEF TypeInv
<1>2. PICK d : d = [NoDraft EXCEPT !.of = t, !.status = "streaming"] OBVIOUS
<1>3. /\ d \in [of : Turns \cup {None}, pieces : Nat,
                status : {"none", "streaming", "refused", "done"}]
      /\ d.of = t /\ d.pieces = 0 /\ d.status = "streaming"
  BY <1>2 DEF NoDraft
<1>4. PICK x : x = [chat[c] EXCEPT !.turn = t, !.listening = FALSE, !.retryable = None,
                                   !.draft = d]
  OBVIOUS
<1>5. /\ x \in LooseChat /\ x.turn = t /\ ~x.listening /\ x.retryable = None /\ x.draft = d
  BY <1>1, <1>3, <1>4 DEF LooseChat
<1>6. chat' = [chat EXCEPT ![c] = x] BY <1>2, <1>4 DEF Send
<1>7. OtherChats(c) /\ chat'[c] = x BY <1>5, <1>6, ChatChanges
<1> QED BY <1>3, <1>5, <1>7 DEF Send

LEMMA SwitchPage ==
    ASSUME TypeInv, NEW c \in Chats, NEW id \in Turns \cup {None}, Switch(c, id)
    PROVE  /\ OtherChats(c) /\ chat[c].turn = None /\ chat'[c].turn = None
           /\ chat'[c].listening = chat[c].listening
           /\ chat'[c].draft.status = "none" /\ chat'[c].draft.pieces = 0
<1>1. chat[c] \in LooseChat BY DEF TypeInv
<1>2. PICK d : d = NoDraft OBVIOUS
<1>3. PICK x : x = [chat[c] EXCEPT !.thread = id, !.retryable = None, !.draft = d] OBVIOUS
<1>4. /\ d \in [of : Turns \cup {None}, pieces : Nat,
                status : {"none", "streaming", "refused", "done"}]
      /\ d.status = "none" /\ d.pieces = 0
  BY <1>2, NoDraftType
<1>5. /\ x \in LooseChat /\ x.turn = chat[c].turn /\ x.listening = chat[c].listening
      /\ x.draft = d
  BY <1>1, <1>3, <1>4 DEF LooseChat
<1>6. chat' = [chat EXCEPT ![c] = x] BY <1>2, <1>3 DEF Switch
<1>7. OtherChats(c) /\ chat'[c] = x BY <1>5, <1>6, ChatChanges
<1> QED BY <1>4, <1>5, <1>7 DEF Switch

LEMMA ResyncPage ==
    ASSUME TypeInv, NEW c \in Chats, Resync(c)
    PROVE  /\ OtherChats(c) /\ chat'[c].turn = chat[c].turn
           /\ chat'[c].listening = chat[c].listening
           /\ chat'[c].retryable = chat[c].retryable
           /\ \/ chat'[c].draft = chat[c].draft
              \/ chat'[c].draft.status = "none" /\ chat'[c].draft.pieces = 0
<1>1. chat[c] \in LooseChat BY DEF TypeInv
<1>2. PICK d \in {NoDraft, chat[c].draft} :
        chat' = [chat EXCEPT ![c] = [@ EXCEPT !.refreshing = FALSE, !.draft = d]]
  BY DEF Resync
<1>3. /\ d \in [of : Turns \cup {None}, pieces : Nat,
                status : {"none", "streaming", "refused", "done"}]
      /\ d = chat[c].draft \/ (d.status = "none" /\ d.pieces = 0)
  <2>1. CASE d = NoDraft BY <2>1, NoDraftType
  <2>2. CASE d = chat[c].draft BY <1>1, <2>2 DEF LooseChat
  <2> QED BY <2>1, <2>2
<1>4. PICK x : x = [chat[c] EXCEPT !.refreshing = FALSE, !.draft = d] OBVIOUS
<1>5. /\ x \in LooseChat /\ x.turn = chat[c].turn /\ x.listening = chat[c].listening
      /\ x.retryable = chat[c].retryable /\ x.draft = d
  BY <1>1, <1>3, <1>4 DEF LooseChat
<1>6. chat' = [chat EXCEPT ![c] = x] BY <1>2, <1>4
<1>7. OtherChats(c) /\ chat'[c] = x BY <1>5, <1>6, ChatChanges
<1> QED BY <1>3, <1>5, <1>7

LEMMA GaveUpPage ==
    ASSUME TypeInv, NEW c \in Chats, chat[c].turn # None,
           chat' = [chat EXCEPT ![c] = GaveUp(@)]
    PROVE  /\ OtherChats(c) /\ chat'[c].turn = None /\ ~chat'[c].listening
           /\ chat'[c].draft.status = "none" /\ chat'[c].draft.pieces = 0
<1>1. chat[c] \in LooseChat /\ chat[c].turn \in Turns BY FieldTypes DEF TypeInv
<1>2. PICK x : x = GaveUp(chat[c]) OBVIOUS
<1>3. /\ x \in LooseChat /\ x.turn = None /\ ~x.listening
      /\ x.draft.status = "none" /\ x.draft.pieces = 0
  BY <1>1, <1>2, GaveUpFacts
<1>4. chat' = [chat EXCEPT ![c] = x] BY <1>2
<1> QED BY <1>3, <1>4, ChatChanges

LEMMA ReadFacts ==
    ASSUME TypeInv, NEW c \in Chats, Read(c)
    PROVE  LET t == chat[c].turn  e == Head(wire[t].events)
           IN  /\ t \in Turns /\ wire[t].events # <<>> /\ e \in Event
               /\ OtherChats(c) /\ chat'[c] = Seen(chat[c], e)
               /\ OtherWires(t) /\ wire'[t].events = Tail(wire[t].events)
               /\ wire'[t].up <=> wire[t].up /\ e \notin {"rejected", "end"}
<1>1. chat[c] \in LooseChat /\ chat[c].turn \in Turns BY FieldTypes DEF TypeInv, Read
<1>2. PICK t \in Turns : t = chat[c].turn BY <1>1
<1>3. wire[t] \in Wire /\ wire[t].events # <<>> BY <1>2 DEF Read, TypeInv
<1>4. wire[t].events \in Seq(Event) /\ wire[t].up \in BOOLEAN BY <1>3 DEF Wire
<1>5. PICK e \in Event : e = Head(wire[t].events) BY <1>3, <1>4
<1>6. PICK x : x = Seen(chat[c], e) OBVIOUS
<1>7. x \in LooseChat BY <1>1, <1>6, SeenFacts
<1>8. chat' = [chat EXCEPT ![c] = x] BY <1>2, <1>5, <1>6 DEF Read
<1>9. OtherChats(c) /\ chat'[c] = x BY <1>7, <1>8, ChatChanges
<1>10. PICK w : w = [up |-> wire[t].up /\ e \notin {"rejected", "end"},
                     events |-> Tail(wire[t].events)]
  OBVIOUS
<1>11. Tail(wire[t].events) \in Seq(Event) BY <1>3, <1>4
<1>12. /\ w \in Wire /\ w.events = Tail(wire[t].events)
       /\ w.up <=> wire[t].up /\ e \notin {"rejected", "end"}
  BY <1>10, <1>11 DEF Wire
<1>13. wire' = [wire EXCEPT ![t] = w] BY <1>2, <1>5, <1>10 DEF Read
<1>14. OtherWires(t) /\ wire'[t] = w BY <1>12, <1>13, WireChanges
<1> QED BY <1>2, <1>3, <1>5, <1>6, <1>9, <1>12, <1>14

-----------------------------------------------------------------------------
(* Every action keeps the types *)

\* A step of the turn's server: the page and the other turns stay.
LEMMA ServerTypes ==
    ASSUME TypeInv, NEW t \in Turns, Others(t), turn[t].at # "unused",
           turn'[t].at # "unused", turn'[t].question = turn[t].question,
           thread' \in [Turns -> Seq(Message)], wire' \in [Turns -> Wire],
           aiRequest' \in [Turns -> Seq({"SUCCESS", "FAILED"})],
           hit' \in SUBSET Turns, UNCHANGED chat
    PROVE  TypeInv'
<1>1. ASSUME NEW s \in Turns
      PROVE  (turn'[s].at # "unused" => turn'[s].question \in Turns)
             /\ (turn'[s].saving => turn'[s].at # "unused")
  <2>1. CASE s = t BY <2>1 DEF TypeInv
  <2>2. CASE s # t BY <2>2 DEF TypeInv, Others
  <2> QED BY <2>1, <2>2
<1> QED BY <1>1 DEF TypeInv, Others

\* A step of the page beyond its question: the turns stay.
LEMMA PageTypes ==
    ASSUME TypeInv, NEW c \in Chats, OtherChats(c),
           chat'[c].listening => chat'[c].turn # None,
           wire' \in [Turns -> Wire], UNCHANGED <<thread, turn, aiRequest, hit>>
    PROVE  TypeInv'
<1>1. \A d \in Chats : chat'[d].listening => chat'[d].turn # None
  BY DEF TypeInv, OtherChats
<1> QED BY <1>1 DEF TypeInv, OtherChats

LEMMA PutTypes ==
    ASSUME TypeInv, NEW t \in Turns, NEW e \in Event, Put(t, <<e>>)
    PROVE  wire' \in [Turns -> Wire]
<1>1. <<e>> \in Seq(Event) OBVIOUS
<1> QED BY <1>1, PutFacts DEF OtherWires

LEMMA NewMessage ==
    ASSUME TypeInv, NEW id, NEW m \in Message, thread' = [thread EXCEPT ![id] = Append(@, m)]
    PROVE  thread' \in [Turns -> Seq(Message)]
<1>1. CASE id \in Turns
  <2>1. PICK x : x = Append(thread[id], m) OBVIOUS
  <2>2. x \in Seq(Message) BY <1>1, <2>1 DEF TypeInv
  <2>3. thread' = [thread EXCEPT ![id] = x] BY <2>1
  <2> QED BY <2>2, <2>3 DEF TypeInv
<1>2. CASE id \notin Turns
  <2>1. PICK x : x = Append(thread[id], m) OBVIOUS
  <2>2. thread' = [thread EXCEPT ![id] = x] BY <2>1
  <2> QED BY <1>2, <2>2 DEF TypeInv
<1> QED BY <1>1, <1>2

LEMMA MessageTypes ==
    ASSUME TypeInv, NEW t \in Turns, turn[t].at # "unused"
    PROVE  /\ [role |-> "USER", turn |-> t, question |-> turn[t].question, pieces |-> 0] \in Message
           /\ [role |-> "ASSISTANT", turn |-> t, question |-> turn[t].question,
               pieces |-> turn[t].pieces] \in Message
<1>1. turn[t].question \in Turns /\ turn[t].pieces \in Pieces BY DEF TypeInv, Turn
<1>2. 0 \in Pieces BY TutorAssumption DEF Pieces
<1> QED BY <1>1, <1>2 DEF Message

LEMMA NewRow ==
    ASSUME TypeInv, NEW t \in Turns, RecordRequest(t)
    PROVE  /\ aiRequest' \in [Turns -> Seq({"SUCCESS", "FAILED"})]
           /\ aiRequest'[t] = Append(aiRequest[t], Status(t))
           /\ \A s \in Turns \ {t} : aiRequest'[s] = aiRequest[s]
<1>1. Status(t) \in {"SUCCESS", "FAILED"} BY DEF Status
<1>2. PICK x : x = Append(aiRequest[t], Status(t)) OBVIOUS
<1>3. x \in Seq({"SUCCESS", "FAILED"}) BY <1>1, <1>2 DEF TypeInv
<1>4. aiRequest' = [aiRequest EXCEPT ![t] = x] BY <1>2 DEF RecordRequest
<1> QED BY <1>2, <1>3, <1>4 DEF TypeInv

-----------------------------------------------------------------------------
\* The actions of the server, the provider, the faults and the page.
LEMMA ServerStepTypes ==
    ASSUME TypeInv, NEW t \in Turns, ServerStep(t)
    PROVE  TypeInv'
<1>1. CASE Preflight(t)
  <2>1. turn[t].at = "preflight" /\ UNCHANGED <<thread, aiRequest, chat, hit>>
    BY <1>1 DEF Preflight, At
  <2>2. PICK e \in {"rejected", "headers"}, a \in {"over", "open"} : Put(t, <<e>>) /\ Go(t, a)
    BY <1>1 DEF Preflight
  <2>3. Others(t) /\ Same(t) /\ turn'[t].at = a BY <2>2, GoFacts DEF Step
  <2>4. wire' \in [Turns -> Wire] BY <2>2, PutTypes DEF Event
  <2> QED BY <2>1, <2>3, <2>4, ServerTypes DEF Same, TypeInv
<1>2. CASE FindConversation(t)
  <2>1. UNCHANGED <<thread, wire, aiRequest, chat, hit>> BY <1>2 DEF FindConversation
  <2> QED BY <1>2, <2>1, FindFacts, ServerTypes DEF TypeInv
<1>3. CASE SaveQuestion(t)
  <2>1. UNCHANGED <<wire, aiRequest, chat, hit>> /\ turn[t].at # "unused"
    BY <1>3 DEF SaveQuestion, TypeInv
  <2>2. thread' \in [Turns -> Seq(Message)]
    BY <1>3, <2>1, MessageTypes, NewMessage DEF SaveQuestion
  <2>3. turn' = [turn EXCEPT ![t].saving = FALSE] BY <1>3 DEF SaveQuestion
  <2>4. /\ Others(t) /\ turn'[t].at # "unused"
        /\ turn'[t].question = turn[t].question
    BY <2>1, <2>3, SaveFacts
  <2> QED BY <2>1, <2>2, <2>4, ServerTypes DEF TypeInv
<1>4. CASE Retrieve(t)
  <2>1. UNCHANGED <<thread, wire, aiRequest, chat, hit>> BY <1>4 DEF Retrieve
  <2> QED BY <1>4, <2>1, RetrieveFacts, ServerTypes DEF TypeInv, Same
<1>5. CASE Gate(t)
  <2>1. turn[t].at = "gather" /\ UNCHANGED <<thread, wire, aiRequest, chat, hit>>
    BY <1>5 DEF Gate, At
  <2>2. PICK a \in {"refuse", "cite"} : Go(t, a) BY <1>5 DEF Gate
  <2>3. Others(t) /\ Same(t) /\ turn'[t].at = a BY <2>2, GoFacts DEF Step
  <2> QED BY <2>1, <2>3, ServerTypes DEF Same, TypeInv
<1>6. CASE StoreRefusal(t)
  <2>1. turn[t].at = "refuse" /\ UNCHANGED <<wire, aiRequest, chat, hit>>
    BY <1>6 DEF StoreRefusal, At
  <2>2. thread' \in [Turns -> Seq(Message)]
    BY <1>6, <2>1, MessageTypes, NewMessage DEF StoreRefusal, Answered
  <2>3. Others(t) /\ Same(t) /\ turn'[t].at = "refused" BY <1>6, GoFacts DEF Step, StoreRefusal
  <2> QED BY <2>1, <2>2, <2>3, ServerTypes DEF Same, TypeInv
<1>7. CASE SendRefusal(t)
  <2>1. turn[t].at = "refused" /\ UNCHANGED <<thread, aiRequest, chat, hit>>
    BY <1>7 DEF SendRefusal, At
  <2>2. PICK e \in {"insufficient_evidence", "error"}, a \in {"stored", "close"} :
          Put(t, <<e>>) /\ Go(t, a)
    BY <1>7 DEF SendRefusal, Emit
  <2>3. Others(t) /\ Same(t) /\ turn'[t].at = a BY <2>2, GoFacts DEF Step
  <2>4. wire' \in [Turns -> Wire] BY <2>2, PutTypes DEF Event
  <2> QED BY <2>1, <2>3, <2>4, ServerTypes DEF Same, TypeInv
<1>8. CASE SendCitations(t)
  <2>1. turn[t].at = "cite" /\ UNCHANGED <<thread, aiRequest, chat, hit>>
    BY <1>8 DEF SendCitations, At
  <2>2. CASE /\ Put(t, <<"citations">>)
             /\ turn' = [turn EXCEPT ![t].at = "stream", ![t].called = TRUE]
    <3>1. wire' \in [Turns -> Wire] BY <2>2, PutTypes DEF Event
    <3> QED BY <2>1, <2>2, <3>1, CallFacts, ServerTypes DEF TypeInv
  <2>3. CASE Put(t, <<"error">>) /\ Go(t, "close")
    <3>1. wire' \in [Turns -> Wire] BY <2>3, PutTypes DEF Event
    <3>2. Others(t) /\ Same(t) /\ turn'[t].at = "close" BY <2>3, GoFacts DEF Step
    <3> QED BY <2>1, <3>1, <3>2, ServerTypes DEF TypeInv, Same
  <2> QED BY <1>8, <2>2, <2>3 DEF SendCitations, Emit
<1>9. CASE RecordRequest(t)
  <2>1. /\ turn[t].at \in {"record", "abandon", "failing"}
        /\ UNCHANGED <<thread, wire, chat, hit>>
    BY <1>9 DEF RecordRequest
  <2>2. PICK a \in {"store", "close", "throw"} : Go(t, a)
    BY <1>9, <2>1 DEF RecordRequest, At
  <2>3. Others(t) /\ Same(t) /\ turn'[t].at = a BY <2>2, GoFacts DEF Step
  <2>4. aiRequest' \in [Turns -> Seq({"SUCCESS", "FAILED"})] BY <1>9, NewRow
  <2> QED BY <2>1, <2>3, <2>4, ServerTypes DEF Same, TypeInv
<1>10. CASE StoreAnswer(t)
  <2>1. turn[t].at = "store" /\ UNCHANGED <<wire, aiRequest, chat, hit>>
    BY <1>10 DEF StoreAnswer, At
  <2>2. thread' \in [Turns -> Seq(Message)]
    BY <1>10, <2>1, MessageTypes, NewMessage DEF StoreAnswer, Answered
  <2>3. Others(t) /\ Same(t) /\ turn'[t].at = "stored" BY <1>10, GoFacts DEF Step, StoreAnswer
  <2> QED BY <2>1, <2>2, <2>3, ServerTypes DEF Same, TypeInv
<1>11. CASE SendDone(t)
  <2>1. turn[t].at = "stored" /\ UNCHANGED <<thread, aiRequest, chat, hit>>
    BY <1>11 DEF SendDone, At
  <2>2. PICK e \in {"done", "error"} : Put(t, <<e>>) /\ Go(t, "close")
    BY <1>11 DEF SendDone, Emit
  <2>3. Others(t) /\ Same(t) /\ turn'[t].at = "close" BY <2>2, GoFacts DEF Step
  <2>4. wire' \in [Turns -> Wire] BY <2>2, PutTypes DEF Event
  <2> QED BY <2>1, <2>3, <2>4, ServerTypes DEF Same, TypeInv
<1>12. CASE CloseStream(t)
  <2>1. turn[t].at \in {"throw", "close"} /\ UNCHANGED <<thread, aiRequest, chat, hit>>
    BY <1>12 DEF CloseStream
  <2>2. PICK events \in {<<"error", "end">>, <<"end">>} : Put(t, events)
    BY <1>12 DEF CloseStream
  <2>3. Others(t) /\ Same(t) /\ turn'[t].at = "over" BY <1>12, GoFacts DEF Step, CloseStream
  <2>4. events \in Seq(Event) BY <2>2 DEF Event
  <2>5. wire' \in [Turns -> Wire] BY <2>2, <2>4, PutFacts DEF OtherWires
  <2> QED BY <2>1, <2>3, <2>5, ServerTypes DEF Same, TypeInv
<1> QED BY <1>1, <1>2, <1>3, <1>4, <1>5, <1>6, <1>7, <1>8, <1>9, <1>10, <1>11, <1>12 DEF ServerStep

LEMMA StreamTypes ==
    ASSUME TypeInv, NEW t \in Turns, StreamPiece(t) \/ StreamEnds(t)
    PROVE  TypeInv'
<1>1. turn[t].at = "stream" /\ UNCHANGED <<thread, aiRequest, chat, hit>>
  BY DEF StreamPiece, StreamEnds, At
<1>2. CASE /\ StreamPiece(t) /\ Put(t, <<"delta">>)
           /\ turn' = [turn EXCEPT ![t].pieces = @ + 1]
  <2>1. wire' \in [Turns -> Wire] BY <1>2, PutTypes DEF Event
  <2>2. turn[t].pieces < MaxPieces BY <1>2 DEF StreamPiece
  <2> QED BY <1>1, <1>2, <2>1, <2>2, PieceFacts, ServerTypes DEF TypeInv
<1>3. CASE Put(t, <<"error">>) /\ Go(t, "abandon")
  <2>1. wire' \in [Turns -> Wire] BY <1>3, PutTypes DEF Event
  <2>2. Others(t) /\ Same(t) /\ turn'[t].at = "abandon" BY <1>3, GoFacts DEF Step
  <2> QED BY <1>1, <2>1, <2>2, ServerTypes DEF TypeInv, Same
<1>4. CASE StreamEnds(t)
  <2>1. PICK a \in {"record", "failing"} : Go(t, a) BY <1>4 DEF StreamEnds
  <2>2. Others(t) /\ Same(t) /\ turn'[t].at = a BY <2>1, GoFacts DEF Step
  <2>3. UNCHANGED wire BY <1>4 DEF StreamEnds
  <2> QED BY <1>1, <2>2, <2>3, ServerTypes DEF TypeInv, Same
<1> QED BY <1>2, <1>3, <1>4 DEF StreamPiece, Emit

LEMMA FaultTypes ==
    ASSUME TypeInv, NEW t \in Turns,
           StatementFails(t) \/ ServerDies(t) \/ ConnectionLost(t)
    PROVE  TypeInv'
<1>1. hit' \in SUBSET Turns BY DEF StatementFails, ServerDies, ConnectionLost, Fault, TypeInv
<1>2. CASE /\ turn[t].at \in {"open", "refuse", "store", "record", "abandon", "failing"}
           /\ Go(t, AfterFailure(t)) /\ UNCHANGED <<thread, wire, aiRequest, chat>>
  <2>1. PICK a \in {"store", "close", "throw"} : Go(t, a) BY <1>2 DEF AfterFailure, At
  <2>2. Others(t) /\ Same(t) /\ turn'[t].at = a BY <2>1, GoFacts DEF Step
  <2> QED BY <1>1, <1>2, <2>2, ServerTypes DEF TypeInv, Same
<1>3. CASE /\ turn[t].saving /\ UNCHANGED <<thread, wire, aiRequest, chat>>
           /\ turn' = [turn EXCEPT ![t].saving = FALSE,
                                   ![t].at = IF @ = "gather" THEN "throw" ELSE @]
  <2>1. turn[t].at # "unused" BY <1>3 DEF TypeInv
  <2>2. /\ Others(t) /\ turn'[t].question = turn[t].question
        /\ turn'[t].at = IF turn[t].at = "gather" THEN "throw" ELSE turn[t].at
    BY <1>3, SaveFailsFacts
  <2>3. turn'[t].at # "unused" BY <2>1, <2>2
  <2> QED BY <1>1, <1>3, <2>1, <2>2, <2>3, ServerTypes DEF TypeInv
<1>4. CASE ServerDies(t)
  <2>1. /\ turn[t].at # "unused" /\ UNCHANGED <<thread, aiRequest, chat>>
        /\ turn' = [turn EXCEPT ![t].at = "over", ![t].saving = FALSE]
        /\ wire' = [wire EXCEPT ![t].up = FALSE]
    BY <1>4 DEF ServerDies
  <2>2. wire' \in [Turns -> Wire] BY <2>1, DownFacts DEF OtherWires
  <2> QED BY <1>1, <2>1, <2>2, DiesFacts, ServerTypes DEF TypeInv
<1>5. CASE ConnectionLost(t)
  <2>1. UNCHANGED <<thread, turn, aiRequest, chat>> /\ wire' = [wire EXCEPT ![t].up = FALSE]
    BY <1>5 DEF ConnectionLost
  <2>2. wire' \in [Turns -> Wire] BY <2>1, DownFacts DEF OtherWires
  <2> QED BY <1>1, <2>1, <2>2 DEF TypeInv
<1> QED BY <1>2, <1>3, <1>4, <1>5 DEF StatementFails

LEMMA PageStepTypes ==
    ASSUME TypeInv, NEW c \in Chats,
           \/ \E t \in Turns : Ask(c, t) \/ TryAgain(c, t)
           \/ \E id \in Turns \cup {None} : Switch(c, id)
           \/ Resync(c) \/ Read(c) \/ IdleTimeout(c) \/ Interrupted(c)
    PROVE  TypeInv'
<1>1. ASSUME NEW t \in Turns, NEW q \in Turns, Send(c, t, q) PROVE TypeInv'
  <2>1. /\ Others(t) /\ turn'[t].at = "preflight" /\ turn'[t].question = q
    BY <1>1, SendFacts
  <2>2. OtherChats(c) /\ chat'[c].turn = t BY <1>1, SendPage
  <2>3. UNCHANGED <<thread, aiRequest, hit>> /\ wire' = [wire EXCEPT ![t].up = TRUE]
    BY <1>1 DEF Send
  <2>4. wire' \in [Turns -> Wire] BY <2>3, UpFacts DEF OtherWires
  <2>5. ASSUME NEW s \in Turns
        PROVE  (turn'[s].at # "unused" => turn'[s].question \in Turns)
               /\ (turn'[s].saving => turn'[s].at # "unused")
    <3>1. CASE s = t BY <2>1, <3>1
    <3>2. CASE s # t BY <2>1, <3>2 DEF TypeInv, Others
    <3> QED BY <3>1, <3>2
  <2>6. \A d \in Chats : chat'[d].listening => chat'[d].turn # None
    BY <2>2, NoneIsNoTurn DEF TypeInv, OtherChats
  <2> QED BY <2>1, <2>2, <2>3, <2>4, <2>5, <2>6 DEF TypeInv, Others, OtherChats
<1>2. ASSUME NEW t \in Turns, Ask(c, t) PROVE TypeInv' BY <1>1, <1>2 DEF Ask
<1>3. ASSUME NEW t \in Turns, TryAgain(c, t) PROVE TypeInv'
  <2>1. chat[c].retryable \in Turns BY <1>3, FieldTypes DEF TryAgain, TypeInv
  <2> QED BY <1>1, <1>3, <2>1 DEF TryAgain
<1>4. ASSUME NEW id \in Turns \cup {None}, Switch(c, id) PROVE TypeInv'
  <2>1. UNCHANGED <<thread, turn, wire, aiRequest, hit>> BY <1>4 DEF Switch
  <2>2. ~chat[c].listening BY <1>4 DEF Switch, TypeInv
  <2> QED BY <1>4, <2>1, <2>2, SwitchPage, PageTypes DEF TypeInv
<1>5. CASE Resync(c)
  <2>1. UNCHANGED <<thread, turn, wire, aiRequest, hit>> BY <1>5 DEF Resync
  <2>2. chat[c].listening => chat[c].turn # None BY DEF TypeInv
  <2> QED BY <1>5, <2>1, <2>2, ResyncPage, PageTypes DEF TypeInv
<1>6. CASE Read(c)
  <2>1. UNCHANGED <<thread, turn, aiRequest, hit>> BY <1>6 DEF Read
  <2>2. PICK t \in Turns : t = chat[c].turn BY <1>6, ReadFacts
  <2>3. PICK e \in Event : e = Head(wire[t].events) BY <1>6, <2>2, ReadFacts
  <2>4. OtherChats(c) /\ chat'[c] = Seen(chat[c], e) /\ wire' \in [Turns -> Wire]
    BY <1>6, <2>2, <2>3, ReadFacts DEF OtherWires
  <2>5. chat[c] \in LooseChat BY DEF TypeInv
  <2>6. chat'[c].turn = chat[c].turn \/ ~chat'[c].listening
    BY <2>2, <2>4, <2>5, SeenFacts
  <2>7. chat'[c].listening => chat'[c].turn # None BY <2>2, <2>6, NoneIsNoTurn
  <2> QED BY <2>1, <2>4, <2>7, PageTypes
<1>7. CASE IdleTimeout(c)
  <2>1. chat[c].turn # None BY <1>7 DEF IdleTimeout, TypeInv
  <2>2. PICK t \in Turns : t = chat[c].turn BY <2>1, FieldTypes DEF TypeInv
  <2>3. /\ UNCHANGED <<thread, turn, aiRequest, hit>> /\ chat' = [chat EXCEPT ![c] = GaveUp(@)]
        /\ wire' = [wire EXCEPT ![t].up = FALSE]
    BY <1>7, <2>2 DEF IdleTimeout
  <2>4. wire' \in [Turns -> Wire] BY <2>3, DownFacts DEF OtherWires
  <2> QED BY <2>1, <2>3, <2>4, GaveUpPage, PageTypes
<1>8. CASE Interrupted(c)
  <2>1. chat[c].turn # None BY <1>8 DEF Interrupted
  <2>2. PICK t \in Turns : t = chat[c].turn BY <2>1, FieldTypes DEF TypeInv
  <2>3. /\ UNCHANGED <<thread, turn, aiRequest, hit>> /\ chat' = [chat EXCEPT ![c] = GaveUp(@)]
        /\ wire' = [wire EXCEPT ![t].events = <<>>]
    BY <1>8, <2>2 DEF Interrupted
  <2>4. wire' \in [Turns -> Wire] BY <2>3, EmptiedFacts DEF OtherWires
  <2> QED BY <2>1, <2>3, <2>4, GaveUpPage, PageTypes
<1> QED BY <1>2, <1>3, <1>4, <1>5, <1>6, <1>7, <1>8

LEMMA TypeStep == TypeInv /\ [Next]_vars => TypeInv'
<1> SUFFICES ASSUME TypeInv, [Next]_vars PROVE TypeInv' OBVIOUS
<1>1. CASE UNCHANGED vars BY <1>1 DEF TypeInv, vars
<1>2. CASE Next
  BY <1>2, PageStepTypes, ServerStepTypes, StreamTypes, FaultTypes DEF Next
<1> QED BY <1>1, <1>2

-----------------------------------------------------------------------------
(* The server's side *)

\* The turn's question stands in its conversation.
Asked(t) ==
    /\ turn[t].thread \in Turns
    /\ \E j \in DOMAIN thread[turn[t].thread] :
          /\ thread[turn[t].thread][j].role = "USER" /\ thread[turn[t].thread][j].turn = t

\* No conversation has an answer of the turn.
NoAnswer(t) ==
    \A id \in Turns : \A i \in DOMAIN thread[id] :
        ~(thread[id][i].turn = t /\ thread[id][i].role = "ASSISTANT")

\* The turn's conversation has its answer, with so many pieces.
Kept(t, pieces) ==
    /\ turn[t].thread \in Turns
    /\ \E i \in DOMAIN thread[turn[t].thread] :
          /\ thread[turn[t].thread][i].turn = t
          /\ thread[turn[t].thread][i].role = "ASSISTANT"
          /\ thread[turn[t].thread][i].pieces = pieces

\* What is stored at each step.  A question's transaction outlives its turn, so it
\* may be open after the turn has failed; an answer is there only from the
\* statement that stores it on.
Course(t) ==
    LET at == turn[t].at IN
    /\ at \notin {"unused", "preflight", "open", "throw", "over"} => turn[t].thread \in Turns
    /\ turn[t].saving => turn[t].thread \in Turns /\ at \in {"gather", "throw", "over"}
    /\ at \in {"unused", "preflight", "open", "gather", "refuse", "refused", "cite"} =>
          turn[t].pieces = 0 /\ ~turn[t].called
    /\ at = "gather" /\ ~turn[t].saving => Asked(t)
    /\ at \in {"refuse", "refused", "cite", "stream", "record", "store", "stored", "abandon",
               "failing"} => Asked(t)
    /\ at \notin {"refused", "stored", "close", "over"} => NoAnswer(t)
    /\ at \in {"refused", "stored"} => Kept(t, turn[t].pieces)

\* The AiRequest row: none before the stream's finally block, one after it unless a
\* fault came between, and a failed one only of turns that store no answer.
Rows(t) ==
    LET at == turn[t].at IN
    /\ Len(aiRequest[t]) <= 1
    /\ \A i \in DOMAIN aiRequest[t] :
          aiRequest[t][i] = "FAILED" =>
              at \in {"throw", "over"} /\ turn[t].thread \in Turns /\ NoAnswer(t)
    /\ at \notin {"store", "stored", "throw", "close", "over"} => aiRequest[t] = <<>>
    /\ turn[t].called /\ at \in {"store", "stored", "throw", "close", "over"} /\ t \notin hit =>
          aiRequest[t] # <<>>

\* The second half of AnswerFollowsQuestion.
Paired ==
    \A id \in Turns : \A i \in DOMAIN thread[id] :
        thread[id][i].role = "ASSISTANT" =>
            \E j \in 1..(i - 1) : /\ thread[id][j].role = "USER"
                                  /\ thread[id][j].turn = thread[id][i].turn

ServerInv == (\A t \in Turns : Course(t) /\ Rows(t)) /\ Paired

LEMMA InitServerInv == Init => ServerInv
<1> SUFFICES ASSUME Init PROVE ServerInv OBVIOUS
<1>1. ASSUME NEW t \in Turns
      PROVE  /\ turn[t].at = "unused" /\ ~turn[t].saving /\ turn[t].pieces = 0
             /\ ~turn[t].called /\ aiRequest[t] = <<>> /\ thread[t] = <<>>
  BY DEF Init, Unused
<1>2. \A t \in Turns : NoAnswer(t) BY <1>1 DEF NoAnswer
<1>3. Paired BY <1>1 DEF Paired
<1>4. \A t \in Turns : Course(t) BY <1>1, <1>2 DEF Course
<1>5. \A t \in Turns : Rows(t) BY <1>1 DEF Rows
<1> QED BY <1>3, <1>4, <1>5 DEF ServerInv

-----------------------------------------------------------------------------
(* Conversations only grow, by messages of the turn that takes the step *)

Grows ==
    \A id \in Turns : \A j \in DOMAIN thread[id] :
        j \in DOMAIN thread'[id] /\ thread'[id][j] = thread[id][j]

OnlyNew(t, role) ==
    \A id \in Turns : \A j \in DOMAIN thread'[id] :
        \/ j \in DOMAIN thread[id]
        \/ /\ thread'[id][j].turn = t /\ thread'[id][j].role = role
           /\ id = turn[t].thread /\ j = Len(thread[id]) + 1

LEMMA Appends ==
    ASSUME TypeInv, NEW t \in Turns, turn[t].thread \in Turns, NEW m \in Message, m.turn = t,
           thread' = [thread EXCEPT ![turn[t].thread] = Append(@, m)]
    PROVE  /\ Grows /\ OnlyNew(t, m.role)
           /\ \E j \in DOMAIN thread'[turn[t].thread] : thread'[turn[t].thread][j] = m
<1>1. PICK k \in Turns : k = turn[t].thread OBVIOUS
<1>2. PICK q \in Seq(Message) : q = thread[k] BY DEF TypeInv
<1>3. PICK r : r = Append(q, m) OBVIOUS
<1>4. /\ r \in Seq(Message) /\ DOMAIN q = 1..Len(q) /\ Len(q) \in Nat
      /\ DOMAIN r = 1..(Len(q) + 1) /\ r[Len(q) + 1] = m
      /\ \A j \in 1..Len(q) : r[j] = q[j]
  BY <1>3
<1>5. thread' = [thread EXCEPT ![k] = r] BY <1>1, <1>2, <1>3
<1>6. thread'[k] = r /\ \A id \in Turns \ {k} : thread'[id] = thread[id] BY <1>5 DEF TypeInv
<1>7. Grows BY <1>2, <1>4, <1>6 DEF Grows
<1>8. OnlyNew(t, m.role)
  <2>1. SUFFICES ASSUME NEW id \in Turns, NEW j \in DOMAIN thread'[id], j \notin DOMAIN thread[id]
                 PROVE  /\ thread'[id][j].turn = t /\ thread'[id][j].role = m.role
                        /\ id = turn[t].thread /\ j = Len(thread[id]) + 1
    BY DEF OnlyNew
  <2>2. id = k BY <1>6, <2>1
  <2>3. j = Len(q) + 1 BY <1>2, <1>4, <1>6, <2>1, <2>2
  <2> QED BY <1>1, <1>2, <1>4, <1>6, <2>2, <2>3
<1>9. Len(q) + 1 \in DOMAIN thread'[k] BY <1>4, <1>6
<1> QED BY <1>1, <1>4, <1>6, <1>7, <1>8, <1>9

LEMMA SameThreads ==
    ASSUME NEW t, UNCHANGED thread
    PROVE  Grows /\ \A role : OnlyNew(t, role)
BY DEF Grows, OnlyNew

\* What a growing conversation does to what is said of a turn.
LEMMA AskedStays ==
    ASSUME NEW t \in Turns, Asked(t), Grows, turn'[t].thread = turn[t].thread
    PROVE  Asked(t)'
BY DEF Asked, Grows

LEMMA KeptStays ==
    ASSUME NEW t \in Turns, NEW p, Kept(t, p), Grows, turn'[t].thread = turn[t].thread
    PROVE  Kept(t, p)'
<1>1. PICK i \in DOMAIN thread[turn[t].thread] :
        /\ thread[turn[t].thread][i].turn = t
        /\ thread[turn[t].thread][i].role = "ASSISTANT"
        /\ thread[turn[t].thread][i].pieces = p
  BY DEF Kept
<1>2. turn[t].thread \in Turns BY DEF Kept
<1>3. i \in DOMAIN thread'[turn[t].thread] /\ thread'[turn[t].thread][i] = thread[turn[t].thread][i]
  BY <1>1, <1>2 DEF Grows
<1> QED BY <1>1, <1>2, <1>3 DEF Kept

LEMMA NoAnswerStays ==
    ASSUME NEW t \in Turns, NEW s \in Turns, NEW role, NoAnswer(s), Grows, OnlyNew(t, role),
           s # t \/ role # "ASSISTANT"
    PROVE  NoAnswer(s)'
<1>1. SUFFICES ASSUME NEW id \in Turns, NEW i \in DOMAIN thread'[id]
               PROVE  ~(thread'[id][i].turn = s /\ thread'[id][i].role = "ASSISTANT")
  BY DEF NoAnswer
<1>2. CASE i \in DOMAIN thread[id] BY <1>2 DEF NoAnswer, Grows
<1>3. CASE i \notin DOMAIN thread[id] BY <1>1, <1>3 DEF OnlyNew
<1> QED BY <1>2, <1>3

LEMMA PairedStays ==
    ASSUME TypeInv, NEW t \in Turns, NEW role, Paired, Grows, OnlyNew(t, role),
           role = "ASSISTANT" => Asked(t)
    PROVE  Paired'
<1>1. SUFFICES ASSUME NEW id \in Turns, NEW i \in DOMAIN thread'[id],
                      thread'[id][i].role = "ASSISTANT"
               PROVE  \E j \in 1..(i - 1) : /\ thread'[id][j].role = "USER"
                                            /\ thread'[id][j].turn = thread'[id][i].turn
  BY DEF Paired
<1>2. DOMAIN thread[id] = 1..Len(thread[id]) /\ Len(thread[id]) \in Nat BY DEF TypeInv
<1>3. CASE i \in DOMAIN thread[id]
  <2>1. thread[id][i] = thread'[id][i] BY <1>3 DEF Grows
  <2>2. PICK j \in 1..(i - 1) : /\ thread[id][j].role = "USER"
                                /\ thread[id][j].turn = thread[id][i].turn
    BY <1>1, <1>3, <2>1 DEF Paired
  <2>3. j \in DOMAIN thread[id] BY <1>2, <1>3, <2>2
  <2>4. thread'[id][j] = thread[id][j] BY <2>3 DEF Grows
  <2> QED BY <2>1, <2>2, <2>4
<1>4. CASE i \notin DOMAIN thread[id]
  <2>1. /\ thread'[id][i].turn = t /\ role = "ASSISTANT" /\ id = turn[t].thread
        /\ i = Len(thread[id]) + 1
    BY <1>1, <1>4 DEF OnlyNew
  <2>2. PICK j \in DOMAIN thread[id] : thread[id][j].role = "USER" /\ thread[id][j].turn = t
    BY <2>1 DEF Asked
  <2>3. thread'[id][j] = thread[id][j] BY <2>2 DEF Grows
  <2>4. j \in 1..(i - 1) BY <1>2, <2>1, <2>2
  <2> QED BY <2>1, <2>2, <2>3, <2>4
<1> QED BY <1>3, <1>4

LEMMA OthersKeep ==
    ASSUME NEW t \in Turns, NEW s \in Turns \ {t}, NEW role, Course(s), Rows(s),
           turn'[s] = turn[s], aiRequest'[s] = aiRequest[s], Grows, OnlyNew(t, role),
           hit \subseteq hit'
    PROVE  Course(s)' /\ Rows(s)'
<1>1. NoAnswer(s) => NoAnswer(s)' BY NoAnswerStays
<1>2. Asked(s) => Asked(s)' BY AskedStays
<1>3. Kept(s, turn[s].pieces) => Kept(s, turn[s].pieces)' BY KeptStays
<1>4. Course(s)' BY <1>1, <1>2, <1>3 DEF Course
<1>5. Rows(s)' BY <1>1 DEF Rows
<1> QED BY <1>4, <1>5

-----------------------------------------------------------------------------
\* A step of the turn that leaves its conversation and its row alone.
Edge(a, b, struck) ==
    \/ a = b
    \/ a = "preflight" /\ b \in {"open", "over"}
    \/ a = "gather" /\ b = "throw"
    \/ a = "refused" /\ b \in {"stored", "close"}
    \/ a = "cite" /\ b = "close"
    \/ a = "stream" /\ b \in {"record", "failing", "abandon"}
    \/ a = "stored" /\ b = "close"
    \/ a \in {"throw", "close"} /\ b = "over"
    \/ a \in {"open", "refuse", "store"} /\ b = "throw"
    \/ struck /\ a = "failing" /\ b = "throw"
    \/ struck /\ a = "record" /\ b = "store"
    \/ struck /\ a = "abandon" /\ b = "close"

LEMMA Moves ==
    ASSUME NEW t \in Turns, Course(t), Rows(t), turn[t].at \in Step, Same(t),
           Edge(turn[t].at, turn'[t].at, t \in hit'),
           UNCHANGED <<thread, aiRequest>>, hit \subseteq hit'
    PROVE  Course(t)' /\ Rows(t)'
<1>1. Grows /\ OnlyNew(t, "USER") BY SameThreads
<1>2. NoAnswer(t) => NoAnswer(t)' BY <1>1, NoAnswerStays
<1>3. Asked(t) => Asked(t)' BY <1>1, AskedStays DEF Same
<1>4. Kept(t, turn[t].pieces) => Kept(t, turn[t].pieces)' BY <1>1, KeptStays DEF Same
<1>5. Course(t)' BY <1>2, <1>3, <1>4 DEF Course, Same, Edge, Step
<1>6. Rows(t)' BY <1>2 DEF Course, Rows, Same, Edge, Step
<1> QED BY <1>5, <1>6

LEMMA MovesAll ==
    ASSUME TypeInv, ServerInv, NEW t \in Turns, Others(t), Same(t),
           Edge(turn[t].at, turn'[t].at, t \in hit'),
           UNCHANGED <<thread, aiRequest>>, hit \subseteq hit'
    PROVE  ServerInv'
<1>1. turn[t].at \in Step BY DEF TypeInv, Turn
<1>2. Course(t)' /\ Rows(t)' BY <1>1, Moves DEF ServerInv
<1>3. Grows /\ OnlyNew(t, "USER") BY SameThreads
<1>4. \A s \in Turns \ {t} : Course(s)' /\ Rows(s)'
  BY <1>3, OthersKeep DEF ServerInv, Others
<1>5. Paired' BY DEF Paired, ServerInv
<1> QED BY <1>2, <1>4, <1>5 DEF ServerInv

\* A step that does what Moves does not, once it is shown for its own turn.
LEMMA OwnStep ==
    ASSUME TypeInv, ServerInv, NEW t \in Turns, NEW role, Others(t), Grows, OnlyNew(t, role),
           role = "ASSISTANT" => Asked(t),
           \A s \in Turns \ {t} : aiRequest'[s] = aiRequest[s], hit \subseteq hit',
           Course(t)', Rows(t)'
    PROVE  ServerInv'
<1>1. \A s \in Turns \ {t} : Course(s)' /\ Rows(s)' BY OthersKeep DEF ServerInv, Others
<1>2. Paired' BY PairedStays DEF ServerInv
<1> QED BY <1>1, <1>2 DEF ServerInv

LEMMA FindKeeps ==
    ASSUME TypeInv, ServerInv, NEW t \in Turns, FindConversation(t) PROVE ServerInv'
<1>1. /\ Others(t) /\ turn[t].at = "open" /\ turn'[t].at = "gather"
      /\ turn'[t].thread \in Turns /\ turn'[t].saving
      /\ turn'[t].pieces = turn[t].pieces /\ turn'[t].called = turn[t].called
      /\ UNCHANGED <<thread, aiRequest, hit>>
  BY FindFacts DEF FindConversation
<1>2. Course(t) /\ Rows(t) BY DEF ServerInv
<1>3. Grows /\ OnlyNew(t, "USER") BY <1>1, SameThreads
<1>4. NoAnswer(t) => NoAnswer(t)' BY <1>3, NoAnswerStays
<1>5. Course(t)' BY <1>1, <1>2, <1>4 DEF Course
<1>6. Rows(t)' BY <1>1, <1>2 DEF Course, Rows
<1> QED BY <1>1, <1>3, <1>5, <1>6, OwnStep

LEMMA SaveKeeps ==
    ASSUME TypeInv, ServerInv, NEW t \in Turns, SaveQuestion(t) PROVE ServerInv'
<1>1. turn[t].saving /\ UNCHANGED <<aiRequest, hit>> BY DEF SaveQuestion
<1>2. /\ Others(t) /\ turn'[t].at = turn[t].at
      /\ turn'[t].thread = turn[t].thread /\ ~turn'[t].saving
      /\ turn'[t].pieces = turn[t].pieces /\ turn'[t].called = turn[t].called
  BY SaveFacts DEF SaveQuestion
<1>3. Course(t) /\ Rows(t) BY DEF ServerInv
<1>4. turn[t].at \in {"gather", "throw", "over"} /\ turn[t].thread \in Turns
  BY <1>1, <1>3 DEF Course
<1>5. PICK m : m = [role |-> "USER", turn |-> t, question |-> turn[t].question, pieces |-> 0]
  OBVIOUS
<1>6. m \in Message /\ m.turn = t /\ m.role = "USER" BY <1>4, <1>5, MessageTypes
<1>7. thread' = [thread EXCEPT ![turn[t].thread] = Append(@, m)] BY <1>5 DEF SaveQuestion
<1>8. Grows /\ OnlyNew(t, "USER")
  <2>1. Grows /\ OnlyNew(t, m.role) BY <1>4, <1>6, <1>7, Appends
  <2> QED BY <1>6, <2>1 DEF OnlyNew
<1>9. Asked(t)'
  <2>1. PICK j \in DOMAIN thread'[turn[t].thread] : thread'[turn[t].thread][j] = m
    BY <1>4, <1>6, <1>7, Appends
  <2> QED BY <1>2, <1>4, <1>6, <2>1 DEF Asked
<1>10. NoAnswer(t) => NoAnswer(t)' BY <1>8, NoAnswerStays
<1>11. Course(t)' BY <1>2, <1>3, <1>4, <1>9, <1>10 DEF Course
<1>12. Rows(t)' BY <1>1, <1>2, <1>3, <1>4, <1>10 DEF Rows
<1> QED BY <1>1, <1>2, <1>8, <1>11, <1>12, OwnStep

LEMMA GateKeeps ==
    ASSUME TypeInv, ServerInv, NEW t \in Turns, Gate(t) PROVE ServerInv'
<1>1. /\ turn[t].at = "gather" /\ ~turn[t].saving
      /\ UNCHANGED <<thread, aiRequest, hit>>
  BY DEF Gate, At
<1>2. PICK a \in {"refuse", "cite"} : Go(t, a) BY DEF Gate
<1>3. Others(t) /\ Same(t) /\ turn'[t].at = a BY <1>2, GoFacts DEF Step
<1>4. Course(t) /\ Rows(t) BY DEF ServerInv
<1>5. Grows /\ OnlyNew(t, "USER") BY <1>1, SameThreads
<1>6. NoAnswer(t) => NoAnswer(t)' BY <1>5, NoAnswerStays
<1>7. Asked(t) => Asked(t)' BY <1>3, <1>5, AskedStays DEF Same
<1>8. Course(t)' BY <1>1, <1>3, <1>4, <1>6, <1>7 DEF Course, Same
<1>9. Rows(t)' BY <1>1, <1>3, <1>4 DEF Course, Rows, Same
<1> QED BY <1>1, <1>3, <1>5, <1>8, <1>9, OwnStep

\* StoreRefusal and StoreAnswer.
LEMMA AnswerKeeps ==
    ASSUME TypeInv, ServerInv, NEW t \in Turns, NEW a, Answered(t), Go(t, a),
           \/ turn[t].at = "refuse" /\ a = "refused"
           \/ turn[t].at = "store" /\ a = "stored",
           UNCHANGED <<aiRequest, hit>>
    PROVE  ServerInv'
<1>1. Others(t) /\ Same(t) /\ turn'[t].at = a BY GoFacts DEF Step
<1>2. Course(t) /\ Rows(t) BY DEF ServerInv
<1>3. turn[t].thread \in Turns /\ Asked(t) /\ turn[t].at # "unused" /\ ~turn[t].saving
  BY <1>2 DEF Course
<1>4. PICK m : m = [role |-> "ASSISTANT", turn |-> t, question |-> turn[t].question,
                    pieces |-> turn[t].pieces]
  OBVIOUS
<1>5. m \in Message /\ m.turn = t /\ m.role = "ASSISTANT" /\ m.pieces = turn[t].pieces
  BY <1>3, <1>4, MessageTypes
<1>6. thread' = [thread EXCEPT ![turn[t].thread] = Append(@, m)] BY <1>4 DEF Answered
<1>7. Grows /\ OnlyNew(t, "ASSISTANT")
  <2>1. Grows /\ OnlyNew(t, m.role) BY <1>3, <1>5, <1>6, Appends
  <2> QED BY <1>5, <2>1 DEF OnlyNew
<1>8. Kept(t, turn[t].pieces)'
  <2>1. PICK j \in DOMAIN thread'[turn[t].thread] : thread'[turn[t].thread][j] = m
    BY <1>3, <1>5, <1>6, Appends
  <2> QED BY <1>1, <1>3, <1>5, <2>1 DEF Kept, Same
<1>9. Asked(t)' BY <1>1, <1>3, <1>7, AskedStays DEF Same
<1>10. Course(t)' BY <1>1, <1>2, <1>3, <1>8, <1>9 DEF Course, Same
<1>11. Rows(t)'
  <2>1. \A i \in DOMAIN aiRequest[t] : aiRequest[t][i] # "FAILED" BY <1>2 DEF Rows
  <2> QED BY <1>1, <1>2, <2>1 DEF Rows, Course, Same
<1> QED BY <1>1, <1>3, <1>7, <1>10, <1>11, OwnStep

LEMMA CallKeeps ==
    ASSUME TypeInv, ServerInv, NEW t \in Turns, turn[t].at = "cite",
           turn' = [turn EXCEPT ![t].at = "stream", ![t].called = TRUE],
           UNCHANGED <<thread, aiRequest, hit>>
    PROVE  ServerInv'
<1>1. /\ Others(t) /\ turn'[t].at = "stream"
      /\ turn'[t].thread = turn[t].thread /\ turn'[t].saving = turn[t].saving
      /\ turn'[t].pieces = turn[t].pieces
  BY CallFacts
<1>2. Course(t) /\ Rows(t) BY DEF ServerInv
<1>3. Grows /\ OnlyNew(t, "USER") BY SameThreads
<1>4. NoAnswer(t) => NoAnswer(t)' BY <1>3, NoAnswerStays
<1>5. Asked(t) => Asked(t)' BY <1>1, <1>3, AskedStays
<1>6. Course(t)' BY <1>1, <1>2, <1>4, <1>5 DEF Course
<1>7. Rows(t)' BY <1>1, <1>2 DEF Rows
<1> QED BY <1>1, <1>3, <1>6, <1>7, OwnStep

LEMMA PieceKeeps ==
    ASSUME TypeInv, ServerInv, NEW t \in Turns, turn[t].at = "stream",
           turn[t].pieces < MaxPieces, turn' = [turn EXCEPT ![t].pieces = @ + 1],
           UNCHANGED <<thread, aiRequest, hit>>
    PROVE  ServerInv'
<1>1. /\ Others(t) /\ turn'[t].at = "stream"
      /\ turn'[t].thread = turn[t].thread /\ turn'[t].saving = turn[t].saving
      /\ turn'[t].called = turn[t].called
  BY PieceFacts
<1>2. Course(t) /\ Rows(t) BY DEF ServerInv
<1>3. Grows /\ OnlyNew(t, "USER") BY SameThreads
<1>4. NoAnswer(t) => NoAnswer(t)' BY <1>3, NoAnswerStays
<1>5. Asked(t) => Asked(t)' BY <1>1, <1>3, AskedStays
<1>6. Course(t)' BY <1>1, <1>2, <1>4, <1>5 DEF Course
<1>7. Rows(t)' BY <1>1, <1>2 DEF Rows
<1> QED BY <1>1, <1>3, <1>6, <1>7, OwnStep

LEMMA RecordKeeps ==
    ASSUME TypeInv, ServerInv, NEW t \in Turns, RecordRequest(t) PROVE ServerInv'
<1>1. turn[t].at \in {"record", "abandon", "failing"} /\ UNCHANGED <<thread, hit>>
  BY DEF RecordRequest
<1>2. PICK a \in {"store", "close", "throw"} :
        /\ Go(t, a)
        /\ \/ turn[t].at = "record" /\ a = "store"
           \/ turn[t].at = "abandon" /\ a = "close"
           \/ turn[t].at = "failing" /\ a = "throw"
  <2>1. CASE turn[t].at = "record" BY <2>1 DEF RecordRequest, At
  <2>2. CASE turn[t].at = "abandon" BY <2>2 DEF RecordRequest, At
  <2>3. CASE turn[t].at = "failing" BY <2>3 DEF RecordRequest, At
  <2> QED BY <1>1, <2>1, <2>2, <2>3
<1>3. Others(t) /\ Same(t) /\ turn'[t].at = a BY <1>2, GoFacts DEF Step
<1>4. Course(t) /\ Rows(t) BY DEF ServerInv
<1>5. aiRequest[t] = <<>> /\ NoAnswer(t) /\ turn[t].thread \in Turns /\ Asked(t)
      /\ ~turn[t].saving
  BY <1>1, <1>4 DEF Course, Rows
<1>6. /\ aiRequest'[t] = <<Status(t)>>
      /\ Status(t) = "FAILED" => a = "throw"
      /\ \A s \in Turns \ {t} : aiRequest'[s] = aiRequest[s]
  BY <1>2, <1>5, NewRow DEF Status, At
<1>7. Grows /\ OnlyNew(t, "USER") BY <1>1, SameThreads
<1>8. NoAnswer(t)' BY <1>5, <1>7, NoAnswerStays
<1>9. Asked(t)' BY <1>3, <1>5, <1>7, AskedStays DEF Same
<1>10. Course(t)' BY <1>3, <1>4, <1>5, <1>8, <1>9 DEF Course, Same
<1>11. Rows(t)'
  <2>1. /\ Len(aiRequest'[t]) = 1 /\ DOMAIN aiRequest'[t] = {1}
        /\ aiRequest'[t][1] = Status(t) /\ aiRequest'[t] # <<>>
    BY <1>6
  <2>2. a = "throw" \/ Status(t) # "FAILED" BY <1>6
  <2> QED BY <1>3, <1>5, <1>8, <2>1, <2>2 DEF Rows, Same
<1> QED BY <1>1, <1>3, <1>6, <1>7, <1>10, <1>11, OwnStep

LEMMA SaveFailsKeeps ==
    ASSUME TypeInv, ServerInv, NEW t \in Turns, turn[t].saving,
           turn' = [turn EXCEPT ![t].saving = FALSE,
                                ![t].at = IF @ = "gather" THEN "throw" ELSE @],
           UNCHANGED <<thread, aiRequest>>, hit \subseteq hit'
    PROVE  ServerInv'
<1>1. /\ Others(t) /\ turn'[t].thread = turn[t].thread /\ ~turn'[t].saving
      /\ turn'[t].pieces = turn[t].pieces /\ turn'[t].called = turn[t].called
  BY SaveFailsFacts
<1>2. turn'[t].at = IF turn[t].at = "gather" THEN "throw" ELSE turn[t].at BY SaveFailsFacts
<1>3. Course(t) /\ Rows(t) BY DEF ServerInv
<1>4. Grows /\ OnlyNew(t, "USER") BY SameThreads
<1>5. NoAnswer(t) => NoAnswer(t)' BY <1>4, NoAnswerStays
<1>6. turn[t].at \in {"gather", "throw", "over"} BY <1>3 DEF Course
<1>7. turn'[t].at \in {"throw", "over"} /\ (turn'[t].at = "over" <=> turn[t].at = "over")
  BY <1>2, <1>6
<1>8. Course(t)' BY <1>1, <1>3, <1>5, <1>6, <1>7 DEF Course
<1>9. Rows(t)'
  <2>1. CASE turn[t].at = "gather"
    <3>1. aiRequest[t] = <<>> /\ ~turn[t].called BY <1>3, <2>1 DEF Rows, Course
    <3> QED BY <1>1, <1>7, <3>1 DEF Rows
  <2>2. CASE turn[t].at # "gather"
    <3>1. turn'[t].at = turn[t].at BY <1>2, <2>2
    <3> QED BY <1>1, <1>3, <1>5, <3>1 DEF Rows
  <2> QED BY <2>1, <2>2
<1> QED BY <1>1, <1>4, <1>8, <1>9, OwnStep

LEMMA DiesKeeps ==
    ASSUME TypeInv, ServerInv, NEW t \in Turns,
           turn' = [turn EXCEPT ![t].at = "over", ![t].saving = FALSE],
           UNCHANGED <<thread, aiRequest>>, hit \subseteq hit', t \in hit'
    PROVE  ServerInv'
<1>1. /\ Others(t) /\ turn'[t].thread = turn[t].thread /\ ~turn'[t].saving
      /\ turn'[t].at = "over"
  BY DiesFacts
<1>2. Course(t) /\ Rows(t) BY DEF ServerInv
<1>3. Grows /\ OnlyNew(t, "USER") BY SameThreads
<1>4. NoAnswer(t) => NoAnswer(t)' BY <1>3, NoAnswerStays
<1>5. Course(t)' BY <1>1 DEF Course
<1>6. Rows(t)' BY <1>1, <1>2, <1>4 DEF Rows
<1> QED BY <1>1, <1>3, <1>5, <1>6, OwnStep

LEMMA SendKeeps ==
    ASSUME TypeInv, ServerInv, NEW c \in Chats, NEW t \in Turns, NEW q \in Turns,
           Send(c, t, q)
    PROVE  ServerInv'
<1>1. /\ Others(t) /\ turn[t].at = "unused" /\ turn'[t].at = "preflight"
      /\ ~turn'[t].saving /\ turn'[t].pieces = 0 /\ ~turn'[t].called
      /\ UNCHANGED <<thread, aiRequest, hit>>
  BY SendFacts DEF Send
<1>2. Course(t) /\ Rows(t) BY DEF ServerInv
<1>3. Grows /\ OnlyNew(t, "USER") BY <1>1, SameThreads
<1>4. NoAnswer(t)' /\ aiRequest[t] = <<>>
  BY <1>1, <1>2, <1>3, NoAnswerStays DEF Course, Rows
<1>5. Course(t)' BY <1>1, <1>4 DEF Course
<1>6. Rows(t)' BY <1>1, <1>2, <1>4 DEF Rows
<1> QED BY <1>1, <1>3, <1>5, <1>6, OwnStep

-----------------------------------------------------------------------------
LEMMA TurnStepKeeps ==
    ASSUME TypeInv, ServerInv, NEW t \in Turns,
           ServerStep(t) \/ StreamPiece(t) \/ StreamEnds(t)
    PROVE  ServerInv'
<1>1. CASE Preflight(t)
  <2>1. turn[t].at = "preflight" /\ UNCHANGED <<thread, aiRequest, hit>>
    BY <1>1 DEF Preflight, At
  <2>2. PICK a \in {"over", "open"} : Go(t, a) BY <1>1 DEF Preflight
  <2>3. Others(t) /\ Same(t) /\ turn'[t].at = a BY <2>2, GoFacts DEF Step
  <2>4. Edge(turn[t].at, turn'[t].at, t \in hit') BY <2>1, <2>3 DEF Edge
  <2> QED BY <2>1, <2>3, <2>4, MovesAll
<1>2. CASE Retrieve(t)
  <2>1. UNCHANGED <<thread, aiRequest, hit>> BY <1>2 DEF Retrieve
  <2>2. /\ Others(t) /\ Same(t) /\ turn[t].at = "gather"
        /\ turn'[t].at \in {"gather", "throw"}
    BY <1>2, RetrieveFacts
  <2>3. Edge(turn[t].at, turn'[t].at, t \in hit') BY <2>2 DEF Edge
  <2> QED BY <2>1, <2>2, <2>3, MovesAll
<1>3. CASE StoreRefusal(t)
  BY <1>3, AnswerKeeps DEF StoreRefusal, At
<1>4. CASE StoreAnswer(t)
  BY <1>4, AnswerKeeps DEF StoreAnswer, At
<1>5. CASE SendRefusal(t)
  <2>1. turn[t].at = "refused" /\ UNCHANGED <<thread, aiRequest, hit>>
    BY <1>5 DEF SendRefusal, At
  <2>2. PICK a \in {"stored", "close"} : Go(t, a) BY <1>5 DEF SendRefusal, Emit
  <2>3. Others(t) /\ Same(t) /\ turn'[t].at = a BY <2>2, GoFacts DEF Step
  <2>4. Edge(turn[t].at, turn'[t].at, t \in hit') BY <2>1, <2>3 DEF Edge
  <2> QED BY <2>1, <2>3, <2>4, MovesAll
<1>6. CASE SendCitations(t)
  <2>1. turn[t].at = "cite" /\ UNCHANGED <<thread, aiRequest, hit>>
    BY <1>6 DEF SendCitations, At
  <2>2. CASE turn' = [turn EXCEPT ![t].at = "stream", ![t].called = TRUE]
    BY <2>1, <2>2, CallKeeps
  <2>3. CASE Go(t, "close")
    <3>1. Others(t) /\ Same(t) /\ turn'[t].at = "close" BY <2>3, GoFacts DEF Step
    <3>2. Edge(turn[t].at, turn'[t].at, t \in hit') BY <2>1, <3>1 DEF Edge
    <3> QED BY <2>1, <3>1, <3>2, MovesAll
  <2> QED BY <1>6, <2>2, <2>3 DEF SendCitations, Emit
<1>7. CASE SendDone(t)
  <2>1. turn[t].at = "stored" /\ UNCHANGED <<thread, aiRequest, hit>> /\ Go(t, "close")
    BY <1>7 DEF SendDone, At, Emit
  <2>2. Others(t) /\ Same(t) /\ turn'[t].at = "close" BY <2>1, GoFacts DEF Step
  <2>3. Edge(turn[t].at, turn'[t].at, t \in hit') BY <2>1, <2>2 DEF Edge
  <2> QED BY <2>1, <2>2, <2>3, MovesAll
<1>8. CASE CloseStream(t)
  <2>1. /\ turn[t].at \in {"throw", "close"} /\ Go(t, "over")
        /\ UNCHANGED <<thread, aiRequest, hit>>
    BY <1>8 DEF CloseStream
  <2>2. Others(t) /\ Same(t) /\ turn'[t].at = "over" BY <2>1, GoFacts DEF Step
  <2>3. Edge(turn[t].at, turn'[t].at, t \in hit') BY <2>1, <2>2 DEF Edge
  <2> QED BY <2>1, <2>2, <2>3, MovesAll
<1>9. CASE StreamPiece(t)
  <2>1. /\ turn[t].at = "stream" /\ turn[t].pieces < MaxPieces
        /\ UNCHANGED <<thread, aiRequest, hit>>
    BY <1>9 DEF StreamPiece, At
  <2>2. CASE turn' = [turn EXCEPT ![t].pieces = @ + 1] BY <2>1, <2>2, PieceKeeps
  <2>3. CASE Go(t, "abandon")
    <3>1. Others(t) /\ Same(t) /\ turn'[t].at = "abandon" BY <2>3, GoFacts DEF Step
    <3>2. Edge(turn[t].at, turn'[t].at, t \in hit') BY <2>1, <3>1 DEF Edge
    <3> QED BY <2>1, <3>1, <3>2, MovesAll
  <2> QED BY <1>9, <2>2, <2>3 DEF StreamPiece, Emit
<1>10. CASE StreamEnds(t)
  <2>1. turn[t].at = "stream" /\ UNCHANGED <<thread, aiRequest, hit>>
    BY <1>10 DEF StreamEnds, At
  <2>2. PICK a \in {"record", "failing"} : Go(t, a) BY <1>10 DEF StreamEnds
  <2>3. Others(t) /\ Same(t) /\ turn'[t].at = a BY <2>2, GoFacts DEF Step
  <2>4. Edge(turn[t].at, turn'[t].at, t \in hit') BY <2>1, <2>3 DEF Edge
  <2> QED BY <2>1, <2>3, <2>4, MovesAll
<1> QED BY <1>1, <1>2, <1>3, <1>4, <1>5, <1>6, <1>7, <1>8, <1>9, <1>10,
           FindKeeps, SaveKeeps, GateKeeps, RecordKeeps DEF ServerStep

LEMMA FaultKeeps ==
    ASSUME TypeInv, ServerInv, NEW t \in Turns,
           StatementFails(t) \/ ServerDies(t) \/ ConnectionLost(t)
    PROVE  ServerInv'
<1>1. hit \subseteq hit' /\ t \in hit' /\ UNCHANGED <<thread, aiRequest>>
  BY DEF StatementFails, ServerDies, ConnectionLost, Fault
<1>2. CASE /\ turn[t].at \in {"open", "refuse", "store", "record", "abandon", "failing"}
           /\ Go(t, AfterFailure(t))
  <2>1. PICK a \in {"store", "close", "throw"} : Go(t, a) /\ a = AfterFailure(t)
    BY <1>2 DEF AfterFailure, At
  <2>2. Others(t) /\ Same(t) /\ turn'[t].at = a BY <2>1, GoFacts DEF Step
  <2>3. Edge(turn[t].at, a, TRUE)
    <3>1. CASE turn[t].at = "record" BY <2>1, <3>1 DEF AfterFailure, At, Edge
    <3>2. CASE turn[t].at = "abandon" BY <2>1, <3>2 DEF AfterFailure, At, Edge
    <3>3. CASE turn[t].at \in {"open", "refuse", "store", "failing"}
      BY <2>1, <3>3 DEF AfterFailure, At, Edge
    <3> QED BY <1>2, <3>1, <3>2, <3>3
  <2>4. Edge(turn[t].at, turn'[t].at, t \in hit') BY <1>1, <2>2, <2>3 DEF Edge
  <2> QED BY <1>1, <2>2, <2>4, MovesAll
<1>3. CASE /\ turn[t].saving
           /\ turn' = [turn EXCEPT ![t].saving = FALSE,
                                   ![t].at = IF @ = "gather" THEN "throw" ELSE @]
  BY <1>1, <1>3, SaveFailsKeeps
<1>4. CASE ServerDies(t) BY <1>1, <1>4, DiesKeeps DEF ServerDies
<1>5. CASE ConnectionLost(t)
  <2>1. Others(t) /\ Same(t) /\ turn'[t].at = turn[t].at
    BY <1>5 DEF ConnectionLost, Others, Same, TypeInv
  <2>2. Edge(turn[t].at, turn'[t].at, t \in hit') BY <2>1 DEF Edge
  <2> QED BY <1>1, <2>1, <2>2, MovesAll
<1> QED BY <1>2, <1>3, <1>4, <1>5 DEF StatementFails

LEMMA ServerUnchanged ==
    ASSUME ServerInv, UNCHANGED <<thread, turn, aiRequest, hit>> PROVE ServerInv'
BY DEF ServerInv, Course, Rows, Paired, Asked, NoAnswer, Kept

LEMMA ServerInvStep == TypeInv /\ ServerInv /\ [Next]_vars => ServerInv'
<1> SUFFICES ASSUME TypeInv, ServerInv, [Next]_vars PROVE ServerInv' OBVIOUS
<1>1. CASE UNCHANGED vars BY <1>1, ServerUnchanged DEF vars
<1>2. ASSUME NEW c \in Chats,
             \/ \E t \in Turns : Ask(c, t) \/ TryAgain(c, t)
             \/ \E id \in Turns \cup {None} : Switch(c, id)
             \/ Resync(c) \/ Read(c) \/ IdleTimeout(c) \/ Interrupted(c)
      PROVE  ServerInv'
  <2>1. ASSUME NEW t \in Turns, TryAgain(c, t) PROVE ServerInv'
    <3>1. chat[c].retryable \in Turns BY <2>1, FieldTypes DEF TryAgain, TypeInv
    <3> QED BY <2>1, <3>1, SendKeeps DEF TryAgain
  <2>2. ASSUME NEW t \in Turns, Ask(c, t) PROVE ServerInv' BY <2>2, SendKeeps DEF Ask
  <2>3. CASE \/ \E id \in Turns \cup {None} : Switch(c, id)
             \/ Resync(c) \/ Read(c) \/ IdleTimeout(c) \/ Interrupted(c)
    <3>1. UNCHANGED <<thread, turn, aiRequest, hit>>
      BY <2>3 DEF Switch, Resync, Read, IdleTimeout, Interrupted
    <3> QED BY <3>1, ServerUnchanged
  <2> QED BY <1>2, <2>1, <2>2, <2>3
<1>3. CASE Next BY <1>2, <1>3, TurnStepKeeps, FaultKeeps DEF Next
<1> QED BY <1>1, <1>3

-----------------------------------------------------------------------------
(* Events on their way *)

Has(ev, e) == \E i \in DOMAIN ev : ev[i] = e
Deltas(ev) == {i \in DOMAIN ev : ev[i] = "delta"}
Count(ev) == Cardinality(Deltas(ev))
Marks == {"done", "error", "insufficient_evidence"}
Marked(ev) == \E i \in DOMAIN ev : ev[i] \in Marks

\* No piece comes after the end of an answer.
Ordered(ev) ==
    \A i, j \in DOMAIN ev :
        i < j /\ ev[j] = "delta" => ev[i] \notin {"done", "insufficient_evidence"}

\* The end of the stream comes after a word about the answer.
Announced(ev) ==
    \A i \in DOMAIN ev : ev[i] = "end" => \E j \in 1..(i - 1) : ev[j] \in Marks

\* new is ev and the events sent, as far as the invariant looks at them.
Extends(ev, new, sent) ==
    /\ \A e \in Event : Has(new, e) <=> Has(ev, e) \/ e \in sent
    /\ Count(new) = IF "delta" \in sent THEN Count(ev) + 1 ELSE Count(ev)
    /\ /\ Ordered(ev)
       /\ "delta" \in sent => ~Has(ev, "done") /\ ~Has(ev, "insufficient_evidence")
       => Ordered(new)
    /\ /\ Announced(ev)
       /\ "end" \in sent => Marked(ev) \/ "error" \in sent
       => Announced(new)
    /\ Marked(ev) \/ sent \cap Marks # {} => Marked(new)

LEMMA CountType ==
    ASSUME NEW ev \in Seq(Event)
    PROVE  /\ IsFiniteSet(Deltas(ev)) /\ Count(ev) \in Nat
           /\ Count(ev) = 0 <=> Deltas(ev) = {}
<1>1. DOMAIN ev = 1..Len(ev) /\ Len(ev) \in Nat OBVIOUS
<1>2. IsFiniteSet(1..Len(ev)) BY <1>1, FS_Interval
<1>3. Deltas(ev) \subseteq 1..Len(ev) BY <1>1 DEF Deltas
<1>4. IsFiniteSet(Deltas(ev)) BY <1>2, <1>3, FS_Subset
<1> QED BY <1>4, FS_CardinalityType, FS_EmptySet DEF Count

LEMMA ExtendsByOne ==
    ASSUME NEW ev \in Seq(Event), NEW e \in Event
    PROVE  Extends(ev, ev \o <<e>>, {e})
<1>1. PICK n : n = ev \o <<e>> OBVIOUS
<1>2. PICK k \in Nat : k = Len(ev) OBVIOUS
<1>3. /\ n \in Seq(Event) /\ DOMAIN ev = 1..k /\ DOMAIN n = 1..(k + 1)
      /\ n[k + 1] = e /\ \A i \in 1..k : n[i] = ev[i]
  BY <1>1, <1>2
<1>4. \A x \in Event : Has(n, x) <=> Has(ev, x) \/ x \in {e} BY <1>3 DEF Has
<1>5. Count(n) = IF e = "delta" THEN Count(ev) + 1 ELSE Count(ev)
  <2>1. CASE e = "delta"
    <3>1. Deltas(n) = Deltas(ev) \cup {k + 1} BY <1>3, <2>1 DEF Deltas
    <3>2. k + 1 \notin Deltas(ev) BY <1>3 DEF Deltas
    <3> QED BY <2>1, <3>1, <3>2, CountType, FS_AddElement DEF Count
  <2>2. CASE e # "delta"
    <3>1. Deltas(n) = Deltas(ev) BY <1>3, <2>2 DEF Deltas
    <3> QED BY <2>2, <3>1 DEF Count
  <2> QED BY <2>1, <2>2
<1>6. ASSUME Ordered(ev), e = "delta" => ~Has(ev, "done") /\ ~Has(ev, "insufficient_evidence")
      PROVE  Ordered(n)
  <2>1. SUFFICES ASSUME NEW i \in DOMAIN n, NEW j \in DOMAIN n, i < j, n[j] = "delta"
                 PROVE  n[i] \notin {"done", "insufficient_evidence"}
    BY DEF Ordered
  <2>2. i \in DOMAIN ev /\ n[i] = ev[i] BY <1>3, <2>1
  <2>3. CASE j = k + 1 BY <1>3, <1>6, <2>1, <2>2, <2>3 DEF Has
  <2>4. CASE j # k + 1
    <3>1. j \in DOMAIN ev /\ n[j] = ev[j] BY <1>3, <2>1, <2>4
    <3> QED BY <1>6, <2>1, <2>2, <3>1 DEF Ordered
  <2> QED BY <2>3, <2>4
<1>7. ASSUME Announced(ev), e = "end" => Marked(ev)
      PROVE  Announced(n)
  <2>1. SUFFICES ASSUME NEW i \in DOMAIN n, n[i] = "end"
                 PROVE  \E j \in 1..(i - 1) : n[j] \in Marks
    BY DEF Announced
  <2>2. CASE i = k + 1
    <3>1. PICK j \in DOMAIN ev : ev[j] \in Marks BY <1>3, <1>7, <2>1, <2>2 DEF Marked
    <3> QED BY <1>3, <2>2, <3>1
  <2>3. CASE i # k + 1
    <3>1. i \in DOMAIN ev /\ n[i] = ev[i] BY <1>3, <2>1, <2>3
    <3>2. PICK j \in 1..(i - 1) : ev[j] \in Marks BY <1>7, <2>1, <3>1 DEF Announced
    <3> QED BY <1>3, <3>1, <3>2
  <2> QED BY <2>2, <2>3
<1>8. Marked(ev) \/ {e} \cap Marks # {} => Marked(n) BY <1>3 DEF Marked
<1>9. "error" \in {e} => e # "end" OBVIOUS
<1> QED BY <1>1, <1>4, <1>5, <1>6, <1>7, <1>8, <1>9 DEF Extends

LEMMA ExtendsByNone ==
    ASSUME NEW ev \in Seq(Event)
    PROVE  Extends(ev, ev, {})
BY DEF Extends, Marked

\* The end of the stream: a lemma about two events follows from one about each.
LEMMA ExtendsByClose ==
    ASSUME NEW ev \in Seq(Event)
    PROVE  Extends(ev, ev \o <<"error", "end">>, {"error", "end"})
<1>1. PICK m : m = ev \o <<"error">> OBVIOUS
<1>2. m \in Seq(Event) BY <1>1 DEF Event
<1>3. PICK n : n = m \o <<"end">> OBVIOUS
<1>4. n = ev \o <<"error", "end">> BY <1>1, <1>3
<1>5. Extends(ev, m, {"error"}) BY <1>1, ExtendsByOne DEF Event
<1>6. Extends(m, n, {"end"}) BY <1>2, <1>3, ExtendsByOne DEF Event
<1>7. Marked(m) BY <1>5 DEF Extends, Marks
<1>8. \A e \in Event : Has(n, e) <=> Has(ev, e) \/ e \in {"error", "end"}
  BY <1>5, <1>6 DEF Extends
<1>9. Count(n) = Count(ev) BY <1>5, <1>6 DEF Extends
<1>10. Ordered(ev) => Ordered(n) BY <1>5, <1>6 DEF Extends
<1>11. Announced(ev) => Announced(n) BY <1>5, <1>6, <1>7 DEF Extends
<1>12. Marked(n) BY <1>6, <1>7 DEF Extends
<1> QED BY <1>4, <1>8, <1>9, <1>10, <1>11, <1>12 DEF Extends

\* The events that are left when the first one has been read.
LEMMA Rest ==
    ASSUME NEW ev \in Seq(Event), ev # <<>>
    PROVE  LET h == Head(ev)  r == Tail(ev)
           IN  /\ \A e \in Event : Has(ev, e) <=> h = e \/ Has(r, e)
               /\ Count(ev) = IF h = "delta" THEN Count(r) + 1 ELSE Count(r)
               /\ Ordered(ev) => Ordered(r)
               /\ Ordered(ev) /\ h \in {"done", "insufficient_evidence"} => Count(r) = 0
               /\ Announced(ev) => h # "end"
               /\ Announced(ev) /\ h \notin Marks => Announced(r)
               /\ Marked(ev) /\ h \notin Marks => Marked(r)
<1>1. PICK h : h = Head(ev) OBVIOUS
<1>2. PICK r \in Seq(Event) : r = Tail(ev)
  <2>1. Tail(ev) \in Seq(Event) OBVIOUS
  <2> QED BY <2>1
<1>3. PICK k \in Nat : k = Len(r) OBVIOUS
<1>4. /\ DOMAIN r = 1..k /\ DOMAIN ev = 1..(k + 1) /\ ev[1] = h
      /\ \A i \in 1..k : r[i] = ev[i + 1]
  BY <1>1, <1>2, <1>3
<1>5. \A i \in 2..(k + 1) : i - 1 \in 1..k /\ ev[i] = r[i - 1] BY <1>4
<1>6. \A e \in Event : Has(ev, e) <=> h = e \/ Has(r, e)
  <2>1. SUFFICES ASSUME NEW e \in Event PROVE Has(ev, e) <=> h = e \/ Has(r, e) OBVIOUS
  <2>2. ASSUME Has(ev, e), h # e PROVE Has(r, e)
    <3>1. PICK i \in DOMAIN ev : ev[i] = e BY <2>2 DEF Has
    <3>2. i \in 2..(k + 1) BY <1>4, <2>2, <3>1
    <3> QED BY <1>4, <1>5, <3>1, <3>2 DEF Has
  <2>3. ASSUME Has(r, e) PROVE Has(ev, e)
    <3>1. PICK i \in DOMAIN r : r[i] = e BY <2>3 DEF Has
    <3>2. i + 1 \in DOMAIN ev /\ ev[i + 1] = e BY <1>4, <3>1
    <3> QED BY <3>2 DEF Has
  <2>4. h = e => Has(ev, e) BY <1>4 DEF Has
  <2> QED BY <2>2, <2>3, <2>4
<1>7. Count(ev) = IF h = "delta" THEN Count(r) + 1 ELSE Count(r)
  <2>1. PICK later : later = Deltas(ev) \ {1} OBVIOUS
  <2>2. later \subseteq 2..(k + 1) BY <1>4, <2>1 DEF Deltas
  <2>3. Cardinality(later) = Count(r)
    <3>1. PICK f : f = [i \in Deltas(r) |-> i + 1] OBVIOUS
    <3>2. f \in Bijection(Deltas(r), later)
      <4>1. Deltas(r) \subseteq 1..k BY <1>4 DEF Deltas
      <4>2. \A i \in Deltas(r) : f[i] = i + 1 BY <3>1
      <4>3. \A i \in Deltas(r) : f[i] \in later
        BY <1>4, <2>1, <4>1, <4>2 DEF Deltas
      <4>4. \A i, j \in Deltas(r) : f[i] = f[j] => i = j BY <4>1, <4>2
      <4>5. ASSUME NEW j \in later PROVE \E i \in Deltas(r) : f[i] = j
        <5>1. j \in 2..(k + 1) /\ ev[j] = "delta" BY <2>1, <2>2 DEF Deltas
        <5>2. j - 1 \in Deltas(r) BY <1>4, <1>5, <5>1 DEF Deltas
        <5> QED BY <4>2, <5>1, <5>2
      <4>6. f \in [Deltas(r) -> later] BY <3>1, <4>2, <4>3
      <4> QED BY <4>4, <4>5, <4>6, Fun_IsBij
    <3> QED BY <3>2, CountType, FS_Bijection DEF Count, ExistsBijection
  <2>4. IsFiniteSet(Deltas(ev)) BY CountType
  <2>5. CASE h = "delta"
    <3>1. 1 \in Deltas(ev) BY <1>4, <2>5 DEF Deltas
    <3>2. Cardinality(later) = Count(ev) - 1 BY <2>1, <2>4, <3>1, FS_RemoveElement DEF Count
    <3>3. Count(ev) \in Nat /\ Count(r) \in Nat BY CountType
    <3> QED BY <2>3, <2>5, <3>2, <3>3
  <2>6. CASE h # "delta"
    <3>1. later = Deltas(ev) BY <1>4, <2>1, <2>6 DEF Deltas
    <3> QED BY <2>3, <2>6, <3>1 DEF Count
  <2> QED BY <2>5, <2>6
<1>8. ASSUME Ordered(ev) PROVE Ordered(r)
  <2>1. SUFFICES ASSUME NEW i \in DOMAIN r, NEW j \in DOMAIN r, i < j, r[j] = "delta"
                 PROVE  r[i] \notin {"done", "insufficient_evidence"}
    BY DEF Ordered
  <2>2. /\ i + 1 \in DOMAIN ev /\ j + 1 \in DOMAIN ev /\ i + 1 < j + 1
        /\ ev[i + 1] = r[i] /\ ev[j + 1] = r[j]
    BY <1>4, <2>1
  <2> QED BY <1>8, <2>1, <2>2 DEF Ordered
<1>9. ASSUME Ordered(ev), h \in {"done", "insufficient_evidence"} PROVE Count(r) = 0
  <2>1. ASSUME NEW i \in Deltas(r) PROVE FALSE
    <3>1. i \in DOMAIN r /\ r[i] = "delta" BY <2>1 DEF Deltas
    <3>2. 1 \in DOMAIN ev /\ i + 1 \in DOMAIN ev /\ 1 < i + 1 /\ ev[i + 1] = "delta"
      BY <1>4, <3>1
    <3> QED BY <1>4, <1>9, <3>2 DEF Ordered
  <2> QED BY <2>1, CountType
<1>10. ASSUME Announced(ev) PROVE h # "end"
  <2>1. 1 \in DOMAIN ev BY <1>4
  <2>2. 1..(1 - 1) = {} OBVIOUS
  <2> QED BY <1>4, <1>10, <2>1, <2>2 DEF Announced
<1>11. ASSUME Announced(ev), h \notin Marks PROVE Announced(r)
  <2>1. SUFFICES ASSUME NEW i \in DOMAIN r, r[i] = "end"
                 PROVE  \E j \in 1..(i - 1) : r[j] \in Marks
    BY DEF Announced
  <2>2. i \in 1..k /\ i + 1 \in DOMAIN ev /\ ev[i + 1] = "end" BY <1>4, <2>1
  <2>3. PICK j \in 1..i : ev[j] \in Marks
    <3>1. (i + 1) - 1 = i BY <2>2
    <3> QED BY <1>11, <2>2, <3>1 DEF Announced
  <2>4. j # 1 BY <1>4, <1>11, <2>3
  <2>5. j - 1 \in 1..(i - 1) /\ j \in 2..(k + 1) BY <2>2, <2>3, <2>4
  <2>6. r[j - 1] = ev[j] BY <1>5, <2>5
  <2> QED BY <2>3, <2>5, <2>6
<1>12. ASSUME Marked(ev), h \notin Marks PROVE Marked(r)
  <2>1. PICK i \in DOMAIN ev : ev[i] \in Marks BY <1>12 DEF Marked
  <2>2. i \in 2..(k + 1) BY <1>4, <1>12, <2>1
  <2> QED BY <1>4, <1>5, <2>1, <2>2 DEF Marked
<1> QED BY <1>1, <1>2, <1>6, <1>7, <1>8, <1>9, <1>10, <1>11, <1>12

-----------------------------------------------------------------------------
(* The page's side *)

Ended == {"stored", "close", "over"}

\* What is on its way is true of the turn.
Sent(t) ==
    LET ev == wire[t].events IN
    /\ Has(ev, "done") \/ Has(ev, "insufficient_evidence") =>
          turn[t].at \in Ended /\ Kept(t, turn[t].pieces)
    /\ Has(ev, "insufficient_evidence") => turn[t].pieces = 0
    /\ turn[t].at = "unused" => ev = <<>>
    /\ Ordered(ev)

\* The pieces on the page and on their way are the turn's, unless the connection was
\* lost; a finished draft is a stored answer.
Counted(c) ==
    LET t == chat[c].turn  draft == chat[c].draft IN
    /\ draft.pieces \in Pieces
    /\ t # None /\ draft.status # "none" =>
          /\ draft.pieces + Count(wire[t].events) <= turn[t].pieces
          /\ wire[t].up \/ Has(wire[t].events, "done") =>
                draft.pieces + Count(wire[t].events) = turn[t].pieces
    /\ draft.status \in {"done", "refused"} =>
          /\ turn[draft.of].at \in Ended /\ Kept(draft.of, draft.pieces)
          /\ t # None => Count(wire[t].events) = 0

\* The page's draft is of its own turn, and a page that waits without having offered
\* the question again will not see the stream end without a word.
Awaits(c) ==
    LET t == chat[c].turn  draft == chat[c].draft IN
    /\ t # None => turn[t].at # "unused"
    /\ draft.status # "none" =>
          draft.of \in Turns /\ turn[draft.of].at # "unused" /\ (t # None => draft.of = t)
    /\ t # None /\ draft.status = "streaming" /\ chat[c].retryable # turn[t].question =>
          /\ Announced(wire[t].events)
          /\ turn[t].at \in {"abandon", "close"} /\ wire[t].up => Marked(wire[t].events)
    /\ t = None /\ draft.status = "streaming" => chat[c].retryable = turn[draft.of].question

\* A turn has one page.
Alone == \A c, d \in Chats : chat[c].turn # None /\ chat[d].turn = chat[c].turn => c = d

PageInv ==
    /\ \A t \in Turns : Sent(t)
    /\ \A c \in Chats : Counted(c) /\ Awaits(c)
    /\ Alone

LEMMA InitPageInv == Init => PageInv
<1> SUFFICES ASSUME Init PROVE PageInv OBVIOUS
<1>1. \A t \in Turns : wire[t].events = <<>> /\ turn[t].at = "unused" BY DEF Init, Unused
<1>2. \A c \in Chats : chat[c].turn = None /\ chat[c].draft = NoDraft BY DEF Init
<1>3. NoDraft.status = "none" /\ NoDraft.pieces \in Pieces
  BY TutorAssumption DEF NoDraft, Pieces
<1>4. \A t \in Turns : Sent(t) BY <1>1 DEF Sent, Has, Ordered
<1>5. \A c \in Chats : Counted(c) BY <1>2, <1>3 DEF Counted
<1>6. \A c \in Chats : Awaits(c) BY <1>2, <1>3 DEF Awaits
<1>7. Alone BY <1>2 DEF Alone
<1> QED BY <1>4, <1>5, <1>6, <1>7 DEF PageInv

\* What a step of a turn may tell its page.
Tells(t, sent) ==
    /\ turn[t].at # "unused" /\ turn'[t].at # "unused"
    /\ turn'[t].question = turn[t].question
    /\ turn[t].at # "open" => turn'[t].thread = turn[t].thread
    /\ turn[t].at \in Ended => turn'[t].at \in Ended
    /\ turn'[t].pieces = IF "delta" \in sent THEN turn[t].pieces + 1 ELSE turn[t].pieces
    /\ wire'[t].up => wire[t].up
    /\ wire[t].up => Extends(wire[t].events, wire'[t].events, sent)
    /\ ~wire[t].up => wire'[t].events = wire[t].events
    /\ "delta" \in sent => turn[t].at \notin Ended
    /\ "done" \in sent \/ "insufficient_evidence" \in sent =>
          turn[t].at # "open" /\ turn'[t].at \in Ended /\ Kept(t, turn[t].pieces)
    /\ "insufficient_evidence" \in sent => turn[t].pieces = 0
    /\ "end" \in sent => "error" \in sent \/ turn[t].at = "close"
    /\ turn'[t].at \in {"abandon", "close"} =>
          turn[t].at \in {"abandon", "close"} \/ sent \cap Marks # {}

LEMMA SentStays ==
    ASSUME TypeInv, NEW t \in Turns, NEW sent \in SUBSET Event, Tells(t, sent), Grows, Sent(t),
           sent \cap {"done", "insufficient_evidence"} # {} => "delta" \notin sent
    PROVE  Sent(t)'
<1>1. turn[t].pieces \in Nat BY DEF TypeInv, Turn, Pieces
<1>2. \A e \in Event : Has(wire'[t].events, e) =>
          Has(wire[t].events, e) \/ e \in sent
  <2>1. CASE wire[t].up BY <2>1 DEF Tells, Extends
  <2>2. CASE ~wire[t].up
    <3>1. wire'[t].events = wire[t].events BY <2>2 DEF Tells
    <3> QED BY <3>1
  <2> QED BY <2>1, <2>2
<1>3. {"done", "insufficient_evidence", "delta"} \subseteq Event BY DEF Event
<1>4. ASSUME Has(wire'[t].events, "done") \/ Has(wire'[t].events, "insufficient_evidence")
      PROVE  turn'[t].at \in Ended /\ Kept(t, turn[t].pieces)'
  <2>1. \/ Has(wire[t].events, "done") \/ Has(wire[t].events, "insufficient_evidence")
        \/ "done" \in sent \/ "insufficient_evidence" \in sent
    BY <1>2, <1>3, <1>4
  <2>2. turn'[t].at \in Ended /\ Kept(t, turn[t].pieces) /\ turn[t].at # "open"
    BY <2>1 DEF Sent, Tells, Ended
  <2>3. "delta" \notin sent BY <2>1 DEF Sent, Tells
  <2>4. turn'[t].pieces = turn[t].pieces /\ turn'[t].thread = turn[t].thread
    BY <2>2, <2>3 DEF Tells
  <2>5. PICK p : p = turn[t].pieces OBVIOUS
  <2>6. Kept(t, p)' BY <2>2, <2>4, <2>5, KeptStays
  <2> QED BY <2>2, <2>4, <2>5, <2>6
<1>5. ASSUME Has(wire'[t].events, "insufficient_evidence") PROVE turn'[t].pieces = 0
  <2>1. Has(wire[t].events, "insufficient_evidence") \/ "insufficient_evidence" \in sent
    BY <1>2, <1>3, <1>5
  <2>2. turn[t].pieces = 0 BY <2>1 DEF Sent, Tells
  <2>3. "delta" \notin sent BY <2>1 DEF Sent, Tells
  <2> QED BY <2>2, <2>3 DEF Tells
<1>6. Ordered(wire'[t].events)
  <2>1. CASE wire[t].up
    <3>1. "delta" \in sent =>
            ~Has(wire[t].events, "done") /\ ~Has(wire[t].events, "insufficient_evidence")
      BY DEF Tells, Sent
    <3>2. Extends(wire[t].events, wire'[t].events, sent) BY <2>1 DEF Tells
    <3>3. Ordered(wire[t].events) BY DEF Sent
    <3> QED BY <3>1, <3>2, <3>3 DEF Extends
  <2>2. CASE ~wire[t].up BY <2>2 DEF Tells, Sent
  <2> QED BY <2>1, <2>2
<1>7. turn'[t].at # "unused" BY DEF Tells
<1> QED BY <1>4, <1>5, <1>6, <1>7 DEF Sent

LEMMA CountedStays ==
    ASSUME TypeInv, NEW c \in Chats, NEW t \in Turns, NEW sent \in SUBSET Event,
           Tells(t, sent), Grows, Sent(t), Counted(c), Awaits(c), Others(t), OtherWires(t),
           UNCHANGED chat, sent \cap {"done", "insufficient_evidence"} # {} => "delta" \notin sent
    PROVE  Counted(c)'
<1>1. turn[t].pieces \in Nat /\ chat[c].draft.pieces \in Nat
  BY FieldTypes DEF TypeInv, Turn, Pieces
<1>2. wire[t].events \in Seq(Event) BY DEF TypeInv, Wire
<1>3. Count(wire[t].events) \in Nat BY <1>2, CountType
<1>4. {"done", "delta"} \subseteq Event BY DEF Event
<1>5. ASSUME chat[c].draft.status \in {"done", "refused"}
      PROVE  LET of == chat[c].draft.of
             IN  turn'[of].at \in Ended /\ Kept(of, chat[c].draft.pieces)'
  <2>1. PICK of \in Turns : of = chat[c].draft.of BY <1>5 DEF Awaits
  <2>2. turn[of].at \in Ended /\ Kept(of, chat[c].draft.pieces) BY <1>5, <2>1 DEF Counted
  <2>3. turn'[of].at \in Ended /\ turn'[of].thread = turn[of].thread
    <3>1. CASE of = t BY <2>2, <3>1 DEF Tells, Ended
    <3>2. CASE of # t BY <2>2, <3>2 DEF Others
    <3> QED BY <3>1, <3>2
  <2>4. Kept(of, chat[c].draft.pieces)' BY <2>2, <2>3, KeptStays
  <2> QED BY <2>1, <2>3, <2>4
<1>6. CASE chat[c].turn # t
  <2>1. chat[c].turn # None =>
          /\ turn'[chat[c].turn] = turn[chat[c].turn]
          /\ wire'[chat[c].turn] = wire[chat[c].turn]
    BY <1>6, FieldTypes DEF TypeInv, Others, OtherWires
  <2> QED BY <1>5, <2>1 DEF Counted
<1>7. CASE chat[c].turn = t /\ chat[c].draft.status # "none"
  <2>1. Count(wire'[t].events) =
          IF wire[t].up /\ "delta" \in sent THEN Count(wire[t].events) + 1
                                            ELSE Count(wire[t].events)
    BY DEF Tells, Extends
  <2>2. chat[c].draft.pieces + Count(wire[t].events) <= turn[t].pieces
    BY <1>7, NoneIsNoTurn DEF Counted
  <2>3. turn'[t].pieces = IF "delta" \in sent THEN turn[t].pieces + 1 ELSE turn[t].pieces
    BY DEF Tells
  <2>4. chat[c].draft.pieces + Count(wire'[t].events) <= turn'[t].pieces
    BY <1>1, <1>3, <2>1, <2>2, <2>3
  <2>5. ASSUME wire'[t].up \/ Has(wire'[t].events, "done")
        PROVE  chat[c].draft.pieces + Count(wire'[t].events) = turn'[t].pieces
    <3>1. CASE wire[t].up
      <4>1. chat[c].draft.pieces + Count(wire[t].events) = turn[t].pieces
        BY <1>7, <3>1, NoneIsNoTurn DEF Counted
      <4> QED BY <1>1, <1>3, <2>1, <2>3, <3>1, <4>1
    <3>2. CASE ~wire[t].up
      <4>1. Has(wire[t].events, "done") BY <2>5, <3>2 DEF Tells
      <4>2. chat[c].draft.pieces + Count(wire[t].events) = turn[t].pieces
        BY <1>7, <4>1, NoneIsNoTurn DEF Counted
      <4>3. "delta" \notin sent BY <4>1 DEF Sent, Tells
      <4> QED BY <2>1, <2>3, <4>2, <4>3
    <3> QED BY <3>1, <3>2
  <2>6. ASSUME chat[c].draft.status \in {"done", "refused"} PROVE Count(wire'[t].events) = 0
    <3>1. chat[c].draft.of = t BY <1>7, <2>6, NoneIsNoTurn DEF Awaits
    <3>2. turn[t].at \in Ended /\ Count(wire[t].events) = 0
      BY <1>7, <2>6, <3>1, NoneIsNoTurn DEF Counted
    <3>3. "delta" \notin sent BY <3>2 DEF Tells
    <3> QED BY <2>1, <3>2, <3>3
  <2>7. chat[c].draft.pieces \in Pieces BY DEF Counted
  <2> QED BY <1>5, <1>7, <2>4, <2>5, <2>6, <2>7 DEF Counted
<1>8. CASE chat[c].turn = t /\ chat[c].draft.status = "none" BY <1>8 DEF Counted
<1> QED BY <1>6, <1>7, <1>8

LEMMA AwaitsStays ==
    ASSUME TypeInv, NEW c \in Chats, NEW t \in Turns, NEW sent \in SUBSET Event,
           Tells(t, sent), Awaits(c), Others(t), OtherWires(t), UNCHANGED chat
    PROVE  Awaits(c)'
<1>1. \A s \in Turns : turn'[s].question = turn[s].question
                       /\ (turn[s].at # "unused" => turn'[s].at # "unused")
  BY DEF Tells, Others
<1>2. CASE chat[c].turn # t
  <2>1. chat[c].turn # None =>
          /\ turn'[chat[c].turn] = turn[chat[c].turn]
          /\ wire'[chat[c].turn] = wire[chat[c].turn]
    BY <1>2, FieldTypes DEF TypeInv, Others, OtherWires
  <2> QED BY <1>1, <2>1 DEF Awaits
<1>3. CASE chat[c].turn = t
  <2>1. chat[c].turn # None BY <1>3, NoneIsNoTurn
  <2>2. ASSUME chat[c].draft.status = "streaming", chat[c].retryable # turn[t].question
        PROVE  /\ Announced(wire'[t].events)
               /\ turn'[t].at \in {"abandon", "close"} /\ wire'[t].up => Marked(wire'[t].events)
    <3>1. /\ Announced(wire[t].events)
          /\ turn[t].at \in {"abandon", "close"} /\ wire[t].up => Marked(wire[t].events)
      BY <1>3, <2>1, <2>2 DEF Awaits
    <3>2. CASE wire[t].up
      <4>1. Extends(wire[t].events, wire'[t].events, sent) BY <3>2 DEF Tells
      <4>2. "end" \in sent => Marked(wire[t].events) \/ "error" \in sent
        BY <3>1, <3>2 DEF Tells
      <4>3. Announced(wire'[t].events) BY <3>1, <4>1, <4>2 DEF Extends
      <4>4. turn'[t].at \in {"abandon", "close"} => Marked(wire[t].events) \/ sent \cap Marks # {}
        BY <3>1, <3>2 DEF Tells
      <4> QED BY <4>1, <4>3, <4>4 DEF Extends
    <3>3. CASE ~wire[t].up BY <3>1, <3>3 DEF Tells
    <3> QED BY <3>2, <3>3
  <2> QED BY <1>1, <1>3, <2>1, <2>2 DEF Awaits
<1> QED BY <1>2, <1>3

LEMMA ServerShows ==
    ASSUME TypeInv, PageInv, NEW t \in Turns, NEW sent \in SUBSET Event, Tells(t, sent),
           Others(t), OtherWires(t), UNCHANGED chat, Grows,
           sent \cap {"done", "insufficient_evidence"} # {} => "delta" \notin sent
    PROVE  PageInv'
<1>1. Sent(t)' BY SentStays DEF PageInv
<1>2. ASSUME NEW s \in Turns \ {t} PROVE Sent(s)'
  <2>1. turn'[s] = turn[s] /\ wire'[s] = wire[s] BY DEF Others, OtherWires
  <2>2. Kept(s, turn[s].pieces) => Kept(s, turn[s].pieces)' BY <2>1, KeptStays
  <2> QED BY <2>1, <2>2 DEF Sent, PageInv
<1>3. \A c \in Chats : Counted(c)' BY CountedStays DEF PageInv
<1>4. \A c \in Chats : Awaits(c)' BY AwaitsStays DEF PageInv
<1>5. Alone' BY DEF Alone, PageInv
<1> QED BY <1>1, <1>2, <1>3, <1>4, <1>5 DEF PageInv

\* A step that sends one event.
LEMMA PutTells ==
    ASSUME TypeInv, NEW t \in Turns, NEW e \in Event, Put(t, <<e>>)
    PROVE  /\ OtherWires(t) /\ wire'[t].up = wire[t].up
           /\ wire[t].up => Extends(wire[t].events, wire'[t].events, {e})
           /\ ~wire[t].up => wire'[t].events = wire[t].events
<1>1. <<e>> \in Seq(Event) OBVIOUS
<1>2. wire[t].events \in Seq(Event) BY DEF TypeInv, Wire
<1>3. /\ OtherWires(t) /\ wire'[t].up = wire[t].up
      /\ wire'[t].events = IF wire[t].up THEN wire[t].events \o <<e>> ELSE wire[t].events
  BY <1>1, PutFacts
<1>4. Extends(wire[t].events, wire[t].events \o <<e>>, {e}) BY <1>2, ExtendsByOne
<1> QED BY <1>3, <1>4

\* A step of the turn the page hears nothing of.
LEMMA QuietTells ==
    ASSUME TypeInv, PageInv, NEW t \in Turns, UNCHANGED <<wire, chat>>, Others(t), Grows,
           turn[t].at # "unused", turn'[t].at # "unused",
           turn'[t].question = turn[t].question, turn'[t].pieces = turn[t].pieces,
           turn[t].at # "open" => turn'[t].thread = turn[t].thread,
           turn[t].at \in Ended => turn'[t].at \in Ended,
           turn'[t].at \in {"abandon", "close"} => turn[t].at \in {"abandon", "close"}
    PROVE  PageInv'
<1>1. wire[t].events \in Seq(Event) BY DEF TypeInv, Wire
<1>2. Extends(wire[t].events, wire'[t].events, {}) BY <1>1, ExtendsByNone
<1>3. Tells(t, {}) BY <1>2 DEF Tells
<1>4. OtherWires(t) BY DEF OtherWires, TypeInv
<1> QED BY <1>3, <1>4, ServerShows

\* A step of the turn in which its connection ends.
LEMMA DownTells ==
    ASSUME TypeInv, PageInv, NEW t \in Turns, UNCHANGED <<thread, chat>>, Others(t),
           wire' = [wire EXCEPT ![t].up = FALSE],
           turn'[t] = turn[t] \/
              /\ turn[t].at # "unused" /\ turn'[t].at = "over"
              /\ turn'[t].question = turn[t].question /\ turn'[t].pieces = turn[t].pieces
              /\ turn'[t].thread = turn[t].thread
    PROVE  PageInv'
<1>1. OtherWires(t) /\ ~wire'[t].up /\ wire'[t].events = wire[t].events BY DownFacts
<1>2. Grows BY SameThreads
<1>3. wire[t].events \in Seq(Event) BY DEF TypeInv, Wire
<1>4. Extends(wire[t].events, wire'[t].events, {}) BY <1>1, <1>3, ExtendsByNone
<1>5. CASE turn[t].at # "unused"
  <2>1. Tells(t, {}) BY <1>1, <1>4, <1>5 DEF Tells, Ended
  <2> QED BY <1>1, <1>2, <2>1, ServerShows
<1>6. CASE turn[t].at = "unused"
  <2>1. UNCHANGED turn BY <1>6 DEF Others, TypeInv
  <2>2. \A s \in Turns : wire'[s].events = wire[s].events /\ (wire'[s].up => wire[s].up)
    BY <1>1 DEF OtherWires
  <2>3. \A s \in Turns : \A p : Kept(s, p)' <=> Kept(s, p) BY <2>1 DEF Kept
  <2>4. \A s \in Turns : Sent(s)' BY <2>1, <2>2, <2>3 DEF PageInv, Sent
  <2>5. ASSUME NEW c \in Chats PROVE Counted(c)' /\ Awaits(c)'
    <3>1. Counted(c) /\ Awaits(c) BY DEF PageInv
    <3>2. chat[c].turn \in Turns \cup {None} BY FieldTypes DEF TypeInv
    <3>3. Counted(c)' BY <2>1, <2>2, <2>3, <3>1, <3>2 DEF Counted, Awaits
    <3>4. Awaits(c)' BY <2>1, <2>2, <3>1, <3>2 DEF Awaits
    <3> QED BY <3>3, <3>4
  <2>6. Alone' BY DEF PageInv, Alone
  <2> QED BY <2>4, <2>5, <2>6 DEF PageInv
<1> QED BY <1>5, <1>6

-----------------------------------------------------------------------------
(* Steps of the page *)

\* The pages that do not listen to turn t see nothing of its events.
LEMMA DeafPages ==
    ASSUME TypeInv, PageInv, NEW c \in Chats, NEW t, chat[c].turn # t,
           OtherWires(t), UNCHANGED <<thread, turn>>, chat'[c] = chat[c]
    PROVE  Counted(c)' /\ Awaits(c)'
<1>1. Counted(c) /\ Awaits(c) BY DEF PageInv
<1>2. chat[c].turn # None => wire'[chat[c].turn] = wire[chat[c].turn]
  BY FieldTypes DEF TypeInv, OtherWires
<1>3. \A s, p : Kept(s, p)' <=> Kept(s, p) BY DEF Kept
<1>4. Counted(c)' BY <1>1, <1>2, <1>3 DEF Counted
<1>5. Awaits(c)' BY <1>1, <1>2 DEF Awaits
<1> QED BY <1>4, <1>5

LEMMA ReadCounts ==
    ASSUME TypeInv, PageInv, NEW c \in Chats, Read(c)
    PROVE  Counted(c)'
<1>1. PICK t \in Turns : t = chat[c].turn BY ReadFacts
<1>2. PICK e \in Event : e = Head(wire[t].events) BY <1>1, ReadFacts
<1>3. PICK ev \in Seq(Event) : ev = wire[t].events /\ ev # <<>>
  BY <1>1, ReadFacts DEF TypeInv, Wire
<1>4. PICK r \in Seq(Event) : r = Tail(ev)
  <2>1. Tail(ev) \in Seq(Event) BY <1>3
  <2> QED BY <2>1
<1>5. /\ chat'[c] = Seen(chat[c], e) /\ wire'[t].events = r
      /\ wire'[t].up => wire[t].up
  BY <1>1, <1>2, <1>3, <1>4, ReadFacts
<1>6. PICK x : x = chat'[c] OBVIOUS
<1>7. UNCHANGED <<thread, turn>> BY DEF Read
<1>8. chat[c] \in LooseChat /\ t # None BY <1>1, NoneIsNoTurn DEF TypeInv
<1>9. Counted(c) /\ Awaits(c) /\ Sent(t) BY DEF PageInv
<1>10. /\ Has(r, "done") => Has(ev, "done")
       /\ Count(ev) = IF e = "delta" THEN Count(r) + 1 ELSE Count(r)
       /\ e \in {"done", "insufficient_evidence"} => Has(ev, e) /\ Count(r) = 0
  BY <1>2, <1>3, <1>4, <1>9, Rest DEF Sent, Event
<1>11. Count(ev) \in Nat /\ Count(r) \in Nat BY CountType
<1>12. \A p : Kept(t, p)' <=> Kept(t, p) BY <1>7 DEF Kept
<1>13. turn[t].pieces \in Pieces /\ turn[t].pieces \in Nat /\ chat[c].draft.pieces \in Nat
  BY <1>8, FieldTypes DEF TypeInv, Turn, Pieces
<1>14. CASE e \in {"rejected", "end"}
  <2>1. x.turn = None /\ x.draft.pieces \in Pieces
        /\ (x.draft = chat[c].draft \/ x.draft.status = "none")
    <3>1. CASE e = "rejected"
      <4>1. x.turn = None /\ x.draft.pieces = 0 /\ x.draft.status = "none"
        BY <1>1, <1>5, <1>6, <1>8, <3>1, SeenFacts
      <4>2. 0 \in Pieces BY TutorAssumption DEF Pieces
      <4> QED BY <4>1, <4>2
    <3>2. CASE e = "end"
      <4>1. x.turn = None /\ x.draft = chat[c].draft
        BY <1>1, <1>5, <1>6, <1>8, <3>2, SeenFacts
      <4> QED BY <1>9, <4>1 DEF Counted
    <3> QED BY <1>14, <3>1, <3>2
  <2>2. \A s, p : Kept(s, p)' <=> Kept(s, p) BY <1>7 DEF Kept
  <2> QED BY <1>6, <1>7, <1>9, <2>1, <2>2 DEF Counted
<1>15. CASE e \in {"headers", "citations", "error"}
  <2>1. x.turn = t /\ x.draft = chat[c].draft BY <1>1, <1>5, <1>6, <1>8, <1>15, SeenFacts
  <2>2. Count(r) = Count(ev) BY <1>10, <1>15
  <2>3. \A s, p : Kept(s, p)' <=> Kept(s, p) BY <1>7 DEF Kept
  <2> QED BY <1>1, <1>3, <1>5, <1>6, <1>7, <1>9, <1>10, <2>1, <2>2, <2>3 DEF Counted
<1>16. CASE e \in {"delta", "done", "insufficient_evidence"} /\ chat[c].draft.status = "none"
  <2>1. x.turn = t /\ x.draft = chat[c].draft BY <1>1, <1>5, <1>6, <1>8, <1>16, SeenFacts
  <2> QED BY <1>6, <1>9, <1>16, <2>1 DEF Counted
<1>17. CASE e = "delta" /\ chat[c].draft.status # "none"
  <2>1. /\ x.turn = t /\ x.draft.of = chat[c].draft.of
        /\ x.draft.pieces = chat[c].draft.pieces + 1 /\ x.draft.status = chat[c].draft.status
    BY <1>1, <1>5, <1>6, <1>8, <1>17, SeenFacts
  <2>2. Count(ev) = Count(r) + 1 BY <1>10, <1>17
  <2>3. chat[c].draft.pieces + Count(ev) <= turn[t].pieces
    BY <1>1, <1>3, <1>8, <1>9, <1>17 DEF Counted
  <2>4. /\ x.draft.pieces + Count(r) <= turn[t].pieces
        /\ x.draft.pieces + Count(r) = chat[c].draft.pieces + Count(ev)
    <3>1. PICK a \in Nat : a = chat[c].draft.pieces BY <1>13
    <3>2. PICK m \in Nat : m = turn[t].pieces BY <1>13
    <3>3. PICK k \in Nat : k = Count(r) BY <1>11
    <3>4. x.draft.pieces = a + 1 /\ Count(ev) = k + 1 /\ a + (k + 1) <= m
      BY <2>1, <2>2, <2>3, <3>1, <3>2, <3>3
    <3>5. (a + 1) + k = a + (k + 1) OBVIOUS
    <3> QED BY <3>1, <3>2, <3>3, <3>4, <3>5
  <2>5. x.draft.pieces \in Pieces
    <3>1. PICK a \in Nat : a = chat[c].draft.pieces BY <1>13
    <3>2. PICK m \in 0..MaxPieces : m = turn[t].pieces BY <1>13 DEF Pieces
    <3>3. PICK k \in Nat : k = Count(r) BY <1>11
    <3>4. x.draft.pieces = a + 1 /\ a + (k + 1) <= m
      BY <2>1, <2>2, <2>3, <3>1, <3>2, <3>3
    <3>5. a + 1 \in 0..MaxPieces BY <3>4, TutorAssumption
    <3> QED BY <3>4, <3>5 DEF Pieces
  <2>6. wire'[t].up \/ Has(r, "done") => x.draft.pieces + Count(r) = turn[t].pieces
    BY <1>1, <1>3, <1>5, <1>8, <1>9, <1>10, <1>17, <2>4 DEF Counted
  <2>7. chat[c].draft.status \notin {"done", "refused"}
    BY <1>1, <1>3, <1>8, <1>9, <1>11, <2>2 DEF Counted
  <2> QED BY <1>5, <1>6, <1>7, <2>1, <2>4, <2>5, <2>6, <2>7 DEF Counted
<1>18. CASE e \in {"done", "insufficient_evidence"} /\ chat[c].draft.status # "none"
  <2>1. /\ x.turn = t /\ x.draft.of = chat[c].draft.of
        /\ x.draft.pieces = chat[c].draft.pieces /\ x.draft.status \in {"done", "refused"}
    BY <1>1, <1>5, <1>6, <1>8, <1>18, SeenFacts
  <2>2. x.draft.of = t BY <1>1, <1>8, <1>9, <1>18, <2>1 DEF Awaits
  <2>3. Count(r) = 0 /\ Count(ev) = 0 /\ Has(ev, e) BY <1>10, <1>18
  <2>4. turn[t].at \in Ended /\ Kept(t, turn[t].pieces)
    BY <1>3, <1>9, <1>18, <2>3 DEF Sent
  <2>5. chat[c].draft.pieces = turn[t].pieces
    <3>1. CASE e = "done"
      <4>1. chat[c].draft.pieces + Count(ev) = turn[t].pieces
        BY <1>1, <1>3, <1>8, <1>9, <1>18, <2>3, <3>1 DEF Counted
      <4> QED BY <1>13, <2>3, <4>1
    <3>2. CASE e = "insufficient_evidence"
      <4>1. turn[t].pieces = 0 BY <1>3, <1>9, <2>3, <3>2 DEF Sent
      <4>2. chat[c].draft.pieces + Count(ev) <= turn[t].pieces
        BY <1>1, <1>3, <1>8, <1>9, <1>18 DEF Counted
      <4> QED BY <1>13, <2>3, <4>1, <4>2
    <3> QED BY <1>18, <3>1, <3>2
  <2>6. PICK p : p = turn[t].pieces OBVIOUS
  <2>7. Kept(t, p)' BY <1>12, <2>4, <2>6
  <2>8. x.draft.pieces + Count(r) = turn[t].pieces BY <1>13, <2>1, <2>3, <2>5
  <2> QED BY <1>5, <1>6, <1>7, <1>13, <2>1, <2>2, <2>3, <2>4, <2>5, <2>6, <2>7, <2>8
          DEF Counted
<1> QED BY <1>14, <1>15, <1>16, <1>17, <1>18 DEF Event

LEMMA ReadAwaits ==
    ASSUME TypeInv, PageInv, NEW c \in Chats, Read(c)
    PROVE  Awaits(c)'
<1>1. PICK t \in Turns : t = chat[c].turn BY ReadFacts
<1>2. PICK e \in Event : e = Head(wire[t].events) BY <1>1, ReadFacts
<1>3. PICK ev \in Seq(Event) : ev = wire[t].events /\ ev # <<>>
  BY <1>1, ReadFacts DEF TypeInv, Wire
<1>4. PICK r : r = Tail(ev) OBVIOUS
<1>5. /\ chat'[c] = Seen(chat[c], e) /\ wire'[t].events = r
      /\ wire'[t].up => wire[t].up
  BY <1>1, <1>2, <1>3, <1>4, ReadFacts
<1>6. PICK x : x = chat'[c] OBVIOUS
<1>7. UNCHANGED turn BY DEF Read
<1>8. chat[c] \in LooseChat /\ t # None BY <1>1, NoneIsNoTurn DEF TypeInv
<1>9. Awaits(c) BY DEF PageInv
<1>10. /\ Announced(ev) => e # "end"
       /\ Announced(ev) /\ e \notin Marks => Announced(r)
       /\ Marked(ev) /\ e \notin Marks => Marked(r)
  BY <1>2, <1>3, <1>4, Rest
<1>11. CASE e = "rejected"
  <2>1. x.turn = None /\ x.draft.status = "none" BY <1>1, <1>5, <1>6, <1>8, <1>11, SeenFacts
  <2> QED BY <1>6, <2>1 DEF Awaits
<1>12. CASE e = "end"
  <2>1. x.turn = None /\ x.draft = chat[c].draft /\ x.retryable = chat[c].retryable
    BY <1>1, <1>5, <1>6, <1>8, <1>12, SeenFacts
  <2>2. chat[c].draft.status = "streaming" => chat[c].retryable = turn[t].question
    BY <1>1, <1>3, <1>8, <1>9, <1>10, <1>12 DEF Awaits
  <2>3. chat[c].draft.status = "streaming" => chat[c].draft.of = t
    BY <1>1, <1>8, <1>9 DEF Awaits
  <2> QED BY <1>6, <1>7, <1>9, <2>1, <2>2, <2>3 DEF Awaits
<1>13. CASE e = "error"
  <2>1. x.turn = t /\ x.draft = chat[c].draft /\ x.retryable = turn[t].question
    BY <1>1, <1>5, <1>6, <1>8, <1>13, SeenFacts
  <2> QED BY <1>1, <1>6, <1>7, <1>8, <1>9, <2>1 DEF Awaits
<1>14. CASE e \in {"headers", "citations", "delta"}
  <2>1. /\ x.turn = t /\ x.retryable = chat[c].retryable
        /\ x.draft.status = chat[c].draft.status
        /\ chat[c].draft.status # "none" => x.draft.of = chat[c].draft.of
    <3>1. CASE e = "delta" BY <1>1, <1>5, <1>6, <1>8, <3>1, SeenFacts
    <3>2. CASE e \in {"headers", "citations"}
      BY <1>1, <1>5, <1>6, <1>8, <3>2, SeenFacts
    <3> QED BY <1>14, <3>1, <3>2
  <2>2. e \notin Marks BY <1>14 DEF Marks
  <2> QED BY <1>1, <1>3, <1>5, <1>6, <1>7, <1>8, <1>9, <1>10, <2>1, <2>2 DEF Awaits
<1>15. CASE e \in {"done", "insufficient_evidence"}
  <2>1. x.turn = t BY <1>1, <1>5, <1>6, <1>8, <1>15, SeenFacts
  <2>2. \/ x.draft = chat[c].draft /\ x.draft.status = "none"
        \/ x.draft.of = chat[c].draft.of /\ x.draft.status \in {"done", "refused"}
           /\ chat[c].draft.status # "none"
    BY <1>1, <1>5, <1>6, <1>8, <1>15, SeenFacts
  <2> QED BY <1>1, <1>6, <1>7, <1>8, <1>9, <2>1, <2>2 DEF Awaits
<1> QED BY <1>11, <1>12, <1>13, <1>14, <1>15 DEF Event

LEMMA ReadShows ==
    ASSUME TypeInv, PageInv, NEW c \in Chats, Read(c)
    PROVE  PageInv'
<1>1. PICK t \in Turns : t = chat[c].turn BY ReadFacts
<1>2. /\ OtherWires(t) /\ OtherChats(c) /\ UNCHANGED <<thread, turn>>
      /\ wire'[t].events = Tail(wire[t].events) /\ wire[t].events # <<>>
  BY <1>1, ReadFacts DEF Read
<1>3. wire[t].events \in Seq(Event) BY DEF TypeInv, Wire
<1>4. t # None BY NoneIsNoTurn
<1>5. \A s, p : Kept(s, p)' <=> Kept(s, p) BY <1>2 DEF Kept
<1>6. ASSUME NEW s \in Turns PROVE Sent(s)'
  <2>1. CASE s = t
    <3>1. /\ Ordered(wire'[t].events)
          /\ \A e \in Event : Has(wire'[t].events, e) => Has(wire[t].events, e)
      BY <1>2, <1>3, Rest DEF PageInv, Sent
    <3>2. turn[t].at # "unused" BY <1>1, <1>4 DEF PageInv, Awaits
    <3>3. {"done", "insufficient_evidence"} \subseteq Event BY DEF Event
    <3>4. Sent(t) BY DEF PageInv
    <3> QED BY <1>2, <1>5, <2>1, <3>1, <3>2, <3>3, <3>4 DEF Sent
  <2>2. CASE s # t
    <3>1. wire'[s] = wire[s] BY <1>2, <2>2 DEF OtherWires
    <3> QED BY <1>2, <1>5, <3>1 DEF PageInv, Sent
  <2> QED BY <2>1, <2>2
<1>7. ASSUME NEW d \in Chats, d # c PROVE Counted(d)' /\ Awaits(d)'
  <2>1. chat[d].turn # t BY <1>1, <1>4, <1>7 DEF PageInv, Alone
  <2> QED BY <1>2, <1>7, <2>1, DeafPages DEF OtherChats
<1>8. Alone'
  <2>1. \A d \in Chats : chat'[d].turn = chat[d].turn \/ chat'[d].turn = None
    <3>1. PICK e \in Event : e = Head(wire[t].events) BY <1>1, ReadFacts
    <3>2. chat'[c] = Seen(chat[c], e) /\ chat[c] \in LooseChat
      BY <1>1, <3>1, ReadFacts DEF TypeInv
    <3>3. chat'[c].turn = chat[c].turn \/ chat'[c].turn = None
      BY <1>1, <3>2, SeenFacts
    <3> QED BY <1>2, <3>3 DEF OtherChats
  <2> QED BY <2>1 DEF PageInv, Alone
<1> QED BY <1>6, <1>7, <1>8, ReadCounts, ReadAwaits DEF PageInv

LEMMA SendShows ==
    ASSUME TypeInv, PageInv, NEW c \in Chats, NEW t \in Turns, NEW q \in Turns,
           Send(c, t, q)
    PROVE  PageInv'
<1>1. /\ Others(t) /\ turn[t].at = "unused" /\ turn'[t].at = "preflight"
      /\ turn'[t].pieces = 0 /\ turn'[t].question = q /\ UNCHANGED thread
  BY SendFacts DEF Send
<1>2. /\ OtherChats(c) /\ chat[c].turn = None /\ chat'[c].turn = t
      /\ chat'[c].retryable = None /\ chat'[c].draft.of = t /\ chat'[c].draft.pieces = 0
      /\ chat'[c].draft.status = "streaming"
  BY SendPage
<1>3. wire' = [wire EXCEPT ![t].up = TRUE] BY DEF Send
<1>4. OtherWires(t) /\ wire'[t].events = wire[t].events BY <1>3, UpFacts
<1>5. wire[t].events = <<>> BY <1>1 DEF PageInv, Sent
<1>6. Count(<<>>) = 0 /\ Announced(<<>>) /\ Ordered(<<>>) /\ \A e : ~Has(<<>>, e)
  <2>1. Deltas(<<>>) = {} BY DEF Deltas
  <2> QED BY <2>1, FS_EmptySet DEF Count, Announced, Ordered, Has
<1>7. Sent(t)' BY <1>1, <1>4, <1>5, <1>6 DEF Sent
<1>8. Grows BY <1>1, SameThreads
<1>9. ASSUME NEW s \in Turns \ {t} PROVE Sent(s)'
  <2>1. turn'[s] = turn[s] /\ wire'[s] = wire[s] BY <1>1, <1>4 DEF Others, OtherWires
  <2>2. Kept(s, turn[s].pieces) => Kept(s, turn[s].pieces)' BY <1>8, <2>1, KeptStays
  <2> QED BY <2>1, <2>2 DEF Sent, PageInv
<1>10. Counted(c)'
  <2>1. 0 \in Pieces BY TutorAssumption DEF Pieces
  <2> QED BY <1>1, <1>2, <1>4, <1>5, <1>6, <2>1 DEF Counted
<1>11. Awaits(c)' BY <1>1, <1>2, <1>4, <1>5, <1>6, NoneIsNoTurn DEF Awaits
<1>12. ASSUME NEW d \in Chats, d # c PROVE Counted(d)' /\ Awaits(d)' /\ chat'[d].turn # t
  <2>1. chat'[d] = chat[d] BY <1>2, <1>12 DEF OtherChats
  <2>2. Counted(d) /\ Awaits(d) BY DEF PageInv
  <2>3. chat[d].turn # t BY <1>1, <2>2, NoneIsNoTurn DEF Awaits
  <2>4. chat[d].turn # None =>
          turn'[chat[d].turn] = turn[chat[d].turn] /\ wire'[chat[d].turn] = wire[chat[d].turn]
    BY <1>1, <1>4, <2>3, FieldTypes DEF TypeInv, Others, OtherWires
  <2>5. chat[d].draft.status # "none" =>
          chat[d].draft.of \in Turns /\ turn'[chat[d].draft.of] = turn[chat[d].draft.of]
    BY <1>1, <2>2 DEF Awaits, Others
  <2>6. chat[d].draft.status \in {"done", "refused"} =>
          Kept(chat[d].draft.of, chat[d].draft.pieces)'
    <3>1. PICK of : of = chat[d].draft.of OBVIOUS
    <3>2. PICK p : p = chat[d].draft.pieces OBVIOUS
    <3>3. ASSUME chat[d].draft.status \in {"done", "refused"} PROVE Kept(of, p)'
      <4>1. Kept(of, p) BY <2>2, <3>1, <3>2, <3>3 DEF Counted
      <4>2. of \in Turns /\ turn'[of] = turn[of] BY <2>5, <3>1, <3>3
      <4> QED BY <1>8, <4>1, <4>2, KeptStays
    <3> QED BY <2>1, <3>1, <3>2, <3>3
  <2>7. Counted(d)' BY <2>1, <2>2, <2>4, <2>5, <2>6 DEF Counted
  <2>8. Awaits(d)' BY <2>1, <2>2, <2>4, <2>5 DEF Awaits
  <2> QED BY <2>1, <2>3, <2>7, <2>8
<1>13. Alone'
  <2>1. SUFFICES ASSUME NEW a \in Chats, NEW b \in Chats, chat'[a].turn # None,
                        chat'[b].turn = chat'[a].turn
                 PROVE  a = b
    BY DEF Alone
  <2>2. CASE a = c \/ b = c BY <1>2, <1>12, <2>1, <2>2
  <2>3. CASE a # c /\ b # c
    <3>1. chat'[a] = chat[a] /\ chat'[b] = chat[b] BY <1>2, <2>3 DEF OtherChats
    <3> QED BY <2>1, <3>1 DEF PageInv, Alone
  <2> QED BY <2>2, <2>3
<1> QED BY <1>7, <1>9, <1>10, <1>11, <1>12, <1>13 DEF PageInv

\* The page drops its turn or its draft.
LEMMA DropShows ==
    ASSUME TypeInv, PageInv, NEW c \in Chats, OtherChats(c), UNCHANGED <<thread, turn>>,
           \/ /\ UNCHANGED wire /\ chat'[c].turn = chat[c].turn
              /\ chat'[c].retryable = chat[c].retryable /\ chat'[c].draft = chat[c].draft
           \/ /\ UNCHANGED wire /\ chat'[c].turn = chat[c].turn
              /\ chat'[c].draft.status = "none" /\ chat'[c].draft.pieces = 0
           \/ /\ chat[c].turn # None /\ chat'[c].turn = None /\ OtherWires(chat[c].turn)
              /\ chat'[c].draft.status = "none" /\ chat'[c].draft.pieces = 0
              /\ \/ wire'[chat[c].turn].events = wire[chat[c].turn].events
                 \/ wire'[chat[c].turn].events = <<>>
    PROVE  PageInv'
<1>1. \A s, p : Kept(s, p)' <=> Kept(s, p) BY DEF Kept
<1>2. 0 \in Pieces BY TutorAssumption DEF Pieces
<1>3. \A s \in Turns : wire'[s].events \in {wire[s].events, <<>>} BY DEF OtherWires
<1>4. Ordered(<<>>) /\ \A e : ~Has(<<>>, e) BY DEF Ordered, Has
<1>5. ASSUME NEW s \in Turns PROVE Sent(s)'
  <2>1. Sent(s) /\ wire'[s].events \in {wire[s].events, <<>>} BY <1>3 DEF PageInv
  <2>2. CASE wire'[s].events = wire[s].events BY <1>1, <2>1, <2>2 DEF Sent
  <2>3. CASE wire'[s].events = <<>> BY <1>4, <2>3 DEF Sent
  <2> QED BY <2>1, <2>2, <2>3
<1>6. Counted(c) /\ Awaits(c) BY DEF PageInv
<1>7. Counted(c)'
  <2>1. CASE chat'[c].draft.status = "none" /\ chat'[c].draft.pieces = 0
    BY <1>2, <2>1 DEF Counted
  <2>2. CASE UNCHANGED wire /\ chat'[c].turn = chat[c].turn /\ chat'[c].draft = chat[c].draft
    BY <1>1, <1>6, <2>2 DEF Counted
  <2> QED BY <2>1, <2>2
<1>8. Awaits(c)'
  <2>1. CASE chat'[c].draft.status = "none" /\ chat'[c].turn \in {None, chat[c].turn}
    BY <1>6, <2>1 DEF Awaits
  <2>2. CASE /\ UNCHANGED wire /\ chat'[c].turn = chat[c].turn
             /\ chat'[c].retryable = chat[c].retryable /\ chat'[c].draft = chat[c].draft
    BY <1>6, <2>2 DEF Awaits
  <2> QED BY <2>1, <2>2
<1>9. ASSUME NEW d \in Chats, d # c PROVE Counted(d)' /\ Awaits(d)'
  <2>1. chat'[d] = chat[d] BY <1>9 DEF OtherChats
  <2>2. CASE UNCHANGED wire
    <3>1. Counted(d) /\ Awaits(d) BY DEF PageInv
    <3> QED BY <1>1, <2>1, <2>2, <3>1 DEF Counted, Awaits
  <2>3. CASE chat[c].turn # None /\ OtherWires(chat[c].turn)
    <3>1. chat[d].turn # chat[c].turn BY <1>9, <2>3 DEF PageInv, Alone
    <3>2. PICK t : t = chat[c].turn OBVIOUS
    <3> QED BY <2>1, <2>3, <3>1, <3>2, DeafPages
  <2> QED BY <2>2, <2>3
<1>10. Alone'
  <2>1. \A d \in Chats : chat'[d].turn = chat[d].turn \/ chat'[d].turn = None
    BY DEF OtherChats
  <2> QED BY <2>1 DEF PageInv, Alone
<1> QED BY <1>5, <1>7, <1>8, <1>9, <1>10 DEF PageInv

LEMMA PageStepShows ==
    ASSUME TypeInv, PageInv, NEW c \in Chats,
           \/ \E t \in Turns : Ask(c, t) \/ TryAgain(c, t)
           \/ \E id \in Turns \cup {None} : Switch(c, id)
           \/ Resync(c) \/ Read(c) \/ IdleTimeout(c) \/ Interrupted(c)
    PROVE  PageInv'
<1>1. ASSUME NEW t \in Turns, TryAgain(c, t) PROVE PageInv'
  <2>1. chat[c].retryable \in Turns BY <1>1, FieldTypes DEF TryAgain, TypeInv
  <2> QED BY <1>1, <2>1, SendShows DEF TryAgain
<1>2. ASSUME NEW t \in Turns, Ask(c, t) PROVE PageInv' BY <1>2, SendShows DEF Ask
<1>3. ASSUME NEW id \in Turns \cup {None}, Switch(c, id) PROVE PageInv'
  <2>1. UNCHANGED <<thread, turn, wire>> BY <1>3 DEF Switch
  <2> QED BY <1>3, <2>1, SwitchPage, DropShows
<1>4. CASE Resync(c)
  <2>1. UNCHANGED <<thread, turn, wire>> BY <1>4 DEF Resync
  <2> QED BY <1>4, <2>1, ResyncPage, DropShows
<1>5. CASE IdleTimeout(c)
  <2>1. chat[c].turn # None BY <1>5 DEF IdleTimeout, TypeInv
  <2>2. PICK t \in Turns : t = chat[c].turn BY <2>1, FieldTypes DEF TypeInv
  <2>3. /\ UNCHANGED <<thread, turn>> /\ chat' = [chat EXCEPT ![c] = GaveUp(@)]
        /\ wire' = [wire EXCEPT ![t].up = FALSE]
    BY <1>5, <2>2 DEF IdleTimeout
  <2>4. OtherWires(t) /\ wire'[t].events = wire[t].events BY <2>3, DownFacts
  <2> QED BY <2>1, <2>2, <2>3, <2>4, GaveUpPage, DropShows
<1>6. CASE Interrupted(c)
  <2>1. chat[c].turn # None BY <1>6 DEF Interrupted
  <2>2. PICK t \in Turns : t = chat[c].turn BY <2>1, FieldTypes DEF TypeInv
  <2>3. /\ UNCHANGED <<thread, turn>> /\ chat' = [chat EXCEPT ![c] = GaveUp(@)]
        /\ wire' = [wire EXCEPT ![t].events = <<>>]
    BY <1>6, <2>2 DEF Interrupted
  <2>4. OtherWires(t) /\ wire'[t].events = <<>> BY <2>3, EmptiedFacts
  <2> QED BY <2>1, <2>2, <2>3, <2>4, GaveUpPage, DropShows
<1> QED BY <1>1, <1>2, <1>3, <1>4, <1>5, <1>6, ReadShows

-----------------------------------------------------------------------------
(* Steps of the turn *)

\* A step that moves the turn on and sends one event.
LEMMA MoveTells ==
    ASSUME TypeInv, PageInv, NEW t \in Turns, NEW e \in Event, Put(t, <<e>>),
           Others(t), Same(t), UNCHANGED <<thread, chat>>,
           turn[t].at # "unused", turn'[t].at # "unused",
           turn[t].at \in Ended => turn'[t].at \in Ended,
           e \notin {"delta", "end"},
           e \in {"done", "insufficient_evidence"} =>
              turn[t].at # "open" /\ turn'[t].at \in Ended /\ Kept(t, turn[t].pieces),
           e = "insufficient_evidence" => turn[t].pieces = 0,
           turn'[t].at \in {"abandon", "close"} => e \in Marks
    PROVE  PageInv'
<1>1. /\ OtherWires(t) /\ wire'[t].up = wire[t].up
      /\ wire[t].up => Extends(wire[t].events, wire'[t].events, {e})
      /\ ~wire[t].up => wire'[t].events = wire[t].events
  BY PutTells
<1>2. Tells(t, {e}) BY <1>1 DEF Tells, Same
<1>3. Grows BY SameThreads
<1>4. "delta" \notin {e} /\ {e} \in SUBSET Event OBVIOUS
<1> QED BY <1>1, <1>2, <1>3, <1>4, ServerShows

\* A step that moves the turn on without a word.
LEMMA SilentMove ==
    ASSUME TypeInv, PageInv, NEW t \in Turns, NEW a \in Step, Go(t, a), Grows,
           UNCHANGED <<wire, chat>>, turn[t].at # "unused", a # "unused",
           turn[t].at \in Ended => a \in Ended,
           a \in {"abandon", "close"} => turn[t].at \in {"abandon", "close"}
    PROVE  PageInv'
<1>1. Others(t) /\ Same(t) /\ turn'[t].at = a BY GoFacts
<1> QED BY <1>1, QuietTells DEF Same

LEMMA CloseShows ==
    ASSUME TypeInv, PageInv, NEW t \in Turns, CloseStream(t) PROVE PageInv'
<1>1. /\ turn[t].at \in {"throw", "close"} /\ Go(t, "over") /\ UNCHANGED <<thread, chat>>
  BY DEF CloseStream
<1>2. Others(t) /\ Same(t) /\ turn'[t].at = "over" BY <1>1, GoFacts DEF Step
<1>3. Grows BY <1>1, SameThreads
<1>4. wire[t].events \in Seq(Event) BY DEF TypeInv, Wire
<1>5. CASE turn[t].at = "close"
  <2>1. Put(t, <<"end">>) BY <1>5 DEF CloseStream, At
  <2>2. /\ OtherWires(t) /\ wire'[t].up = wire[t].up
        /\ wire[t].up => Extends(wire[t].events, wire'[t].events, {"end"})
        /\ ~wire[t].up => wire'[t].events = wire[t].events
    BY <2>1, PutTells DEF Event
  <2>3. Tells(t, {"end"}) BY <1>2, <1>5, <2>2 DEF Tells, Same, Ended
  <2>4. {"end"} \in SUBSET Event BY DEF Event
  <2> QED BY <1>1, <1>2, <1>3, <2>2, <2>3, <2>4, ServerShows
<1>6. CASE turn[t].at = "throw"
  <2>1. Put(t, <<"error", "end">>) BY <1>6 DEF CloseStream, At
  <2>2. <<"error", "end">> \in Seq(Event) /\ {"error", "end"} \in SUBSET Event BY DEF Event
  <2>3. /\ OtherWires(t) /\ wire'[t].up = wire[t].up
        /\ wire'[t].events = IF wire[t].up THEN wire[t].events \o <<"error", "end">>
                                           ELSE wire[t].events
    BY <2>1, <2>2, PutFacts
  <2>4. Extends(wire[t].events, wire[t].events \o <<"error", "end">>, {"error", "end"})
    BY <1>4, ExtendsByClose
  <2>5. Tells(t, {"error", "end"}) BY <1>2, <1>6, <2>3, <2>4 DEF Tells, Same, Ended
  <2> QED BY <1>1, <1>2, <1>3, <2>2, <2>3, <2>5, ServerShows
<1> QED BY <1>1, <1>5, <1>6

LEMMA CallShows ==
    ASSUME TypeInv, PageInv, NEW t \in Turns, SendCitations(t) PROVE PageInv'
<1>1. turn[t].at = "cite" /\ UNCHANGED <<thread, chat>> BY DEF SendCitations, At
<1>2. CASE /\ Put(t, <<"citations">>)
           /\ turn' = [turn EXCEPT ![t].at = "stream", ![t].called = TRUE]
  <2>1. /\ Others(t) /\ turn'[t].at = "stream"
        /\ turn'[t].question = turn[t].question /\ turn'[t].thread = turn[t].thread
        /\ turn'[t].pieces = turn[t].pieces
    BY <1>2, CallFacts
  <2>2. {"citations"} \in SUBSET Event /\ "citations" \in Event BY DEF Event
  <2>3. /\ OtherWires(t) /\ wire'[t].up = wire[t].up
        /\ wire[t].up => Extends(wire[t].events, wire'[t].events, {"citations"})
        /\ ~wire[t].up => wire'[t].events = wire[t].events
    BY <1>2, <2>2, PutTells
  <2>4. Tells(t, {"citations"}) BY <1>1, <2>1, <2>3 DEF Tells, Ended
  <2>5. Grows BY <1>1, SameThreads
  <2> QED BY <1>1, <2>1, <2>2, <2>3, <2>4, <2>5, ServerShows
<1>3. CASE Put(t, <<"error">>) /\ Go(t, "close")
  <2>1. Others(t) /\ Same(t) /\ turn'[t].at = "close" BY <1>3, GoFacts DEF Step
  <2>2. "error" \in Event BY DEF Event
  <2> QED BY <1>1, <1>3, <2>1, <2>2, MoveTells DEF Ended, Marks
<1> QED BY <1>2, <1>3 DEF SendCitations, Emit

LEMMA StreamShows ==
    ASSUME TypeInv, PageInv, NEW t \in Turns, StreamPiece(t) \/ StreamEnds(t) PROVE PageInv'
<1>1. turn[t].at = "stream" /\ UNCHANGED <<thread, chat>>
  BY DEF StreamPiece, StreamEnds, At
<1>2. Grows BY <1>1, SameThreads
<1>3. CASE /\ StreamPiece(t) /\ Put(t, <<"delta">>)
           /\ turn' = [turn EXCEPT ![t].pieces = @ + 1]
  <2>1. turn[t].pieces < MaxPieces BY <1>3 DEF StreamPiece
  <2>2. /\ Others(t) /\ turn'[t].at = turn[t].at
        /\ turn'[t].question = turn[t].question /\ turn'[t].thread = turn[t].thread
        /\ turn'[t].pieces = turn[t].pieces + 1
    BY <1>3, <2>1, PieceFacts
  <2>3. {"delta"} \in SUBSET Event /\ "delta" \in Event BY DEF Event
  <2>4. /\ OtherWires(t) /\ wire'[t].up = wire[t].up
        /\ wire[t].up => Extends(wire[t].events, wire'[t].events, {"delta"})
        /\ ~wire[t].up => wire'[t].events = wire[t].events
    BY <1>3, <2>3, PutTells
  <2>5. Tells(t, {"delta"}) BY <1>1, <2>2, <2>4 DEF Tells, Ended
  <2> QED BY <1>1, <1>2, <2>2, <2>3, <2>4, <2>5, ServerShows
<1>4. CASE Put(t, <<"error">>) /\ Go(t, "abandon")
  <2>1. Others(t) /\ Same(t) /\ turn'[t].at = "abandon" BY <1>4, GoFacts DEF Step
  <2>2. "error" \in Event BY DEF Event
  <2> QED BY <1>1, <1>4, <2>1, <2>2, MoveTells DEF Ended, Marks
<1>5. CASE StreamEnds(t)
  <2>1. PICK a \in {"record", "failing"} : Go(t, a) BY <1>5 DEF StreamEnds
  <2>2. UNCHANGED wire BY <1>5 DEF StreamEnds
  <2>3. a \in Step BY DEF Step
  <2> QED BY <1>1, <1>2, <2>1, <2>2, <2>3, SilentMove DEF Ended
<1> QED BY <1>3, <1>4, <1>5 DEF StreamPiece, Emit

LEMMA ServerStepShows ==
    ASSUME TypeInv, ServerInv, PageInv, NEW t \in Turns, ServerStep(t) PROVE PageInv'
<1>1. Course(t) BY DEF ServerInv
<1>2. CASE Preflight(t)
  <2>1. turn[t].at = "preflight" /\ UNCHANGED <<thread, chat>> BY <1>2 DEF Preflight, At
  <2>2. PICK e \in {"rejected", "headers"}, a \in {"over", "open"} : Put(t, <<e>>) /\ Go(t, a)
    BY <1>2 DEF Preflight
  <2>3. Others(t) /\ Same(t) /\ turn'[t].at = a BY <2>2, GoFacts DEF Step
  <2>4. e \in Event BY DEF Event
  <2> QED BY <2>1, <2>2, <2>3, <2>4, MoveTells DEF Ended
<1>3. CASE FindConversation(t)
  <2>1. UNCHANGED <<thread, wire, chat>> BY <1>3 DEF FindConversation
  <2>2. /\ Others(t) /\ turn[t].at = "open" /\ turn'[t].at = "gather"
        /\ turn'[t].question = turn[t].question /\ turn'[t].pieces = turn[t].pieces
    BY <1>3, FindFacts
  <2>3. Grows BY <2>1, SameThreads
  <2> QED BY <2>1, <2>2, <2>3, QuietTells DEF Ended
<1>4. CASE SaveQuestion(t)
  <2>1. turn[t].saving /\ UNCHANGED <<wire, chat>> BY <1>4 DEF SaveQuestion
  <2>2. /\ Others(t) /\ turn'[t].at = turn[t].at /\ turn'[t].question = turn[t].question
        /\ turn'[t].thread = turn[t].thread /\ turn'[t].pieces = turn[t].pieces
    BY <1>4, SaveFacts DEF SaveQuestion
  <2>3. turn[t].at # "unused" /\ turn[t].thread \in Turns BY <1>1, <2>1 DEF Course
  <2>4. PICK m : m = [role |-> "USER", turn |-> t, question |-> turn[t].question,
                      pieces |-> 0]
    OBVIOUS
  <2>5. m \in Message /\ m.turn = t BY <2>3, <2>4, MessageTypes
  <2>6. thread' = [thread EXCEPT ![turn[t].thread] = Append(@, m)]
    BY <1>4, <2>4 DEF SaveQuestion
  <2>7. Grows BY <2>3, <2>5, <2>6, Appends
  <2> QED BY <2>1, <2>2, <2>3, <2>7, QuietTells
<1>5. CASE Retrieve(t)
  <2>1. UNCHANGED <<thread, wire, chat>> BY <1>5 DEF Retrieve
  <2>2. /\ Others(t) /\ Same(t) /\ turn[t].at = "gather"
        /\ turn'[t].at \in {"gather", "throw"}
    BY <1>5, RetrieveFacts
  <2>3. Grows BY <2>1, SameThreads
  <2> QED BY <2>1, <2>2, <2>3, QuietTells DEF Ended, Same
<1>6. CASE Gate(t)
  <2>1. turn[t].at = "gather" /\ UNCHANGED <<thread, wire, chat>> BY <1>6 DEF Gate, At
  <2>2. PICK a \in {"refuse", "cite"} : Go(t, a) BY <1>6 DEF Gate
  <2>3. Grows /\ a \in Step BY <2>1, SameThreads DEF Step
  <2> QED BY <2>1, <2>2, <2>3, SilentMove DEF Ended
<1>7. ASSUME NEW a \in {"refused", "stored"}, Answered(t), Go(t, a),
             turn[t].at \in {"refuse", "store"}, UNCHANGED <<wire, chat>>
      PROVE  PageInv'
  <2>1. turn[t].thread \in Turns BY <1>1, <1>7 DEF Course
  <2>2. PICK m : m = [role |-> "ASSISTANT", turn |-> t, question |-> turn[t].question,
                      pieces |-> turn[t].pieces]
    OBVIOUS
  <2>3. m \in Message /\ m.turn = t BY <1>7, <2>2, MessageTypes
  <2>4. thread' = [thread EXCEPT ![turn[t].thread] = Append(@, m)] BY <1>7, <2>2 DEF Answered
  <2>5. Grows /\ a \in Step BY <2>1, <2>3, <2>4, Appends DEF Step
  <2> QED BY <1>7, <2>5, SilentMove DEF Ended
<1>8. CASE StoreRefusal(t) BY <1>7, <1>8 DEF StoreRefusal, At
<1>9. CASE StoreAnswer(t) BY <1>7, <1>9 DEF StoreAnswer, At
<1>10. CASE SendRefusal(t)
  <2>1. /\ turn[t].at = "refused" /\ UNCHANGED <<thread, chat>>
        /\ Kept(t, turn[t].pieces) /\ turn[t].pieces = 0
    BY <1>1, <1>10 DEF SendRefusal, At, Course
  <2>2. CASE Put(t, <<"insufficient_evidence">>) /\ Go(t, "stored")
    <3>1. Others(t) /\ Same(t) /\ turn'[t].at = "stored" BY <2>2, GoFacts DEF Step
    <3>2. "insufficient_evidence" \in Event BY DEF Event
    <3> QED BY <2>1, <2>2, <3>1, <3>2, MoveTells DEF Ended
  <2>3. CASE Put(t, <<"error">>) /\ Go(t, "close")
    <3>1. Others(t) /\ Same(t) /\ turn'[t].at = "close" BY <2>3, GoFacts DEF Step
    <3>2. "error" \in Event BY DEF Event
    <3> QED BY <2>1, <2>3, <3>1, <3>2, MoveTells DEF Ended, Marks
  <2> QED BY <1>10, <2>2, <2>3 DEF SendRefusal, Emit
<1>11. CASE RecordRequest(t)
  <2>1. turn[t].at \in {"record", "abandon", "failing"} /\ UNCHANGED <<thread, wire, chat>>
    BY <1>11 DEF RecordRequest
  <2>2. PICK a \in {"store", "close", "throw"} :
          Go(t, a) /\ (a = "close" => turn[t].at = "abandon")
    <3>1. CASE turn[t].at = "record" BY <1>11, <3>1 DEF RecordRequest, At
    <3>2. CASE turn[t].at = "abandon" BY <1>11, <3>2 DEF RecordRequest, At
    <3>3. CASE turn[t].at = "failing" BY <1>11, <3>3 DEF RecordRequest, At
    <3> QED BY <2>1, <3>1, <3>2, <3>3
  <2>3. Grows /\ a \in Step BY <2>1, SameThreads DEF Step
  <2> QED BY <2>1, <2>2, <2>3, SilentMove DEF Ended
<1>12. CASE SendDone(t)
  <2>1. /\ turn[t].at = "stored" /\ UNCHANGED <<thread, chat>>
        /\ Kept(t, turn[t].pieces) /\ Go(t, "close")
    BY <1>1, <1>12 DEF SendDone, At, Course, Emit
  <2>2. PICK e \in {"done", "error"} : Put(t, <<e>>) BY <1>12 DEF SendDone, Emit
  <2>3. Others(t) /\ Same(t) /\ turn'[t].at = "close" BY <2>1, GoFacts DEF Step
  <2>4. e \in Event /\ e \in Marks BY DEF Event, Marks
  <2> QED BY <2>1, <2>2, <2>3, <2>4, MoveTells DEF Ended
<1>13. CASE CloseStream(t) BY <1>13, CloseShows
<1>14. CASE SendCitations(t) BY <1>14, CallShows
<1> QED BY <1>2, <1>3, <1>4, <1>5, <1>6, <1>8, <1>9, <1>10, <1>11, <1>12, <1>13, <1>14
        DEF ServerStep

LEMMA FaultShows ==
    ASSUME TypeInv, ServerInv, PageInv, NEW t \in Turns,
           StatementFails(t) \/ ServerDies(t) \/ ConnectionLost(t)
    PROVE  PageInv'
<1>1. UNCHANGED <<thread, chat>> /\ Grows
  BY SameThreads DEF StatementFails, ServerDies, ConnectionLost
<1>2. CASE /\ turn[t].at \in {"open", "refuse", "store", "record", "abandon", "failing"}
           /\ Go(t, AfterFailure(t)) /\ UNCHANGED wire
  <2>1. PICK a \in {"store", "close", "throw"} :
          Go(t, a) /\ (a = "close" => turn[t].at = "abandon")
    <3>1. CASE turn[t].at = "record" BY <1>2, <3>1 DEF AfterFailure, At
    <3>2. CASE turn[t].at = "abandon" BY <1>2, <3>2 DEF AfterFailure, At
    <3>3. CASE turn[t].at \notin {"record", "abandon"} BY <1>2, <3>3 DEF AfterFailure, At
    <3> QED BY <3>1, <3>2, <3>3
  <2>2. a \in Step BY DEF Step
  <2> QED BY <1>1, <1>2, <2>1, <2>2, SilentMove DEF Ended
<1>3. CASE /\ turn[t].saving /\ UNCHANGED wire
           /\ turn' = [turn EXCEPT ![t].saving = FALSE,
                                   ![t].at = IF @ = "gather" THEN "throw" ELSE @]
  <2>1. /\ Others(t) /\ turn'[t].thread = turn[t].thread
        /\ turn'[t].question = turn[t].question /\ turn'[t].pieces = turn[t].pieces
    BY <1>3, SaveFailsFacts
  <2>2. turn'[t].at = IF turn[t].at = "gather" THEN "throw" ELSE turn[t].at
    BY <1>3, SaveFailsFacts
  <2>3. turn[t].at \in {"gather", "throw", "over"} BY <1>3 DEF ServerInv, Course
  <2>4. turn'[t].at \in {"throw", "over"} /\ (turn[t].at = "over" => turn'[t].at = "over")
    BY <2>2, <2>3
  <2> QED BY <1>1, <1>3, <2>1, <2>3, <2>4, QuietTells DEF Ended
<1>4. CASE ServerDies(t)
  <2>1. /\ turn[t].at # "unused" /\ wire' = [wire EXCEPT ![t].up = FALSE]
        /\ turn' = [turn EXCEPT ![t].at = "over", ![t].saving = FALSE]
    BY <1>4 DEF ServerDies
  <2> QED BY <1>1, <2>1, DiesFacts, DownTells
<1>5. CASE ConnectionLost(t)
  <2>1. UNCHANGED turn /\ wire' = [wire EXCEPT ![t].up = FALSE] BY <1>5 DEF ConnectionLost
  <2>2. Others(t) /\ turn'[t] = turn[t] BY <2>1 DEF Others, TypeInv
  <2> QED BY <1>1, <2>1, <2>2, DownTells
<1> QED BY <1>2, <1>3, <1>4, <1>5 DEF StatementFails

LEMMA PageUnchanged ==
    ASSUME PageInv, UNCHANGED vars PROVE PageInv'
BY ZenonT(60) DEF PageInv, Sent, Counted, Awaits, Alone, Kept, vars

LEMMA PageInvStep == TypeInv /\ ServerInv /\ PageInv /\ [Next]_vars => PageInv'
<1> SUFFICES ASSUME TypeInv, ServerInv, PageInv, [Next]_vars PROVE PageInv' OBVIOUS
<1>1. CASE UNCHANGED vars BY <1>1, PageUnchanged
<1>2. CASE Next
  BY <1>2, PageStepShows, ServerStepShows, StreamShows, FaultShows DEF Next
<1> QED BY <1>1, <1>2

-----------------------------------------------------------------------------
(* The theorems *)

LEMMA AlwaysInv == Spec => [](TypeInv /\ ServerInv /\ PageInv)
<1>1. Init => TypeInv /\ ServerInv /\ PageInv BY InitTypeInv, InitServerInv, InitPageInv
<1>2. TypeInv /\ ServerInv /\ PageInv /\ [Next]_vars => (TypeInv /\ ServerInv /\ PageInv)'
  BY TypeStep, ServerInvStep, PageInvStep
<1> QED BY <1>1, <1>2, PTL DEF Spec

LEMMA InvTypeOK == TypeInv /\ PageInv => TypeOK
<1> SUFFICES ASSUME TypeInv, PageInv PROVE TypeOK OBVIOUS
<1>1. ASSUME NEW c \in Chats PROVE chat[c] \in Chat
  <2>1. chat[c] \in LooseChat BY DEF TypeInv
  <2>2. chat[c].draft.pieces \in Pieces BY DEF PageInv, Counted
  <2> QED BY <2>1, <2>2 DEF LooseChat, Chat
<1>2. chat \in [Chats -> Chat] BY <1>1 DEF TypeInv
<1> QED BY <1>2 DEF TypeInv, TypeOK

LEMMA InvFollows == TypeInv /\ ServerInv /\ PageInv => AnswerFollowsQuestion
BY InvTypeOK DEF ServerInv, Paired, AnswerFollowsQuestion

LEMMA InvRows == ServerInv => RowForEveryCall
<1> SUFFICES ASSUME ServerInv, NEW t \in Turns
             PROVE  /\ Len(aiRequest[t]) <= 1
                    /\ At(t, "over") /\ turn[t].called /\ t \notin hit => aiRequest[t] # <<>>
                    /\ "FAILED" \in {aiRequest[t][i] : i \in DOMAIN aiRequest[t]} =>
                          Stored(t) = {}
  BY DEF RowForEveryCall
<1>1. Rows(t) BY DEF ServerInv
<1>2. ASSUME "FAILED" \in {aiRequest[t][i] : i \in DOMAIN aiRequest[t]} PROVE Stored(t) = {}
  <2>1. turn[t].thread \in Turns /\ NoAnswer(t) BY <1>1, <1>2 DEF Rows
  <2> QED BY <2>1 DEF NoAnswer, Stored
<1> QED BY <1>1, <1>2 DEF Rows, At

LEMMA InvDone == PageInv => DoneMeansStored
<1> SUFFICES ASSUME PageInv, NEW c \in Chats, chat[c].draft.status \in {"done", "refused"}
             PROVE  \E i \in Stored(chat[c].draft.of) :
                       thread[turn[chat[c].draft.of].thread][i].pieces = chat[c].draft.pieces
  BY DEF DoneMeansStored
<1>1. Kept(chat[c].draft.of, chat[c].draft.pieces) BY DEF PageInv, Counted
<1> QED BY <1>1 DEF Kept, Stored

LEMMA InvNeverSilent == PageInv => NeverSilent
BY DEF PageInv, Awaits, NeverSilent

\* A stored answer has its question before it in the same conversation, whatever
\* turns of the conversation overlap, fail or are tried again; and a page never
\* shows more pieces than a turn may have.
THEOREM AnswerFollowsQuestionCorrect == Spec => []AnswerFollowsQuestion
BY AlwaysInv, InvFollows, PTL

\* A model call leaves one AiRequest row, and a failed one no answer.
THEOREM RowForEveryCallCorrect == Spec => []RowForEveryCall
BY AlwaysInv, InvRows, PTL

\* What a page shows as finished is stored with as many pieces.
THEOREM DoneMeansStoredCorrect == Spec => []DoneMeansStored
BY AlwaysInv, InvDone, PTL

\* A page that stops waiting without an answer offers the question again.
THEOREM NeverSilentCorrect == Spec => []NeverSilent
BY AlwaysInv, InvNeverSilent, PTL

=============================================================================
