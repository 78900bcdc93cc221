------------------------------ MODULE TutorTurn ------------------------------
(***************************************************************************)
(* A question to the tutor, from the page that sends it to the answer it    *)
(* stores: the chat (components/tutor/tutor-chat.tsx), the stream of events *)
(* between server and browser (app/api/tutor/route.ts), the turn itself     *)
(* (lib/services/tutor.ts) and the AiRequest row of its model call          *)
(* (lib/ai/index.ts).                                                      *)
(*                                                                         *)
(* A turn is one POST.  A conversation has the name of the turn that        *)
(* created it, and a question that of the turn that first sent it, so a     *)
(* retry is a turn whose question is another's.  The deadline and the idle  *)
(* timer may fire wherever the code looks at them.                          *)
(***************************************************************************)
EXTENDS Naturals, Sequences, FiniteSets

CONSTANTS
    Chats,      \* open pages
    MaxTurns,   \* bound on the turns
    MaxPieces,  \* bound on the deltas of an answer
    MaxFaults   \* bound on processes and statements that fail, and lost connections

ASSUME TutorAssumption == MaxTurns \in Nat /\ MaxPieces \in Nat /\ MaxFaults \in Nat

VARIABLES
    thread,     \* messages of each conversation, in order of creation
    turn,       \* the server's side of each turn
    wire,       \* the events on their way to the browser, and is the connection up?
    aiRequest,  \* statuses of the AiRequest rows each turn's model call left
    chat,       \* the page's side
    hit         \* the turns a fault has hit

vars == <<thread, turn, wire, aiRequest, chat, hit>>

-----------------------------------------------------------------------------
Turns == 1..MaxTurns
None == 0                   \* no turn, no conversation
Pieces == 0..MaxPieces

Message == [role : {"USER", "ASSISTANT"}, turn : Turns, question : Turns, pieces : Pieces]

\* "gather": the question is being stored while evidence is retrieved.
Step == {"unused", "preflight", "open", "gather", "refuse", "refused", "cite", "stream",
         "record", "store", "stored", "abandon", "failing", "throw", "close", "over"}
Turn == [at : Step, question : Turns \cup {None}, thread : Turns \cup {None},
         saving : BOOLEAN, evidence : {"unknown", "none", "some"}, pieces : Pieces,
         called : BOOLEAN]
Unused == [at |-> "unused", question |-> None, thread |-> None, saving |-> FALSE,
           evidence |-> "unknown", pieces |-> 0, called |-> FALSE]

Event == {"rejected", "headers", "citations", "delta", "insufficient_evidence", "done",
          "error", "end"}
Wire == [up : BOOLEAN, events : Seq(Event)]

\* draft: what the page shows of the turn's answer.  refreshing: the messages of
\* the server are on their way.
Chat == [turn : Turns \cup {None}, listening : BOOLEAN, thread : Turns \cup {None},
         retryable : Turns \cup {None}, refreshing : BOOLEAN,
         draft : [of : Turns \cup {None}, pieces : Pieces,
                  status : {"none", "streaming", "refused", "done"}]]
NoDraft == [of |-> None, pieces |-> 0, status |-> "none"]

Init ==
    /\ thread = [t \in Turns |-> <<>>]
    /\ turn = [t \in Turns |-> Unused]
    /\ wire = [t \in Turns |-> [up |-> FALSE, events |-> <<>>]]
    /\ aiRequest = [t \in Turns |-> <<>>]
    /\ chat = [c \in Chats |-> [turn |-> None, listening |-> FALSE, thread |-> None,
                                retryable |-> None, refreshing |-> FALSE, draft |-> NoDraft]]
    /\ hit = {}

-----------------------------------------------------------------------------
(* The page *)

\* send: a request with the page's conversation, and an empty draft.
Send(c, t, question) ==
    /\ chat[c].turn = None
    /\ turn[t].at = "unused" /\ \A s \in 1..(t - 1) : turn[s].at # "unused"
    /\ turn' = [turn EXCEPT ![t] =
          [Unused EXCEPT !.at = "preflight", !.question = question, !.thread = chat[c].thread]]
    /\ wire' = [wire EXCEPT ![t].up = TRUE]
    /\ chat' = [chat EXCEPT ![c] =
          [@ EXCEPT !.turn = t, !.listening = FALSE, !.retryable = None,
                    !.draft = [NoDraft EXCEPT !.of = t, !.status = "streaming"]]]
    /\ UNCHANGED <<thread, aiRequest, hit>>

Ask(c, t) == Send(c, t, t)
TryAgain(c, t) == chat[c].retryable # None /\ Send(c, t, chat[c].retryable)

\* openConversation and handleNewConversation, while MaxTurns leaves a turn to ask.
Switch(c, id) ==
    /\ chat[c].turn = None /\ turn[MaxTurns].at = "unused"
    /\ id # None => turn[id].thread = id
    /\ chat' = [chat EXCEPT ![c] = [@ EXCEPT !.thread = id, !.retryable = None, !.draft = NoDraft]]
    /\ UNCHANGED <<thread, turn, wire, aiRequest, hit>>

\* The turn is over for the page; after an error the draft goes, and the
\* question may be sent again.
Finished(slot) == [slot EXCEPT !.turn = None, !.listening = FALSE, !.refreshing = TRUE]
GaveUp(slot) ==
    [Finished(slot) EXCEPT !.retryable = turn[slot.turn].question, !.draft = NoDraft]

\* patchDraft: without effect when the draft has gone.
Patched(slot, d) == IF slot.draft.status = "none" THEN slot ELSE [slot EXCEPT !.draft = d]

\* What one event does to the page.
Seen(slot, event) ==
    LET here == [slot EXCEPT !.thread = turn[slot.turn].thread] IN
    CASE event = "rejected" -> GaveUp(slot)
      [] event = "headers" -> [slot EXCEPT !.listening = TRUE]
      [] event = "citations" -> here
      [] event = "delta" -> Patched(slot, [slot.draft EXCEPT !.pieces = @ + 1])
      [] event = "insufficient_evidence" -> Patched(here, [slot.draft EXCEPT !.status = "refused"])
      [] event = "done" -> Patched(here, [slot.draft EXCEPT !.status = IF @ = "refused" THEN @ ELSE "done"])
      [] event = "error" -> [slot EXCEPT !.retryable = turn[slot.turn].question]
      [] event = "end" -> Finished(slot)

\* The server's messages replace the page's if its thread is the newest, the draft
\* of a turn sent meanwhile included.
Resync(c) ==
    /\ chat[c].refreshing
    /\ \E draft \in {NoDraft, chat[c].draft} :
          chat' = [chat EXCEPT ![c] = [@ EXCEPT !.refreshing = FALSE, !.draft = draft]]
    /\ UNCHANGED <<thread, turn, wire, aiRequest, hit>>

\* readSseStream hands over the events in order, until the body ends.
Read(c) ==
    LET t == chat[c].turn IN
    /\ t # None /\ wire[t].events # <<>>
    /\ chat' = [chat EXCEPT ![c] = Seen(@, Head(wire[t].events))]
    /\ wire' = [wire EXCEPT ![t] =
          [up |-> @.up /\ Head(@.events) \notin {"rejected", "end"}, events |-> Tail(@.events)]]
    /\ UNCHANGED <<thread, turn, aiRequest, hit>>

\* Mutant: the timer is armed when the first event arrives.
IdleTimeoutOnceStarted(c) ==
    LET t == chat[c].turn IN
    /\ chat[c].listening /\ wire[t].events = <<>> /\ chat[c].draft.pieces > 0
    /\ wire' = [wire EXCEPT ![t].up = FALSE]
    /\ chat' = [chat EXCEPT ![c] = GaveUp(@)]
    /\ UNCHANGED <<thread, turn, aiRequest, hit>>

\* Nothing arrives for STREAM_IDLE_TIMEOUT_MS after the last event, or after the
\* response's headers: the page aborts.
IdleTimeout(c) ==
    LET t == chat[c].turn IN
    /\ chat[c].listening /\ wire[t].events = <<>>
    /\ wire' = [wire EXCEPT ![t].up = FALSE]
    /\ chat' = [chat EXCEPT ![c] = GaveUp(@)]
    /\ UNCHANGED <<thread, turn, aiRequest, hit>>

\* The connection is lost: the page drops what it has.
Interrupted(c) ==
    LET t == chat[c].turn IN
    /\ t # None /\ ~wire[t].up
    /\ wire' = [wire EXCEPT ![t].events = <<>>]
    /\ chat' = [chat EXCEPT ![c] = GaveUp(@)]
    /\ UNCHANGED <<thread, turn, aiRequest, hit>>

-----------------------------------------------------------------------------
(* The turn.  Emit hands an event to the route, which looks at the deadline and
   may find that nobody is there any more: it may also learn that later. *)

At(t, at) == turn[t].at = at
Go(t, at) == turn' = [turn EXCEPT ![t].at = at]

Put(t, events) == wire' = [wire EXCEPT ![t].events = IF wire[t].up THEN @ \o events ELSE @]

Emit(t, event, next, instead) ==
    \/ Put(t, <<event>>) /\ next
    \/ Put(t, <<"error">>) /\ Go(t, instead)     \* too late, or nobody reads

\* preflight: whatever fails here is a JSON response.
Preflight(t) ==
    /\ At(t, "preflight")
    /\ \/ Put(t, <<"rejected">>) /\ Go(t, "over")
       \/ Put(t, <<"headers">>) /\ Go(t, "open")
    /\ UNCHANGED <<thread, aiRequest, chat, hit>>

\* The page's conversation, or a new one.
FindConversation(t) ==
    /\ At(t, "open")
    /\ turn' = [turn EXCEPT ![t].at = "gather", ![t].saving = TRUE,
                            ![t].thread = IF @ = None THEN t ELSE @]
    /\ UNCHANGED <<thread, wire, aiRequest, chat, hit>>

\* The question's transaction.  Once started it goes on even if the turn has
\* failed meanwhile: nobody waits for it, and nobody stops it.
SaveQuestion(t) ==
    /\ turn[t].saving
    /\ turn' = [turn EXCEPT ![t].saving = FALSE]
    /\ thread' = [thread EXCEPT ![turn[t].thread] = Append(@,
          [role |-> "USER", turn |-> t, question |-> turn[t].question, pieces |-> 0])]
    /\ UNCHANGED <<wire, aiRequest, chat, hit>>

\* retrieveEvidence; the embedding may fail.
Retrieve(t) ==
    /\ At(t, "gather") /\ turn[t].evidence = "unknown"
    /\ \/ \E e \in {"none", "some"} : turn' = [turn EXCEPT ![t].evidence = e]
       \/ Go(t, "throw")
    /\ UNCHANGED <<thread, wire, aiRequest, chat, hit>>

\* Mutant: the question's transaction is not awaited.
GateWithoutQuestion(t) ==
    /\ At(t, "gather")
    /\ turn[t].evidence # "unknown"
    /\ Go(t, IF turn[t].evidence = "none" THEN "refuse" ELSE "cite")
    /\ UNCHANGED <<thread, wire, aiRequest, chat, hit>>

\* Both are awaited; then the evidence decides.
Gate(t) ==
    /\ At(t, "gather")
    /\ ~turn[t].saving /\ turn[t].evidence # "unknown"
    /\ Go(t, IF turn[t].evidence = "none" THEN "refuse" ELSE "cite")
    /\ UNCHANGED <<thread, wire, aiRequest, chat, hit>>

\* The assistant's message, whole, in its transaction.
Answered(t) ==
    thread' = [thread EXCEPT ![turn[t].thread] = Append(@,
        [role |-> "ASSISTANT", turn |-> t, question |-> turn[t].question,
         pieces |-> turn[t].pieces])]

StoreRefusal(t) ==
    /\ At(t, "refuse")
    /\ Answered(t)
    /\ Go(t, "refused")
    /\ UNCHANGED <<wire, aiRequest, chat, hit>>

SendRefusal(t) ==
    /\ At(t, "refused")
    /\ Emit(t, "insufficient_evidence", Go(t, "stored"), "close")
    /\ UNCHANGED <<thread, aiRequest, chat, hit>>

\* When the route asks for more after the citations, the model is called.
SendCitations(t) ==
    /\ At(t, "cite")
    /\ Emit(t, "citations", turn' = [turn EXCEPT ![t].at = "stream", ![t].called = TRUE], "close")
    /\ UNCHANGED <<thread, aiRequest, chat, hit>>

\* The model's stream: another piece, its end, or a failure.
StreamPiece(t) ==
    /\ At(t, "stream") /\ turn[t].pieces < MaxPieces
    /\ Emit(t, "delta", turn' = [turn EXCEPT ![t].pieces = @ + 1], "abandon")
    /\ UNCHANGED <<thread, aiRequest, chat, hit>>

StreamEnds(t) ==
    /\ At(t, "stream")
    /\ Go(t, "record") \/ Go(t, "failing")
    /\ UNCHANGED <<thread, wire, aiRequest, chat, hit>>

Status(t) == IF At(t, "failing") THEN "FAILED" ELSE "SUCCESS"

\* Mutant: the row is written on success only, not in a finally.
RecordSuccess(t) ==
    /\ turn[t].at \in {"record", "abandon", "failing"}
    /\ aiRequest' = [aiRequest EXCEPT ![t] = IF At(t, "record") THEN Append(@, "SUCCESS") ELSE @]
    /\ Go(t, CASE At(t, "record") -> "store" [] At(t, "abandon") -> "close" [] OTHER -> "throw")
    /\ UNCHANGED <<thread, wire, chat, hit>>

\* aiStreamText's finally: the row is written however the stream ended, also
\* when the route has stopped asking for more.
RecordRequest(t) ==
    /\ turn[t].at \in {"record", "abandon", "failing"}
    /\ aiRequest' = [aiRequest EXCEPT ![t] = Append(@, Status(t))]
    /\ Go(t, CASE At(t, "record") -> "store" [] At(t, "abandon") -> "close" [] OTHER -> "throw")
    /\ UNCHANGED <<thread, wire, chat, hit>>

StoreAnswer(t) ==
    /\ At(t, "store")
    /\ Answered(t)
    /\ Go(t, "stored")
    /\ UNCHANGED <<wire, aiRequest, chat, hit>>

SendDone(t) ==
    /\ At(t, "stored")
    /\ Emit(t, "done", Go(t, "close"), "close")
    /\ UNCHANGED <<thread, aiRequest, chat, hit>>

\* Mutant: the catch block only logs.
CloseStreamSilently(t) ==
    /\ turn[t].at \in {"throw", "close"}
    /\ Put(t, <<"end">>)
    /\ Go(t, "over")
    /\ UNCHANGED <<thread, aiRequest, chat, hit>>

\* The catch block tells the page, if it is there; the stream is closed.
CloseStream(t) ==
    /\ turn[t].at \in {"throw", "close"}
    /\ Put(t, IF At(t, "throw") THEN <<"error", "end">> ELSE <<"end">>)
    /\ Go(t, "over")
    /\ UNCHANGED <<thread, aiRequest, chat, hit>>

\* What the server does by itself; StreamPiece and StreamEnds are the model's.
ServerStep(t) ==
    \/ Preflight(t) \/ FindConversation(t) \/ SaveQuestion(t) \/ Retrieve(t) \/ Gate(t)
    \/ StoreRefusal(t) \/ SendRefusal(t) \/ SendCitations(t) \/ RecordRequest(t)
    \/ StoreAnswer(t) \/ SendDone(t) \/ CloseStream(t)

-----------------------------------------------------------------------------
(* Faults *)

Fault(t) == Cardinality(hit) < MaxFaults /\ t \notin hit /\ hit' = hit \cup {t}

\* Mutant: an answer that cannot be stored is reported as done.
AfterFailureToStore(t) ==
    CASE At(t, "record") -> "store" [] At(t, "abandon") -> "close"
      [] At(t, "store") -> "stored" [] OTHER -> "throw"

\* A transaction that fails ends the turn; recordAiRequest never throws.
AfterFailure(t) ==
    CASE At(t, "record") -> "store" [] At(t, "abandon") -> "close" [] OTHER -> "throw"

StatementFails(t) ==
    /\ Fault(t)
    /\ \/ /\ turn[t].at \in {"open", "refuse", "store", "record", "abandon", "failing"}
          /\ Go(t, AfterFailure(t))
       \/ /\ turn[t].saving
          /\ turn' = [turn EXCEPT ![t].saving = FALSE,
                                  ![t].at = IF @ = "gather" THEN "throw" ELSE @]
    /\ UNCHANGED <<thread, wire, aiRequest, chat>>

\* The server's process dies in the middle of a turn.
ServerDies(t) ==
    /\ Fault(t)
    /\ turn[t].at \notin {"unused", "over"}
    /\ turn' = [turn EXCEPT ![t].at = "over", ![t].saving = FALSE]
    /\ wire' = [wire EXCEPT ![t].up = FALSE]
    /\ UNCHANGED <<thread, aiRequest, chat>>

ConnectionLost(t) ==
    /\ Fault(t)
    /\ wire[t].up
    /\ wire' = [wire EXCEPT ![t].up = FALSE]
    /\ UNCHANGED <<thread, turn, aiRequest, chat>>

-----------------------------------------------------------------------------
Next ==
    \/ \E c \in Chats :
          \/ \E t \in Turns : Ask(c, t) \/ TryAgain(c, t)
          \/ \E id \in Turns \cup {None} : Switch(c, id)
          \/ Resync(c) \/ Read(c) \/ IdleTimeout(c) \/ Interrupted(c)
    \/ \E t \in Turns :
          \/ ServerStep(t) \/ StreamPiece(t) \/ StreamEnds(t)
          \/ StatementFails(t) \/ ServerDies(t) \/ ConnectionLost(t)

Spec == Init /\ [][Next]_vars

\* The server goes on with a turn and the page with its events and its timer.
\* Nothing is asked of the model: its stream may stall for ever.
Fairness ==
    /\ \A t \in Turns : WF_vars(ServerStep(t))
    /\ \A c \in Chats : WF_vars(Read(c)) /\ WF_vars(IdleTimeout(c)) /\ WF_vars(Interrupted(c))

FairSpec == Spec /\ Fairness

-----------------------------------------------------------------------------
(* Properties *)

\* Every message, turn, connection and page has the fields of its type, and a
\* model call leaves one AiRequest row at most.
TypeOK ==
    /\ thread \in [Turns -> Seq(Message)]
    /\ turn \in [Turns -> Turn]
    /\ wire \in [Turns -> Wire]
    /\ aiRequest \in [Turns -> Seq({"SUCCESS", "FAILED"})]
    /\ chat \in [Chats -> Chat]
    /\ hit \subseteq Turns

Stored(t) == {i \in DOMAIN thread[turn[t].thread] :
    thread[turn[t].thread][i].turn = t /\ thread[turn[t].thread][i].role = "ASSISTANT"}

\* A turn's answer stands after its question, in the same conversation, whatever
\* order the overlapping turns of a conversation end in.
AnswerFollowsQuestion ==
    /\ TypeOK
    /\ \A id \in Turns : \A i \in DOMAIN thread[id] :
          thread[id][i].role = "ASSISTANT" =>
              \E j \in 1..(i - 1) : /\ thread[id][j].role = "USER"
                                    /\ thread[id][j].turn = thread[id][i].turn

\* One AiRequest row per model call, also when the call fails, the deadline
\* passes or the learner leaves in the middle of the stream; and "if the model call
\* fails mid-stream [...] no assistant Message is persisted; the failure is recorded
\* on the AiRequest row instead" (docs/limitations.md).
RowForEveryCall ==
    \A t \in Turns :
        /\ Len(aiRequest[t]) <= 1
        /\ At(t, "over") /\ turn[t].called /\ t \notin hit => aiRequest[t] # <<>>
        /\ "FAILED" \in {aiRequest[t][i] : i \in DOMAIN aiRequest[t]} => Stored(t) = {}

\* What the page shows as finished is what the conversation keeps: the answer
\* with every piece the page has, or the refusal.
DoneMeansStored ==
    \A c \in Chats :
        LET draft == chat[c].draft IN
        draft.status \in {"done", "refused"} =>
            \E i \in Stored(draft.of) :
                thread[turn[draft.of].thread][i].pieces = draft.pieces

\* The page stops waiting in the end, even when the model stalls, the server dies
\* or the connection is lost.
PendingEnds == \A c \in Chats : chat[c].turn # None ~> chat[c].turn = None

\* A page that stops waiting without an answer says so: its question can be tried
\* again.  Every end of the stream without "done" is announced, or is a lost
\* connection.
NeverSilent ==
    \A c \in Chats :
        chat[c].turn = None /\ chat[c].draft.status = "streaming" =>
            chat[c].retryable = turn[chat[c].draft.of].question
=============================================================================
