------------------------------- MODULE Prompts -------------------------------
(***************************************************************************)
(* What the models are told of a learner: the tutor of the conversation so *)
(* far (askTutor in lib/services/tutor.ts, lib/ai/features/tutor-answer.ts),*)
(* the note-taker of the conversation it sums up (rebuildLearningContext in *)
(* lib/services/learning-context.ts, lib/ai/features/summarize-context.ts), *)
(* and the adviser of the concepts (lib/ai/features/                        *)
(* generate-recommendations.ts).  Wording and the evidence are left out:    *)
(* Retrieval has the evidence.  Turns run at the same time, in one          *)
(* conversation (a retry, or a second page) or in several.                  *)
(***************************************************************************)
EXTENDS Integers, Sequences, SequencesExt, FiniteSets

CONSTANTS
    Threads,        \* the conversations of the project
    TurnCount,      \* the turns asked in them
    Window,         \* CONVERSATION_WINDOW_TURNS: messages of history
    SummaryTurns,   \* MAX_SUMMARY_TURNS: messages to sum up
    Known,          \* concepts, by their place in the order of names
    Levels,         \* values of mastery
    MaxConcepts     \* MAX_CONCEPTS

ASSUME PromptAssumption ==
    /\ {Window, SummaryTurns, MaxConcepts} \subseteq Nat \ {0} /\ TurnCount \in Nat
    /\ Known \subseteq Nat /\ IsFiniteSet(Known) /\ Levels \subseteq Nat

VARIABLES
    messages,   \* the Message rows of each conversation, in the order they were written
    started,    \* the conversations there are
    recent,     \* the one whose updatedAt is the newest
    newest,     \* history: the question asked last, in whichever conversation
    turn,       \* each turn of the tutor
    summing,    \* the summary being made
    adviser     \* the last prompt of the adviser

promptVars == <<messages, started, recent, newest, turn, summing, adviser>>

-----------------------------------------------------------------------------
(* Messages *)

Message(thread, role, t) == [thread |-> thread, role |-> role, turn |-> t]

\* The newest messages of a conversation, oldest first.
LatestMessages(thread, limit) ==
    LET all == messages[thread] IN
    SubSeq(all, IF Len(all) > limit THEN Len(all) - limit + 1 ELSE 1, Len(all))

Turns == 1..TurnCount
NoThread == "none"
NoMessage == Message(NoThread, "NONE", 0)
NoTurn == [at |-> "idle", thread |-> NoThread, history |-> <<>>]
Done == [NoTurn EXCEPT !.at = "done"]
NoAdvice == [mastery |-> <<>>, lines |-> <<>>]
NoSummary == [of |-> <<>>, newest |-> NoMessage]

PromptsInit ==
    /\ messages = [thread \in Threads |-> <<>>]
    /\ started = {} /\ recent = NoThread
    /\ newest = NoMessage
    /\ turn = [t \in Turns |-> NoTurn]
    /\ summing = NoSummary
    /\ adviser = NoAdvice

-----------------------------------------------------------------------------
(* askTutor *)

\* The conversation is found or created, and its window read.
ReadHistory(t) ==
    /\ turn[t].at = "idle"
    /\ \A u \in 1..(t - 1) : turn[u].at # "idle"   \* turns are numbered as they begin
    /\ adviser = NoAdvice
    /\ \E thread \in Threads :
          /\ turn' = [turn EXCEPT ![t] = [@ EXCEPT !.at = "asked", !.thread = thread,
                                                   !.history = LatestMessages(thread, Window)]]
          /\ started' = started \cup {thread}
          /\ recent' = IF thread \in started THEN recent ELSE thread
    /\ UNCHANGED <<messages, newest, summing, adviser>>

\* Another message of its conversation.
PutMessage(t, role) ==
    messages' = [messages EXCEPT ![turn[t].thread] = Append(@, Message(turn[t].thread, role, t))]

\* Mutant: the question is saved and its conversation stays where it was.
SaveQuestionOnly(t) ==
    /\ turn[t].at = "asked"
    /\ PutMessage(t, "USER")
    /\ newest' = Message(turn[t].thread, "USER", t)
    /\ turn' = [turn EXCEPT ![t].at = "saved"]
    /\ UNCHANGED <<started, recent, summing, adviser>>

\* The question, and the updatedAt of its conversation, which a message does not move.
SaveQuestion(t) ==
    /\ turn[t].at = "asked"
    /\ PutMessage(t, "USER")
    /\ newest' = Message(turn[t].thread, "USER", t)
    /\ recent' = turn[t].thread
    /\ turn' = [turn EXCEPT ![t].at = "saved"]
    /\ UNCHANGED <<started, summing, adviser>>

\* composeTutorPrompt: the history and, at the end, the question.
ComposePrompt(t) ==
    /\ turn[t].at = "saved"
    /\ turn' = [turn EXCEPT ![t].at = "told"]
    /\ UNCHANGED <<messages, started, recent, newest, summing, adviser>>

\* The stream has ended, or there was no evidence and the answer is a refusal.  Either
\* leaves updatedAt as the questions set it.
SaveAnswer(t) ==
    /\ turn[t].at \in {"saved", "told"}
    /\ PutMessage(t, "ASSISTANT")
    /\ turn' = [turn EXCEPT ![t] = Done]
    /\ UNCHANGED <<started, recent, newest, summing, adviser>>

\* The model, a statement or the connection fails: no answer is stored.
TurnFails(t) ==
    /\ turn[t].at \in {"asked", "saved", "told"}
    /\ turn' = [turn EXCEPT ![t] = Done]
    /\ UNCHANGED <<messages, started, recent, newest, summing, adviser>>

-----------------------------------------------------------------------------
(* rebuildLearningContext *)

\* The conversation touched last, if it has messages.
ReadConversation ==
    /\ summing = NoSummary
    /\ started # {} /\ messages[recent] # <<>>
    /\ summing' = [of |-> LatestMessages(recent, SummaryTurns), newest |-> newest]
    /\ UNCHANGED <<messages, started, recent, newest, turn, adviser>>

\* The model sums them up, or its call fails; what becomes of the notes is in Guidance.
SummaryEnds ==
    /\ summing # NoSummary
    /\ summing' = NoSummary
    /\ UNCHANGED <<messages, started, recent, newest, turn, adviser>>

-----------------------------------------------------------------------------
(* composeRecommendationPrompt *)

\* A stable sort by mastery of the concepts, which come in the order of their names: the
\* n-th is the one that comes after n - 1 others.
ToldBefore(mastery, a, b) == mastery[a] < mastery[b] \/ (mastery[a] = mastery[b] /\ a < b)
WeakestFirst(mastery) ==
    [n \in 1..Cardinality(Known) |->
        CHOOSE c \in Known : Cardinality({a \in Known : ToldBefore(mastery, a, c)}) = n - 1]

AskAdviser ==
    /\ \E mastery \in [Known -> Levels] :
          adviser' = [mastery |-> mastery,
                      lines |-> SubSeq(WeakestFirst(mastery), 1,
                          IF Cardinality(Known) < MaxConcepts THEN Cardinality(Known) ELSE MaxConcepts)]
    /\ started = {}   \* it shares nothing with the turns: one state of theirs is enough
    /\ UNCHANGED <<messages, started, recent, newest, turn, summing>>

-----------------------------------------------------------------------------
PromptsNext ==
    \/ \E t \in Turns :
          \/ ReadHistory(t) \/ SaveQuestion(t) \/ ComposePrompt(t)
          \/ SaveAnswer(t) \/ TurnFails(t)
    \/ ReadConversation \/ SummaryEnds \/ AskAdviser

-----------------------------------------------------------------------------
(* Properties *)

\* The tutor is told of its own conversation only, in its order, up to a moment before
\* the question, which it gets once; what is missing of the history is older than what
\* is there, or was written while the turn was under way.
HistoryTold ==
    \A t \in Turns :
        LET all == messages[turn[t].thread]
            told == turn[t].history
            Place(message) == CHOOSE k \in DOMAIN all : all[k] = message
        IN
        turn[t].at \in {"asked", "saved", "told"} =>
            /\ \A message \in ToSet(told) : message.turn # t /\ message \in ToSet(all)
            /\ \A k \in 1..(Len(told) - 1) : Place(told[k + 1]) = Place(told[k]) + 1
            /\ \A k \in DOMAIN all :
                  all[k].turn = t /\ told # <<>> => Place(Last(told)) < k

\* The notes are made of the conversation that was asked in last, up to its newest
\* messages: that question is one of them, or as many as are summed up came after it.
SummaryOfNewest ==
    LET read == summing.of IN
    summing # NoSummary =>
        /\ \A k \in DOMAIN read : read[k].thread = summing.newest.thread
        /\ summing.newest \in ToSet(read) \/ Len(read) = SummaryTurns

\* The adviser is told of the weakest concepts, weakest first, and as many as fit.
WeakestTold ==
    LET lines == adviser.lines
        mastery == adviser.mastery
    IN
    lines # <<>> =>
        /\ Len(lines) = Cardinality(ToSet(lines))
        /\ ToSet(lines) = Known \/ Len(lines) = MaxConcepts
        /\ \A k \in DOMAIN lines : \A c \in Known :
              mastery[c] < mastery[lines[k]] => \E j \in 1..(k - 1) : lines[j] = c

\* What the models are told is what the learner's records say.
ToldTrue == HistoryTold /\ SummaryOfNewest /\ WeakestTold
=============================================================================
