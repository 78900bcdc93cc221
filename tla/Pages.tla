-------------------------------- MODULE Pages --------------------------------
(***************************************************************************)
(* Two pages that keep a copy of what the server stores: the quiz page      *)
(* (components/quiz/quiz-runner.tsx) and the list of materials              *)
(* (components/materials/material-list.tsx, upload-form.tsx).  A page has   *)
(* several requests under way; their answers arrive in any order, each      *)
(* changes the copy its own way, and after twenty seconds the page gives a  *)
(* request up while the server goes on with it.  The server's side is as    *)
(* coarse as the page can tell: QuizSession.tla and MaterialPipeline.tla    *)
(* have the rest.                                                           *)
(***************************************************************************)
EXTENDS Integers, Sequences, FiniteSets

CONSTANTS
    Questions, NoQuestion,   \* of one quiz, and "no question"
    Materials, NoMaterial,   \* that one project may have
    MaxCalls,                \* bound on what the learner does on each page
    MaxPolls                 \* bound on the polls that are on their way

ASSUME PagesAssumption ==
    /\ NoQuestion \notin Questions /\ NoMaterial \notin Materials
    /\ MaxCalls \in [{"quiz", "materials"} -> Nat] /\ MaxPolls \in Nat

VARIABLES
    openPage,     \* the page that is open: "quiz" or "materials"
    storedAnswers, \* server: the questions with an answer
    ended,        \* server: the quiz is COMPLETED
    shown,        \* the quiz page's copy: [answers, ended]
    pendingId,    \* the question the page waits for
    completing,   \* the page waits for the end of the quiz
    status,       \* server: the state of each material
    list,         \* the material page's copy
    busyId,       \* the material whose retry or deletion the page waits for
    uploading,    \* the upload form is pending
    polls,        \* the answers to polls that are on their way
    refreshes,    \* the refreshes of the page under way, which Next.js does in turn
    calls,        \* the requests, in the order they were made
    lapsed        \* history: has the page given up on a request, or been told of a
                  \* failure of one that was carried out?

quizPage == <<storedAnswers, ended, shown, pendingId, completing>>
materialPage == <<status, list, busyId, uploading, polls, refreshes>>
pagesVars == <<openPage, quizPage, materialPage, calls, lapsed>>

-----------------------------------------------------------------------------
(* Requests *)

\* The page treats QUEUED and PROCESSING alike: in flight.
ListStatuses == {"NONE", "IN_FLIGHT", "READY", "FAILED"}
Lists == [Materials -> ListStatuses]
QuizView == [answers : SUBSET Questions, ended : BOOLEAN]
CallKinds == {"answer", "finish", "upload", "retry", "delete"}
Targets == Questions \cup Materials \cup {NoQuestion}

\* crossed: an answer that was under way while the quiz was being finished.
Call ==
    [kind : CallKinds, of : Targets, at : {"sent", "checked", "answered", "over"},
     waits : BOOLEAN, ok : BOOLEAN, view : QuizView, crossed : BOOLEAN]

NoView == [answers |-> {}, ended |-> FALSE]
InFlight(c) == c.at # "over"

\* The page sends a request.
Sent(kind, of) ==
    LET crosses(a, b) == {a, b} = {"answer", "finish"} IN
    calls' = Append([n \in DOMAIN calls |->
                        IF InFlight(calls[n]) /\ crosses(kind, calls[n].kind)
                        THEN [calls[n] EXCEPT !.crossed = TRUE] ELSE calls[n]],
                    [kind |-> kind, of |-> of, at |-> "sent", waits |-> TRUE, ok |-> TRUE, view |-> NoView,
                     crossed |-> \E n \in DOMAIN calls : InFlight(calls[n]) /\ crosses(kind, calls[n].kind)])

CanSend == Len(calls) < MaxCalls[openPage]
CallIs(n, kind, at) == calls[n].kind = kind /\ calls[n].at = at
Goto(n, at) == calls' = [calls EXCEPT ![n].at = at]
Respond(n, ok) == calls' = [calls EXCEPT ![n].at = IF calls[n].waits THEN "answered" ELSE "over", ![n].ok = ok]

\* The response arrives.
Received(n) == calls' = [calls EXCEPT ![n].at = "over", ![n].waits = FALSE, ![n].ok = TRUE, ![n].view = NoView]

PagesInit ==
    /\ openPage \in {"quiz", "materials"}
    /\ storedAnswers = {} /\ ended = FALSE
    /\ shown = NoView
    /\ pendingId = NoQuestion /\ completing = FALSE
    /\ status \in [Materials -> ListStatuses]
    /\ openPage = "quiz" => status = [m \in Materials |-> "NONE"]
    /\ list = status
    /\ busyId = NoMaterial /\ uploading = FALSE
    /\ polls = {} /\ refreshes = <<>>
    /\ calls = <<>>
    /\ lapsed = FALSE

-----------------------------------------------------------------------------
(* The quiz page *)

\* answer: the button of a question is disabled while the page waits for that
\* question, not while it waits for another.
SubmitAnswer(q) ==
    /\ openPage = "quiz" /\ CanSend
    /\ q \notin shown.answers /\ pendingId # q /\ ~shown.ended
    /\ pendingId' = q
    /\ Sent("answer", q)
    /\ UNCHANGED <<openPage, storedAnswers, ended, shown, completing, materialPage, lapsed>>

\* finish, with its button disabled meanwhile.
PressFinish ==
    /\ openPage = "quiz" /\ CanSend
    /\ ~completing /\ ~shown.ended
    /\ completing' = TRUE
    /\ Sent("finish", NoQuestion)
    /\ UNCHANGED <<openPage, storedAnswers, ended, shown, pendingId, materialPage, lapsed>>

\* The checks of submitAnswer, before the grading.
CheckAnswer(n) ==
    /\ CallIs(n, "answer", "sent")
    /\ IF ended \/ calls[n].of \in storedAnswers THEN Respond(n, FALSE) ELSE Goto(n, "checked")
    /\ UNCHANGED <<openPage, quizPage, materialPage, lapsed>>

\* The transaction, which fails if the question has an answer by now.
StoreAnswer(n) ==
    /\ CallIs(n, "answer", "checked")
    /\ storedAnswers' = storedAnswers \cup {calls[n].of}
    /\ Respond(n, calls[n].of \notin storedAnswers)
    /\ UNCHANGED <<openPage, ended, shown, pendingId, completing, materialPage, lapsed>>

CompleteQuiz(n) ==
    /\ CallIs(n, "finish", "sent")
    /\ ended' = TRUE
    /\ Goto(n, "checked")
    /\ UNCHANGED <<openPage, storedAnswers, shown, pendingId, completing, materialPage, lapsed>>

\* getQuiz, read after the completion.
ViewQuiz(n) ==
    /\ CallIs(n, "finish", "checked")
    /\ calls' = [calls EXCEPT ![n].at = IF calls[n].waits THEN "answered" ELSE "over",
                              ![n].view = [answers |-> storedAnswers, ended |-> ended]]
    /\ UNCHANGED <<openPage, quizPage, materialPage, lapsed>>

\* Mutant: the page's copy as it was when the answer was sent.
WithAnswerOnly(n) == [shown EXCEPT !.answers = {calls[n].of}]

\* setQuiz adds one answer to whatever the copy is by now.
WithAnswer(n) == [shown EXCEPT !.answers = @ \cup {calls[n].of}]

\* The end of answer clears pendingId, also when it is another question's.
ReceiveAnswer(n) ==
    /\ CallIs(n, "answer", "answered")
    /\ shown' = IF calls[n].ok THEN WithAnswer(n) ELSE shown
    /\ pendingId' = NoQuestion
    /\ Received(n)
    /\ UNCHANGED <<openPage, storedAnswers, ended, completing, materialPage, lapsed>>

\* finish replaces the whole copy by the server's view, unless it got an error.
ReceiveFinish(n) ==
    /\ CallIs(n, "finish", "answered")
    /\ shown' = IF calls[n].ok THEN calls[n].view ELSE shown
    /\ completing' = FALSE
    /\ Received(n)
    /\ UNCHANGED <<openPage, storedAnswers, ended, pendingId, materialPage, lapsed>>

-----------------------------------------------------------------------------
(* The list of materials *)

Asked == <<>>   \* a refresh the server has not rendered yet
AnyInFlight(l) == \E m \in Materials : l[m] = "IN_FLIGHT"

\* Mutant: a page that has settled is not refreshed.
UnsettledRefreshes(l, pending) == pending

\* A copy with nothing in flight any more: the page is refreshed once.
SettledRefreshes(l, pending) ==
    IF AnyInFlight(list) /\ ~AnyInFlight(l) THEN Append(pending, Asked) ELSE pending

\* The effects that run when the copy changes: when nothing is in flight any
\* more, the interval and the answers still on their way are cancelled.
Shows(l, pending) ==
    /\ list' = l
    /\ polls' = IF AnyInFlight(l) THEN polls ELSE {}
    /\ refreshes' = SettledRefreshes(l, pending)

\* The upload form; the file becomes a material the list does not have yet.
Upload(m) ==
    /\ openPage = "materials" /\ CanSend
    /\ ~uploading
    /\ status[m] = "NONE" /\ \A n \in DOMAIN calls : calls[n].of # m
    /\ uploading' = TRUE
    /\ Sent("upload", m)
    /\ UNCHANGED <<openPage, quizPage, status, list, busyId, polls, refreshes, lapsed>>

CanRetry(m) == list[m] = "FAILED"

\* The menu of a material, which works while the page waits for that material:
\* only its button turns.
Retry(m) ==
    /\ openPage = "materials" /\ CanSend
    /\ CanRetry(m)
    /\ Sent("retry", m)
    /\ busyId' = m
    /\ UNCHANGED <<openPage, quizPage, status, list, uploading, polls, refreshes, lapsed>>

Delete(m) ==
    /\ openPage = "materials" /\ CanSend
    /\ list[m] # "NONE"
    /\ Sent("delete", m)
    /\ busyId' = m
    /\ UNCHANGED <<openPage, quizPage, status, list, uploading, polls, refreshes, lapsed>>

\* The server's side of the three, in one step each.
Serve(n) ==
    LET m == calls[n].of
        there == status[m] # "NONE" IN
    /\ calls[n].at = "sent"
    /\ \/ /\ calls[n].kind = "upload"
          /\ status' = [status EXCEPT ![m] = "IN_FLIGHT"] /\ Respond(n, TRUE)
       \/ /\ calls[n].kind = "retry"
          /\ status' = [status EXCEPT ![m] = IF there THEN "IN_FLIGHT" ELSE @] /\ Respond(n, there)
       \/ /\ calls[n].kind = "delete"
          /\ status' = [status EXCEPT ![m] = "NONE"] /\ Respond(n, there)
    /\ UNCHANGED <<openPage, quizPage, list, busyId, uploading, polls, refreshes, lapsed>>

\* A worker is done with a material.
Process(m) ==
    /\ status[m] = "IN_FLIGHT"
    /\ \E end \in {"READY", "FAILED"} : status' = [status EXCEPT ![m] = end]
    /\ UNCHANGED <<openPage, quizPage, list, busyId, uploading, polls, refreshes, calls, lapsed>>

\* A retry or deletion that came back, with whatever answer, refreshes the page;
\* an upload does if it succeeded.
ReceiveMaterial(n) ==
    /\ calls[n].at = "answered" /\ calls[n].kind \in {"upload", "retry", "delete"}
    /\ IF calls[n].kind = "upload"
       THEN uploading' = FALSE /\ UNCHANGED busyId
       ELSE busyId' = NoMaterial /\ UNCHANGED uploading
    /\ refreshes' = IF calls[n].kind # "upload" \/ calls[n].ok THEN Append(refreshes, Asked) ELSE refreshes
    /\ Received(n)
    /\ UNCHANGED <<openPage, quizPage, status, list, polls, lapsed>>

\* The interval: the server answers a poll with the list as it is.
Poll ==
    /\ openPage = "materials" /\ AnyInFlight(list)
    /\ status \notin polls /\ Cardinality(polls) < MaxPolls
    /\ polls' = polls \cup {status}
    /\ UNCHANGED <<openPage, quizPage, status, list, busyId, uploading, refreshes, calls, lapsed>>

\* The answers to polls arrive in any order.
ReceivePoll(l) ==
    /\ l \in polls
    /\ LET others == polls \ {l} IN
          /\ list' = l
          /\ polls' = IF AnyInFlight(l) THEN others ELSE {}
          /\ refreshes' = SettledRefreshes(l, refreshes)
    /\ UNCHANGED <<openPage, quizPage, status, busyId, uploading, calls, lapsed>>

\* router.refresh: the server renders the page ...
Render ==
    /\ refreshes # <<>> /\ Head(refreshes) = Asked
    /\ refreshes' = <<<<status>>>> \o Tail(refreshes)
    /\ UNCHANGED <<openPage, quizPage, status, list, busyId, uploading, polls, calls, lapsed>>

\* ... and its materials replace the copy.
ReceiveRefresh ==
    /\ refreshes # <<>> /\ Head(refreshes) # Asked
    /\ Shows(Head(refreshes)[1], Tail(refreshes))
    /\ UNCHANGED <<openPage, quizPage, status, busyId, uploading, calls, lapsed>>

-----------------------------------------------------------------------------
(* Failing and giving up *)

\* The server refuses a request, or a statement of it fails, before anything is
\* stored: the page is told so.
FailBefore(n) ==
    /\ calls[n].at = "sent" \/ CallIs(n, "answer", "checked")
    /\ Respond(n, FALSE)
    /\ UNCHANGED <<openPage, quizPage, materialPage, lapsed>>

\* What follows the completion of a quiz (its job, the read of it) or the row of
\* a new material (its job) fails: the page is told of an error all the same.
FailAfter(n) ==
    /\ \/ CallIs(n, "finish", "checked") /\ UNCHANGED status
       \/ CallIs(n, "upload", "sent") /\ status' = [status EXCEPT ![calls[n].of] = "IN_FLIGHT"]
    /\ Respond(n, FALSE)
    /\ lapsed' = TRUE
    /\ UNCHANGED <<openPage, quizPage, list, busyId, uploading, polls, refreshes>>

\* REQUEST_TIMEOUT_MS have passed, or the connection is lost; the server may
\* not have started yet, and goes on.
GiveUpOn(n) ==
    LET c == calls[n]
        refreshed == c.kind \in {"retry", "delete"} IN
    /\ InFlight(c) /\ c.waits
    /\ calls' = [calls EXCEPT ![n].waits = FALSE, ![n].at = IF @ = "answered" THEN "over" ELSE @]
    /\ lapsed' = TRUE
    /\ pendingId' = IF c.kind = "answer" THEN NoQuestion ELSE pendingId
    /\ completing' = IF c.kind = "finish" THEN FALSE ELSE completing
    /\ uploading' = IF c.kind = "upload" THEN FALSE ELSE uploading
    /\ busyId' = IF refreshed THEN NoMaterial ELSE busyId
    /\ refreshes' = IF refreshed THEN Append(refreshes, Asked) ELSE refreshes
    /\ UNCHANGED <<openPage, storedAnswers, ended, shown, status, list, polls>>

-----------------------------------------------------------------------------
CallStep(n) ==
    \/ CheckAnswer(n) \/ StoreAnswer(n) \/ CompleteQuiz(n) \/ ViewQuiz(n) \/ Serve(n)
    \/ ReceiveAnswer(n) \/ ReceiveFinish(n) \/ ReceiveMaterial(n)

PagesNext ==
    \/ PressFinish \/ \E q \in Questions : SubmitAnswer(q)
    \/ \E m \in Materials : Upload(m) \/ Retry(m) \/ Delete(m) \/ Process(m)
    \/ \E n \in DOMAIN calls : CallStep(n) \/ FailBefore(n) \/ FailAfter(n) \/ GiveUpOn(n)
    \/ Poll \/ Render \/ ReceiveRefresh
    \/ \E l \in polls : ReceivePoll(l)

\* The server and the workers go on, and polls and refreshes come back: the
\* connection is not down for ever.  Nobody has to submit anything, or to wait.
Fairness ==
    /\ WF_pagesVars(\E n \in DOMAIN calls : CallStep(n))
    /\ WF_pagesVars(\E m \in Materials : Process(m))
    /\ WF_pagesVars(Poll \/ \E l \in polls : ReceivePoll(l))
    /\ WF_pagesVars(Render \/ ReceiveRefresh)

PagesSpec == PagesInit /\ [][PagesNext]_pagesVars /\ Fairness

-----------------------------------------------------------------------------
(* Properties *)

\* Both sides of both pages have the values of their types.
TypeOK ==
    /\ openPage \in {"quiz", "materials"}
    /\ storedAnswers \subseteq Questions /\ ended \in BOOLEAN
    /\ shown \in QuizView
    /\ pendingId \in Questions \cup {NoQuestion} /\ completing \in BOOLEAN
    /\ status \in Lists /\ list \in Lists
    /\ busyId \in Materials \cup {NoMaterial} /\ uploading \in BOOLEAN
    /\ polls \subseteq Lists
    /\ refreshes \in Seq({Asked} \cup {<<l>> : l \in Lists})
    /\ calls \in Seq(Call)
    /\ lapsed \in BOOLEAN

QuietPages == \A n \in DOMAIN calls : ~InFlight(calls[n])

\* What the quiz page shows as answered or completed is stored; and once nothing
\* is under way it shows all that is stored, also when answers to two questions
\* overlapped or one was sent twice, and whatever requests failed - unless it gave
\* a request up, or got an error for a completion that is stored, or finished the
\* quiz with an answer still on its way, whose display the server's view then
\* takes back.  Nothing on either page turns for ever.  (And every variable
\* has its type.)
QuizPageTrue ==
    /\ TypeOK
    /\ shown.answers \subseteq storedAnswers
    /\ shown.ended => ended
    /\ QuietPages => pendingId = NoQuestion /\ busyId = NoMaterial /\ ~completing /\ ~uploading
    /\ QuietPages /\ ~lapsed =>
          /\ shown.ended = ended
          /\ \A q \in storedAnswers \ shown.answers :
                \E n \in DOMAIN calls : calls[n].of = q /\ calls[n].crossed

\* The list ends up as the server has it, whatever order polls, refreshes and
\* the answers to retries, deletions and uploads arrive in: a page that has
\* stopped polling is not left with an older list, unless it gave a request up or
\* got an error for an upload that is stored.
ListConverges == <>[](list = status \/ lapsed)
=============================================================================
