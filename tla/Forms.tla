-------------------------------- MODULE Forms --------------------------------
(***************************************************************************)
(* The forms that make something: a space or a project                      *)
(* (components/spaces/create-space-form.tsx,                                *)
(* components/projects/create-project-form.tsx), a quiz                     *)
(* (components/quiz/start-quiz-form.tsx) and an account                     *)
(* (components/auth/auth-form.tsx), with the client they share              *)
(* (lib/api-client.ts) and as much of the server as they can tell.  The     *)
(* client gives a request up after twenty seconds; the server does not      *)
(* notice, and nothing in a request tells a second try from a first.        *)
(***************************************************************************)
EXTENDS Integers, Sequences, FiniteSets

CONSTANTS
    Drafts, NoDraft,   \* what a learner can type into the form, and "left empty"
    MaxPosts           \* bound on the submissions

ASSUME FormsAssumption == Drafts # {} /\ NoDraft \notin Drafts /\ MaxPosts \in Nat

VARIABLES
    form,      \* which form: "create" (a space or project), "quiz" or "account"
    opened,    \* the dialog of a "create" form is open
    draft,     \* what the fields hold; typing it again makes another draft
    typed,     \* history: the drafts there have been
    pending,   \* the form waits: its button is disabled
    outcome,   \* of the last submission, as the form shows it
    posts      \* the submissions, in order

formVars == <<form, opened, draft, typed, pending, outcome, posts>>

\* made: its row is stored.  lapsed: the client gave it up.
\* broken: the server failed after its row was stored.
Post ==
    [draft : Drafts \cup {NoDraft}, at : {"sent", "stored", "answered", "over"}, ok : BOOLEAN,
     waits : BOOLEAN, made : BOOLEAN, lapsed : BOOLEAN, broken : BOOLEAN]

FormsInit ==
    /\ form \in {"create", "quiz", "account"}
    /\ opened \in BOOLEAN /\ (form # "create" => opened)
    /\ draft = IF form = "quiz" THEN CHOOSE d \in Drafts : TRUE ELSE NoDraft
    /\ typed = {draft}
    /\ pending = FALSE /\ outcome = "none"
    /\ posts = <<>>

-----------------------------------------------------------------------------
(* The learner *)

OpenDialog ==
    /\ ~opened
    /\ opened' = TRUE
    /\ UNCHANGED <<form, draft, typed, pending, outcome, posts>>

\* Escape, the backdrop and the cross work while the form waits; only Cancel does not.
CloseDialog ==
    /\ form = "create" /\ opened
    /\ opened' = FALSE
    /\ outcome' = "none"
    /\ UNCHANGED <<form, draft, typed, pending, posts>>

\* The fields take text while the form waits; the choices of a quiz do not matter here.
Type(d) ==
    /\ form # "quiz" /\ opened
    /\ d \notin typed
    /\ draft' = d
    /\ typed' = typed \cup {d}
    /\ UNCHANGED <<form, opened, pending, outcome, posts>>

\* Mutant: the button works whenever it can be seen.
PressableAlways == opened

Pressable == opened /\ ~pending

Submit ==
    /\ Pressable /\ Len(posts) < MaxPosts
    /\ pending' = TRUE
    /\ outcome' = "none"
    /\ posts' = Append(posts, [draft |-> draft, at |-> "sent", ok |-> FALSE, waits |-> TRUE,
                               made |-> FALSE, lapsed |-> FALSE, broken |-> FALSE])
    /\ UNCHANGED <<form, opened, draft, typed>>

-----------------------------------------------------------------------------
(* The server *)

\* The email of an account is unique.
Taken(d) == form = "account" /\ \E n \in DOMAIN posts : posts[n].made /\ posts[n].draft = d

Answered(post, ok) ==
    [post EXCEPT !.at = IF post.waits THEN "answered" ELSE "over", !.ok = ok]

\* A body that is not valid, an email that is taken, a limit, nothing to ask a
\* quiz about, an error of the database before anything is stored.
Refuse(n) ==
    /\ posts[n].at = "sent"
    /\ posts' = [posts EXCEPT ![n] = Answered(@, FALSE)]
    /\ UNCHANGED <<form, opened, draft, typed, pending, outcome>>

\* One transaction; that of a space or a project is the last the server does.
Store(n) ==
    /\ posts[n].at = "sent"
    /\ posts[n].draft # NoDraft /\ ~Taken(posts[n].draft)
    /\ LET stored == [posts[n] EXCEPT !.made = TRUE] IN
          posts' = [posts EXCEPT ![n] = IF form = "create" THEN Answered(stored, TRUE)
                                        ELSE [stored EXCEPT !.at = "stored"]]
    /\ UNCHANGED <<form, opened, draft, typed, pending, outcome>>

\* The quiz is read back, or the session of the account is made: either may fail.
Finish(n) ==
    /\ posts[n].at = "stored"
    /\ \E ok \in BOOLEAN :
          posts' = [posts EXCEPT ![n] = [Answered(@, ok) EXCEPT !.broken = ~ok]]
    /\ UNCHANGED <<form, opened, draft, typed, pending, outcome>>

-----------------------------------------------------------------------------
(* The answer *)

Settled(n) == posts' = [posts EXCEPT ![n].at = "over", ![n].waits = FALSE]

\* The message is kept in a dialog that was closed in the meantime, too.
ReceiveError(n) ==
    /\ posts[n].at = "answered" /\ ~posts[n].ok
    /\ Settled(n)
    /\ outcome' = "error" /\ pending' = FALSE
    /\ UNCHANGED <<form, opened, draft, typed>>

\* The dialog is emptied and closed, whatever it holds by now.
ReceiveCreated(n) ==
    /\ form = "create"
    /\ posts[n].at = "answered" /\ posts[n].ok
    /\ Settled(n)
    /\ outcome' = "done" /\ pending' = FALSE
    /\ draft' = NoDraft /\ opened' = FALSE
    /\ UNCHANGED <<form, typed>>

\* The other two leave for another page, still pending.
LeavePage(n) ==
    /\ form # "create"
    /\ posts[n].at = "answered" /\ posts[n].ok
    /\ Settled(n)
    /\ outcome' = "done"
    /\ UNCHANGED <<form, opened, draft, typed, pending>>

\* Twenty seconds have passed, or the connection is lost: the server goes on.
GiveUp(n) ==
    /\ posts[n].waits
    /\ posts' = [posts EXCEPT ![n].waits = FALSE, ![n].lapsed = TRUE,
                              ![n].at = IF @ = "answered" THEN "over" ELSE @]
    /\ pending' = FALSE
    /\ outcome' = "error"
    /\ UNCHANGED <<form, opened, draft, typed>>

FormsNext ==
    \/ OpenDialog \/ CloseDialog \/ Submit
    \/ \E d \in Drafts : Type(d)
    \/ \E n \in DOMAIN posts :
          \/ Refuse(n) \/ Store(n) \/ Finish(n)
          \/ ReceiveError(n) \/ ReceiveCreated(n) \/ LeavePage(n) \/ GiveUp(n)

-----------------------------------------------------------------------------
(* Properties *)

FormsTypeOK ==
    /\ form \in {"create", "quiz", "account"} /\ opened \in BOOLEAN
    /\ draft \in Drafts \cup {NoDraft} /\ typed \subseteq Drafts \cup {NoDraft}
    /\ pending \in BOOLEAN /\ outcome \in {"none", "error", "done"}
    /\ posts \in Seq(Post)

Unclear(post) == post.lapsed \/ post.broken

\* A form waits for its one request under way and for no other; what it reports
\* as done is stored, what it reports as failed is not - unless the request was
\* given up or failed after storing; and a draft is stored twice only when it is
\* tried again after that, an account never.
FormsHonest ==
    LET waiting == {n \in DOMAIN posts : posts[n].waits}
        last == posts[Len(posts)] IN
    /\ FormsTypeOK
    /\ Cardinality(waiting) = IF pending /\ outcome # "done" THEN 1 ELSE 0
    /\ outcome = "done" => last.made
    /\ outcome = "error" => ~last.made \/ Unclear(last)
    /\ \A m, n \in DOMAIN posts :
          (m < n /\ posts[m].made /\ posts[n].made /\ posts[m].draft = posts[n].draft)
             => form # "account" /\ Unclear(posts[m])
=============================================================================
