------------------------------ MODULE Workspace ------------------------------
(***************************************************************************)
(* The requests that sign people in and out, and that create, change and    *)
(* delete their spaces and projects: the pages that send them, the rate     *)
(* limiter (RateLimiter.tla), the sessions (lib/auth/session.ts), the       *)
(* ownership guards, and the transactions that change a row and record an   *)
(* activity event.                                                          *)
(*                                                                          *)
(* Each request is a process; its database statements interleave with those *)
(* of the others under PostgreSQL's row locks and foreign keys.  A page     *)
(* gives up on an answer without the server noticing.  All requests come    *)
(* from one address.                                                        *)
(***************************************************************************)
EXTENDS RateLimiter

CONSTANTS
    Users, Nobody,      \* accounts, by email, and "no account"
    Ttl,                \* SESSION_TTL_DAYS
    Mixes,              \* bounds: the operations of a behaviour, how many requests (so many at
                        \* a time as pages are open), how many faults
    MaxRequests         \* bound: no mix has more requests

None == 0   \* no token, no request, no row
Requests == 1..MaxRequests
Tokens == 1..(MaxRequests + 1)
Rows == 1..(MaxRequests + 1)     \* ids of spaces, and of projects
Account(u) == <<"loginPerAccount", u>>
PerIp == <<"loginPerIp", "address">>
Register == <<"registerPerIp", "address">>

ASSUME WorkspaceAssumption ==
    /\ {Account(u) : u \in Users} \cup {PerIp, Register} \subseteq Keys
    /\ Nobody \notin Users /\ Users # {}
    /\ Ttl \in Nat \ {0}
    /\ MaxRequests \in Nat
    /\ \A m \in Mixes : m.requests \in 0..MaxRequests /\ {m.pages, m.faults} \subseteq Nat

VARIABLES
    accounts,   \* users with an account
    issued,     \* history: the tokens ever issued, their users and expiry
    revoked,    \* history: tokens a sign-out has revoked
    sessions,   \* the Session rows, by token
    cookie,     \* the token in the browser's cookie
    owner,      \* of each space that was ever created
    home,       \* the space of each project that was ever created
    spaces,     \* the Space rows
    projects,   \* the Project rows
    version,    \* how often each row was updated
    events,     \* the ActivityEvent rows
    mix,        \* the mix of operations of this behaviour
    request,    \* the requests, with what the page that sent it has seen of its end
    faults      \* faults so far

session == <<accounts, issued, revoked, sessions>>
rows == <<owner, home, spaces, projects, version, events>>
vars == <<now, limiter, session, rows, cookie, mix, request, faults>>

-----------------------------------------------------------------------------
(* Types *)

Credentials == {"register", "login"}
SpaceOps == {"createSpace", "updateSpace", "deleteSpace"}
ProjectOps == {"createProject", "updateProject", "deleteProject"}
Changes == SpaceOps \cup ProjectOps
Operations == Credentials \cup {"logout", "me"} \cup Changes

ASSUME MixAssumption == \A m \in Mixes : m.ops \subseteq Operations

\* What toErrorResponse makes of the errors these routes meet: their code, or
\* INTERNAL_ERROR for everything that is not an AppError.
Status == {"OK", "UNAUTHENTICATED", "NOT_FOUND", "CONFLICT", "VALIDATION_ERROR",
           "RATE_LIMITED", "INTERNAL_ERROR"}

\* A body that fails its schema, or a password that is not the account's.
Inputs == {"valid", "invalid", "wrong"}

Request ==
    [at : {"none", "enter", "parse", "authenticate", "create", "session", "identify",
           "expired", "access", "first", "cascade", "second", "answered", "lost"},
     op : Operations, page : {"waits", "over"}, email : Users \cup {Nobody}, input : Inputs,
     token : Tokens \cup {None}, user : Users \cup {Nobody}, row : Rows \cup {None},
     rightful : BOOLEAN, status : Status, set : Tokens \cup {None}]
Event ==
    [type : Changes, by : Requests \cup {None}, user : Users, about : Rows,
     space : Rows \cup {None}, project : Rows \cup {None}]

On(i, at) == request[i].at = at
Op(i) == request[i].op
Goto(i, at) == request' = [request EXCEPT ![i].at = at]
Unsent ==
    [at |-> "none", op |-> "me", page |-> "over", email |-> Nobody, input |-> "valid",
     token |-> None, user |-> Nobody, row |-> None,
     rightful |-> TRUE, status |-> "OK", set |-> None]

\* The response, which may set the cookie; nothing else of the request matters.
Response(r, status, token) ==
    [Unsent EXCEPT !.at = "answered", !.op = r.op, !.page = r.page, !.rightful = r.rightful,
                   !.status = status, !.set = token]
Answer(i, status) == request' = [request EXCEPT ![i] = Response(@, status, None)]

\* A first space and project exist, with their events; the browser may be signed
\* in, as their owner or as somebody else.
FirstUser == CHOOSE u \in Users : TRUE
Created(type, user, about, space, project) ==
    [type |-> type, by |-> None, user |-> user, about |-> about, space |-> space, project |-> project]

Init ==
    /\ LimiterInit
    /\ mix \in Mixes
    /\ \E whose \in Users \cup {Nobody} :
          /\ accounts = {FirstUser, whose} \ {Nobody}
          /\ cookie = IF whose = Nobody THEN None ELSE 1
          /\ issued = IF whose = Nobody THEN <<>> ELSE <<[user |-> whose, expires |-> Ttl]>>
    /\ revoked = {}
    /\ sessions = DOMAIN issued
    /\ spaces = {1} /\ projects = {1}
    /\ owner = [s \in Rows |-> IF s = 1 THEN FirstUser ELSE Nobody]
    /\ home = [p \in Rows |-> IF p = 1 THEN 1 ELSE None]
    /\ version = [space |-> [r \in Rows |-> 0], project |-> [r \in Rows |-> 0]]
    /\ events = {Created("createSpace", FirstUser, 1, 1, None),
                 Created("createProject", FirstUser, 1, 1, 1)}
    /\ request = [i \in Requests |-> Unsent]
    /\ faults = 0

-----------------------------------------------------------------------------
(* The pages *)

Sent == {i \in Requests : ~On(i, "none")}
NextRequest == Cardinality(Sent) + 1

\* The first thing the handler of an operation does.
Entry(op) == CASE op \in Credentials -> "enter" [] op = "logout" -> "session" [] OTHER -> "identify"

\* The rows an operation may be asked for: any that ever existed.
Targets(op) ==
    IF op \in {"updateSpace", "deleteSpace", "createProject"} THEN {s \in Rows : owner[s] # Nobody}
    ELSE IF op \in {"updateProject", "deleteProject"} THEN {p \in Rows : home[p] # None}
    ELSE {1}

\* The operations whose request has a body, which a schema checks.
HasBody(op) == op \in (Credentials \cup Changes) \ {"deleteSpace", "deleteProject"}

\* A form is submitted, or a button pressed; a page that waits for an answer
\* has them disabled.  The cookie goes with the request.
Submit ==
    /\ Cardinality({i \in Sent : request[i].page = "waits"}) < mix.pages
    /\ NextRequest <= mix.requests
    /\ \E op \in mix.ops, email \in Users, input \in Inputs, row \in Rows :
          /\ op \notin Credentials => email = FirstUser
          /\ input = "invalid" => HasBody(op)
          /\ input = "wrong" => op = "login"
          /\ row \in Targets(op)
          /\ request' = [request EXCEPT ![NextRequest] =
                [Unsent EXCEPT !.at = Entry(op), !.op = op, !.page = "waits", !.email = email,
                               !.input = input, !.row = row, !.token = cookie]]
    /\ UNCHANGED <<now, limiter, session, rows, cookie, mix, faults>>

\* setSessionCookie, clearSessionCookie.
CookieAfter(i) ==
    IF Op(i) = "logout" THEN None ELSE IF request[i].set # None THEN request[i].set ELSE cookie

\* apiRequest returns: the browser has taken the cookie from the response.
Deliver(i) ==
    /\ On(i, "answered") /\ request[i].page = "waits"
    /\ request' = [request EXCEPT ![i].page = "over", ![i].set = None]
    /\ cookie' = CookieAfter(i)
    /\ UNCHANGED <<now, limiter, session, rows, mix, faults>>

\* The connection fails, or REQUEST_TIMEOUT_MS have passed; the server goes on.
GiveUp(i) ==
    /\ request[i].page = "waits"
    /\ request' = [request EXCEPT ![i].page = "over", ![i].set = None]
    /\ UNCHANGED <<now, limiter, session, rows, cookie, mix, faults>>

-----------------------------------------------------------------------------
(* Signing in, up and out *)

\* enforcePolicy by address, before the body is read.
Enter(i) ==
    LET key == IF Op(i) = "login" THEN PerIp ELSE Register IN
    /\ On(i, "enter")
    /\ RateLimit(key)
    /\ IF Allowed(key) THEN Goto(i, "parse") ELSE Answer(i, "RATE_LIMITED")
    /\ UNCHANGED <<now, session, rows, cookie, mix, faults>>

\* parseJson, and for a login the budget of the account.
ParseCredentials(i) ==
    LET key == Account(request[i].email) IN
    /\ On(i, "parse") /\ Op(i) \in Credentials
    /\ \/ request[i].input = "invalid" /\ Answer(i, "VALIDATION_ERROR") /\ UNCHANGED limiter
       \/ /\ request[i].input # "invalid" /\ Op(i) = "login"
          /\ RateLimit(key)
          /\ IF Allowed(key) THEN Goto(i, "authenticate") ELSE Answer(i, "RATE_LIMITED")
       \/ /\ request[i].input # "invalid" /\ Op(i) = "register"
          /\ Goto(i, "authenticate")
          /\ UNCHANGED limiter
    /\ UNCHANGED <<now, session, rows, cookie, mix, faults>>

\* authenticateUser; or the lookup with which registerUser starts.
Authenticate(i) ==
    LET known == request[i].email \in accounts IN
    /\ On(i, "authenticate")
    /\ IF Op(i) = "login"
       THEN IF known /\ request[i].input = "valid"
            THEN request' = [request EXCEPT ![i].at = "session", ![i].user = request[i].email]
            ELSE Answer(i, "UNAUTHENTICATED")
       ELSE IF known THEN Answer(i, "CONFLICT") ELSE Goto(i, "create")
    /\ UNCHANGED <<now, limiter, session, rows, cookie, mix, faults>>

\* registerUser's insert: the unique email decides between two at once, and the
\* loser's error is none of the application's.
CreateUser(i) ==
    /\ On(i, "create")
    /\ IF request[i].email \in accounts
       THEN Answer(i, "INTERNAL_ERROR") /\ UNCHANGED accounts
       ELSE /\ accounts' = accounts \cup {request[i].email}
            /\ request' = [request EXCEPT ![i].at = "session", ![i].user = request[i].email]
    /\ UNCHANGED <<now, limiter, issued, revoked, sessions, rows, cookie, mix, faults>>

\* createSession removes the user's expired rows with the insert.
Stale(user) == {t \in sessions : issued[t].user = user /\ issued[t].expires < now}

NextToken == Len(issued) + 1
CreateSession(i) ==
    /\ On(i, "session") /\ Op(i) \in Credentials
    /\ issued' = Append(issued, [user |-> request[i].user, expires |-> now + Ttl])
    /\ sessions' = (sessions \ Stale(request[i].user)) \cup {NextToken}
    /\ request' = [request EXCEPT ![i] =
          Response(@, "OK", IF @.page = "waits" THEN NextToken ELSE None)]
    /\ UNCHANGED <<now, limiter, accounts, revoked, rows, cookie, mix, faults>>

\* Mutant: only the cookie is cleared.
SignOutOfBrowser(i) ==
    /\ On(i, "session") /\ Op(i) = "logout"
    /\ revoked' = revoked \cup ({request[i].token} \ {None})
    /\ Answer(i, "OK")
    /\ UNCHANGED <<now, limiter, accounts, issued, sessions, rows, cookie, mix, faults>>

\* revokeCurrentSession: deleteMany, so a session that is gone is no error.
SignOut(i) ==
    /\ On(i, "session") /\ Op(i) = "logout"
    /\ sessions' = sessions \ {request[i].token}
    /\ revoked' = revoked \cup ({request[i].token} \ {None})
    /\ Answer(i, "OK")
    /\ UNCHANGED <<now, limiter, accounts, issued, rows, cookie, mix, faults>>

-----------------------------------------------------------------------------
(* requireUser, and the guards *)

Expired(t) == issued[t].expires <= now

\* What an operation does next once it knows its user.
AfterIdentify(op) == IF op \in {"deleteSpace", "deleteProject"} THEN "access" ELSE "parse"

\* getCurrentUser's lookup.
Identify(i) ==
    LET t == request[i].token
        user == IF t \in DOMAIN issued THEN issued[t].user ELSE Nobody IN
    /\ On(i, "identify")
    /\ IF t \notin sessions THEN Answer(i, IF Op(i) = "me" THEN "OK" ELSE "UNAUTHENTICATED")
       ELSE IF Expired(t) THEN Goto(i, "expired")
       ELSE request' = [request EXCEPT
                ![i].at = IF Op(i) = "me" THEN "answered" ELSE AfterIdentify(Op(i)),
                ![i].user = user, ![i].token = None,
                ![i].rightful = t \notin revoked /\ issued[t].expires > now]
    /\ UNCHANGED <<now, limiter, session, rows, cookie, mix, faults>>

\* An expired row is deleted, unless another request was faster.
DeleteExpired(i) ==
    /\ On(i, "expired")
    /\ sessions' = sessions \ {request[i].token}
    /\ Answer(i, IF Op(i) = "me" THEN "OK" ELSE "UNAUTHENTICATED")
    /\ UNCHANGED <<now, limiter, accounts, issued, revoked, rows, cookie, mix, faults>>

ParseBody(i) ==
    /\ On(i, "parse") /\ Op(i) \in Changes
    /\ IF request[i].input = "invalid" THEN Answer(i, "VALIDATION_ERROR")
       ELSE Goto(i, IF Op(i) = "createSpace" THEN "first" ELSE "access")
    /\ UNCHANGED <<now, limiter, session, rows, cookie, mix, faults>>

OnSpace(i) == Op(i) \in {"updateSpace", "deleteSpace", "createProject"}

\* assertSpaceAccess, assertProjectAccess: ownership is part of the query.
Finds(i) ==
    IF OnSpace(i)
    THEN request[i].row \in spaces /\ owner[request[i].row] = request[i].user
    ELSE request[i].row \in projects /\ owner[home[request[i].row]] = request[i].user

Access(i) ==
    /\ On(i, "access")
    /\ IF Finds(i) THEN Goto(i, "first") ELSE Answer(i, "NOT_FOUND")
    /\ UNCHANGED <<now, limiter, session, rows, cookie, mix, faults>>

-----------------------------------------------------------------------------
(* The transactions: the row first, then the event *)

InTransaction(i) == request[i].at \in {"cascade", "second"}
Others(i) == {j \in Requests \ {i} : InTransaction(j)}

\* The space an open transaction has deleted, or refers to; its project.
Deletes(j) == IF Op(j) = "deleteSpace" THEN {request[j].row} ELSE {}
Refers(j) == IF Op(j) \in {"createProject", "updateSpace"} THEN {request[j].row} ELSE {}
HoldsProjects(j) ==
    IF Op(j) \in {"updateProject", "deleteProject"} THEN {request[j].row}
    ELSE IF Op(j) = "deleteSpace" /\ On(j, "second") THEN {p \in projects : home[p] = request[j].row}
    ELSE {}

SpaceFree(i, s) ==
    \A j \in Others(i) :
        /\ s \notin Deletes(j)
        /\ Op(i) = "deleteSpace" => s \notin Refers(j)
        /\ {Op(i), Op(j)} = {"updateSpace"} => s \notin Refers(j)
ProjectFree(i, p) == \A j \in Others(i) : p \notin HoldsProjects(j)

\* Mutant: updating or deleting a row that is gone is no error.
RowIsThereOrNot(i) == Op(i) = "createProject" => request[i].row \in spaces

\* The row is still there: P2025 or a violated foreign key otherwise.
RowIsThere(i) ==
    \/ Op(i) = "createSpace"
    \/ OnSpace(i) /\ request[i].row \in spaces
    \/ Op(i) \in {"updateProject", "deleteProject"} /\ request[i].row \in projects

\* The first statement takes the row's lock, once no other transaction has it.
RowFree(i) ==
    /\ OnSpace(i) => SpaceFree(i, request[i].row)
    /\ Op(i) \in {"updateProject", "deleteProject"} => ProjectFree(i, request[i].row)
First(i) ==
    /\ On(i, "first")
    /\ RowFree(i)
    /\ IF RowIsThere(i)
       THEN Goto(i, IF Op(i) = "deleteSpace" THEN "cascade" ELSE "second")
       ELSE Answer(i, "INTERNAL_ERROR")
    /\ UNCHANGED <<now, limiter, session, rows, cookie, mix, faults>>

\* The deletion of a space reaches its projects.
ContentsFree(i) == \A p \in projects : home[p] = request[i].row => ProjectFree(i, p)
Cascade(i) ==
    /\ On(i, "cascade")
    /\ ContentsFree(i)
    /\ Goto(i, "second")
    /\ UNCHANGED <<now, limiter, session, rows, cookie, mix, faults>>

NewRow(ever) == Cardinality({r \in Rows : ever[r]}) + 1

\* What a row's deletion does to the events that refer to it: SET NULL.
Forget(kept, gone, goneProjects) ==
    {[e EXCEPT !.space = IF @ \in gone THEN None ELSE @,
               !.project = IF @ \in goneProjects THEN None ELSE @] : e \in kept}

\* The event of i about a row, as recordActivity is called.
EventOf(i, about, space, project) ==
    [type |-> Op(i), by |-> i, user |-> request[i].user, about |-> about,
     space |-> space, project |-> project]

\* What each transaction changes, and its event.
CreateSpace(i) ==
    LET s == NewRow([r \in Rows |-> owner[r] # Nobody]) IN
    /\ Op(i) = "createSpace"
    /\ spaces' = spaces \cup {s}
    /\ owner' = [owner EXCEPT ![s] = request[i].user]
    /\ events' = events \cup {EventOf(i, s, s, None)}
    /\ UNCHANGED <<home, projects, version>>

UpdateSpace(i) ==
    LET s == request[i].row IN
    /\ Op(i) = "updateSpace"
    /\ version' = [version EXCEPT !.space[s] = @ + 1]
    /\ events' = events \cup {EventOf(i, s, s, None)}
    /\ UNCHANGED <<owner, home, spaces, projects>>

DeleteSpace(i) ==
    LET s == request[i].row
        inside == {p \in projects : home[p] = s} IN
    /\ Op(i) = "deleteSpace"
    /\ spaces' = spaces \ {s}
    /\ projects' = projects \ inside
    /\ events' = Forget(events, {s}, inside) \cup {EventOf(i, s, None, None)}
    /\ UNCHANGED <<owner, home, version>>

CreateProject(i) ==
    LET s == request[i].row
        p == NewRow([r \in Rows |-> home[r] # None]) IN
    /\ Op(i) = "createProject"
    /\ projects' = projects \cup {p}
    /\ home' = [home EXCEPT ![p] = s]
    /\ events' = events \cup {EventOf(i, p, s, p)}
    /\ UNCHANGED <<owner, spaces, version>>

UpdateProject(i) ==
    LET p == request[i].row IN
    /\ Op(i) = "updateProject"
    /\ version' = [version EXCEPT !.project[p] = @ + 1]
    /\ events' = events \cup {EventOf(i, p, home[p], p)}
    /\ UNCHANGED <<owner, home, spaces, projects>>

DeleteProject(i) ==
    LET p == request[i].row IN
    /\ Op(i) = "deleteProject"
    /\ projects' = projects \ {p}
    /\ events' = Forget(events, {}, {p}) \cup {EventOf(i, p, home[p], None)}
    /\ UNCHANGED <<owner, home, spaces, version>>

Change(i) ==
    \/ CreateSpace(i) \/ UpdateSpace(i) \/ DeleteSpace(i)
    \/ CreateProject(i) \/ UpdateProject(i) \/ DeleteProject(i)

\* Mutant: deleteSpace passes the root client, which recordActivity accepts, and the
\* space's id: the event waits for the transaction that waits for it, unseen by
\* PostgreSQL.
EventFreeOfDeleted(i) ==
    /\ Op(i) # "deleteSpace"
    /\ Op(i) \in {"updateProject", "deleteProject"} => SpaceFree(i, home[request[i].row])

\* The event refers to the space of a project: it waits for a deletion of it.
EventFree(i) ==
    Op(i) \in {"updateProject", "deleteProject"} => SpaceFree(i, home[request[i].row])

\* recordActivity, and the commit.
Second(i) ==
    /\ On(i, "second")
    /\ EventFree(i)
    /\ Change(i)
    /\ Answer(i, "OK")
    /\ UNCHANGED <<now, limiter, session, cookie, mix, faults>>

\* The deletion of a space waits for a project that another transaction holds,
\* and that one for the space: PostgreSQL ends one of them.
Deadlocked(i) ==
    /\ On(i, "cascade")
    /\ \E j \in Others(i) :
          /\ On(j, "second") /\ Op(j) \in {"updateProject", "deleteProject"}
          /\ home[request[j].row] = request[i].row

BreakDeadlock(i) ==
    /\ Deadlocked(i)
    /\ \E j \in {i} \cup {k \in Others(i) : home[request[k].row] = request[i].row
                                         /\ Op(k) \in {"updateProject", "deleteProject"}} :
          Answer(j, "INTERNAL_ERROR")
    /\ UNCHANGED <<now, limiter, session, rows, cookie, mix, faults>>

-----------------------------------------------------------------------------
(* Faults *)

Fault == faults < mix.faults /\ faults' = faults + 1

Writes(i) == request[i].at \in {"create", "session", "expired", "first", "cascade", "second"}

\* A statement that writes fails, which route() turns into a 500, and an open
\* transaction is rolled back; or only the reply to the commit is lost.  (A read
\* that fails ends a request like a refusal, before it has changed anything.)
DatabaseError(i) ==
    /\ Fault
    /\ Writes(i)
    /\ Answer(i, "INTERNAL_ERROR")
    /\ \/ UNCHANGED rows
       \/ On(i, "second") /\ EventFree(i) /\ Change(i)
    /\ UNCHANGED <<now, limiter, session, cookie, mix>>

\* The server dies and starts again: requests and buckets are gone.
Restart ==
    /\ Fault
    /\ Restarted
    /\ request' = [i \in Requests |->
          IF i \in Sent THEN [request[i] EXCEPT !.at = "lost"] ELSE request[i]]
    /\ UNCHANGED <<now, session, rows, cookie, mix>>

-----------------------------------------------------------------------------
RequestStep(i) ==
    \/ Enter(i) \/ ParseCredentials(i) \/ Authenticate(i) \/ CreateUser(i)
    \/ CreateSession(i) \/ SignOut(i)
    \/ Identify(i) \/ DeleteExpired(i) \/ ParseBody(i) \/ Access(i)
    \/ First(i) \/ Cascade(i) \/ Second(i)

ClockTick == Tick /\ UNCHANGED <<session, rows, cookie, mix, request, faults>>

Next ==
    \/ Submit
    \/ \E i \in Requests : Deliver(i) \/ GiveUp(i) \/ RequestStep(i) \/ BreakDeadlock(i) \/ DatabaseError(i)
    \/ Restart
    \/ ClockTick

Spec == Init /\ [][Next]_vars

-----------------------------------------------------------------------------
(* Properties *)

\* Every row and request has the fields of its type.
TypeOK ==
    /\ LimiterTypeOK
    /\ accounts \subseteq Users
    /\ issued \in Seq([user : Users, expires : Nat]) /\ DOMAIN issued \subseteq Tokens
    /\ revoked \subseteq DOMAIN issued /\ sessions \subseteq DOMAIN issued
    /\ cookie \in DOMAIN issued \cup {None}
    /\ owner \in [Rows -> Users \cup {Nobody}] /\ home \in [Rows -> Rows \cup {None}]
    /\ spaces \subseteq Rows /\ projects \subseteq Rows
    /\ version \in [{"space", "project"} -> [Rows -> 0..MaxRequests]]
    /\ events \subseteq Event
    /\ mix \in Mixes
    /\ request \in [Requests -> Request]
    /\ faults \in 0..mix.faults

\* A request is admitted only by a session that has neither expired nor been
\* revoked, "so a copied token stops working immediately"; and a session ends
\* for no other reason, whichever sign-ins and clean-ups overlap.
SessionsRightful ==
    /\ TypeOK
    /\ \A i \in Requests : request[i].rightful
    /\ \A t \in DOMAIN issued :
          issued[t].expires > now /\ t \notin revoked => t \in sessions

EventsOf(type, row) == {e \in events : e.type = type /\ e.about = row}

\* "Events are written in the same transaction as the state change they
\* describe": every change of a row has exactly one event, by the row's owner
\* and by the request that made it, and no event is left of a change that
\* failed; a reference to a row that is gone is null.
AuditTrail ==
    /\ \A s \in Rows :
          /\ Cardinality(EventsOf("createSpace", s)) = IF owner[s] # Nobody THEN 1 ELSE 0
          /\ Cardinality(EventsOf("updateSpace", s)) = version.space[s]
          /\ Cardinality(EventsOf("deleteSpace", s)) = IF owner[s] # Nobody /\ s \notin spaces THEN 1 ELSE 0
    /\ \A p \in Rows :
          /\ Cardinality(EventsOf("createProject", p)) = IF home[p] # None THEN 1 ELSE 0
          /\ Cardinality(EventsOf("updateProject", p)) = version.project[p]
          /\ Cardinality(EventsOf("deleteProject", p)) <= 1
          /\ p \in projects \/ home[p] = None => EventsOf("deleteProject", p) = {}
          /\ p \notin projects /\ home[p] \in spaces => EventsOf("deleteProject", p) # {}
    /\ \A e \in events :
          /\ e.space \in spaces \cup {None} /\ e.project \in projects \cup {None}
          /\ e.user = owner[IF e.type \in SpaceOps THEN e.about ELSE home[e.about]]
    /\ \A i \in Requests :
          On(i, "answered") /\ request[i].status = "OK" /\ Op(i) \in Changes =>
              Cardinality({e \in events : e.by = i}) = 1

InFlight == {i \in Requests : request[i].at \notin {"none", "answered", "lost"}}

\* No other request keeps this one from its next statement, unless both are in a
\* deadlock, which PostgreSQL finds.
Unblocked(i) ==
    \/ request[i].at \notin {"first", "cascade", "second"}
    \/ On(i, "first") /\ RowFree(i)
    \/ On(i, "cascade") /\ (ContentsFree(i) \/ Deadlocked(i))
    \/ On(i, "second") /\ EventFree(i)

\* Requests never wait for one another in a ring, also when a deletion meets updates
\* of what it deletes: while any is in flight, one of them is not kept from going on.
SomebodyUnblocked == InFlight # {} => \E i \in InFlight : Unblocked(i)

\* And who is not kept from going on can: each handler ends, as it only goes forward.
SomebodyMoves ==
    /\ SomebodyUnblocked
    /\ \A i \in InFlight : Unblocked(i) => ENABLED (RequestStep(i) \/ BreakDeadlock(i))
=============================================================================
