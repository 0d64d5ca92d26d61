-------------------------- MODULE RequestHandlers --------------------------
(***************************************************************************)
(* The Express examples as two processes: a service with hallsRouter and   *)
(* userBookingsRouter, and the members app, in front of a members service  *)
(* that is the Nest MembersController.                                     *)
(*                                                                         *)
(* Middlewares and the first lines of a handler run in one go, up to the   *)
(* handler's first await; then other requests are served.  Express 4       *)
(* (README.md:10) does not look at the promise of an async handler: when   *)
(* saveHall or listBookings rejects, Node ends the process, and with it    *)
(* the requests of everybody else.  The members app catches whatever its   *)
(* fetch does.                                                             *)
(***************************************************************************)
EXTENDS Integers, Sequences

CONSTANTS Requests,  \* the requests that can be in progress at once
          Ids,       \* the ids of users and of members
          Accounts,  \* the users that can sign in, each with its id and its roles
          Members,   \* the members that exist
          NaN,       \* what Number makes of a text that is no number
          Nobody,    \* req.user of a request that is not signed in
          MaxHalls   \* bound of the model: halls the database holds at most

ASSUME RequestAssumption ==
    /\ Ids \subseteq Nat
    /\ Accounts \subseteq [id: Ids, roles: SUBSET {"admin", "member"}]
    /\ Nobody \notin Accounts
    /\ Members \subseteq Ids
    /\ NaN \notin Nat
    /\ MaxHalls \in Nat

VARIABLES requests,  \* each request: where it waits, what came in, and its answer
          halls,     \* the table of halls: for each, who saved it and which body
          up         \* the processes that run

vars == <<requests, halls, up>>

Users == Accounts \cup {Nobody}

(***************************************************************************)
(* A parameter of the URL: whether it is digits only, and what Number and  *)
(* parseInt make of it.  "7", "07" and "7.0" all read as 7.                *)
(***************************************************************************)
Text   == {text \in [digits: BOOLEAN, reads: Ids \cup {NaN}] : text.digits => text.reads # NaN}
NoText == [digits |-> FALSE, reads |-> NaN]

\* A body that breaks createHallSchema, one that fits it as it was sent, and what zod makes of that.
Bodies == {"bad", "sent", "parsed"}

Routes == {"postHall", "getBookings", "getMember"}
Process(route) == IF route = "getMember" THEN "membersApp" ELSE "service"
Processes == {Process(route) : route \in Routes}

Statuses == {200, 201, 400, 401, 403, 404, 502}
None     == 0

(***************************************************************************)
(* "done": the request is answered; "closed": its process ended before.    *)
(* hall is the id of the hall it saved, about what its answer is about.    *)
(***************************************************************************)
Request == [pc: {"idle", "save", "saved", "list", "fetch", "json", "done", "closed"},
            route: Routes, user: Users, text: Text \cup {NoText}, body: Bodies,
            hall: Nat, status: Statuses \cup {None}, about: Nat \cup {NaN}]

Idle == [pc |-> "idle", route |-> "postHall", user |-> Nobody, text |-> NoText, body |-> "bad",
         hall |-> None, status |-> None, about |-> NaN]

TypeOK ==
    /\ requests \in [Requests -> Request]
    /\ halls \in Seq([by: Users, body: Bodies])
    /\ up \in SUBSET Processes

Init ==
    /\ requests = [r \in Requests |-> Idle]
    /\ halls = << >>
    /\ up = Processes

-----------------------------------------------------------------------------
(***************************************************************************)
(* The middlewares: the status they answer with, or None for next().       *)
(***************************************************************************)
HasOneOf(user, roles) == user.roles \cap roles # {}

RequireRole(user, roles) ==
    IF user = Nobody THEN 401 ELSE IF HasOneOf(user, roles) THEN None ELSE 403

RequireSelfOrRole(user, text, roles) ==
    IF user = Nobody THEN 401
    ELSE IF text.reads = user.id \/ HasOneOf(user, roles) THEN None ELSE 403

ValidateBody(body) == IF body = "bad" THEN 400 ELSE None

-----------------------------------------------------------------------------
\* A request comes in; it is answered with status, or waits at pc for what the handler called.
Begins(r, call, status, pc) ==
    /\ requests[r].pc = "idle"
    /\ Process(call.route) \in up
    /\ requests' = [requests EXCEPT ![r] =
          IF status = None THEN [call EXCEPT !.pc = pc]
          ELSE [call EXCEPT !.pc = "done", !.status = status]]
    /\ UNCHANGED <<halls, up>>

\* Mutant: req.body stays what was sent, instead of what zod returned.
PostHallAsSent(r, user, body) ==
    LET role   == RequireRole(user, {"admin"})
        status == IF role = None THEN ValidateBody(body) ELSE role
    IN  Begins(r, [Idle EXCEPT !.route = "postHall", !.user = user, !.body = body], status, "save")

PostHall(r, user, body) ==
    LET role   == RequireRole(user, {"admin"})
        status == IF role = None THEN ValidateBody(body) ELSE role
        parsed == IF status = None THEN "parsed" ELSE body
    IN  Begins(r, [Idle EXCEPT !.route = "postHall", !.user = user, !.body = parsed], status, "save")

GetBookings(r, user, text) ==
    Begins(r, [Idle EXCEPT !.route = "getBookings", !.user = user, !.text = text],
           RequireSelfOrRole(user, text, {"admin"}), "list")

\* The members app only asks that there is a token, and passes it on.
GetMember(r, user, text) ==
    Begins(r, [Idle EXCEPT !.route = "getMember", !.user = user, !.text = text],
           IF ~ text.digits THEN 400 ELSE IF user = Nobody THEN 401 ELSE None, "fetch")

-----------------------------------------------------------------------------
Answer(r, status, about) ==
    requests' = [requests EXCEPT ![r] = [@ EXCEPT !.pc = "done", !.status = status, !.about = about]]

\* The database saves the hall; the handler does not know yet.
SaveHall(r) ==
    /\ requests[r].pc = "save"
    /\ Len(halls) < MaxHalls
    /\ halls' = Append(halls, [by |-> requests[r].user, body |-> requests[r].body])
    /\ requests' = [requests EXCEPT ![r] = [@ EXCEPT !.pc = "saved", !.hall = Len(halls) + 1]]
    /\ UNCHANGED up

\* Mutant: the id in the answer is read after the await, as the last one saved.
AnswerLastHall(r) ==
    /\ requests[r].pc = "saved"
    /\ Answer(r, 201, Len(halls))
    /\ UNCHANGED <<halls, up>>

AnswerHall(r) ==
    /\ requests[r].pc = "saved"
    /\ Answer(r, 201, requests[r].hall)
    /\ UNCHANGED <<halls, up>>

ListBookings(r) ==
    /\ requests[r].pc = "list"
    /\ Answer(r, 200, requests[r].text.reads)
    /\ UNCHANGED <<halls, up>>

\* Mutant: a listener for unhandledRejection keeps the process up, and nobody answers the request.
RejectUnheard(r) ==
    /\ requests[r].pc \in {"save", "saved", "list"}
    /\ requests' = [requests EXCEPT ![r].pc = "rejected"]
    /\ UNCHANGED <<halls, up>>

InProgress(request) == request.pc \notin {"idle", "done", "closed"}

\* saveHall or listBookings rejects, a hall that is saved notwithstanding.
Reject(r) ==
    /\ requests[r].pc \in {"save", "saved", "list"}
    /\ requests' = [other \in Requests |->
          IF InProgress(requests[other]) /\ Process(requests[other].route) = "service"
          THEN [requests[other] EXCEPT !.pc = "closed"] ELSE requests[other]]
    /\ up' = up \ {"service"}
    /\ UNCHANGED halls

-----------------------------------------------------------------------------
(***************************************************************************)
(* What fetch is answered.  The ParseIntPipe of MembersController reads    *)
(* digits as Number does, and MembersService finds the member or throws    *)
(* NotFoundException; anything else is its failure, or the network's.      *)
(***************************************************************************)
FindOne(text) == IF text.reads \in Members THEN {200} ELSE {404}

Fetch(r, upstream) ==
    /\ requests[r].pc = "fetch"
    /\ upstream \in FindOne(requests[r].text) \cup {401, 500}
    /\ \/ upstream = 200 /\ requests' = [requests EXCEPT ![r].pc = "json"]
       \/ upstream = 404 /\ Answer(r, 404, requests[r].text.reads)
       \/ upstream \notin {200, 404} /\ Answer(r, 502, NaN)
    /\ UNCHANGED <<halls, up>>

ReadMember(r) ==
    /\ requests[r].pc = "json"
    /\ Answer(r, 200, requests[r].text.reads)
    /\ UNCHANGED <<halls, up>>

\* Mutant: json() is awaited after the try.
CatchFetchOnly(r) ==
    /\ \/ requests[r].pc = "fetch" /\ Answer(r, 502, NaN) /\ UNCHANGED up
       \/ /\ requests[r].pc = "json"
          /\ requests' = [requests EXCEPT ![r].pc = "closed"]
          /\ up' = up \ {"membersApp"}
    /\ UNCHANGED halls

\* fetch rejects, or json() does: the connection breaks, or the body is no JSON.
CatchAll(r) ==
    /\ requests[r].pc \in {"fetch", "json"}
    /\ Answer(r, 502, NaN)
    /\ UNCHANGED <<halls, up>>

-----------------------------------------------------------------------------
\* The client has its answer, or has seen its connection closed.
Leave(r) ==
    /\ requests[r].pc \in {"done", "closed"}
    /\ requests' = [requests EXCEPT ![r] = Idle]
    /\ UNCHANGED <<halls, up>>

\* Whatever runs the service starts it again.
Restart ==
    /\ up' = Processes
    /\ up # Processes
    /\ UNCHANGED <<requests, halls>>

Arrive(r) ==
    \E user \in Users :
        \/ \E body \in {"bad", "sent"} : PostHall(r, user, body)
        \/ \E text \in Text : GetBookings(r, user, text) \/ GetMember(r, user, text)

Resume(r) ==
    \/ SaveHall(r)
    \/ AnswerHall(r)
    \/ ListBookings(r)
    \/ Reject(r)
    \/ \E upstream \in {200, 401, 404, 500} : Fetch(r, upstream)
    \/ ReadMember(r)
    \/ CatchAll(r)

Next ==
    \/ \E r \in Requests : Arrive(r) \/ Resume(r) \/ Leave(r)
    \/ Restart

(***************************************************************************)
(* What a handler awaits settles: the database answers, and fetch has its  *)
(* own timeouts.                                                           *)
(***************************************************************************)
Fairness == \A r \in Requests : WF_vars(Resume(r))

Spec == Init /\ [][Next]_vars /\ Fairness

-----------------------------------------------------------------------------
MayRead(user, id) == user # Nobody /\ (user.id = id \/ "admin" \in user.roles)

\* The handler of POST /halls only ever sees what zod returned, and only of an admin: whatever came in
\* and whatever else was going on, every row of the table is one that an admin's valid body became.
HallsAreValid ==
    \A h \in DOMAIN halls :
        /\ halls[h].body = "parsed"
        /\ halls[h].by # Nobody /\ "admin" \in halls[h].by.roles

Fits(request, rows) ==
    /\ request.status = 201 <=> request.hall # None
    /\ request.status = 201 =>
          /\ request.about = request.hall
          /\ request.hall \in DOMAIN rows
          /\ rows[request.hall] = [by |-> request.user, body |-> request.body]
    /\ request.status = 200 =>
          IF request.route = "getMember" THEN request.about \in Members
          ELSE MayRead(request.user, request.about)
    /\ request.status = 404 => request.about \notin Members

\* An answer fits what became of its request: 201 gives the id of the row this request saved, no other
\* answer leaves a row behind; bookings are shown to their user, however the id is spelled, or an
\* admin; a member that is shown exists, and one that exists is never answered with 404.
AnswersFit == \A r \in Requests : requests[r].pc = "done" => Fits(requests[r], halls)

\* No request hangs: it is answered, or its connection is closed, although Express 4 drops what the
\* handlers of the two routers reject with.
EveryRequestEnds ==
    \A r \in Requests : InProgress(requests[r]) ~> ~ InProgress(requests[r])

\* The members app answers every request, whatever becomes of the service behind it.
MembersAppAnswers ==
    \A r \in Requests : requests[r].pc \in {"fetch", "json"} ~> requests[r].pc = "done"
=============================================================================
