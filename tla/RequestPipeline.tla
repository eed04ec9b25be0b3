-------------------------- MODULE RequestPipeline --------------------------
(***************************************************************************)
(* One request on its way through the middlewares of its route and back:   *)
(* CORS, authentication, the request logger and the rate limit in the      *)
(* order a route adds them, the controller innermost, and outermost the    *)
(* handler of throwables that the JSON strategy provides.                  *)
(*                                                                         *)
(* A middleware calls the next one, and then gets its response or the      *)
(* throwable it left by.  The router that builds the stack is external.    *)
(* Middlewares of different requests share nothing here, so the requests   *)
(* of one worker, one after the other, show all there is.                  *)
(***************************************************************************)
EXTENDS Naturals, Sequences, FiniteSets

CONSTANT Routes   \* the middlewares of each route, a sequence of their names

Middlewares == {"cors", "auth", "log", "limit"}

\* A route adds a middleware once at most.
ASSUME ConstantsAssumption ==
    \A r \in Routes :
        /\ r \in Seq(Middlewares)
        /\ \A i, j \in DOMAIN r : r[i] = r[j] => i = j

VARIABLES
    route,     \* the middlewares of the request
    depth,     \* how many of them have called the next
    phase,     \* "in", "out" or, between two requests, "idle"
    result,    \* on the way out and when idle: the response or the throwable
    user,      \* $USER: "guest" until authentication sets it
    events,    \* the events the request has triggered, in order
    entered,   \* history: the middlewares the request reached
    origin     \* history: the first throwable of the request

vars == <<route, depth, phase, result, user, events, entered, origin>>

-----------------------------------------------------------------------------
Statuses == {200, 400, 401, 403, 429, 500}

Response(status) == [status |-> status, cors |-> FALSE]

Responses == [status : Statuses, cors : BOOLEAN]

\* A throwable: its class; the status of an HTTP exception, 500 for the
\* others; and whether an auth_failure_exception was given a reason.
Throwable(class, status, reason) ==
    [class |-> class, status |-> status, reason |-> reason]

TokenFailure == Throwable("auth", 401, TRUE)
NotGiven     == Throwable("auth", 401, FALSE)
Capability   == Throwable("capability", 500, FALSE)
Coding       == Throwable("exception", 500, FALSE)
Error        == Throwable("error", 500, FALSE)
ApiFailures  == {Throwable("api", s, FALSE) : s \in {400, 500}}

Throwables == ApiFailures \cup {TokenFailure, NotGiven, Capability, Coding, Error}

Nothing == [class |-> "none"]

Users  == {"guest", "ann"}
Events == [name : {"requested"}, status : Statuses, user : Users]
            \cup [name : {"auth_failed"}]

Thrown == result \in Throwables

Failed == Append(events, [name |-> "auth_failed"])

Logged(status) ==
    Append(events, [name |-> "requested", status |-> status, user |-> user])

\* The request reaches the middleware m.
Reaches(m) ==
    /\ phase = "in"
    /\ depth < Len(route)
    /\ route[depth + 1] = m
    /\ entered' = entered \cup {m}
    /\ UNCHANGED route

\* m calls the next middleware.
Calls == depth' = depth + 1 /\ UNCHANGED <<phase, result, origin>>

\* m, or the controller, answers without calling another.
Answers(status) ==
    phase' = "out" /\ result' = Response(status) /\ UNCHANGED <<depth, origin>>

Throws(th) ==
    phase' = "out" /\ result' = th /\ origin' = th /\ UNCHANGED depth

\* m has the result of the middleware it called, and passes on r.
Returns(m, r) ==
    /\ phase = "out"
    /\ depth > 0
    /\ route[depth] = m
    /\ depth' = depth - 1
    /\ result' = r
    /\ UNCHANGED <<route, phase, user, entered, origin>>

-----------------------------------------------------------------------------
Init ==
    /\ route = <<>>
    /\ depth = 0
    /\ phase = "idle"
    /\ result = Response(200)
    /\ user = "guest"
    /\ events = <<>>
    /\ entered = {}
    /\ origin = Nothing

Arrive ==
    /\ phase = "idle"
    /\ phase' = "in"
    /\ route' \in Routes
    /\ depth' = 0
    /\ user' = "guest"
    /\ events' = <<>>
    /\ entered' = {}
    /\ origin' = Nothing
    /\ UNCHANGED result

\* cors_middleware: nothing on the way in; headers on a response.
CorsIn  == Reaches("cors") /\ Calls /\ UNCHANGED <<user, events>>

\* Fault: only a success gets the headers.
CorsOutSuccess ==
    /\ Returns("cors", IF result.status # 200 THEN result ELSE [result EXCEPT !.cors = TRUE])
    /\ UNCHANGED events

CorsOut ==
    /\ Returns("cors", IF Thrown THEN result ELSE [result EXCEPT !.cors = TRUE])
    /\ UNCHANGED events

\* Fault: a request with a bad token goes on as a guest.
AuthTokenIgnored ==
    /\ Reaches("auth")
    /\ events' = Failed
    /\ Calls
    /\ UNCHANGED user

\* get_authenticated_user refuses the token: the failure has a reason, and its
\* event is triggered before it is thrown again.
AuthToken ==
    /\ Reaches("auth")
    /\ events' = Failed
    /\ Throws(TokenFailure)
    /\ UNCHANGED user

\* validate_user refuses the account.  For a user that is missing, deleted,
\* unconfirmed, suspended, with an expired password or nologin, building the
\* exception calls setOther, which does not exist: an Error, which process
\* does not catch.  In maintenance it is an api_exception; without the
\* capability webservice/api:use it is what require_capability throws.
AuthUser ==
    /\ Reaches("auth")
    /\ \/ Throws(Error)
       \/ Throws(Throwable("api", 500, FALSE))
       \/ Throws(Capability)
    /\ UNCHANGED <<user, events>>

AuthIn == Reaches("auth") /\ user' = "ann" /\ Calls /\ UNCHANGED events

\* Fault: the event is triggered for every throwable.
AuthOutAny ==
    /\ Returns("auth", result)
    /\ events' = IF Thrown THEN Failed ELSE events

\* What comes back through authentication: the failure of an inner one has its
\* event triggered too, which without a reason throws a coding_exception.
AuthOut ==
    \/ result = TokenFailure /\ Returns("auth", result) /\ events' = Failed
    \/ result = NotGiven /\ Returns("auth", Coding) /\ UNCHANGED events
    \/ /\ result \notin {TokenFailure, NotGiven}
       /\ Returns("auth", result)
       /\ UNCHANGED events

LogIn == Reaches("log") /\ Calls /\ UNCHANGED <<user, events>>

\* Fault: the event is triggered when there is a response, not finally.
LogOutResponse ==
    /\ Returns("log", result)
    /\ events' = IF Thrown THEN events ELSE Logged(result.status)

\* Fault: the status of an HTTP exception is not looked at.
LogOutFlat ==
    /\ Returns("log", result)
    /\ events' = Logged(IF Thrown THEN 500 ELSE result.status)

\* request_logger: the event gets the status of the response, or of the
\* throwable, and is triggered in both cases.
LogOut ==
    /\ Returns("log", result)
    /\ events' = Logged(result.status)

\* The rate limit answers 429 itself or calls the next; RateLimit says when.
LimitIn ==
    /\ Reaches("limit")
    /\ Answers(429) \/ Calls
    /\ UNCHANGED <<user, events>>

LimitOut == Returns("limit", result) /\ UNCHANGED events

\* The controller returns, or throws anything.
Controller ==
    /\ phase = "in"
    /\ depth = Len(route)
    /\ \/ Answers(200)
       \/ \E th \in Throwables : Throws(th)
    /\ UNCHANGED <<route, user, events, entered>>

\* Fault: only HTTP exceptions and missing capabilities get a status.
HandledStatusUnset(th) ==
    IF th.class = "capability" THEN 403
    ELSE IF th.class \in {"api", "auth"} THEN th.status ELSE 0

\* The status exception_handler::handle gives a throwable.
HandledStatus(th) == IF th.class = "capability" THEN 403 ELSE th.status

\* The strategy's handler answers a throwable by a new response.
Emit ==
    /\ phase = "out"
    /\ depth = 0
    /\ phase' = "idle"
    /\ result' = IF Thrown THEN Response(HandledStatus(result)) ELSE result
    /\ UNCHANGED <<route, depth, user, events, entered, origin>>

Next ==
    \/ Arrive
    \/ CorsIn \/ CorsOut
    \/ AuthToken \/ AuthUser \/ AuthIn \/ AuthOut
    \/ LogIn \/ LogOut
    \/ LimitIn \/ LimitOut
    \/ Controller
    \/ Emit

Spec == Init /\ [][Next]_vars

-----------------------------------------------------------------------------
(* Properties                                                              *)

EventsNamed(name) == {i \in DOMAIN events : events[i].name = name}

\* Every variable keeps its type, and a request between two others has been
\* answered by a response.
TypeOK ==
    /\ route \in Routes \cup {<<>>}
    /\ depth \in 0 .. Len(route)
    /\ phase \in {"idle", "in", "out"}
    /\ result \in Responses \cup Throwables
    /\ user \in Users
    /\ events \in Seq(Events)
    /\ entered \subseteq Middlewares
    /\ origin \in Throwables \cup {Nothing}
    /\ phase = "idle" => result \in Responses

\* On a route with authentication the controller runs for the user that was
\* authenticated, whichever middlewares stand before or after.
ControllerAuthenticated ==
    [][Controller /\ "auth" \in entered => user = "ann"]_vars

\* A request that reaches the logger is logged once, and no other is,
\* whatever is thrown inside and wherever the logger stands.
LoggedOnce ==
    phase = "idle" =>
        Cardinality(EventsNamed("requested")) = (IF "log" \in entered THEN 1 ELSE 0)

\* The log tells the user a request was served for, whether the logger stands
\* outside of authentication or inside.  It tells the status the client was
\* answered, but for two cases: a missing capability, logged as 500 and
\* answered 403, and a failure without a reason thrown inside authentication,
\* logged as 401 and answered 500.
LoggedAsAnswered ==
    phase = "idle" =>
        \A i \in EventsNamed("requested") :
            /\ events[i].user = user
            /\ events[i].status = result.status \/ origin \in {Capability, NotGiven}

\* Authentication never stays silent on a failure that has a reason and never
\* reports anything else: one event for each, whoever threw it.
FailureReported ==
    phase = "idle" /\ "auth" \in entered =>
        Cardinality(EventsNamed("auth_failed")) =
          (IF origin = TokenFailure THEN 1 ELSE 0)

\* A request whose account authentication refuses is logged as a failure.
\* It is not: the refusal never becomes an auth_failure_exception.
RefusalsReported ==
    [][Reaches("auth") /\ phase' = "out" /\ result'.class = "error"
         => Len(events') > Len(events)]_vars

\* An answer that no throwable had a part in keeps the headers CORS gives it
\* through the middlewares that stand before it, and gets them also if another
\* middleware gave it in place of the controller.
CorsOnResponses ==
    phase = "idle" /\ "cors" \in entered /\ origin = Nothing => result.cors

\* Every answer on a route with CORS carries its headers.  It does not: one made
\* from a throwable, by the handler outside of all middlewares, has none.
CorsOnAllRoutes == phase = "idle" /\ "cors" \in entered => result.cors
=============================================================================
