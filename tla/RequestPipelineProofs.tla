----------------------- MODULE RequestPipelineProofs -----------------------
(***************************************************************************)
(* Theorems about RequestPipeline for every set of routes, that is for     *)
(* every order of the middlewares, checked by TLAPS.                       *)
(***************************************************************************)
EXTENDS RequestPipeline, FiniteSetTheorems, TLAPS

-----------------------------------------------------------------------------
(* The inductive invariant                                                 *)

\* The middlewares that have called the next one and not returned.
Passed == {route[i] : i \in 1 .. depth}

\* Those that will see no more of the request.
Left == entered \ Passed

One(S) == \E i : S = {i}

\* On the way in nothing has happened but that middlewares were entered.
Inbound ==
    phase = "in" =>
        /\ entered = Passed
        /\ origin = Nothing
        /\ events = <<>>
        /\ "auth" \in entered => user = "ann"

\* A throwable that is on its way out is the first one or replaces a failure
\* that authentication could not report; there is none without a first one.
Outbound ==
    /\ phase # "in" /\ origin = Nothing => result \in Responses
    /\ phase = "out" /\ origin # Nothing =>
         result = origin \/ (result = Coding /\ origin = NotGiven)

\* What the middlewares have done that the request has left.
Headers ==
    phase # "in" =>
        /\ origin = Nothing => (result.cors <=> "cors" \in Left)
        /\ phase = "idle" /\ origin # Nothing => ~result.cors

LogEvents ==
    phase # "in" =>
        IF "log" \in Left THEN One(EventsNamed("requested"))
                          ELSE EventsNamed("requested") = {}

LogEventsTrue ==
    phase # "in" =>
        \A i \in EventsNamed("requested") :
            /\ events[i].user = user
            /\ events[i].status = result.status \/ origin \in {Capability, NotGiven}

FailureEvents ==
    phase # "in" =>
        IF "auth" \in Left /\ origin = TokenFailure
          THEN One(EventsNamed("auth_failed"))
          ELSE EventsNamed("auth_failed") = {}

IInv ==
    /\ TypeOK
    /\ Passed \subseteq entered
    /\ phase = "idle" => depth = 0
    /\ Inbound /\ Outbound /\ Headers /\ LogEvents /\ LogEventsTrue /\ FailureEvents

-----------------------------------------------------------------------------
(* Responses, throwables and events                                        *)

LEMMA ResponseType ==
    ASSUME NEW status \in Statuses
    PROVE  /\ Response(status) \in Responses
           /\ Response(status).status = status /\ ~Response(status).cors
  BY DEF Response, Responses

LEMMA ResponseParts ==
    ASSUME NEW r \in Responses
    PROVE  /\ r.status \in Statuses /\ r.cors \in BOOLEAN
           /\ [r EXCEPT !.cors = TRUE] \in Responses
           /\ [r EXCEPT !.cors = TRUE].status = r.status
           /\ [r EXCEPT !.cors = TRUE].cors
  BY DEF Responses

LEMMA NotBoth == Responses \cap Throwables = {}
  <1>1. \A r \in Responses : "class" \notin DOMAIN r
    BY DEF Responses
  <1>2. \A th \in Throwables : "class" \in DOMAIN th
    BY DEF Throwables, ApiFailures, TokenFailure, NotGiven, Capability, Coding,
           Error, Throwable
  <1> QED BY <1>1, <1>2

LEMMA ThrowableParts ==
    /\ \A th \in Throwables : th.status \in Statuses /\ th # Nothing
    /\ {TokenFailure, NotGiven, Capability, Coding, Error} \cup ApiFailures = Throwables
    /\ TokenFailure # NotGiven /\ TokenFailure # Capability /\ TokenFailure # Coding
    /\ TokenFailure # Error /\ TokenFailure # Throwable("api", 500, FALSE)
    /\ Throwable("api", 500, FALSE) \in Throwables
    /\ NotGiven # Coding
    /\ \A th \in Throwables : th.class = "capability" => th = Capability
  <1>1. \A th \in Throwables : "status" \in DOMAIN th
    BY DEF Throwables, ApiFailures, TokenFailure, NotGiven, Capability, Coding,
           Error, Throwable
  <1>2. "status" \notin DOMAIN Nothing
    BY DEF Nothing
  <1>3. \A th \in Throwables : th # Nothing
    BY <1>1, <1>2
  <1> QED BY <1>3 DEF Throwables, ApiFailures, TokenFailure, NotGiven, Capability,
                      Coding, Error, Throwable, Statuses

LEMMA HandledType ==
    ASSUME NEW th \in Throwables
    PROVE  /\ HandledStatus(th) \in Statuses
           /\ th # Capability => HandledStatus(th) = th.status
  BY ThrowableParts DEF HandledStatus, Statuses

\* The events after one more.
LEMMA AppendNamed ==
    ASSUME NEW s \in Seq(Events), NEW e \in Events, NEW name
    PROVE  /\ Append(s, e) \in Seq(Events)
           /\ {i \in DOMAIN Append(s, e) : Append(s, e)[i].name = name} =
                {i \in DOMAIN s : s[i].name = name}
                  \cup (IF e.name = name THEN {Len(s) + 1} ELSE {})
           /\ \A i \in DOMAIN s : Append(s, e)[i] = s[i]
           /\ Append(s, e)[Len(s) + 1] = e
  OBVIOUS

LEMMA EventTypes ==
    /\ [name |-> "auth_failed"] \in Events
    /\ \A status \in Statuses, u \in Users :
         [name |-> "requested", status |-> status, user |-> u] \in Events
  BY DEF Events

-----------------------------------------------------------------------------
(* The way in                                                              *)

LEMMA RouteFacts ==
    ASSUME TypeOK
    PROVE  /\ route \in Seq(Middlewares) /\ depth \in Nat
           /\ \A i, j \in 1 .. Len(route) : route[i] = route[j] => i = j
  <1>1. CASE route \in Routes
    <2>1. /\ route \in Seq(Middlewares)
          /\ \A i, j \in DOMAIN route : route[i] = route[j] => i = j
      BY <1>1, ConstantsAssumption DEF ConstantsAssumption
    <2>2. DOMAIN route = 1 .. Len(route) /\ Len(route) \in Nat
      BY <2>1
    <2> QED BY <2>1, <2>2 DEF TypeOK
  <1>2. CASE route = <<>>
    BY <1>2 DEF TypeOK
  <1> QED BY <1>1, <1>2 DEF TypeOK

LEMMA ReachesFacts ==
    ASSUME TypeOK, NEW m, Reaches(m)
    PROVE  /\ m \notin Passed /\ m \in Middlewares
           /\ depth + 1 \in 1 .. Len(route) /\ depth \in Nat
           /\ depth' = depth => Passed' = Passed
           /\ depth' = depth + 1 => Passed' = Passed \cup {m}
  <1>1. depth + 1 \in 1 .. Len(route) /\ route[depth + 1] = m /\ route' = route
    BY RouteFacts DEF Reaches
  <1>2. m \notin Passed
    BY <1>1, RouteFacts DEF Passed
  <1>3. depth' = depth => Passed' = Passed
    BY <1>1 DEF Passed
  <1>4. ASSUME depth' = depth + 1 PROVE Passed' = Passed \cup {m}
    <2>1. 1 .. depth + 1 = (1 .. depth) \cup {depth + 1}
      BY RouteFacts
    <2> QED BY <1>1, <1>4, <2>1 DEF Passed
  <1> QED BY <1>1, <1>2, <1>3, <1>4, RouteFacts

\* A middleware calls the next.
LEMMA CallsStep ==
    ASSUME IInv, NEW m, Reaches(m), Calls, events' = events, user' \in Users,
           IF m = "auth" THEN user' = "ann" ELSE user' = user
    PROVE  IInv'
  <1>1. /\ m \in Middlewares /\ depth + 1 \in 1 .. Len(route) /\ depth \in Nat
        /\ Passed' = Passed \cup {m} /\ phase = "in"
        /\ entered' = entered \cup {m} /\ depth' = depth + 1
        /\ UNCHANGED <<route, phase, result, origin>>
    BY ReachesFacts DEF IInv, Reaches, Calls
  <1>2. TypeOK'
    BY <1>1 DEF IInv, TypeOK
  <1> QED BY <1>1, <1>2 DEF IInv, Inbound, Outbound, Headers, LogEvents, LogEventsTrue,
                            FailureEvents

\* The innermost that is reached has a result; if it is not the controller it
\* has been entered now.
LEMMA TurnsBack ==
    ASSUME IInv, phase = "in", UNCHANGED <<route, depth>>,
           \/ entered' = entered
           \/ \E m : Reaches(m)
    PROVE  /\ Passed' = Passed /\ Passed' \subseteq entered'
           /\ entered' \in SUBSET Middlewares
           /\ events = <<>> /\ origin = Nothing
           /\ \A m : m \in Left' => Reaches(m)
           /\ entered' = entered => Left' = {}
  <1>1. Passed' = Passed
    BY DEF Passed
  <1>2. entered = Passed /\ events = <<>> /\ origin = Nothing
    BY DEF IInv, Inbound
  <1>3. CASE entered' = entered
    BY <1>1, <1>2, <1>3 DEF Left, IInv, TypeOK
  <1>4. CASE entered' # entered /\ \E m : Reaches(m)
    BY <1>1, <1>2, <1>4, ReachesFacts DEF Left, Reaches, IInv, TypeOK
  <1> QED BY <1>3, <1>4

LEMMA NoEvents ==
    ASSUME events' = <<>> PROVE \A name : EventsNamed(name)' = {}
  BY DEF EventsNamed

\* It answers.
LEMMA AnswersStep ==
    ASSUME IInv, phase = "in", UNCHANGED <<route, user, events>>,
           entered' = entered \/ Reaches("limit"),
           NEW status \in Statuses, Answers(status)
    PROVE  IInv'
  <1>1. /\ result' \in Responses /\ result'.status = status /\ ~result'.cors
        /\ phase' = "out" /\ UNCHANGED <<depth, origin>>
    BY ResponseType DEF Answers
  <1>2. /\ Passed' \subseteq entered' /\ entered' \in SUBSET Middlewares
        /\ events = <<>> /\ origin = Nothing
        /\ "cors" \notin Left' /\ "log" \notin Left' /\ "auth" \notin Left'
    <2>1. /\ Passed' \subseteq entered' /\ entered' \in SUBSET Middlewares
          /\ events = <<>> /\ origin = Nothing
          /\ \A m : m \in Left' => Reaches(m)
          /\ entered' = entered => Left' = {}
      BY <1>1, TurnsBack
    <2>2. entered' # entered => \A m \in Left' : m = "limit"
      BY <2>1 DEF Reaches
    <2> QED BY <2>1, <2>2
  <1>3. TypeOK'
    BY <1>1, <1>2 DEF IInv, TypeOK
  <1>4. Inbound' /\ Outbound' /\ Headers'
    BY <1>1, <1>2 DEF Inbound, Outbound, Headers
  <1>5. LogEvents' /\ LogEventsTrue' /\ FailureEvents'
    BY <1>1, <1>2, NoEvents DEF LogEvents, LogEventsTrue, FailureEvents
  <1> QED BY <1>1, <1>2, <1>3, <1>4, <1>5 DEF IInv

\* It throws; the event of a bad token is triggered before.
LEMMA ThrowsStep ==
    ASSUME IInv, phase = "in", UNCHANGED <<route, user>>,
           NEW th \in Throwables, Throws(th),
           \/ entered' = entered /\ events' = events
           \/ Reaches("auth") /\ th # TokenFailure /\ events' = events
           \/ Reaches("auth") /\ th = TokenFailure /\ events' = Failed
    PROVE  IInv'
  <1>1. result' = th /\ origin' = th /\ phase' = "out" /\ depth' = depth
        /\ th # Nothing
    BY ThrowableParts DEF Throws
  <1>2. /\ Passed' \subseteq entered' /\ entered' \in SUBSET Middlewares
        /\ events = <<>>
        /\ \A m : m \in Left' => Reaches(m)
        /\ entered' = entered => Left' = {}
    BY <1>1, TurnsBack
  <1>3. "log" \notin Left' /\ ("auth" \in Left' <=> Reaches("auth"))
    BY <1>1, <1>2, ReachesFacts DEF Reaches, Left, IInv
  <1>4. CASE events' = events
    <2>1. TypeOK'
      BY <1>1, <1>2, <1>4 DEF IInv, TypeOK
    <2>2. Inbound' /\ Outbound' /\ Headers'
      BY <1>1 DEF Inbound, Outbound, Headers
    <2>3. LogEvents' /\ LogEventsTrue'
      BY <1>2, <1>3, <1>4, NoEvents DEF LogEvents, LogEventsTrue
    <2>4. ~("auth" \in Left' /\ th = TokenFailure)
      BY <1>2, <1>3, <1>4, AppendNamed, EventTypes DEF Failed
    <2>5. FailureEvents'
      BY <1>1, <1>2, <1>4, <2>4, NoEvents DEF FailureEvents
    <2> QED BY <1>1, <1>2, <2>1, <2>2, <2>3, <2>5 DEF IInv
  <1>5. CASE Reaches("auth") /\ th = TokenFailure /\ events' = Failed
    <2>1. /\ events' \in Seq(Events)
          /\ EventsNamed("requested")' = {} /\ EventsNamed("auth_failed")' = {1}
      <3>1. events' = << [name |-> "auth_failed"] >>
        BY <1>2, <1>5 DEF Failed
      <3> QED BY <3>1, EventTypes DEF EventsNamed
    <2>2. TypeOK'
      BY <1>1, <1>2, <2>1 DEF IInv, TypeOK
    <2>3. Inbound' /\ Outbound' /\ Headers'
      BY <1>1 DEF Inbound, Outbound, Headers
    <2>4. LogEvents' /\ LogEventsTrue' /\ FailureEvents'
      BY <1>1, <1>3, <1>5, <2>1 DEF LogEvents, LogEventsTrue, FailureEvents, One
    <2> QED BY <1>1, <1>2, <2>2, <2>3, <2>4 DEF IInv
  <1> QED BY <1>4, <1>5

-----------------------------------------------------------------------------
(* The way out                                                             *)

LEMMA ReturnsFacts ==
    ASSUME IInv, NEW m, NEW r, Returns(m, r)
    PROVE  /\ m \in Passed /\ m \in Middlewares /\ m \notin Left
           /\ Passed' = Passed \ {m} /\ Left' = Left \cup {m}
           /\ phase = "out" /\ phase' = "out" /\ result' = r
           /\ depth' \in 0 .. Len(route)
           /\ UNCHANGED <<route, user, entered, origin>>
  <1>1. depth \in 1 .. Len(route) /\ route[depth] = m /\ route' = route /\ depth' = depth - 1
    BY RouteFacts DEF Returns, IInv, TypeOK
  <1>2. m \in Passed /\ m \in Middlewares
    BY <1>1, RouteFacts DEF Passed, IInv
  <1>3. Passed' = Passed \ {m}
    <2>1. \A i \in 1 .. depth : route[i] = m => i = depth
      BY <1>1, RouteFacts DEF IInv
    <2> QED BY <1>1, <2>1, RouteFacts DEF Passed, IInv
  <1> QED BY <1>1, <1>2, <1>3 DEF Returns, Left, IInv

\* The throwable on its way out is there because of a first one.
LEMMA OutFacts ==
    ASSUME IInv, phase = "out"
    PROVE  /\ origin = Nothing <=> ~Thrown
           /\ origin = Nothing <=> result \in Responses
           /\ ~Thrown => result \in Responses
           /\ origin = TokenFailure <=> result = TokenFailure
           /\ result = NotGiven => origin = NotGiven
           /\ result.status \in Statuses
  <1>1. origin = Nothing => result \in Responses
    BY DEF IInv, Outbound
  <1>2. origin # Nothing => result \in Throwables
    BY ThrowableParts DEF IInv, Outbound, TypeOK
  <1>3. origin = Nothing <=> ~Thrown
    BY <1>1, <1>2, NotBoth DEF Thrown
  <1>4. origin = TokenFailure <=> result = TokenFailure
    BY <1>1, <1>3, ThrowableParts DEF IInv, Outbound, Thrown
  <1>5. result = NotGiven => origin = NotGiven
    BY <1>1, <1>3, ThrowableParts DEF IInv, Outbound, Thrown
  <1>6. result.status \in Statuses
    BY <1>1, <1>2, ThrowableParts, ResponseParts
  <1> QED BY <1>1, <1>2, <1>3, <1>4, <1>5, <1>6, NotBoth

\* Whatever m does besides, if it keeps this, returning keeps the invariant.
LEMMA ReturnsStep ==
    ASSUME IInv, NEW m, NEW r \in Responses \cup Throwables, Returns(m, r),
           events' \in Seq(Events),
           Outbound', Headers', LogEvents', LogEventsTrue', FailureEvents'
    PROVE  IInv'
  <1>1. TypeOK'
    BY ReturnsFacts DEF IInv, TypeOK
  <1>2. Passed' \subseteq entered'
    BY ReturnsFacts DEF IInv
  <1> QED BY <1>1, <1>2, ReturnsFacts DEF IInv, Inbound

LEMMA SameEvents ==
    ASSUME events' = events PROVE \A name : EventsNamed(name)' = EventsNamed(name)
  BY DEF EventsNamed

LEMMA CorsOutStep == IInv /\ CorsOut => IInv'
  <1> SUFFICES ASSUME IInv, CorsOut PROVE IInv'
    OBVIOUS
  <1>1. PICK r : /\ r = IF Thrown THEN result ELSE [result EXCEPT !.cors = TRUE]
                 /\ Returns("cors", r) /\ events' = events
    BY DEF CorsOut
  <1>2. /\ phase = "out" /\ phase' = "out" /\ result' = r
        /\ "cors" \notin Left /\ Left' = Left \cup {"cors"}
        /\ UNCHANGED <<route, user, entered, origin>>
    BY <1>1, ReturnsFacts
  <1>3. /\ r \in Responses \cup Throwables /\ r.status = result.status
        /\ origin = Nothing => r \in Responses /\ r.cors
        /\ origin # Nothing => r = result
    BY <1>1, <1>2, OutFacts, ResponseParts DEF IInv, TypeOK
  <1>4. Outbound' /\ Headers'
    BY <1>2, <1>3 DEF IInv, Outbound, Headers
  <1>5. LogEvents' /\ FailureEvents'
    BY <1>1, <1>2, SameEvents DEF IInv, LogEvents, FailureEvents, One
  <1>6. LogEventsTrue'
    BY <1>1, <1>2, <1>3, SameEvents DEF IInv, LogEventsTrue
  <1>7. events' \in Seq(Events)
    BY <1>1 DEF IInv, TypeOK
  <1> QED BY <1>1, <1>3, <1>4, <1>5, <1>6, <1>7, ReturnsStep

LEMMA LimitOutStep == IInv /\ LimitOut => IInv'
  <1> SUFFICES ASSUME IInv, LimitOut PROVE IInv'
    OBVIOUS
  <1>1. PICK r : r = result /\ Returns("limit", r) /\ events' = events
    BY DEF LimitOut
  <1>2. /\ phase = "out" /\ phase' = "out" /\ result' = result
        /\ Left' = Left \cup {"limit"}
        /\ UNCHANGED <<route, user, entered, origin>>
    BY <1>1, ReturnsFacts
  <1>3. Outbound' /\ Headers'
    BY <1>2 DEF IInv, Outbound, Headers
  <1>4. LogEvents' /\ FailureEvents' /\ LogEventsTrue'
    BY <1>1, <1>2, SameEvents DEF IInv, LogEvents, LogEventsTrue, FailureEvents, One
  <1>5. r \in Responses \cup Throwables /\ events' \in Seq(Events)
    BY <1>1 DEF IInv, TypeOK
  <1> QED BY <1>1, <1>3, <1>4, <1>5, ReturnsStep

LEMMA LogOutStep == IInv /\ LogOut => IInv'
  <1> SUFFICES ASSUME IInv, LogOut PROVE IInv'
    OBVIOUS
  <1>1. PICK r : r = result /\ Returns("log", r)
    BY DEF LogOut
  <1>2. /\ phase = "out" /\ phase' = "out" /\ result' = result
        /\ "log" \notin Left /\ Left' = Left \cup {"log"}
        /\ UNCHANGED <<route, user, entered, origin>>
    BY <1>1, ReturnsFacts
  <1>3. Outbound' /\ Headers'
    BY <1>2 DEF IInv, Outbound, Headers
  <1>4. PICK e : /\ e = [name |-> "requested", status |-> result.status, user |-> user]
                 /\ events' = Append(events, e)
    BY DEF LogOut, Logged
  <1>5. /\ e \in Events /\ e.name = "requested"
        /\ e.status = result.status /\ e.user = user /\ events \in Seq(Events)
    BY <1>2, <1>4, OutFacts, EventTypes DEF IInv, TypeOK
  <1>6. /\ events' \in Seq(Events)
        /\ EventsNamed("requested")' = EventsNamed("requested") \cup {Len(events) + 1}
        /\ EventsNamed("auth_failed")' = EventsNamed("auth_failed")
        /\ \A i \in DOMAIN events : events'[i] = events[i]
        /\ events'[Len(events) + 1] = e
    BY <1>4, <1>5, AppendNamed DEF EventsNamed
  <1>7. EventsNamed("requested")' = {Len(events) + 1}
    BY <1>2, <1>6 DEF IInv, LogEvents
  <1>8. LogEvents' /\ LogEventsTrue' /\ FailureEvents'
    BY <1>2, <1>5, <1>6, <1>7
       DEF IInv, LogEvents, LogEventsTrue, FailureEvents, One
  <1>9. r \in Responses \cup Throwables
    BY <1>1 DEF IInv, TypeOK
  <1> QED BY <1>1, <1>3, <1>6, <1>8, <1>9, ReturnsStep

LEMMA AuthOutStep == IInv /\ AuthOut => IInv'
  <1> SUFFICES ASSUME IInv, AuthOut PROVE IInv'
    OBVIOUS
  <1>1. PICK r : /\ Returns("auth", r)
                 /\ r = IF result = NotGiven THEN Coding ELSE result
    BY ThrowableParts DEF AuthOut
  <1>2. /\ phase = "out" /\ phase' = "out" /\ result' = r
        /\ "auth" \notin Left /\ Left' = Left \cup {"auth"}
        /\ UNCHANGED <<route, user, entered, origin>>
    BY <1>1, ReturnsFacts
  <1>3. r \in Responses \cup Throwables /\ (origin # NotGiven => r = result)
    BY <1>1, <1>2, OutFacts, ThrowableParts DEF IInv, TypeOK
  <1>4. NotGiven # Nothing /\ (origin = Nothing => r = result)
    BY <1>1, <1>2, OutFacts, ThrowableParts
  <1>5. Outbound'
    BY <1>1, <1>2, <1>3, <1>4, OutFacts DEF IInv, Outbound
  <1>6. Headers'
    BY <1>2, <1>4 DEF IInv, Headers
  <1>7. EventsNamed("auth_failed") = {} /\ events \in Seq(Events)
    BY <1>2 DEF IInv, FailureEvents, TypeOK
  <1>8. CASE result = TokenFailure /\ events' = Failed
    <2>1. PICK e \in Events : e.name = "auth_failed" /\ events' = Append(events, e)
      BY <1>8, EventTypes DEF Failed
    <2>2. /\ events' \in Seq(Events)
          /\ EventsNamed("auth_failed")' = {Len(events) + 1}
          /\ EventsNamed("requested")' = EventsNamed("requested")
          /\ \A i \in DOMAIN events : events'[i] = events[i]
      BY <1>7, <2>1, AppendNamed DEF EventsNamed
    <2>3. EventsNamed("requested") \subseteq DOMAIN events /\ origin # NotGiven
      BY <1>2, <1>8, OutFacts, ThrowableParts DEF EventsNamed
    <2>4. LogEvents' /\ LogEventsTrue' /\ FailureEvents'
      BY <1>2, <1>3, <1>8, <2>2, <2>3, OutFacts
         DEF IInv, LogEvents, LogEventsTrue, FailureEvents, One
    <2> QED BY <1>1, <1>3, <1>5, <1>6, <2>2, <2>4, ReturnsStep
  <1>9. CASE result # TokenFailure /\ events' = events
    <2>1. origin # TokenFailure
      BY <1>2, <1>9, OutFacts
    <2>2. LogEvents' /\ FailureEvents'
      BY <1>2, <1>7, <1>9, <2>1, SameEvents DEF IInv, LogEvents, FailureEvents, One
    <2>3. LogEventsTrue'
      BY <1>2, <1>3, <1>9, SameEvents DEF IInv, LogEventsTrue
    <2>4. events' \in Seq(Events)
      BY <1>7, <1>9
    <2> QED BY <1>1, <1>3, <1>5, <1>6, <2>2, <2>3, <2>4, ReturnsStep
  <1> QED BY <1>8, <1>9, ThrowableParts DEF AuthOut

-----------------------------------------------------------------------------
(* Between two requests                                                    *)

LEMMA EmitStep == IInv /\ Emit => IInv'
  <1> SUFFICES ASSUME IInv, Emit PROVE IInv'
    OBVIOUS
  <1>1. /\ phase = "out" /\ phase' = "idle" /\ depth = 0 /\ Left' = Left
        /\ Passed' = Passed
        /\ UNCHANGED <<route, depth, user, events, entered, origin>>
    BY DEF Emit, Left, Passed
  <1>2. CASE Thrown
    <2>1. origin # Nothing /\ result \in Throwables
      BY <1>1, <1>2, OutFacts DEF Thrown
    <2>2. /\ result' \in Responses /\ ~result'.cors
          /\ result # Capability => result'.status = result.status
      BY <1>2, <2>1, HandledType, ResponseType DEF Emit
    <2>3. result = Capability => origin = Capability
      BY <1>1, <2>1, ThrowableParts DEF IInv, Outbound, Capability, Coding, Throwable
    <2> QED BY <1>1, <2>1, <2>2, <2>3, SameEvents
            DEF IInv, TypeOK, Inbound, Outbound, Headers, LogEvents, LogEventsTrue,
                FailureEvents, One
  <1>3. CASE ~Thrown
    <2>1. result' = result /\ origin = Nothing /\ result \in Responses
      BY <1>1, <1>3, OutFacts DEF Emit
    <2> QED BY <1>1, <2>1, SameEvents
            DEF IInv, TypeOK, Inbound, Outbound, Headers, LogEvents, LogEventsTrue,
                FailureEvents, One
  <1> QED BY <1>2, <1>3

LEMMA ArriveStep == IInv /\ Arrive => IInv'
  <1> SUFFICES ASSUME IInv, Arrive PROVE IInv'
    OBVIOUS
  <1>1. Passed' = {}
    BY DEF Arrive, Passed
  <1>2. TypeOK'
    <2>1. route' \in Seq(Middlewares)
      BY ConstantsAssumption DEF Arrive, ConstantsAssumption
    <2> QED BY <2>1 DEF IInv, TypeOK, Arrive, Users
  <1> QED BY <1>1, <1>2 DEF IInv, Arrive, Inbound, Outbound, Headers, LogEvents,
                            LogEventsTrue, FailureEvents

-----------------------------------------------------------------------------
(* The theorems                                                            *)

LEMMA IInvInit == Init => IInv
  <1> SUFFICES ASSUME Init PROVE IInv
    OBVIOUS
  <1>1. result \in Responses /\ ~result.cors
    BY ResponseType DEF Init, Statuses
  <1>2. Passed = {} /\ Left = {} /\ \A name : EventsNamed(name) = {}
    BY DEF Init, Passed, Left, EventsNamed
  <1>3. TypeOK
    BY <1>1 DEF Init, TypeOK, Users
  <1> QED BY <1>1, <1>2, <1>3 DEF Init, IInv, Inbound, Outbound, Headers, LogEvents,
                                  LogEventsTrue, FailureEvents

LEMMA IInvStep == IInv /\ [Next]_vars => IInv'
  <1> SUFFICES ASSUME IInv, [Next]_vars PROVE IInv'
    OBVIOUS
  <1>1. CASE Arrive
    BY <1>1, ArriveStep
  <1>2. CASE CorsIn \/ LogIn
    BY <1>2, CallsStep DEF CorsIn, LogIn, IInv, TypeOK
  <1>3. CASE AuthIn
    BY <1>3, CallsStep DEF AuthIn, Users
  <1>4. CASE AuthToken
    <2>1. TokenFailure \in Throwables
      BY DEF Throwables
    <2> QED BY <1>4, <2>1, ThrowsStep DEF AuthToken, Reaches
  <1>5. CASE AuthUser
    <2>1. PICK th \in {Error, Throwable("api", 500, FALSE), Capability} : Throws(th)
      BY <1>5 DEF AuthUser
    <2>2. /\ Error \in Throwables /\ Capability \in Throwables
          /\ Throwable("api", 500, FALSE) \in Throwables
      BY DEF Throwables, ApiFailures
    <2>3. /\ Error # TokenFailure /\ Capability # TokenFailure
          /\ Throwable("api", 500, FALSE) # TokenFailure
      BY ThrowableParts
    <2>4. th \in Throwables /\ th # TokenFailure
      BY <2>1, <2>2, <2>3
    <2> QED BY <1>5, <2>1, <2>4, ThrowsStep DEF AuthUser, Reaches
  <1>6. CASE LimitIn
    <2>1. CASE Answers(429)
      BY <1>6, <2>1, AnswersStep DEF LimitIn, Statuses, Reaches
    <2>2. CASE Calls
      BY <1>6, <2>2, CallsStep DEF LimitIn, IInv, TypeOK
    <2> QED BY <1>6, <2>1, <2>2 DEF LimitIn
  <1>7. CASE Controller
    <2>1. CASE Answers(200)
      BY <1>7, <2>1, AnswersStep DEF Controller, Statuses
    <2>2. ASSUME NEW th \in Throwables, Throws(th) PROVE IInv'
      BY <1>7, <2>2, ThrowsStep DEF Controller
    <2> QED BY <1>7, <2>1, <2>2 DEF Controller
  <1>8. CASE CorsOut \/ AuthOut \/ LogOut \/ LimitOut
    BY <1>8, CorsOutStep, AuthOutStep, LogOutStep, LimitOutStep
  <1>9. CASE Emit
    BY <1>9, EmitStep
  <1>10. CASE UNCHANGED vars
    BY <1>10 DEF vars, IInv, TypeOK, Passed, Left, Inbound, Outbound, Headers, LogEvents,
                 LogEventsTrue, FailureEvents, EventsNamed, One
  <1> QED BY <1>1, <1>2, <1>3, <1>4, <1>5, <1>6, <1>7, <1>8, <1>9, <1>10 DEF Next

LEMMA IInvAlways == Spec => []IInv
  BY IInvInit, IInvStep, PTL DEF Spec

\* Every variable keeps its type, and what the worker sends is a response.
THEOREM TypeCorrect == Spec => []TypeOK
  BY IInvAlways, PTL DEF IInv

LEMMA Idle == IInv /\ phase = "idle" => Left = entered
  BY DEF IInv, Passed, Left, TypeOK

LEMMA OneCounted == \A S : One(S) => Cardinality(S) = 1
  BY FS_Singleton DEF One

LEMMA LoggedOnceHolds == IInv => LoggedOnce
  BY Idle, OneCounted, FS_EmptySet DEF IInv, LogEvents, LoggedOnce

\* In every order of the middlewares the logger logs a request that reaches it
\* once, whatever is thrown inside it.
THEOREM LoggedOnceAlways == Spec => []LoggedOnce
  BY IInvAlways, LoggedOnceHolds, PTL

LEMMA LoggedAsAnsweredHolds == IInv => LoggedAsAnswered
  BY DEF IInv, LogEventsTrue, LoggedAsAnswered

\* In every order it logs the user and the status of the answer, but for the
\* two throwables whose status changes outside of it.
THEOREM LoggedAsAnsweredAlways == Spec => []LoggedAsAnswered
  BY IInvAlways, LoggedAsAnsweredHolds, PTL

LEMMA FailureReportedHolds == IInv => FailureReported
  BY Idle, OneCounted, FS_EmptySet DEF IInv, FailureEvents, FailureReported

\* In every order authentication reports each failure with a reason once, also
\* one that comes from further inside, and nothing else.
THEOREM FailuresAlwaysReported == Spec => []FailureReported
  BY IInvAlways, FailureReportedHolds, PTL

LEMMA CorsHolds == IInv => CorsOnResponses
  BY Idle DEF IInv, Headers, CorsOnResponses

\* In every order of the middlewares every answer that no throwable had a part
\* in carries the headers of CORS.
THEOREM CorsAlwaysOnResponses == Spec => []CorsOnResponses
  BY IInvAlways, CorsHolds, PTL

\* In every order a controller behind authentication runs for its user.
THEOREM ControllersAuthenticated == Spec => ControllerAuthenticated
  <1>1. IInv /\ [Next]_vars => [Controller /\ "auth" \in entered => user = "ann"]_vars
    BY DEF IInv, Inbound, Controller
  <1> QED BY <1>1, IInvAlways, PTL DEF Spec, ControllerAuthenticated
=============================================================================
