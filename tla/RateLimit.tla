----------------------------- MODULE RateLimit -----------------------------
(***************************************************************************)
(* The middleware authenticated_rate_limit: a counter per user and         *)
(* identifier in the table webservice_api_ratelimit, which every request   *)
(* updates before it is let through.                                       *)
(*                                                                         *)
(* Moodle names the families of its databases mysql, postgres, mssql and   *)
(* oracle.  Of the names the code compares with only mysql is one of them, *)
(* so every other database takes the default: a read and then a write.     *)
(* The statement for mysql, like those for the names that never occur,     *)
(* repeats a named parameter, and Moodle's execute refuses it: nothing is  *)
(* counted.  No statement but the read and the write of the default ever   *)
(* reaches a database.                                                     *)
(***************************************************************************)
EXTENDS Integers, FiniteSets

CONSTANTS
    Workers,      \* PHP workers serving requests
    Users,        \* pairs of a user id and the middleware's identifier
    MaxRequests,  \* max_requests
    TimeWindow,   \* time_window
    Backends,     \* what the statements of the databases to consider do
    MaxArrivals,  \* bound on the requests
    MaxTime       \* bound on the clock

ASSUME ConstantsAssumption ==
    /\ IsFiniteSet(Workers)
    /\ MaxRequests \in Nat
    /\ TimeWindow \in Nat
    /\ Backends \subseteq {"default", "refused"}
    /\ MaxArrivals \in Nat
    /\ MaxTime \in Nat

VARIABLES
    backend,   \* get_dbfamily, which never changes
    table,     \* the rows now stored, by id
    lastId,    \* the table's id sequence
    now,       \* time()
    job,       \* the request each worker serves, or its last outcome
    arrivals,  \* number of requests so far
    counted,   \* history: the requests counted, each with its user, the time it
               \* read and the time it was counted
    disturbed  \* history: the users who had two requests under way at a time, or
               \* whose request died with what it was to write

vars == <<backend, table, lastId, now, job, arrivals, counted, disturbed>>

-----------------------------------------------------------------------------
Ids   == 1 .. MaxArrivals
Times == 0 .. MaxTime

\* The columns requests and lastreset.
Counter == [requests : 1 .. MaxArrivals, lastreset : Times]
Row     == [user : Users, counter : Counter]

\* A request: its number, its user, its current_time, the id of the row it
\* read (0 if there was none) and the counter it computed.
Job == [step : {"start", "update", "insert", "decide"},
        n : 1 .. MaxArrivals, user : Users, at : Times,
        id : Ids \cup {0}, counter : Counter \cup {<<>>}]

Rest == [step : {"idle"}, outcome : {"none", "handled", "429", "500", "lost"}]

At(p, step) == job[p].step = step

Serves(p, u) == ~At(p, "idle") /\ job[p].user = u

\* The request was counted and has not written its counter.
Unwritten(p) == At(p, "update") \/ At(p, "insert")

RowsOf(u) == {i \in DOMAIN table : table[i].user = u}

\* Fault: the window ends a second early.
NewWindowEarly(counter, at) == counter.lastreset + TimeWindow <= at + 1

NewWindow(counter, at) == counter.lastreset + TimeWindow <= at

\* Fault: a new window keeps the old count.
BumpKeepsCount(counter, at) ==
    [requests  |-> counter.requests + 1,
     lastreset |-> IF NewWindow(counter, at) THEN at ELSE counter.lastreset]

\* One more request, in the window of the counter or in a new one.
Bump(counter, at) ==
    IF NewWindow(counter, at)
      THEN [requests |-> 1, lastreset |-> at]
      ELSE [counter EXCEPT !.requests = @ + 1]

\* Fault: a new row has counted nothing yet.
FreshZero(at) == [requests |-> 0, lastreset |-> at]

Fresh(at) == [requests |-> 1, lastreset |-> at]

Continue(p, j) == job' = [job EXCEPT ![p] = j]

Finish(p, outcome) ==
    job' = [job EXCEPT ![p] = [step |-> "idle", outcome |-> outcome]]

Count(p) ==
    counted' = counted \cup {[n |-> job[p].n, user |-> job[p].user,
                              at |-> job[p].at, time |-> now]}

AddRow(u, counter) ==
    /\ lastId' = lastId + 1
    /\ table' = [i \in DOMAIN table \cup {lastId + 1} |->
                   IF i = lastId + 1 THEN [user |-> u, counter |-> counter]
                                     ELSE table[i]]

-----------------------------------------------------------------------------
Init ==
    /\ backend \in Backends
    /\ table = [i \in {} |-> {}]
    /\ lastId = 0
    /\ now = 0
    /\ job = [p \in Workers |-> [step |-> "idle", outcome |-> "none"]]
    /\ arrivals = 0
    /\ counted = {}
    /\ disturbed = {}

\* The request reaches the middleware, which reads the clock.
Arrive(p, u) ==
    /\ At(p, "idle")
    /\ arrivals < MaxArrivals
    /\ arrivals' = arrivals + 1
    /\ Continue(p, [step |-> "start", n |-> arrivals + 1, user |-> u, at |-> now,
                    id |-> 0, counter |-> <<>>])
    /\ disturbed' = disturbed \cup {v \in {u} : \E q \in Workers : Serves(q, v)}
    /\ UNCHANGED <<backend, table, lastId, now, counted>>

\* can_proceed_default: get_record finds a row, or several and takes one.
ReadRow(p, i) ==
    /\ backend = "default"
    /\ At(p, "start")
    /\ Count(p)
    /\ Continue(p, [job[p] EXCEPT !.step = "update", !.id = i,
                      !.counter = Bump(table[i].counter, job[p].at)])
    /\ UNCHANGED <<backend, table, lastId, now, arrivals, disturbed>>

\* Fault: a row with an outdated window is treated as missing.
ReadNothingOrOld(p) ==
    /\ backend = "default"
    /\ At(p, "start")
    /\ \A i \in RowsOf(job[p].user) : NewWindow(table[i].counter, job[p].at)
    /\ Count(p)
    /\ Continue(p, [job[p] EXCEPT !.step = "insert", !.counter = Fresh(job[p].at)])
    /\ UNCHANGED <<backend, table, lastId, now, arrivals, disturbed>>

ReadNothing(p) ==
    /\ backend = "default"
    /\ At(p, "start")
    /\ RowsOf(job[p].user) = {}
    /\ Count(p)
    /\ Continue(p, [job[p] EXCEPT !.step = "insert", !.counter = Fresh(job[p].at)])
    /\ UNCHANGED <<backend, table, lastId, now, arrivals, disturbed>>

\* update_record writes the counter that was computed from the earlier read.
UpdateRow(p) ==
    /\ At(p, "update")
    /\ table' = [table EXCEPT ![job[p].id].counter = job[p].counter]
    /\ Continue(p, [job[p] EXCEPT !.step = "decide"])
    /\ UNCHANGED <<backend, lastId, now, arrivals, counted, disturbed>>

InsertRow(p) ==
    /\ At(p, "insert")
    /\ AddRow(job[p].user, job[p].counter)
    /\ Continue(p, [job[p] EXCEPT !.step = "decide"])
    /\ UNCHANGED <<backend, now, arrivals, counted, disturbed>>

\* can_proceed_mysql: execute throws, nothing is stored, and nothing catches it
\* here.  The other statements, were they ever run, would end the same way.
Reject(p) ==
    /\ backend = "refused"
    /\ At(p, "start")
    /\ Finish(p, "500")
    /\ UNCHANGED <<backend, table, lastId, now, arrivals, counted, disturbed>>

\* What can_proceed_with_request returns.
CanProceed(p) == job[p].counter.requests <= MaxRequests

\* process: the handler runs when can_proceed_with_request says no.
Process(p) ==
    /\ At(p, "decide")
    /\ Finish(p, IF ~CanProceed(p) THEN "handled" ELSE "429")
    /\ UNCHANGED <<backend, table, lastId, now, arrivals, counted, disturbed>>

\* The worker dies: what it wrote stays.
Crash(p) ==
    /\ ~At(p, "idle")
    /\ Finish(p, "lost")
    /\ disturbed' = disturbed \cup {v \in {job[p].user} : Unwritten(p)}
    /\ UNCHANGED <<backend, table, lastId, now, arrivals, counted>>

Tick ==
    /\ now < MaxTime
    /\ now' = now + 1
    /\ UNCHANGED <<backend, table, lastId, job, arrivals, counted, disturbed>>

Read(p) == ReadNothing(p) \/ \E i \in RowsOf(job[p].user) : ReadRow(p, i)

Serve(p) ==
    \/ \E u \in Users : Arrive(p, u)
    \/ At(p, "start") /\ Read(p)
    \/ UpdateRow(p)
    \/ InsertRow(p)
    \/ Reject(p)
    \/ Process(p)
    \/ Crash(p)

\* The bounds are reached and every request was answered.
Terminating ==
    /\ arrivals = MaxArrivals
    /\ now = MaxTime
    /\ \A p \in Workers : At(p, "idle")
    /\ UNCHANGED vars

Next == (\E p \in Workers : Serve(p)) \/ Tick \/ Terminating

Spec == Init /\ [][Next]_vars

-----------------------------------------------------------------------------
(* Properties                                                              *)

\* Every variable keeps its type; at most one row is added per request.
TypeOK ==
    /\ backend \in Backends
    /\ arrivals \in 0 .. MaxArrivals
    /\ lastId \in 0 .. arrivals
    /\ now \in Times
    /\ DOMAIN table \subseteq 1 .. lastId
    /\ table \in [DOMAIN table -> Row]
    /\ job \in [Workers -> Job \cup Rest]
    /\ counted \subseteq [n : 1 .. arrivals, user : Users, at : Times, time : Times]
    /\ disturbed \subseteq Users

\* The requests of a user that were counted at a time or later.
Since(u, t) == {c \in counted : c.user = u /\ c.time >= t}

\* The requests at work on a counter they have read or computed.
Holding(p) == job[p].step \in {"update", "insert", "decide"}

\* No counter, stored or in a worker's hands, exceeds the number of requests
\* its user really made since the start of its window, whatever stale copies
\* are written back.
NeverOvercounts ==
    /\ \A i \in DOMAIN table :
         table[i].counter.requests
           <= Cardinality(Since(table[i].user, table[i].counter.lastreset))
    /\ \A p \in Workers : Holding(p) =>
         job[p].counter.requests
           <= Cardinality(Since(job[p].user, job[p].counter.lastreset))

\* A user has no more rows than workers can insert at a time, since a worker
\* looks for the row first and no row is ever removed.
RowsBounded ==
    \A u \in Users :
        Cardinality(RowsOf(u))
          + Cardinality({p \in Workers : At(p, "insert") /\ job[p].user = u})
          <= Cardinality(Workers)

\* The counted requests of a user that read this time from the clock or a later
\* one.
ReadSince(u, t) == {c \in counted : c.user = u /\ c.at >= t}

Exact(u, counter) ==
    counter.requests = Cardinality(ReadSince(u, counter.lastreset))

\* Counts are lost, and a user gets a second row, only because two requests of the
\* user overlap or one dies between its read and its write.  Whatever the clock
\* and other users do, a user to whom neither has happened has one row once a
\* request was counted, and the count that is stored, or that a worker is to decide
\* by, is that of the user's requests since its window began: none is missed and
\* none of the window before is counted again.  Windows must not be empty.
ExactAlone ==
    TimeWindow > 0 =>
      \A u \in Users \ disturbed :
        /\ \A p \in Workers : Holding(p) /\ job[p].user = u => Exact(u, job[p].counter)
        /\ ~(\E p \in Workers : Unwritten(p) /\ job[p].user = u) =>
             /\ \A i \in RowsOf(u) : Exact(u, table[i].counter)
             /\ Cardinality(RowsOf(u)) = IF ReadSince(u, 0) = {} THEN 0 ELSE 1

\* A request is answered 429 only if its user made more requests than allowed.
\* The code does the opposite: process runs the handler when the limit is
\* exceeded and answers 429 when it is not.
LimitAnswered ==
    [][\A p \in Workers :
         At(p, "decide") /\ job'[p] = [step |-> "idle", outcome |-> "429"] =>
            Cardinality(Since(job[p].user, 0)) > MaxRequests
      ]_vars
=============================================================================
