-------------------------- MODULE RateLimitProofs --------------------------
(***************************************************************************)
(* Theorems about RateLimit for every number of workers, users and         *)
(* requests, every limit and every window, checked by TLAPS.               *)
(***************************************************************************)
EXTENDS RateLimit, FiniteSetTheorems, TLAPS

-----------------------------------------------------------------------------
(* The inductive invariant                                                 *)

\* A counter of this user that may be stored: its window has begun and it
\* counts no more requests than were made since.
Backed(u, counter) ==
    /\ counter \in Counter
    /\ counter.lastreset <= now
    /\ counter.requests <= Cardinality(Since(u, counter.lastreset))

AllBacked ==
    /\ \A i \in DOMAIN table : Backed(table[i].user, table[i].counter)
    /\ \A p \in Workers : Holding(p) => Backed(job[p].user, job[p].counter)

\* A request has a number of its own, and is counted under it at most once.
Numbered ==
    /\ \A p \in Workers : ~At(p, "idle") => job[p].n <= arrivals
    /\ \A p, q \in Workers :
         ~At(p, "idle") /\ ~At(q, "idle") /\ job[p].n = job[q].n => p = q
    /\ \A p \in Workers : At(p, "start") => \A c \in counted : c.n # job[p].n
    /\ \A c, d \in counted : c.n = d.n => c = d

\* A request that may still add a row has not added one.
Opening == {p \in Workers : job[p].step \in {"start", "insert"}}

RowsCounted == lastId + Cardinality(Opening) <= arrivals

\* What a worker will write, it will write where it read it.
Prepared ==
    \A p \in Workers :
        /\ ~At(p, "idle") => job[p].at <= now
        /\ At(p, "update") => /\ job[p].id \in DOMAIN table
                              /\ table[job[p].id].user = job[p].user

IInv == TypeOK /\ Numbered /\ RowsCounted /\ Prepared /\ AllBacked /\ RowsBounded

-----------------------------------------------------------------------------
(* Types                                                                   *)

LEMMA BusyJob ==
    ASSUME TypeOK, NEW p \in Workers, ~At(p, "idle")
    PROVE  job[p] \in Job
  BY DEF TypeOK, Rest, At

LEMMA RestType ==
    ASSUME NEW outcome \in {"none", "handled", "429", "500", "lost"}
    PROVE  /\ [step |-> "idle", outcome |-> outcome] \in Rest
           /\ [step |-> "idle", outcome |-> outcome].step = "idle"
  BY DEF Rest

LEMMA CounterTypes ==
    ASSUME ConstantsAssumption, NEW counter \in Counter, NEW at \in Times
    PROVE  /\ Bump(counter, at).requests \in Nat
           /\ Bump(counter, at).lastreset \in Times
           /\ Bump(counter, at) = [requests  |-> Bump(counter, at).requests,
                                   lastreset |-> Bump(counter, at).lastreset]
           /\ NewWindow(counter, at) => Bump(counter, at) = Fresh(at)
           /\ ~NewWindow(counter, at) =>
                /\ Bump(counter, at).requests = counter.requests + 1
                /\ Bump(counter, at).lastreset = counter.lastreset
           /\ Fresh(at).requests = 1 /\ Fresh(at).lastreset = at
  BY DEF ConstantsAssumption, Bump, Fresh, Counter, Times

-----------------------------------------------------------------------------
(* Counting                                                                *)

\* Requests with different numbers are no more than the numbers there are.
LEMMA NumbersBound ==
    ASSUME NEW S, NEW m \in Nat,
           \A c \in S : c.n \in 1 .. m,
           \A c, d \in S : c.n = d.n => c = d
    PROVE  IsFiniteSet(S) /\ Cardinality(S) <= m
  <1> DEFINE f == [c \in S |-> c.n]
  <1>1. f \in Injection(S, 1 .. m)
    BY DEF Injection, IsInjective
  <1>2. IsFiniteSet(1 .. m) /\ Cardinality(1 .. m) = m
    BY FS_Interval
  <1> QED BY <1>1, <1>2, FS_Injection

CountedFew == IsFiniteSet(counted) /\ Cardinality(counted) <= arrivals

LEMMA CountedBound == TypeOK /\ Numbered => CountedFew
  <1> SUFFICES ASSUME TypeOK, Numbered PROVE CountedFew
    OBVIOUS
  <1>1. arrivals \in Nat /\ \A c \in counted : c.n \in 1 .. arrivals
    BY ConstantsAssumption DEF TypeOK, ConstantsAssumption
  <1>2. \A c, d \in counted : c.n = d.n => c = d
    BY DEF Numbered
  <1> QED BY <1>1, <1>2, NumbersBound DEF CountedFew

\* The number of requests since a time grows with the requests counted.
LEMMA SinceGrows ==
    ASSUME IsFiniteSet(counted'), counted \subseteq counted', NEW u, NEW t
    PROVE  /\ IsFiniteSet(Since(u, t)) /\ IsFiniteSet(Since(u, t)')
           /\ Cardinality(Since(u, t)) \in Nat /\ Cardinality(Since(u, t)') \in Nat
           /\ Cardinality(Since(u, t)) <= Cardinality(Since(u, t)')
           /\ Cardinality(Since(u, t)') <= Cardinality(counted')
  <1>1. Since(u, t) \subseteq Since(u, t)' /\ Since(u, t)' \subseteq counted'
    BY DEF Since
  <1>2. IsFiniteSet(Since(u, t)') /\ Cardinality(Since(u, t)') <= Cardinality(counted')
    BY <1>1, FS_Subset
  <1>3. IsFiniteSet(Since(u, t)) /\ Cardinality(Since(u, t)) <= Cardinality(Since(u, t)')
    BY <1>1, <1>2, FS_Subset
  <1> QED BY <1>2, <1>3, FS_CardinalityType

\* By one, if the window of the time has begun.
LEMMA CountAdds ==
    ASSUME TypeOK, Numbered, IsFiniteSet(counted'), NEW p \in Workers,
           At(p, "start"), Count(p), NEW t, t <= now, NEW u, u = job[p].user
    PROVE  Cardinality(Since(u, t)') = Cardinality(Since(u, t)) + 1
  <1> DEFINE c == [n |-> job[p].n, user |-> u, at |-> job[p].at, time |-> now]
  <1>1. c \notin counted
    BY DEF Numbered
  <1>2. counted' = counted \cup {c}
    BY DEF Count
  <1>3. c.user = u /\ c.time >= t
    BY DEF TypeOK, Times
  <1> HIDE DEF c
  <1>4. Since(u, t)' = Since(u, t) \cup {c}
    BY <1>2, <1>3 DEF Since
  <1>5. c \notin Since(u, t)
    BY <1>1 DEF Since
  <1>6. IsFiniteSet(Since(u, t))
    BY <1>2, SinceGrows
  <1> QED BY <1>4, <1>5, <1>6, FS_AddElement

-----------------------------------------------------------------------------
(* Counters that may be stored                                             *)

\* They may be stored later too.
LEMMA BackedStays ==
    ASSUME TypeOK, IsFiniteSet(counted'), counted \subseteq counted',
           now' \in Nat, now <= now', NEW u, NEW counter, Backed(u, counter)
    PROVE  Backed(u, counter)'
  <1> DEFINE t == counter.lastreset
  <1>1. counter \in Counter /\ t <= now /\ t \in Nat /\ now \in Nat
    BY DEF Backed, Counter, Times, TypeOK
  <1>2. Cardinality(Since(u, t)) <= Cardinality(Since(u, t)')
        /\ Cardinality(Since(u, t)) \in Nat /\ Cardinality(Since(u, t)') \in Nat
    BY SinceGrows
  <1>3. counter.requests <= Cardinality(Since(u, t)) /\ counter.requests \in Nat
    BY DEF Backed, Counter
  <1> QED BY <1>1, <1>2, <1>3 DEF Backed

\* A request that is being counted.
Counting(p) ==
    /\ TypeOK /\ Numbered /\ Prepared
    /\ At(p, "start")
    /\ Count(p)
    /\ now' = now /\ arrivals' = arrivals
    /\ CountedFew'

\* With it, the counter of a window of its own.
LEMMA FreshBacked ==
    ASSUME NEW p \in Workers, Counting(p), NEW u, u = job[p].user,
           NEW at, at = job[p].at
    PROVE  Backed(u, Fresh(at))'
  <1>1. at \in Times /\ at <= now /\ arrivals \in 1 .. MaxArrivals /\ MaxArrivals \in Nat
    BY BusyJob, ConstantsAssumption
       DEF Counting, Prepared, At, Job, TypeOK, Numbered, ConstantsAssumption
  <1>2. Fresh(at) \in Counter /\ Fresh(at).requests = 1 /\ Fresh(at).lastreset = at
    BY <1>1 DEF Fresh, Counter
  <1>3. IsFiniteSet(counted') /\ counted \subseteq counted'
    BY DEF Counting, CountedFew, Count
  <1>4. Cardinality(Since(u, at)) \in Nat
    BY <1>3, SinceGrows
  <1>5. Cardinality(Since(u, at)') = Cardinality(Since(u, at)) + 1
    BY <1>1, <1>3, CountAdds DEF Counting
  <1> QED BY <1>1, <1>2, <1>4, <1>5 DEF Backed, Counting

\* With it, one more in the window of a counter.
LEMMA BumpBacked ==
    ASSUME NEW p \in Workers, Counting(p), NEW u, u = job[p].user,
           NEW at, at = job[p].at, NEW counter, Backed(u, counter)
    PROVE  Backed(u, Bump(counter, at))'
  <1> DEFINE t == counter.lastreset
  <1>1. /\ at \in Times
        /\ counter \in Counter /\ t <= now /\ t \in Times
        /\ counter.requests \in Nat \ {0}
        /\ counter.requests <= Cardinality(Since(u, t))
        /\ arrivals \in Nat /\ arrivals <= MaxArrivals /\ MaxArrivals \in Nat
    BY BusyJob, ConstantsAssumption
       DEF Counting, Backed, At, Job, TypeOK, Counter, ConstantsAssumption
  <1>2. CASE NewWindow(counter, at)
    BY <1>1, <1>2, CounterTypes, FreshBacked, ConstantsAssumption
  <1>3. CASE ~NewWindow(counter, at)
    <2>1. /\ Bump(counter, at).requests = counter.requests + 1
          /\ Bump(counter, at).lastreset = t
          /\ Bump(counter, at) = [requests |-> counter.requests + 1, lastreset |-> t]
      BY <1>1, <1>3, CounterTypes, ConstantsAssumption
    <2>2. IsFiniteSet(counted') /\ counted \subseteq counted'
          /\ Cardinality(counted') <= arrivals
      BY DEF Counting, CountedFew, Count
    <2>3. /\ Cardinality(Since(u, t)) \in Nat
          /\ Cardinality(Since(u, t)') <= Cardinality(counted')
          /\ Cardinality(counted') \in Nat
      BY <2>2, SinceGrows, FS_CardinalityType
    <2>4. Cardinality(Since(u, t)') = Cardinality(Since(u, t)) + 1
      BY <1>1, <2>2, CountAdds DEF Counting
    <2>5. counter.requests + 1 \in 1 .. MaxArrivals
      BY <1>1, <2>2, <2>3, <2>4
    <2>6. Bump(counter, at) \in Counter
      BY <1>1, <2>1, <2>5 DEF Counter
    <2> QED BY <1>1, <2>1, <2>3, <2>4, <2>6 DEF Backed, Counting
  <1> QED BY <1>2, <1>3

-----------------------------------------------------------------------------
(* What one step of a worker does to each part of the invariant            *)

\* The request of p goes on under its number, or is over.
GoesOn(p, j) ==
    /\ job' = [job EXCEPT ![p] = j]
    /\ ~At(p, "idle")
    /\ \/ j \in Rest
       \/ /\ j \in Job
          /\ j.step # "start"
          /\ j.n = job[p].n /\ j.user = job[p].user /\ j.at = job[p].at

LEMMA CountStep ==
    ASSUME IInv, NEW p \in Workers, arrivals' = arrivals,
           counted' = counted \/ (At(p, "start") /\ Count(p))
    PROVE  /\ \A c, d \in counted' : c.n = d.n => c = d
           /\ \A c \in counted' \ counted : c.n = job[p].n /\ At(p, "start")
           /\ counted' \subseteq [n : 1 .. arrivals, user : Users, at : Times, time : Times]
           /\ CountedFew' /\ IsFiniteSet(counted') /\ counted \subseteq counted'
  <1>1. \A c \in counted' \ counted : c.n = job[p].n /\ At(p, "start")
    BY DEF Count
  <1>2. \A c, d \in counted' \ counted : c = d
    BY DEF Count
  <1>3. \A c, d \in counted' : c.n = d.n => c = d
    BY <1>1, <1>2 DEF IInv, Numbered
  <1>4. At(p, "start") =>
          [n |-> job[p].n, user |-> job[p].user, at |-> job[p].at, time |-> now]
            \in [n : 1 .. arrivals, user : Users, at : Times, time : Times]
    BY BusyJob, ConstantsAssumption
       DEF IInv, TypeOK, Numbered, At, Job, ConstantsAssumption
  <1>5. counted' \subseteq [n : 1 .. arrivals, user : Users, at : Times, time : Times]
    BY <1>4 DEF IInv, TypeOK, Count
  <1>6. arrivals' \in Nat /\ \A c \in counted' : c.n \in 1 .. arrivals'
    BY <1>5, ConstantsAssumption DEF IInv, TypeOK, ConstantsAssumption
  <1>7. CountedFew'
    BY <1>3, <1>6, NumbersBound DEF CountedFew
  <1> QED BY <1>1, <1>3, <1>5, <1>7 DEF CountedFew, Count

LEMMA GoesOnNumbered ==
    ASSUME IInv, NEW p \in Workers, NEW j, GoesOn(p, j), arrivals' = arrivals,
           counted' = counted \/ (At(p, "start") /\ Count(p))
    PROVE  Numbered'
  <1>1. job'[p] = j /\ \A q \in Workers \ {p} : job'[q] = job[q]
    BY DEF GoesOn, IInv, TypeOK
  <1>2. j.step # "start"
    BY DEF GoesOn, Rest
  <1>3. j.step # "idle" => j.n = job[p].n
    BY DEF GoesOn, Rest
  <1>4. \A q \in Workers : ~At(q, "idle")' => ~At(q, "idle") /\ job'[q].n = job[q].n
    BY <1>1, <1>3 DEF GoesOn, At
  <1>5. \A q \in Workers : At(q, "start")' => q # p /\ At(q, "start") /\ ~At(q, "idle")
    BY <1>1, <1>2 DEF At
  <1>6. \A q \in Workers : ~At(q, "idle")' => job'[q].n <= arrivals'
    BY <1>4 DEF IInv, Numbered
  <1>7. \A q, r \in Workers :
          ~At(q, "idle")' /\ ~At(r, "idle")' /\ job'[q].n = job'[r].n => q = r
    BY <1>4 DEF IInv, Numbered
  <1>8. \A q \in Workers : At(q, "start")' => \A c \in counted' : c.n # job'[q].n
    BY <1>1, <1>4, <1>5, CountStep DEF IInv, Numbered, GoesOn
  <1> QED BY <1>6, <1>7, <1>8, CountStep DEF Numbered

\* Rows are only added by a request that may add one, and by it once.
LEMMA GoesOnRows ==
    ASSUME IInv, NEW p \in Workers, NEW j, GoesOn(p, j), arrivals' = arrivals,
           \/ lastId' = lastId /\ (j.step = "insert" => p \in Opening)
           \/ lastId' = lastId + 1 /\ p \in Opening /\ j.step # "insert"
    PROVE  RowsCounted'
  <1>1. job'[p] = j /\ \A q \in Workers \ {p} : job'[q] = job[q]
    BY DEF GoesOn, IInv, TypeOK
  <1>2. j.step # "start"
    BY DEF GoesOn, Rest
  <1>3. IsFiniteSet(Opening) /\ Cardinality(Opening) \in Nat
    BY ConstantsAssumption, FS_Subset, FS_CardinalityType
       DEF ConstantsAssumption, Opening
  <1>4. lastId \in Nat /\ arrivals \in Nat /\ lastId + Cardinality(Opening) <= arrivals
    BY ConstantsAssumption DEF IInv, TypeOK, RowsCounted, ConstantsAssumption
  <1>5. CASE lastId' = lastId /\ (j.step = "insert" => p \in Opening)
    <2>1. Opening' \subseteq Opening
      BY <1>1, <1>2, <1>5 DEF Opening
    <2>2. Cardinality(Opening') <= Cardinality(Opening) /\ Cardinality(Opening') \in Nat
      BY <1>3, <2>1, FS_Subset, FS_CardinalityType
    <2> QED BY <1>4, <1>3, <1>5, <2>2 DEF RowsCounted
  <1>6. CASE lastId' = lastId + 1 /\ p \in Opening /\ j.step # "insert"
    <2>1. Opening' = Opening \ {p}
      BY <1>1, <1>2, <1>6 DEF Opening
    <2>2. Cardinality(Opening') = Cardinality(Opening) - 1
      BY <1>3, <1>6, <2>1, FS_RemoveElement
    <2> QED BY <1>3, <1>4, <1>6, <2>2 DEF RowsCounted
  <1> QED BY <1>5, <1>6

\* What the worker holds and what the rows hold may be stored.
LEMMA GoesOnBacked ==
    ASSUME IInv, NEW p \in Workers, NEW j, GoesOn(p, j), now' = now,
           IsFiniteSet(counted'), counted \subseteq counted',
           \/ j.step \notin {"update", "insert", "decide"}
           \/ Holding(p) /\ j.counter = job[p].counter
           \/ Backed(job[p].user, j.counter)',
           \A i \in DOMAIN table' :
             \/ i \in DOMAIN table /\ table'[i] = table[i]
             \/ Backed(table[i].user, table[i].counter)'
    PROVE  AllBacked'
  <1>1. job'[p] = j /\ \A q \in Workers \ {p} : job'[q] = job[q]
    BY DEF GoesOn, IInv, TypeOK
  <1>2. now \in Nat
    BY ConstantsAssumption DEF IInv, TypeOK, Times, ConstantsAssumption
  <1>3. \A u, counter : Backed(u, counter) => Backed(u, counter)'
    BY <1>2, BackedStays DEF IInv
  <1>4. ASSUME NEW i \in DOMAIN table' PROVE Backed(table[i].user, table[i].counter)'
    <2>1. CASE i \in DOMAIN table /\ table'[i] = table[i]
      <3>1. PICK u, counter : u = table[i].user /\ counter = table[i].counter
        OBVIOUS
      <3>2. Backed(u, counter)'
        BY <1>3, <2>1, <3>1 DEF IInv, AllBacked
      <3>3. u = table'[i].user /\ counter = table'[i].counter
        BY <2>1, <3>1
      <3> QED BY <3>2, <3>3 DEF Backed, Since
    <2> QED BY <2>1, <1>4
  <1>5. ASSUME NEW q \in Workers, Holding(q)'
        PROVE  Backed(job[q].user, job[q].counter)'
    <2>1. CASE /\ Holding(q)
               /\ job'[q].user = job[q].user /\ job'[q].counter = job[q].counter
      <3>1. PICK u, counter : u = job[q].user /\ counter = job[q].counter
        OBVIOUS
      <3>2. Backed(u, counter)'
        BY <1>3, <2>1, <3>1 DEF IInv, AllBacked
      <3> QED BY <2>1, <3>1, <3>2 DEF Backed, Since
    <2>2. CASE q = p /\ Backed(job[p].user, j.counter)'
      BY <1>1, <2>2
    <2>3. q = p => j.step \in {"update", "insert", "decide"} /\ job'[p].user = job[p].user
      BY <1>1, <1>5 DEF Holding, GoesOn, Rest
    <2> QED BY <1>1, <1>5, <2>1, <2>2, <2>3 DEF Holding
  <1> QED BY <1>4, <1>5 DEF AllBacked

\* Rows stay where they are, for the user that they are for.
LEMMA GoesOnPrepared ==
    ASSUME IInv, NEW p \in Workers, NEW j, GoesOn(p, j), UNCHANGED <<backend, now>>,
           \A i \in DOMAIN table : i \in DOMAIN table' /\ table'[i].user = table[i].user,
           j.step = "update" => j.id \in RowsOf(job[p].user)
    PROVE  Prepared'
  <1>1. job'[p] = j /\ \A q \in Workers \ {p} : job'[q] = job[q]
    BY DEF GoesOn, IInv, TypeOK
  <1>2. ASSUME NEW q \in Workers
        PROVE  /\ ~At(q, "idle")' => job'[q].at <= now'
               /\ At(q, "update")' => /\ job'[q].id \in DOMAIN table'
                                      /\ table'[job'[q].id].user = job'[q].user
    <2>1. CASE q = p
      BY <1>1, <2>1 DEF GoesOn, IInv, Prepared, At, Rest, RowsOf
    <2>2. CASE q # p
      BY <1>1, <2>2 DEF IInv, Prepared, At
    <2> QED BY <2>1, <2>2
  <1> QED BY <1>2 DEF Prepared

-----------------------------------------------------------------------------
(* The number of rows                                                      *)

LEMMA RowsFinite ==
    ASSUME TypeOK, NEW u
    PROVE  IsFiniteSet(RowsOf(u)) /\ Cardinality(RowsOf(u)) \in Nat
  <1>1. lastId \in Nat
    BY ConstantsAssumption DEF TypeOK, ConstantsAssumption
  <1>2. IsFiniteSet(1 .. lastId)
    BY <1>1, FS_Interval
  <1>3. RowsOf(u) \subseteq 1 .. lastId
    BY DEF RowsOf, TypeOK
  <1> QED BY <1>2, <1>3, FS_Subset, FS_CardinalityType

\* A new row has an id of its own.
LEMMA AddRowRows ==
    ASSUME TypeOK, NEW u \in Users, NEW counter \in Counter, AddRow(u, counter)
    PROVE  /\ lastId + 1 \notin DOMAIN table
           /\ DOMAIN table' = DOMAIN table \cup {lastId + 1}
           /\ table'[lastId + 1] = [user |-> u, counter |-> counter]
           /\ \A i \in DOMAIN table : table'[i] = table[i]
           /\ RowsOf(u)' = RowsOf(u) \cup {lastId + 1}
           /\ \A v : v # u => RowsOf(v)' = RowsOf(v)
  <1>1. lastId + 1 \notin DOMAIN table
    BY ConstantsAssumption DEF TypeOK, ConstantsAssumption
  <1>2. /\ DOMAIN table' = DOMAIN table \cup {lastId + 1}
        /\ table'[lastId + 1] = [user |-> u, counter |-> counter]
        /\ \A i \in DOMAIN table : table'[i] = table[i]
    BY <1>1 DEF AddRow
  <1>3. RowsOf(u)' = RowsOf(u) \cup {lastId + 1}
    BY <1>1, <1>2 DEF RowsOf
  <1>4. ASSUME NEW v, v # u PROVE RowsOf(v)' = RowsOf(v)
    BY <1>1, <1>2, <1>4 DEF RowsOf
  <1> QED BY <1>1, <1>2, <1>3, <1>4

Inserting(u) == {p \in Workers : At(p, "insert") /\ job[p].user = u}

LEMMA InsertingFinite ==
    ASSUME NEW u
    PROVE  /\ IsFiniteSet(Inserting(u)) /\ Cardinality(Inserting(u)) \in Nat
           /\ IsFiniteSet(Inserting(u)') /\ Cardinality(Inserting(u)') \in Nat
           /\ Cardinality(Inserting(u)') <= Cardinality(Workers)
           /\ Cardinality(Workers) \in Nat
           /\ Inserting(u)' \subseteq Inserting(u) =>
                Cardinality(Inserting(u)') <= Cardinality(Inserting(u))
  <1>1. IsFiniteSet(Workers)
    BY ConstantsAssumption DEF ConstantsAssumption
  <1>2. Inserting(u) \subseteq Workers /\ Inserting(u)' \subseteq Workers
    BY DEF Inserting
  <1>3. IsFiniteSet(Inserting(u)) /\ IsFiniteSet(Inserting(u)')
        /\ Cardinality(Inserting(u)') <= Cardinality(Workers)
    BY <1>1, <1>2, FS_Subset
  <1> QED BY <1>1, <1>3, FS_Subset, FS_CardinalityType

BoundedFor(u) ==
    Cardinality(RowsOf(u)) + Cardinality(Inserting(u)) <= Cardinality(Workers)

LEMMA BoundedForAll ==
    /\ RowsBounded => \A u \in Users : BoundedFor(u)
    /\ (\A u \in Users : BoundedFor(u)') => RowsBounded'
  BY DEF RowsBounded, BoundedFor, Inserting

\* No new row; and none will be added unless the user had none.
LEMMA GoesOnBounded ==
    ASSUME IInv, NEW p \in Workers, NEW j, GoesOn(p, j), backend' = backend,
           \A u \in Users : RowsOf(u)' = RowsOf(u),
           j.step = "insert" => RowsOf(job[p].user) = {}
    PROVE  RowsBounded'
  <1>1. job'[p] = j /\ \A q \in Workers \ {p} : job'[q] = job[q]
    BY DEF GoesOn, IInv, TypeOK
  <1>2. ASSUME NEW u \in Users PROVE BoundedFor(u)'
    <2>1. BoundedFor(u) /\ Cardinality(RowsOf(u)) \in Nat
      BY BoundedForAll, RowsFinite DEF IInv
    <2>2. CASE Inserting(u)' \subseteq Inserting(u)
      BY <2>1, <2>2, InsertingFinite DEF BoundedFor
    <2>3. CASE ~(Inserting(u)' \subseteq Inserting(u))
      <3>1. j.step = "insert" /\ job[p].user = u
        BY <1>1, <2>3 DEF Inserting, At, GoesOn, Rest
      <3>2. RowsOf(u) = {} /\ Cardinality(RowsOf(u)) = 0
        BY <3>1, FS_EmptySet
      <3> QED BY <2>1, <3>2, InsertingFinite DEF BoundedFor
    <2> QED BY <2>2, <2>3
  <1> QED BY <1>2, BoundedForAll

\* A new row, which the request was about to add.
LEMMA AddRowBounded ==
    ASSUME IInv, NEW p \in Workers, NEW j, GoesOn(p, j), backend' = backend,
           j.step # "insert",
           NEW counter \in Counter, AddRow(job[p].user, counter), At(p, "insert")
    PROVE  RowsBounded'
  <1>1. job'[p] = j /\ \A q \in Workers \ {p} : job'[q] = job[q]
    BY DEF GoesOn, IInv, TypeOK
  <1>2. PICK u \in Users : u = job[p].user
    BY BusyJob DEF GoesOn, IInv, Job
  <1>3. /\ RowsOf(u)' = RowsOf(u) \cup {lastId + 1} /\ lastId + 1 \notin RowsOf(u)
        /\ \A v : v # u => RowsOf(v)' = RowsOf(v)
    BY <1>2, AddRowRows DEF IInv, RowsOf
  <1>4. Cardinality(RowsOf(u)') = Cardinality(RowsOf(u)) + 1
    BY <1>3, RowsFinite, FS_AddElement DEF IInv
  <1>5. \A v : Inserting(v)' \subseteq Inserting(v) /\ p \notin Inserting(v)'
    BY <1>1 DEF Inserting, At
  <1>6. ASSUME NEW v \in Users PROVE BoundedFor(v)'
    <2>1. BoundedFor(v) /\ Cardinality(RowsOf(v)) \in Nat
      BY BoundedForAll, RowsFinite DEF IInv
    <2>2. CASE v # u
      BY <1>3, <1>5, <2>1, <2>2, InsertingFinite DEF BoundedFor
    <2>3. CASE v = u
      <3>1. Inserting(u)' \subseteq Inserting(u) \ {p} /\ p \in Inserting(u)
        BY <1>2, <1>5, <2>3 DEF Inserting
      <3>2. Cardinality(Inserting(u) \ {p}) = Cardinality(Inserting(u)) - 1
            /\ IsFiniteSet(Inserting(u) \ {p})
        BY <3>1, InsertingFinite, FS_RemoveElement
      <3>3. Cardinality(Inserting(u)') <= Cardinality(Inserting(u)) - 1
        BY <3>1, <3>2, FS_Subset
      <3> QED BY <1>4, <2>1, <2>3, <3>3, InsertingFinite DEF BoundedFor
    <2> QED BY <2>2, <2>3
  <1> QED BY <1>6, BoundedForAll

-----------------------------------------------------------------------------
(* One step of a worker                                                    *)

\* What all of them have in common: the next step of the request is one for
\* which what it needs is there.
Step(p, j) ==
    /\ GoesOn(p, j)
    /\ UNCHANGED <<backend, now, arrivals>>
    /\ counted' = counted \/ (At(p, "start") /\ Count(p))
    /\ \/ j.step \notin {"update", "insert", "decide"}
       \/ Holding(p) /\ j.counter = job[p].counter
       \/ Backed(job[p].user, j.counter)'
    /\ j.step = "update" => j.id \in RowsOf(job[p].user)
    /\ j.step = "insert" => RowsOf(job[p].user) = {} /\ p \in Opening
    /\ disturbed' \subseteq Users

LEMMA StepType ==
    ASSUME IInv, NEW p \in Workers, NEW j, Step(p, j), RowsCounted', lastId' \in Nat,
           DOMAIN table' \subseteq 1 .. lastId', table' = [i \in DOMAIN table' |-> table'[i]],
           \A i \in DOMAIN table' : table'[i] \in Row
    PROVE  TypeOK'
  <1>1. arrivals \in Nat /\ lastId' <= arrivals
    <2>1. IsFiniteSet(Opening')
      BY ConstantsAssumption, FS_Subset DEF ConstantsAssumption, Opening
    <2>2. Cardinality(Opening') \in Nat
      BY <2>1, FS_CardinalityType
    <2> QED BY <2>2, ConstantsAssumption
            DEF IInv, TypeOK, ConstantsAssumption, RowsCounted, Step
  <1>2. counted' \subseteq [n : 1 .. arrivals, user : Users, at : Times, time : Times]
    BY CountStep DEF Step
  <1>3. job' \in [Workers -> Job \cup Rest]
    BY DEF Step, GoesOn, IInv, TypeOK
  <1> QED BY <1>1, <1>2, <1>3 DEF IInv, TypeOK, Step

\* No row is added; some of their counters change perhaps.
LEMMA StepKeepsRows ==
    ASSUME IInv, NEW p \in Workers, NEW j, Step(p, j), lastId' = lastId,
           table' = [i \in DOMAIN table |-> table'[i]],
           \A i \in DOMAIN table :
             \/ table'[i] = table[i]
             \/ /\ table'[i].user = table[i].user /\ table'[i] \in Row
                /\ Backed(table[i].user, table[i].counter)'
    PROVE  IInv'
  <1>1. DOMAIN table' = DOMAIN table
    OBVIOUS
  <1>2. Numbered' /\ IsFiniteSet(counted') /\ counted \subseteq counted'
    BY GoesOnNumbered, CountStep DEF Step
  <1>3. RowsCounted'
    BY GoesOnRows DEF Step
  <1>4. \A i \in DOMAIN table : table'[i].user = table[i].user /\ table'[i] \in Row
    BY DEF IInv, TypeOK
  <1>5. TypeOK'
    <2>1. lastId' \in Nat
      BY ConstantsAssumption DEF IInv, TypeOK, ConstantsAssumption
    <2> QED BY <1>1, <1>3, <1>4, <2>1, StepType DEF IInv, TypeOK
  <1>6. Prepared'
    BY <1>1, <1>4, GoesOnPrepared DEF Step
  <1>7. AllBacked'
    BY <1>1, <1>2, GoesOnBacked DEF Step
  <1>8. \A u \in Users : RowsOf(u)' = RowsOf(u)
    BY <1>1, <1>4 DEF RowsOf
  <1>9. RowsBounded'
    BY <1>8, GoesOnBounded DEF Step
  <1> QED BY <1>2, <1>3, <1>5, <1>6, <1>7, <1>9 DEF IInv

\* A row is added.
LEMMA StepAddsRow ==
    ASSUME IInv, NEW p \in Workers, NEW j, Step(p, j), p \in Opening,
           j.step = "decide",
           NEW counter, AddRow(job[p].user, counter), Backed(job[p].user, counter)',
           At(p, "insert")
    PROVE  IInv'
  <1>1. job[p].user \in Users /\ counter \in Counter /\ job'[p].user = job[p].user
    BY BusyJob DEF Step, GoesOn, IInv, TypeOK, Job, Backed, Rest
  <1>2. /\ lastId + 1 \notin DOMAIN table
        /\ DOMAIN table' = DOMAIN table \cup {lastId + 1}
        /\ table'[lastId + 1] = [user |-> job[p].user, counter |-> counter]
        /\ \A i \in DOMAIN table : table'[i] = table[i]
        /\ lastId' = lastId + 1 /\ lastId \in Nat
    BY <1>1, AddRowRows, ConstantsAssumption
       DEF IInv, AddRow, TypeOK, ConstantsAssumption
  <1>3. Numbered' /\ IsFiniteSet(counted') /\ counted \subseteq counted'
    BY GoesOnNumbered, CountStep DEF Step
  <1>4. RowsCounted'
    BY <1>2, GoesOnRows DEF Step
  <1>5. TypeOK'
    <2>1. DOMAIN table' \subseteq 1 .. lastId' /\ lastId' \in Nat
      BY <1>2 DEF IInv, TypeOK
    <2>2. \A i \in DOMAIN table' : table'[i] \in Row
      BY <1>1, <1>2 DEF IInv, TypeOK, Row
    <2>3. table' = [i \in DOMAIN table' |-> table'[i]]
      BY <1>2 DEF AddRow
    <2> QED BY <1>4, <2>1, <2>2, <2>3, StepType
  <1>6. Prepared'
    BY <1>2, GoesOnPrepared DEF Step
  <1>7. AllBacked'
    <2>1. ASSUME NEW i \in DOMAIN table', i \notin DOMAIN table
          PROVE  Backed(table[i].user, table[i].counter)'
      <3>1. table'[i].user = job'[p].user /\ table'[i].counter = counter
        BY <1>1, <1>2, <2>1
      <3> QED BY <3>1
    <2> QED BY <1>2, <1>3, <2>1, GoesOnBacked DEF Step
  <1>8. RowsBounded'
    BY <1>1, AddRowBounded DEF Step
  <1> QED BY <1>3, <1>4, <1>5, <1>6, <1>7, <1>8 DEF IInv

-----------------------------------------------------------------------------
(* The actions                                                             *)

LEMMA FinishStep ==
    ASSUME IInv, NEW p \in Workers, ~At(p, "idle"),
           NEW outcome \in {"none", "handled", "429", "500", "lost"},
           Finish(p, outcome),
           UNCHANGED <<backend, table, lastId, now, arrivals, counted>>,
           disturbed' \subseteq Users
    PROVE  IInv'
  <1> DEFINE j == [step |-> "idle", outcome |-> outcome]
  <1>1. j \in Rest /\ j.step = "idle"
    BY RestType
  <1>2. job' = [job EXCEPT ![p] = j]
    BY DEF Finish
  <1> HIDE DEF j
  <1>3. Step(p, j)
    BY <1>1, <1>2 DEF Step, GoesOn
  <1> QED BY <1>3, StepKeepsRows DEF IInv, TypeOK

\* The request of p goes on to a step, with the row and the counter it has then.
Becomes(p, j, step, id, counter) ==
    /\ step \in {"update", "insert", "decide"}
    /\ id \in Ids \cup {0}
    /\ counter \in Counter \cup {<<>>}
    /\ j = [job[p] EXCEPT !.step = step, !.id = id, !.counter = counter]
    /\ Continue(p, j)

LEMMA BecomesGoesOn ==
    ASSUME IInv, NEW p \in Workers, ~At(p, "idle"),
           NEW j, NEW step, NEW id, NEW counter, Becomes(p, j, step, id, counter)
    PROVE  /\ GoesOn(p, j)
           /\ j.step = step /\ j.id = id /\ j.counter = counter
  <1>1. job[p] \in Job
    BY BusyJob DEF IInv
  <1>2. /\ j \in Job
        /\ j.step = step /\ j.id = id /\ j.counter = counter
        /\ j.n = job[p].n /\ j.user = job[p].user /\ j.at = job[p].at
    BY <1>1 DEF Becomes, Job
  <1> QED BY <1>1, <1>2 DEF GoesOn, Continue, Becomes

LEMMA JobParts ==
    ASSUME IInv, NEW p \in Workers, ~At(p, "idle")
    PROVE  /\ job[p].id \in Ids \cup {0}
           /\ job[p].counter \in Counter \cup {<<>>}
           /\ job[p].user \in Users
           /\ job[p].at \in Times
  BY BusyJob DEF IInv, Job

\* What EXCEPT leaves alone is as it was.
LEMMA ContinueBecomes ==
    ASSUME IInv, NEW p \in Workers, ~At(p, "idle"),
           NEW step \in {"update", "insert", "decide"}
    PROVE  /\ Continue(p, [job[p] EXCEPT !.step = step]) =>
                \E j : Becomes(p, j, step, job[p].id, job[p].counter)
           /\ \A counter \in Counter :
                Continue(p, [job[p] EXCEPT !.step = step, !.counter = counter]) =>
                  \E j : Becomes(p, j, step, job[p].id, counter)
  <1>1. job[p] \in Job
    BY BusyJob DEF IInv
  <1>2. [job[p] EXCEPT !.step = step] =
          [job[p] EXCEPT !.step = step, !.id = job[p].id, !.counter = job[p].counter]
    BY <1>1 DEF Job
  <1>3. ASSUME Continue(p, [job[p] EXCEPT !.step = step])
        PROVE  \E j : Becomes(p, j, step, job[p].id, job[p].counter)
    <2>1. PICK j : j = [job[p] EXCEPT !.step = step] /\ Continue(p, j)
      BY <1>3
    <2> QED BY <1>2, <2>1, JobParts DEF Becomes
  <1>4. ASSUME NEW counter \in Counter,
               Continue(p, [job[p] EXCEPT !.step = step, !.counter = counter])
        PROVE  \E j : Becomes(p, j, step, job[p].id, counter)
    <2>1. PICK j : /\ j = [job[p] EXCEPT !.step = step, !.counter = counter]
                   /\ Continue(p, j)
      BY <1>4
    <2>2. j = [job[p] EXCEPT !.step = step, !.id = job[p].id, !.counter = counter]
      BY <1>1, <2>1 DEF Job
    <2> QED BY <2>1, <2>2, JobParts DEF Becomes
  <1> QED BY <1>3, <1>4

\* A request that goes on as it is counted may store the counters that it
\* may be counted in.
LEMMA CountingBacked ==
    ASSUME IInv, NEW p \in Workers, At(p, "start"), Count(p),
           UNCHANGED <<now, arrivals>>, NEW u, u = job[p].user, NEW at, at = job[p].at
    PROVE  /\ Backed(u, Fresh(at))'
           /\ \A counter : Backed(u, counter) => Backed(u, Bump(counter, at))'
  <1>1. Counting(p)
    BY CountStep DEF Counting, IInv
  <1>2. ASSUME NEW counter, Backed(u, counter) PROVE Backed(u, Bump(counter, at))'
    BY <1>1, <1>2, BumpBacked
  <1> QED BY <1>1, <1>2, FreshBacked

\* What the worker stores is what it holds.
LEMMA UserKept ==
    ASSUME IInv, NEW p \in Workers, NEW j, GoesOn(p, j), j.step # "idle",
           NEW u, u = job[p].user, NEW counter
    PROVE  /\ Backed(job[p].user, counter) <=> Backed(u, counter)
           /\ Backed(job[p].user, counter)' <=> Backed(u, counter)'
  <1>1. job'[p].user = u
    BY DEF GoesOn, IInv, TypeOK, Rest
  <1> QED BY <1>1 DEF Backed, Since

LEMMA ArriveStep ==
    ASSUME IInv, NEW p \in Workers, NEW u \in Users, Arrive(p, u) PROVE IInv'
  <1> DEFINE j == [step |-> "start", n |-> arrivals + 1, user |-> u, at |-> now,
                   id |-> 0, counter |-> <<>>]
  <1>1. /\ arrivals \in Nat /\ lastId \in Nat /\ MaxArrivals \in Nat
        /\ arrivals' = arrivals + 1 /\ arrivals' \in 1 .. MaxArrivals
        /\ now \in Times
    BY ConstantsAssumption DEF IInv, TypeOK, Arrive, ConstantsAssumption
  <1>2. /\ j \in Job /\ j.step = "start" /\ j.n = arrivals' /\ j.at = now
    BY <1>1 DEF Job
  <1>3. /\ At(p, "idle") /\ job' = [job EXCEPT ![p] = j]
        /\ UNCHANGED <<backend, table, lastId, now, counted>>
        /\ disturbed' \subseteq Users
    BY DEF Arrive, Continue, IInv, TypeOK
  <1> HIDE DEF j
  <1>4. job'[p] = j /\ \A q \in Workers \ {p} : job'[q] = job[q]
    BY <1>3 DEF IInv, TypeOK
  <1>5. TypeOK'
    BY <1>1, <1>2, <1>3 DEF IInv, TypeOK
  <1>6. Numbered'
    <2>1. \A q \in Workers \ {p} : ~At(q, "idle") => job[q].n <= arrivals /\ job[q].n \in Nat
      BY <1>1, BusyJob DEF IInv, Numbered, Job
    <2>2. \A c \in counted : c.n \in 1 .. arrivals /\ c.n # arrivals + 1
      BY <1>1 DEF IInv, TypeOK
    <2>3. \A q \in Workers : ~At(q, "idle")' =>
             \/ q = p /\ job'[q].n = arrivals + 1
             \/ /\ q # p /\ job'[q] = job[q] /\ ~At(q, "idle")
                /\ job'[q].n <= arrivals /\ job'[q].n \in Nat
      BY <1>1, <1>2, <1>4, <2>1 DEF At
    <2>4. \A q \in Workers : ~At(q, "idle")' => job'[q].n <= arrivals'
      BY <1>1, <2>3
    <2>5. \A q, r \in Workers :
             ~At(q, "idle")' /\ ~At(r, "idle")' /\ job'[q].n = job'[r].n => q = r
      <3> SUFFICES ASSUME NEW q \in Workers, NEW r \in Workers, ~At(q, "idle")',
                          ~At(r, "idle")', job'[q].n = job'[r].n
                   PROVE  q = r
        OBVIOUS
      <3>1. CASE q # p /\ r # p
        BY <3>1, <2>3 DEF IInv, Numbered
      <3>2. CASE q = p \/ r = p
        BY <3>2, <1>1, <2>3
      <3> QED BY <3>1, <3>2
    <2>6. \A q \in Workers : At(q, "start")' => \A c \in counted' : c.n # job'[q].n
      <3> SUFFICES ASSUME NEW q \in Workers, At(q, "start")'
                   PROVE  \A c \in counted' : c.n # job'[q].n
        OBVIOUS
      <3>1. CASE q = p
        BY <3>1, <1>1, <1>2, <1>3, <1>4, <2>2
      <3>2. CASE q # p
        BY <3>2, <1>3, <1>4 DEF IInv, Numbered, At
      <3> QED BY <3>1, <3>2
    <2>7. \A c, d \in counted' : c.n = d.n => c = d
      BY <1>3 DEF IInv, Numbered
    <2> QED BY <2>4, <2>5, <2>6, <2>7 DEF Numbered
  <1>7. RowsCounted'
    <2>1. Opening' = Opening \cup {p} /\ p \notin Opening
      BY <1>2, <1>3, <1>4 DEF Opening, At
    <2>2. IsFiniteSet(Opening)
      BY ConstantsAssumption, FS_Subset DEF ConstantsAssumption, Opening
    <2>3. Cardinality(Opening') = Cardinality(Opening) + 1 /\ Cardinality(Opening) \in Nat
      BY <2>1, <2>2, FS_AddElement, FS_CardinalityType
    <2> QED BY <1>1, <1>3, <2>3 DEF IInv, RowsCounted
  <1>8. Prepared'
    BY <1>1, <1>2, <1>3, <1>4 DEF IInv, Prepared, At, Times
  <1>9. AllBacked'
    <2>1. \A q \in Workers : Holding(q)' => Holding(q) /\ job'[q] = job[q]
      BY <1>2, <1>4 DEF Holding
    <2> QED BY <1>3, <2>1 DEF IInv, AllBacked, Backed, Since
  <1>10. RowsBounded'
    <2>1. \A v : Inserting(v)' = Inserting(v) /\ RowsOf(v)' = RowsOf(v)
      BY <1>2, <1>3, <1>4 DEF Inserting, At, RowsOf
    <2>2. \A v \in Users : BoundedFor(v)'
      BY <1>3, <2>1, BoundedForAll DEF BoundedFor, IInv
    <2> QED BY <2>2, BoundedForAll
  <1> QED BY <1>5, <1>6, <1>7, <1>8, <1>9, <1>10 DEF IInv

LEMMA ReadRowStep ==
    ASSUME IInv, NEW p \in Workers, NEW i \in RowsOf(job[p].user), ReadRow(p, i)
    PROVE  IInv'
  <1>1. PICK u, at, counter :
          u = job[p].user /\ at = job[p].at /\ counter = table[i].counter
    OBVIOUS
  <1>2. /\ At(p, "start") /\ ~At(p, "idle") /\ backend = "default" /\ Count(p)
        /\ UNCHANGED <<backend, table, lastId, now, arrivals, disturbed>>
    BY DEF ReadRow, At
  <1>3. i \in Ids \cup {0} /\ Backed(u, counter) /\ counter \in Counter
    BY <1>1, ConstantsAssumption
       DEF IInv, AllBacked, Backed, RowsOf, TypeOK, Ids, ConstantsAssumption
  <1>4. Backed(u, Bump(counter, at))' /\ Bump(counter, at) \in Counter
    BY <1>1, <1>2, <1>3, CountingBacked DEF Backed
  <1>5. PICK j : Becomes(p, j, "update", i, Bump(counter, at))
    BY <1>1, <1>3, <1>4 DEF ReadRow, Becomes
  <1>6. /\ GoesOn(p, j)
        /\ j.step = "update" /\ j.id = i /\ j.counter = Bump(counter, at)
    BY <1>2, <1>5, BecomesGoesOn
  <1>7. Backed(job[p].user, j.counter)'
    BY <1>1, <1>4, <1>6, UserKept
  <1>8. Step(p, j)
    BY <1>2, <1>6, <1>7 DEF Step, IInv, TypeOK
  <1> QED BY <1>2, <1>8, StepKeepsRows DEF IInv, TypeOK

LEMMA ReadNothingStep ==
    ASSUME IInv, NEW p \in Workers, ReadNothing(p) PROVE IInv'
  <1>1. PICK u, at : u = job[p].user /\ at = job[p].at
    OBVIOUS
  <1>2. /\ At(p, "start") /\ ~At(p, "idle") /\ backend = "default" /\ Count(p)
        /\ RowsOf(u) = {} /\ UNCHANGED <<backend, table, lastId, now, arrivals, disturbed>>
    BY <1>1 DEF ReadNothing, At
  <1>3. Backed(u, Fresh(at))' /\ Fresh(at) \in Counter
    BY <1>1, <1>2, CountingBacked DEF Backed
  <1>4. PICK j : Becomes(p, j, "insert", job[p].id, Fresh(at))
    BY <1>1, <1>2, <1>3, ContinueBecomes DEF ReadNothing
  <1>5. GoesOn(p, j) /\ j.step = "insert" /\ j.counter = Fresh(at)
    BY <1>2, <1>4, BecomesGoesOn
  <1>6. Backed(job[p].user, j.counter)'
    BY <1>1, <1>3, <1>5, UserKept
  <1>7. Step(p, j)
    BY <1>1, <1>2, <1>5, <1>6 DEF Step, Opening, At, IInv, TypeOK
  <1> QED BY <1>2, <1>7, StepKeepsRows DEF IInv, TypeOK

LEMMA UpdateRowStep ==
    ASSUME IInv, NEW p \in Workers, UpdateRow(p) PROVE IInv'
  <1>1. PICK u, i, counter :
          u = job[p].user /\ i = job[p].id /\ counter = job[p].counter
    OBVIOUS
  <1>2. /\ At(p, "update") /\ ~At(p, "idle") /\ Holding(p)
        /\ table' = [table EXCEPT ![i].counter = counter]
        /\ UNCHANGED <<backend, lastId, now, arrivals, counted, disturbed>>
    BY <1>1 DEF UpdateRow, At, Holding
  <1>3. i \in DOMAIN table /\ table[i].user = u /\ Backed(u, counter) /\ counter \in Counter
    BY <1>1, <1>2 DEF IInv, Prepared, AllBacked, Backed
  <1>4. PICK j : Becomes(p, j, "decide", job[p].id, job[p].counter)
    BY <1>2, ContinueBecomes DEF UpdateRow
  <1>5. GoesOn(p, j) /\ j.step = "decide" /\ j.counter = job[p].counter
    BY <1>2, <1>4, BecomesGoesOn
  <1>6. Step(p, j)
    BY <1>2, <1>5 DEF Step, IInv, TypeOK
  <1>7. /\ table' = [k \in DOMAIN table |-> table'[k]]
        /\ \A k \in DOMAIN table \ {i} : table'[k] = table[k]
        /\ table'[i].user = u /\ table'[i].counter = counter /\ table'[i] \in Row
    BY <1>2, <1>3 DEF IInv, TypeOK, Row
  <1>8. Backed(table[i].user, table[i].counter)'
    <2>1. Backed(u, counter)'
      BY <1>2, <1>3 DEF Backed, Since
    <2> QED BY <1>7, <2>1
  <1> QED BY <1>2, <1>3, <1>6, <1>7, <1>8, StepKeepsRows

LEMMA InsertRowStep ==
    ASSUME IInv, NEW p \in Workers, InsertRow(p) PROVE IInv'
  <1>1. PICK u, counter : u = job[p].user /\ counter = job[p].counter
    OBVIOUS
  <1>2. /\ At(p, "insert") /\ ~At(p, "idle") /\ Holding(p) /\ p \in Opening
        /\ AddRow(job[p].user, counter)
        /\ UNCHANGED <<backend, now, arrivals, counted, disturbed>>
    BY <1>1 DEF InsertRow, At, Holding, Opening
  <1>3. Backed(u, counter)'
    BY <1>1, <1>2 DEF IInv, AllBacked, Backed, Since
  <1>4. PICK j : Becomes(p, j, "decide", job[p].id, job[p].counter)
    BY <1>2, ContinueBecomes DEF InsertRow
  <1>5. GoesOn(p, j) /\ j.step = "decide" /\ j.counter = job[p].counter
    BY <1>2, <1>4, BecomesGoesOn
  <1>6. Step(p, j)
    BY <1>2, <1>5 DEF Step, IInv, TypeOK
  <1>7. Backed(job[p].user, counter)'
    BY <1>1, <1>3, <1>5, UserKept
  <1> QED BY <1>2, <1>5, <1>6, <1>7, StepAddsRow

LEMMA TickStep == IInv /\ Tick => IInv'
  <1> SUFFICES ASSUME IInv, Tick PROVE IInv'
    OBVIOUS
  <1>1. /\ now \in Nat /\ now' \in Nat /\ now' \in Times /\ now <= now'
        /\ UNCHANGED <<backend, table, lastId, job, arrivals, counted, disturbed>>
    BY ConstantsAssumption DEF IInv, TypeOK, Tick, Times, ConstantsAssumption
  <1>2. TypeOK'
    BY <1>1 DEF IInv, TypeOK
  <1>3. Numbered' /\ RowsCounted' /\ RowsBounded'
    BY <1>1 DEF IInv, Numbered, RowsCounted, RowsBounded, At, Opening, RowsOf
  <1>4. Prepared'
    <2>1. \A p \in Workers : ~At(p, "idle") => job[p].at \in Nat
      BY BusyJob DEF IInv, Job, Times
    <2> QED BY <1>1, <2>1 DEF IInv, Prepared, At
  <1>5. AllBacked'
    <2>1. \A u, counter : Backed(u, counter) => Backed(u, counter)'
      <3>1. IsFiniteSet(counted') /\ counted \subseteq counted'
        BY <1>1, CountedBound DEF IInv, CountedFew
      <3> QED BY <1>1, <3>1, BackedStays DEF IInv
    <2>2. ASSUME NEW i \in DOMAIN table PROVE Backed(table[i].user, table[i].counter)'
      <3>1. PICK u, counter : u = table[i].user /\ counter = table[i].counter
        OBVIOUS
      <3>2. Backed(u, counter)'
        BY <2>1, <3>1 DEF IInv, AllBacked
      <3> QED BY <1>1, <3>1, <3>2
    <2>3. ASSUME NEW p \in Workers, Holding(p)
          PROVE  Backed(job[p].user, job[p].counter)'
      <3>1. PICK u, counter : u = job[p].user /\ counter = job[p].counter
        OBVIOUS
      <3>2. Backed(u, counter)'
        BY <2>1, <2>3, <3>1 DEF IInv, AllBacked
      <3> QED BY <1>1, <3>1, <3>2
    <2> QED BY <1>1, <2>2, <2>3 DEF AllBacked, Holding
  <1> QED BY <1>2, <1>3, <1>4, <1>5 DEF IInv

-----------------------------------------------------------------------------
(* The theorems                                                            *)

LEMMA IInvInit == Init => IInv
  <1> SUFFICES ASSUME Init PROVE IInv
    OBVIOUS
  <1>1. /\ DOMAIN table = {} /\ lastId = 0 /\ arrivals = 0 /\ counted = {} /\ now = 0
        /\ MaxArrivals \in Nat /\ MaxTime \in Nat /\ IsFiniteSet(Workers)
        /\ \A p \in Workers : job[p].step = "idle"
    BY ConstantsAssumption DEF Init, ConstantsAssumption
  <1>2. TypeOK
    <2>1. job \in [Workers -> Rest]
      BY DEF Init, Rest
    <2> QED BY <1>1, <2>1 DEF Init, TypeOK, Times
  <1>3. Cardinality({}) = 0 /\ Opening = {}
    BY <1>1, FS_EmptySet DEF Opening
  <1>4. Numbered /\ RowsCounted /\ Prepared /\ AllBacked
    BY <1>1, <1>3 DEF Numbered, RowsCounted, Prepared, AllBacked, At, Holding
  <1>5. RowsBounded
    <2>1. \A u : RowsOf(u) = {} /\ {p \in Workers : At(p, "insert") /\ job[p].user = u} = {}
      BY <1>1 DEF RowsOf, At
    <2>2. Cardinality(Workers) \in Nat
      BY <1>1, FS_CardinalityType
    <2>3. \A u : /\ Cardinality(RowsOf(u)) = 0
                /\ Cardinality({p \in Workers : At(p, "insert") /\ job[p].user = u}) = 0
      BY <1>3, <2>1, Zenon
    <2> QED BY <2>2, <2>3 DEF RowsBounded
  <1> QED BY <1>2, <1>4, <1>5 DEF IInv

LEMMA IInvStep == IInv /\ [Next]_vars => IInv'
  <1> SUFFICES ASSUME IInv, [Next]_vars PROVE IInv'
    OBVIOUS
  <1>1. ASSUME NEW p \in Workers, NEW u \in Users, Arrive(p, u) PROVE IInv'
    BY <1>1, ArriveStep
  <1>2. ASSUME NEW p \in Workers, Read(p) PROVE IInv'
    BY <1>2, ReadNothingStep, ReadRowStep DEF Read
  <1>3. ASSUME NEW p \in Workers, UpdateRow(p) \/ InsertRow(p) PROVE IInv'
    BY <1>3, UpdateRowStep, InsertRowStep
  <1>4. ASSUME NEW p \in Workers, Reject(p) \/ Process(p) \/ Crash(p) PROVE IInv'
    <2>1. ~At(p, "idle") /\ disturbed' \subseteq Users
      BY <1>4, BusyJob DEF Reject, Process, Crash, At, IInv, TypeOK, Job
    <2> QED BY <1>4, <2>1, FinishStep DEF Reject, Process, Crash
  <1>5. CASE Tick
    BY <1>5, TickStep
  <1>6. CASE UNCHANGED vars
    BY <1>6 DEF vars, IInv, TypeOK, Numbered, RowsCounted, Prepared, AllBacked,
                Backed, Since, RowsBounded, RowsOf, Opening, At, Holding
  <1> QED BY <1>1, <1>2, <1>3, <1>4, <1>5, <1>6
          DEF Next, Serve, Terminating

LEMMA IInvAlways == Spec => []IInv
  BY IInvInit, IInvStep, PTL DEF Spec

\* Every variable keeps its type: no counter, no id and no number of a request
\* leaves its range, however many workers write.
THEOREM TypeCorrect == Spec => []TypeOK
  BY IInvAlways, PTL DEF IInv

LEMMA BackedCounts == IInv => NeverOvercounts
  BY DEF IInv, AllBacked, Backed, NeverOvercounts

\* No counter that a row or a worker of the middleware holds is above the
\* number of requests that its user really made in its window.
THEOREM NeverOvercountsAlways == Spec => []NeverOvercounts
  BY IInvAlways, BackedCounts, PTL

\* A user has no more rows than there are workers: the lookup keeps out all
\* but those who looked at the same time.
THEOREM RowsAlwaysBounded == Spec => []RowsBounded
  BY IInvAlways, PTL DEF IInv

-----------------------------------------------------------------------------
(* Counts that miss nothing                                                *)

CountedOf(u) == {c \in counted : c.user = u}

\* The counter is that of the requests of the user since its window began, and
\* none of them read a time at which the window was over.
Fits(u, counter) ==
    /\ Exact(u, counter)
    /\ \A c \in CountedOf(u) : c.at < counter.lastreset + TimeWindow

\* A user whose requests never overlapped and who lost none: the request under
\* way is the only one and no earlier one read a later time; there is one row at
\* most; and what is stored, or held while the row is out of date, fits.
AloneFor(u) ==
    /\ \A p, q \in Workers : Serves(p, u) /\ Serves(q, u) => p = q
    /\ \A c \in CountedOf(u) :
         /\ c.at <= now
         /\ \A p \in Workers : Serves(p, u) /\ At(p, "start") => c.at <= job[p].at
    /\ \A i, k \in RowsOf(u) : i = k
    /\ \A p \in Workers : Serves(p, u) /\ At(p, "insert") => RowsOf(u) = {}
    /\ \A p \in Workers : Serves(p, u) /\ Holding(p) => Fits(u, job[p].counter)
    /\ ~(\E p \in Workers : Serves(p, u) /\ Unwritten(p)) =>
         /\ \A i \in RowsOf(u) : Fits(u, table[i].counter)
         /\ RowsOf(u) = {} => CountedOf(u) = {}

AloneFits == TimeWindow > 0 => \A u \in Users \ disturbed : AloneFor(u)

\* A request is counted that none of the user has followed.
CountsLast(u, c) ==
    /\ c \notin counted
    /\ counted' = counted \cup {c}
    /\ c.user = u
    /\ c.at \in Times
    /\ \A d \in CountedOf(u) : d.at <= c.at

LEMMA CountsLastStep ==
    ASSUME IInv, NEW p \in Workers, At(p, "start"), Count(p), NEW u, Serves(p, u),
           \A d \in CountedOf(u) : d.at <= job[p].at
    PROVE  \E c : CountsLast(u, c) /\ c.at = job[p].at
  <1> DEFINE c == [n |-> job[p].n, user |-> job[p].user, at |-> job[p].at, time |-> now]
  <1>1. c \notin counted
    BY DEF IInv, Numbered
  <1>2. counted' = counted \cup {c}
    BY DEF Count
  <1>3. c.user = u /\ c.at = job[p].at /\ c.at \in Times
    BY JobParts DEF Serves
  <1> HIDE DEF c
  <1> QED BY <1>1, <1>2, <1>3 DEF CountsLast

LEMMA ReadSinceFinite ==
    ASSUME IInv, NEW u, NEW t
    PROVE  IsFiniteSet(ReadSince(u, t)) /\ Cardinality(ReadSince(u, t)) \in Nat
  <1>1. IsFiniteSet(counted) /\ ReadSince(u, t) \subseteq counted
    BY CountedBound DEF IInv, CountedFew, ReadSince
  <1> QED BY <1>1, FS_Subset, FS_CardinalityType

\* A window that begins with the request.
LEMMA FitsFirst ==
    ASSUME IInv, TimeWindow > 0, NEW u, NEW c, CountsLast(u, c),
           \A d \in CountedOf(u) : d.at < c.at,
           NEW counter, counter.requests = 1, counter.lastreset = c.at
    PROVE  Fits(u, counter)'
  <1>1. TimeWindow \in Nat /\ c.at \in Nat /\ \A d \in counted : d.at \in Nat
    BY ConstantsAssumption DEF ConstantsAssumption, CountsLast, Times, IInv, TypeOK
  <1>2. ReadSince(u, c.at)' = {c}
    BY <1>1 DEF ReadSince, CountsLast, CountedOf
  <1>3. Exact(u, counter)'
    BY <1>2, FS_Singleton DEF Exact
  <1>4. \A d \in CountedOf(u)' : d.at < counter.lastreset + TimeWindow
    BY <1>1 DEF CountedOf, CountsLast
  <1> QED BY <1>3, <1>4 DEF Fits

\* A request in the window of the counter, or in the next one.
LEMMA FitsBump ==
    ASSUME IInv, TimeWindow > 0, NEW u, NEW c, CountsLast(u, c),
           NEW old \in Counter, Fits(u, old), NEW at, at = c.at
    PROVE  Fits(u, Bump(old, at))'
  <1>1. /\ TimeWindow \in Nat /\ at \in Nat /\ \A d \in counted : d.at \in Nat
        /\ old.lastreset \in Nat /\ old.requests \in Nat \ {0} /\ at \in Times
    BY ConstantsAssumption
       DEF ConstantsAssumption, CountsLast, Times, IInv, TypeOK, Counter
  <1>2. CASE NewWindow(old, at)
    <2>1. Bump(old, at).requests = 1 /\ Bump(old, at).lastreset = c.at
      BY <1>1, <1>2, CounterTypes, ConstantsAssumption
    <2>2. \A d \in CountedOf(u) : d.at < c.at
      BY <1>1, <1>2 DEF Fits, NewWindow, CountedOf
    <2> QED BY <2>1, <2>2, FitsFirst
  <1>3. CASE ~NewWindow(old, at)
    <2> DEFINE t == old.lastreset
               S == ReadSince(u, t)
    <2>1. Bump(old, at).requests = old.requests + 1 /\ Bump(old, at).lastreset = t
      BY <1>1, <1>3, CounterTypes, ConstantsAssumption
    <2>2. IsFiniteSet(S) /\ Cardinality(S) = old.requests
      BY ReadSinceFinite DEF Fits, Exact
    <2>3. S # {}
      BY <1>1, <2>2, FS_EmptySet
    <2>4. PICK d \in CountedOf(u) : d.at >= t
      BY <2>3 DEF ReadSince, CountedOf
    <2>5. c.at >= t
      BY <1>1, <2>4 DEF CountsLast, CountedOf
    <2>6. ReadSince(u, t)' = S \cup {c} /\ c \notin S
      BY <2>5 DEF ReadSince, CountsLast
    <2> HIDE DEF S
    <2>7. Cardinality(S \cup {c}) = Cardinality(S) + 1
      BY <2>2, <2>6, FS_AddElement
    <2>8. Exact(u, Bump(old, at))'
      BY <2>1, <2>2, <2>6, <2>7 DEF Exact
    <2>9. \A e \in CountedOf(u)' : e.at < t + TimeWindow
      BY <1>1, <1>3 DEF CountedOf, CountsLast, Fits, NewWindow
    <2> QED BY <2>1, <2>8, <2>9 DEF Fits
  <1> QED BY <1>2, <1>3

LEMMA FitsKept ==
    ASSUME NEW u, NEW counter, CountedOf(u)' = CountedOf(u)
    PROVE  Fits(u, counter)' <=> Fits(u, counter)
  <1>1. \A t : ReadSince(u, t)' = ReadSince(u, t)
    BY DEF ReadSince, CountedOf
  <1> QED BY <1>1 DEF Fits, Exact

\* A step that is none of the user's, or ends a request of the user that had
\* nothing left to write.
LEMMA AloneFrame ==
    ASSUME IInv, NEW u, AloneFor(u),
           now' \in Nat, now <= now', CountedOf(u)' = CountedOf(u),
           RowsOf(u)' = RowsOf(u), \A i \in RowsOf(u) : table'[i] = table[i],
           \A q \in Workers : Serves(q, u)' => job'[q] = job[q],
           \A q \in Workers : Serves(q, u) /\ Unwritten(q) => job'[q] = job[q]
    PROVE  AloneFor(u)'
  <1>1. \A q \in Workers : Serves(q, u)' => Serves(q, u)
    BY DEF Serves, At
  <1>2. \A p, q \in Workers : Serves(p, u)' /\ Serves(q, u)' => p = q
    BY <1>1 DEF AloneFor
  <1>3. ASSUME NEW c \in CountedOf(u)'
        PROVE  /\ c.at <= now'
               /\ \A p \in Workers : Serves(p, u)' /\ At(p, "start")' => c.at <= job'[p].at
    <2>1. c.at \in Nat /\ now \in Nat /\ c \in CountedOf(u)
      BY ConstantsAssumption DEF CountedOf, IInv, TypeOK, Times, ConstantsAssumption
    <2> QED BY <1>1, <2>1 DEF AloneFor, At
  <1>4. ASSUME NEW p \in Workers, Serves(p, u)', At(p, "insert")' PROVE RowsOf(u)' = {}
    BY <1>1, <1>4 DEF AloneFor, At
  <1>5. ASSUME NEW p \in Workers, Serves(p, u)', Holding(p)'
        PROVE  Fits(u, job[p].counter)'
    <2>1. PICK counter : counter = job[p].counter
      OBVIOUS
    <2>2. Fits(u, counter) /\ counter = job'[p].counter
      BY <1>1, <1>5, <2>1 DEF AloneFor, Holding
    <2>3. Fits(u, counter)'
      BY <2>2, FitsKept
    <2> QED BY <2>2, <2>3
  <1>6. ASSUME ~(\E p \in Workers : Serves(p, u)' /\ Unwritten(p)')
        PROVE  /\ \A i \in RowsOf(u)' : Fits(u, table[i].counter)'
               /\ RowsOf(u)' = {} => CountedOf(u)' = {}
    <2>1. ~(\E p \in Workers : Serves(p, u) /\ Unwritten(p))
      BY <1>6 DEF Serves, Unwritten, At
    <2>2. ASSUME NEW i \in RowsOf(u)' PROVE Fits(u, table[i].counter)'
      <3>1. PICK counter : counter = table[i].counter
        OBVIOUS
      <3>2. Fits(u, counter) /\ counter = table'[i].counter
        BY <2>1, <2>2, <3>1 DEF AloneFor
      <3>3. Fits(u, counter)'
        BY <3>2, FitsKept
      <3> QED BY <3>2, <3>3
    <2> QED BY <2>1, <2>2 DEF AloneFor
  <1>7. \A i, k \in RowsOf(u)' : i = k
    BY DEF AloneFor
  <1> QED BY <1>2, <1>3, <1>4, <1>5, <1>6, <1>7 DEF AloneFor

\* A request of the user goes on as the only one.
LEMMA AloneGoesOn ==
    ASSUME IInv, NEW p \in Workers, NEW j, GoesOn(p, j), j.step # "idle",
           NEW u, Serves(p, u), AloneFor(u)
    PROVE  /\ job'[p] = j /\ Serves(p, u)'
           /\ \A q \in Workers : Serves(q, u)' => q = p
           /\ \A q \in Workers : Serves(q, u) => q = p
  <1>1. job'[p] = j /\ \A q \in Workers \ {p} : job'[q] = job[q]
    BY DEF GoesOn, IInv, TypeOK
  <1>2. j.user = job[p].user
    BY DEF GoesOn, Rest
  <1> QED BY <1>1, <1>2 DEF Serves, At, AloneFor

LEMMA AloneArrive ==
    ASSUME IInv, NEW p \in Workers, NEW u \in Users, Arrive(p, u), u \notin disturbed',
           AloneFor(u)
    PROVE  AloneFor(u)'
  <1> DEFINE j == [step |-> "start", n |-> arrivals + 1, user |-> u, at |-> now,
                   id |-> 0, counter |-> <<>>]
  <1>1. j.step = "start" /\ j.user = u /\ j.at = now
    OBVIOUS
  <1>2. job' = [job EXCEPT ![p] = j]
    BY DEF Arrive, Continue
  <1> HIDE DEF j
  <1>3. job'[p] = j /\ \A q \in Workers \ {p} : job'[q] = job[q]
    BY <1>2 DEF IInv, TypeOK
  <1>4. /\ \A q \in Workers : ~Serves(q, u)
        /\ UNCHANGED <<table, now, counted>>
    BY DEF Arrive
  <1>5. \A q \in Workers : Serves(q, u)' => q = p
    BY <1>3, <1>4 DEF Serves, At
  <1>6. CountedOf(u)' = CountedOf(u) /\ RowsOf(u)' = RowsOf(u)
    BY <1>4 DEF CountedOf, RowsOf
  <1>7. /\ \A i \in RowsOf(u) : Fits(u, table[i].counter)
        /\ RowsOf(u) = {} => CountedOf(u) = {}
    BY <1>4 DEF AloneFor
  <1>8. ASSUME NEW i \in RowsOf(u) PROVE Fits(u, table[i].counter)'
    <2>1. PICK counter : counter = table[i].counter
      OBVIOUS
    <2>2. Fits(u, counter)'
      BY <1>6, <1>7, <2>1, FitsKept
    <2> QED BY <1>4, <2>1, <2>2
  <1>9. \A c \in CountedOf(u)' :
          /\ c.at <= now'
          /\ \A q \in Workers : Serves(q, u)' /\ At(q, "start")' => c.at <= job'[q].at
    BY <1>1, <1>3, <1>4, <1>5, <1>6 DEF AloneFor
  <1>10. \A q \in Workers : Serves(q, u)' => ~At(q, "insert")' /\ ~Holding(q)'
    BY <1>1, <1>3, <1>5 DEF At, Holding
  <1> QED BY <1>5, <1>6, <1>7, <1>8, <1>9, <1>10 DEF AloneFor

\* The request was counted and holds a counter that fits.
LEMMA AloneCounts ==
    ASSUME IInv, NEW p \in Workers, NEW u, Serves(p, u), AloneFor(u),
           NEW j, GoesOn(p, j), j.step \in {"update", "insert"},
           UNCHANGED <<table, now>>, NEW c, CountsLast(u, c), c.at <= now,
           j.step = "insert" => RowsOf(u) = {},
           NEW counter, counter = j.counter, Fits(u, counter)'
    PROVE  AloneFor(u)'
  <1>1. /\ job'[p] = j /\ Serves(p, u)'
        /\ \A q \in Workers : Serves(q, u)' => q = p
    BY AloneGoesOn
  <1>2. RowsOf(u)' = RowsOf(u)
    BY DEF RowsOf
  <1>3. \A d \in CountedOf(u)' : d.at <= now'
    BY DEF CountedOf, CountsLast, AloneFor
  <1>4. \A q \in Workers : Serves(q, u)' => ~At(q, "start")'
    BY <1>1 DEF At
  <1>5. ASSUME NEW q \in Workers, Serves(q, u)' PROVE Fits(u, job[q].counter)'
    <2>1. job'[q].counter = counter
      BY <1>1, <1>5
    <2> QED BY <2>1
  <1>6. Unwritten(p)'
    BY <1>1 DEF Unwritten, At
  <1>7. \A q \in Workers : Serves(q, u)' /\ At(q, "insert")' => RowsOf(u)' = {}
    BY <1>1, <1>2 DEF At
  <1>8. \A i, k \in RowsOf(u)' : i = k
    BY <1>2 DEF AloneFor
  <1> QED BY <1>1, <1>3, <1>4, <1>5, <1>6, <1>7, <1>8 DEF AloneFor

LEMMA AloneRead ==
    ASSUME IInv, TimeWindow > 0, NEW p \in Workers, Read(p), At(p, "start"),
           NEW u, Serves(p, u), AloneFor(u)
    PROVE  AloneFor(u)'
  <1>1. /\ ~At(p, "idle") /\ Count(p) /\ UNCHANGED <<table, now>> /\ u = job[p].user
        /\ job[p].at <= now /\ job[p].at \in Times
    BY JobParts DEF Read, ReadRow, ReadNothing, At, Serves, IInv, Prepared
  <1>2. PICK c : CountsLast(u, c) /\ c.at = job[p].at
    BY <1>1, CountsLastStep DEF AloneFor
  <1>3. \A q \in Workers : Serves(q, u) => ~Unwritten(q)
    BY DEF AloneFor, Unwritten, At
  <1>4. ASSUME NEW i \in RowsOf(u), ReadRow(p, i) PROVE AloneFor(u)'
    <2>1. PICK old, at : old = table[i].counter /\ at = job[p].at
      OBVIOUS
    <2>2. Fits(u, old) /\ old \in Counter
      BY <1>3, <2>1 DEF AloneFor, IInv, TypeOK, Row, RowsOf
    <2>3. PICK counter : counter = Bump(old, at)
      OBVIOUS
    <2>4. Fits(u, counter)'
      BY <1>2, <2>1, <2>2, <2>3, FitsBump
    <2>5. i \in Ids \cup {0} /\ counter \in Counter
      <3>1. Backed(u, old)
        BY <2>1 DEF IInv, AllBacked, RowsOf
      <3>2. Backed(u, Bump(old, at))'
        BY <1>1, <1>4, <2>1, <3>1, CountingBacked DEF ReadRow
      <3> QED BY <2>3, <3>2, ConstantsAssumption
              DEF Backed, RowsOf, IInv, TypeOK, Ids, ConstantsAssumption
    <2>6. PICK j : Becomes(p, j, "update", i, counter)
      BY <1>4, <2>1, <2>3, <2>5 DEF ReadRow, Becomes
    <2>7. GoesOn(p, j) /\ j.step = "update" /\ j.counter = counter
      BY <1>1, <2>6, BecomesGoesOn
    <2> QED BY <1>1, <1>2, <2>4, <2>7, AloneCounts
  <1>5. ASSUME ReadNothing(p) PROVE AloneFor(u)'
    <2>1. RowsOf(u) = {} /\ CountedOf(u) = {}
      BY <1>1, <1>3, <1>5 DEF ReadNothing, AloneFor
    <2>2. PICK counter, at : counter = Fresh(at) /\ at = job[p].at
      OBVIOUS
    <2>3. counter.requests = 1 /\ counter.lastreset = c.at
      BY <1>2, <2>2 DEF Fresh
    <2>4. Fits(u, counter)'
      BY <1>2, <2>1, <2>3, FitsFirst
    <2>5. Fresh(at) \in Counter
      BY <1>1, <1>5, <2>2, CountingBacked DEF Backed, ReadNothing
    <2>6. PICK j : Becomes(p, j, "insert", job[p].id, counter)
      BY <1>1, <1>5, <2>2, <2>5, ContinueBecomes DEF ReadNothing
    <2>7. GoesOn(p, j) /\ j.step = "insert" /\ j.counter = counter
      BY <1>1, <2>6, BecomesGoesOn
    <2> QED BY <1>1, <1>2, <2>1, <2>4, <2>7, AloneCounts
  <1> QED BY <1>1, <1>4, <1>5 DEF Read

\* The request has written what it held.
LEMMA AloneWrites ==
    ASSUME IInv, NEW p \in Workers, NEW u, Serves(p, u), AloneFor(u), Holding(p),
           NEW j, GoesOn(p, j), j.step = "decide",
           NEW counter, counter = job[p].counter, counter = j.counter,
           UNCHANGED <<now, counted>>,
           NEW k, RowsOf(u)' = {k}, table'[k].counter = counter
    PROVE  AloneFor(u)'
  <1>1. /\ job'[p] = j /\ Serves(p, u)'
        /\ \A q \in Workers : Serves(q, u)' => q = p
    BY AloneGoesOn
  <1>2. CountedOf(u)' = CountedOf(u)
    BY DEF CountedOf
  <1>3. Fits(u, counter)'
    BY <1>2, FitsKept DEF AloneFor
  <1>4. ASSUME NEW q \in Workers, Serves(q, u)' PROVE Fits(u, job[q].counter)'
    <2>1. job'[q].counter = counter
      BY <1>1, <1>4
    <2> QED BY <1>3, <2>1
  <1>5. ASSUME NEW i \in RowsOf(u)' PROVE Fits(u, table[i].counter)'
    <2>1. table'[i].counter = counter
      BY <1>5
    <2> QED BY <1>3, <2>1
  <1>6. \A q \in Workers : Serves(q, u)' => ~At(q, "start")' /\ ~At(q, "insert")'
    BY <1>1 DEF At
  <1>7. \A c \in CountedOf(u)' : c.at <= now'
    BY <1>2 DEF AloneFor
  <1> QED BY <1>1, <1>4, <1>5, <1>6, <1>7 DEF AloneFor

LEMMA AloneWrite ==
    ASSUME IInv, NEW p \in Workers, UpdateRow(p) \/ InsertRow(p),
           NEW u, Serves(p, u), AloneFor(u)
    PROVE  AloneFor(u)'
  <1>1. PICK counter : counter = job[p].counter
    OBVIOUS
  <1>2. /\ ~At(p, "idle") /\ Holding(p) /\ u = job[p].user /\ u \in Users
        /\ UNCHANGED <<now, counted>> /\ counter \in Counter
    <2>1. ~At(p, "idle") /\ Holding(p) /\ u = job[p].user /\ UNCHANGED <<now, counted>>
      BY DEF UpdateRow, InsertRow, At, Holding, Serves
    <2> QED BY <1>1, <2>1, JobParts DEF IInv, AllBacked, Backed
  <1>3. PICK j : Becomes(p, j, "decide", job[p].id, job[p].counter)
    BY <1>2, ContinueBecomes DEF UpdateRow, InsertRow
  <1>4. GoesOn(p, j) /\ j.step = "decide" /\ j.counter = counter
    BY <1>1, <1>2, <1>3, BecomesGoesOn
  <1>5. CASE UpdateRow(p)
    <2>1. PICK k : k = job[p].id
      OBVIOUS
    <2>2. k \in RowsOf(u) /\ table[k] \in Row
      BY <1>2, <1>5, <2>1 DEF UpdateRow, IInv, Prepared, RowsOf, TypeOK
    <2>3. RowsOf(u) = {k}
      BY <2>2 DEF AloneFor
    <2>4. table' = [table EXCEPT ![k].counter = counter]
      BY <1>1, <1>5, <2>1 DEF UpdateRow
    <2>5. /\ DOMAIN table' = DOMAIN table
          /\ \A i \in DOMAIN table : table'[i].user = table[i].user
          /\ table'[k].counter = counter
      BY <2>2, <2>4 DEF IInv, TypeOK, Row, RowsOf
    <2>6. RowsOf(u)' = {k}
      BY <2>3, <2>5 DEF RowsOf
    <2> QED BY <1>1, <1>2, <1>4, <2>5, <2>6, AloneWrites
  <1>6. CASE InsertRow(p)
    <2>1. RowsOf(u) = {}
      BY <1>6 DEF InsertRow, AloneFor
    <2>2. AddRow(u, counter)
      BY <1>1, <1>2, <1>6 DEF InsertRow
    <2>3. PICK k : k = lastId + 1
      OBVIOUS
    <2>4. RowsOf(u)' = {k} /\ table'[k].counter = counter
      <3>1. TypeOK /\ u \in Users
        BY <1>2 DEF IInv
      <3>2. /\ RowsOf(u)' = RowsOf(u) \cup {lastId + 1}
            /\ table'[lastId + 1] = [user |-> u, counter |-> counter]
        BY <1>2, <2>2, <3>1, AddRowRows
      <3> QED BY <2>1, <2>3, <3>2
    <2> QED BY <1>1, <1>2, <1>4, <2>4, AloneWrites
  <1> QED BY <1>5, <1>6

\* Workers other than p go on as they were, and p does not come to serve the user.
LEMMA OthersKept ==
    ASSUME IInv, NEW p \in Workers, NEW j, job' = [job EXCEPT ![p] = j], NEW u,
           j.step = "idle" \/ j.user # u,
           Serves(p, u) => ~Unwritten(p)
    PROVE  /\ \A q \in Workers : Serves(q, u)' => job'[q] = job[q]
           /\ \A q \in Workers : Serves(q, u) /\ Unwritten(q) => job'[q] = job[q]
  <1>1. job'[p] = j /\ \A q \in Workers \ {p} : job'[q] = job[q]
    BY DEF IInv, TypeOK
  <1> QED BY <1>1 DEF Serves, At

\* A request of another user reads or writes.
LEMMA AloneOther ==
    ASSUME IInv, NEW p \in Workers, NEW u \in Users, ~Serves(p, u), AloneFor(u),
           (At(p, "start") /\ Read(p)) \/ UpdateRow(p) \/ InsertRow(p)
    PROVE  AloneFor(u)'
  <1>1. PICK v \in Users : v = job[p].user /\ v # u
    BY JobParts DEF Serves, At, UpdateRow, InsertRow
  <1>2. ~At(p, "idle") /\ now' = now /\ now \in Nat
    <2>1. now \in Nat
      BY ConstantsAssumption DEF IInv, TypeOK, Times, ConstantsAssumption
    <2>2. ~At(p, "idle")
      BY DEF At, UpdateRow, InsertRow
    <2>3. now' = now
      BY DEF Read, ReadRow, ReadNothing, UpdateRow, InsertRow
    <2> QED BY <2>1, <2>2, <2>3
  <1>3. PICK j : GoesOn(p, j) /\ j.step # "idle"
    <2>1. CASE UpdateRow(p) \/ InsertRow(p)
      <3>1. PICK j : Becomes(p, j, "decide", job[p].id, job[p].counter)
        BY <1>2, <2>1, ContinueBecomes DEF UpdateRow, InsertRow
      <3> QED BY <1>2, <3>1, BecomesGoesOn
    <2>2. ASSUME At(p, "start"), ReadNothing(p) PROVE \E j : GoesOn(p, j) /\ j.step # "idle"
      <3>1. Fresh(job[p].at) \in Counter
        BY <2>2, CountingBacked DEF Backed, ReadNothing
      <3>2. PICK j : Becomes(p, j, "insert", job[p].id, Fresh(job[p].at))
        BY <1>2, <2>2, <3>1, ContinueBecomes DEF ReadNothing
      <3> QED BY <1>2, <3>2, BecomesGoesOn
    <2>3. ASSUME At(p, "start"), NEW i \in RowsOf(job[p].user), ReadRow(p, i)
          PROVE  \E j : GoesOn(p, j) /\ j.step # "idle"
      <3>1. PICK old, at : old = table[i].counter /\ at = job[p].at
        OBVIOUS
      <3>2. Bump(old, at) \in Counter
        <4>1. Backed(job[p].user, old)
          BY <3>1 DEF IInv, AllBacked, RowsOf
        <4> QED BY <2>3, <3>1, <4>1, CountingBacked DEF Backed, ReadRow
      <3>3. i \in Ids \cup {0}
        BY ConstantsAssumption DEF RowsOf, IInv, TypeOK, Ids, ConstantsAssumption
      <3>4. PICK j : Becomes(p, j, "update", i, Bump(old, at))
        BY <2>3, <3>1, <3>2, <3>3 DEF ReadRow, Becomes
      <3> QED BY <1>2, <3>4, BecomesGoesOn
    <2> QED BY <2>1, <2>2, <2>3 DEF Read
  <1>4. /\ \A q \in Workers : Serves(q, u)' => job'[q] = job[q]
        /\ \A q \in Workers : Serves(q, u) /\ Unwritten(q) => job'[q] = job[q]
    <2>1. job' = [job EXCEPT ![p] = j] /\ j.user = v
      BY <1>1, <1>3 DEF GoesOn, Rest
    <2> QED BY <1>1, <2>1, OthersKept
  <1>5. CountedOf(u)' = CountedOf(u)
    <2>1. Count(p) \/ UNCHANGED counted
      BY DEF Read, ReadRow, ReadNothing, UpdateRow, InsertRow
    <2>2. ASSUME Count(p) PROVE CountedOf(u)' = CountedOf(u)
      <3> DEFINE c == [n |-> job[p].n, user |-> job[p].user, at |-> job[p].at, time |-> now]
      <3>1. counted' = counted \cup {c} /\ c.user = v
        BY <1>1, <2>2 DEF Count
      <3> HIDE DEF c
      <3> QED BY <1>1, <3>1 DEF CountedOf
    <2> QED BY <2>1, <2>2 DEF CountedOf
  <1>6. RowsOf(u)' = RowsOf(u) /\ \A i \in RowsOf(u) : table'[i] = table[i]
    <2>1. CASE At(p, "start") /\ Read(p)
      BY <2>1 DEF Read, ReadRow, ReadNothing, RowsOf
    <2>2. CASE UpdateRow(p)
      <3>1. PICK k, counter : k = job[p].id /\ counter = job[p].counter
        OBVIOUS
      <3>2. k \in DOMAIN table /\ table[k].user = v
        BY <1>1, <2>2, <3>1 DEF UpdateRow, IInv, Prepared
      <3>3. table' = [table EXCEPT ![k].counter = counter]
        BY <2>2, <3>1 DEF UpdateRow
      <3>4. /\ DOMAIN table' = DOMAIN table
            /\ \A i \in DOMAIN table : table'[i].user = table[i].user
            /\ \A i \in DOMAIN table \ {k} : table'[i] = table[i]
        BY <3>2, <3>3 DEF IInv, TypeOK, Row
      <3> QED BY <1>1, <3>2, <3>4 DEF RowsOf
    <2>3. CASE InsertRow(p)
      <3>1. PICK counter : counter = job[p].counter
        OBVIOUS
      <3>2. counter \in Counter /\ AddRow(v, counter)
        BY <1>1, <2>3, <3>1 DEF InsertRow, IInv, AllBacked, Backed, Holding, At
      <3>3. TypeOK /\ v \in Users
        BY <1>1 DEF IInv
      <3>4. /\ RowsOf(u)' = RowsOf(u)
            /\ \A i \in DOMAIN table : table'[i] = table[i]
        BY <1>1, <3>2, <3>3, AddRowRows
      <3> QED BY <3>4 DEF RowsOf
    <2> QED BY <2>1, <2>2, <2>3
  <1> QED BY <1>2, <1>4, <1>5, <1>6, AloneFrame

\* A request ends, one of the user that has something to write excepted.
LEMMA AloneEnds ==
    ASSUME IInv, NEW p \in Workers, NEW u \in Users, AloneFor(u),
           Reject(p) \/ Process(p) \/ Crash(p), u \notin disturbed'
    PROVE  AloneFor(u)'
  <1>1. /\ UNCHANGED <<table, now, counted>> /\ now \in Nat
    BY ConstantsAssumption
       DEF Reject, Process, Crash, IInv, TypeOK, Times, ConstantsAssumption
  <1>2. PICK j : job' = [job EXCEPT ![p] = j] /\ j.step = "idle"
    BY RestType DEF Reject, Process, Crash, Finish
  <1>3. Serves(p, u) => ~Unwritten(p)
    BY DEF Reject, Process, Crash, Serves, Unwritten, At
  <1>4. /\ \A q \in Workers : Serves(q, u)' => job'[q] = job[q]
        /\ \A q \in Workers : Serves(q, u) /\ Unwritten(q) => job'[q] = job[q]
    BY <1>2, <1>3, OthersKept
  <1> QED BY <1>1, <1>4, AloneFrame DEF CountedOf, RowsOf

LEMMA AloneFitsStep == IInv /\ AloneFits /\ [Next]_vars => AloneFits'
  <1> SUFFICES ASSUME IInv, AloneFits, [Next]_vars, TimeWindow > 0,
                      NEW u \in Users, u \notin disturbed'
               PROVE  AloneFor(u)'
    BY DEF AloneFits
  <1>1. disturbed \subseteq disturbed'
    BY DEF Next, Serve, Terminating, Tick, Arrive, Read, ReadRow, ReadNothing,
           UpdateRow, InsertRow, Reject, Process, Crash, vars
  <1>2. AloneFor(u)
    BY <1>1 DEF AloneFits
  <1>3. ASSUME NEW p \in Workers, NEW v \in Users, Arrive(p, v) PROVE AloneFor(u)'
    <2>1. CASE v = u
      BY <1>2, <1>3, <2>1, AloneArrive
    <2>2. CASE v # u
      <3> DEFINE j == [step |-> "start", n |-> arrivals + 1, user |-> v, at |-> now,
                       id |-> 0, counter |-> <<>>]
      <3>1. j.user # u
        BY <2>2
      <3>2. /\ job' = [job EXCEPT ![p] = j] /\ UNCHANGED <<table, now, counted>>
            /\ At(p, "idle") /\ now \in Nat
        BY <1>3, ConstantsAssumption
           DEF Arrive, Continue, IInv, TypeOK, Times, ConstantsAssumption
      <3> HIDE DEF j
      <3>3. /\ \A q \in Workers : Serves(q, u)' => job'[q] = job[q]
            /\ \A q \in Workers : Serves(q, u) /\ Unwritten(q) => job'[q] = job[q]
        BY <3>1, <3>2, OthersKept DEF Serves
      <3> QED BY <1>2, <3>2, <3>3, AloneFrame DEF CountedOf, RowsOf
    <2> QED BY <2>1, <2>2
  <1>4. ASSUME NEW p \in Workers, At(p, "start"), Read(p) PROVE AloneFor(u)'
    BY <1>2, <1>4, AloneRead, AloneOther
  <1>5. ASSUME NEW p \in Workers, UpdateRow(p) \/ InsertRow(p) PROVE AloneFor(u)'
    BY <1>2, <1>5, AloneWrite, AloneOther
  <1>6. ASSUME NEW p \in Workers, Reject(p) \/ Process(p) \/ Crash(p) PROVE AloneFor(u)'
    BY <1>2, <1>6, AloneEnds
  <1>7. CASE Tick \/ UNCHANGED vars
    <2>1. now \in Nat /\ now' \in Nat /\ now <= now' /\ UNCHANGED <<table, job, counted>>
      BY <1>7, ConstantsAssumption
         DEF Tick, vars, IInv, TypeOK, Times, ConstantsAssumption
    <2> QED BY <1>2, <2>1, AloneFrame DEF CountedOf, RowsOf
  <1> QED BY <1>3, <1>4, <1>5, <1>6, <1>7 DEF Next, Serve, Terminating

LEMMA AloneFitsExact == IInv /\ AloneFits => ExactAlone
  <1> SUFFICES ASSUME IInv, AloneFits, TimeWindow > 0, NEW u \in Users \ disturbed
               PROVE  /\ \A p \in Workers :
                           Holding(p) /\ job[p].user = u => Exact(u, job[p].counter)
                      /\ ~(\E p \in Workers : Unwritten(p) /\ job[p].user = u) =>
                           /\ \A i \in RowsOf(u) : Exact(u, table[i].counter)
                           /\ Cardinality(RowsOf(u)) = IF ReadSince(u, 0) = {} THEN 0 ELSE 1
    BY DEF ExactAlone
  <1>1. AloneFor(u)
    BY DEF AloneFits
  <1>2. \A p \in Workers : Holding(p) /\ job[p].user = u => Serves(p, u)
    BY DEF Holding, Serves, At
  <1>3. ASSUME ~(\E p \in Workers : Unwritten(p) /\ job[p].user = u)
        PROVE  /\ \A i \in RowsOf(u) : Exact(u, table[i].counter)
               /\ Cardinality(RowsOf(u)) = IF ReadSince(u, 0) = {} THEN 0 ELSE 1
    <2>1. ~(\E p \in Workers : Serves(p, u) /\ Unwritten(p))
      BY <1>3 DEF Serves
    <2>2. \A i \in RowsOf(u) : Exact(u, table[i].counter)
      BY <1>1, <2>1 DEF AloneFor, Fits
    <2>3. ReadSince(u, 0) = CountedOf(u)
      BY ConstantsAssumption DEF ReadSince, CountedOf, IInv, TypeOK, Times, ConstantsAssumption
    <2>4. CASE RowsOf(u) = {}
      <3>1. ReadSince(u, 0) = {} /\ Cardinality(RowsOf(u)) = 0
        BY <1>1, <2>1, <2>3, <2>4, FS_EmptySet DEF AloneFor
      <3> QED BY <2>2, <3>1
    <2>5. CASE RowsOf(u) # {}
      <3>1. PICK i \in RowsOf(u) : RowsOf(u) = {i}
        BY <1>1, <2>5 DEF AloneFor
      <3>2. table[i].counter.requests \in Nat \ {0}
        BY <3>1 DEF RowsOf, IInv, TypeOK, Row, Counter
      <3>3. ReadSince(u, table[i].counter.lastreset) # {}
        BY <2>2, <3>2, FS_EmptySet DEF Exact
      <3>4. ReadSince(u, 0) # {}
        BY <2>3, <3>3 DEF ReadSince, CountedOf
      <3>5. Cardinality(RowsOf(u)) = 1
        BY <3>1, FS_Singleton
      <3> QED BY <2>2, <3>4, <3>5
    <2> QED BY <2>4, <2>5
  <1>4. \A p \in Workers : Holding(p) /\ job[p].user = u => Exact(u, job[p].counter)
    BY <1>1, <1>2 DEF AloneFor, Fits
  <1> QED BY <1>3, <1>4

\* The read and the write of the default statements lose counts, or make a second
\* row, only for users whose requests overlap or die in between, for any number of
\* workers and other users, any window that is not empty and any readings of the clock.
THEOREM AlwaysExactAlone == Spec => []ExactAlone
  <1>1. Init => AloneFits
    BY DEF Init, AloneFits, AloneFor, CountedOf, RowsOf, Serves, At
  <1> QED BY <1>1, IInvAlways, AloneFitsStep, AloneFitsExact, PTL DEF Spec
=============================================================================
