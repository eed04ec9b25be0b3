----------------------- MODULE OAuthCredentialsProofs -----------------------
(***************************************************************************)
(* Theorems about OAuthCredentials for every number of workers, users,     *)
(* rows, secrets and clock values, checked by TLAPS.                       *)
(***************************************************************************)
EXTENDS OAuthCredentials, FiniteSetTheorems, TLAPS

-----------------------------------------------------------------------------
(* Types                                                                   *)

\* Every step is one of the named actions.
LEMMA StepCases ==
    ASSUME Next
    PROVE  \/ \E p \in Workers, actor \in Users, owner \in Users :
                 \/ CreateRefused(p, actor, owner)
                 \/ CreateConflict(p, actor, owner)
                 \/ \E expires \in Expiries :
                      CreateAccepted(p, actor, owner, expires)
           \/ \E p \in Workers, c \in Clients : NotFound(p, c)
           \/ \E p \in Workers, actor \in Users, i \in DOMAIN table :
                 \/ Refused(p, actor, i)
                 \/ RevokeRead(p, actor, i)
                 \/ \E expires \in Expiries :
                      \/ RegenerateInvalid(p, actor, i, expires)
                      \/ RegenerateRead(p, actor, i, expires)
           \/ \E p \in Workers : InsertRow(p)
           \/ \E p \in Workers : UpdateRow(p)
           \/ \E p \in Workers : DeleteRow(p)
           \/ \E p \in Workers : Notify(p)
           \/ \E p \in Workers : Crash(p)
           \/ Tick
  BY DEF Next, Request, Create, Lookup, Regenerate, Revoke, Finish, RowsOf

\* Answering a request and moving it on keep the type of job.
LEMMA JobType ==
    ASSUME TypeOK, NEW p \in Workers
    PROVE  /\ \A status \in {0, 200, 400, 403, 404, 409} :
                 Answer(p, status) => job' \in [Workers -> Job \cup Rest]
           /\ \A actor \in Users, step \in Steps, id \in Ids \cup {0}, rec \in Row :
                 Continue(p, actor, step, id, rec)
                    => job' \in [Workers -> Job \cup Rest]
  <1>1. ASSUME NEW status \in {0, 200, 400, 403, 404, 409}, Answer(p, status)
        PROVE  job' \in [Workers -> Job \cup Rest]
    <2>1. [step |-> "idle", status |-> status] \in Rest
      BY DEF Rest
    <2> QED BY <1>1, <2>1 DEF TypeOK, Answer
  <1>2. ASSUME NEW actor \in Users, NEW step \in Steps, NEW id \in Ids \cup {0},
               NEW rec \in Row, Continue(p, actor, step, id, rec)
        PROVE  job' \in [Workers -> Job \cup Rest]
    <2>1. [actor |-> actor, step |-> step, id |-> id, rec |-> rec] \in Job
      BY DEF Job
    <2> QED BY <1>2, <2>1 DEF TypeOK, Continue
  <1> QED BY <1>1, <1>2

\* A worker that is not idle holds a request.
LEMMA BusyJob ==
    ASSUME TypeOK, NEW p \in Workers, ~At(p, "idle")
    PROVE  job[p] \in Job
  BY DEF TypeOK, Rest, At

\* A fresh secret hashes to a value of the type.
LEMMA DrawnHash ==
    ASSUME TypeOK, DrawSecret
    PROVE  /\ lastSecret' \in 0 .. MaxSecrets
           /\ NextSecret \in 1 .. MaxSecrets
           /\ hash_secret(NextSecret) \in Hashes
  BY ConstantsAssumption DEF TypeOK, DrawSecret, NextSecret, Hashes

\* The event of a finished write is an event.
LEMMA PendingType ==
    ASSUME TypeOK, NEW p \in Workers, Written(p)
    PROVE  PendingEvent(p) \in Event
  <1>1. job[p] \in Job
    BY BusyJob DEF Written, At
  <1> QED BY <1>1 DEF PendingEvent, Event, Job, Row, Written

LEMMA TypeInit == Init => TypeOK
  <1> SUFFICES ASSUME Init PROVE TypeOK
    OBVIOUS
  <1>1. [step |-> "idle", status |-> 0] \in Rest
    BY DEF Rest
  <1> QED BY <1>1, ConstantsAssumption DEF Init, TypeOK

LEMMA TypeStep == TypeOK /\ [Next]_vars => TypeOK'
  <1> SUFFICES ASSUME TypeOK, [Next]_vars PROVE TypeOK'
    OBVIOUS
  <1>1. ASSUME NEW p \in Workers, NEW actor \in Users, NEW owner \in Users,
               \/ CreateRefused(p, actor, owner)
               \/ CreateConflict(p, actor, owner)
        PROVE  TypeOK'
    BY <1>1, JobType, DrawnHash DEF TypeOK, CreateRefused, CreateConflict
  <1>2. ASSUME NEW p \in Workers, NEW actor \in Users, NEW owner \in Users,
               NEW expires \in Expiries, CreateAccepted(p, actor, owner, expires)
        PROVE  TypeOK'
    <2> DEFINE rec == [client |-> ClientOf[owner], user |-> owner,
                       hash |-> hash_secret(NextSecret), expires |-> expires,
                       by |-> actor]
    <2>1. rec \in Row
      BY <1>2, DrawnHash, ConstantsAssumption DEF Row, CreateAccepted
    <2> HIDE DEF rec
    <2>2. Continue(p, actor, "insert", 0, rec)
      BY <1>2 DEF CreateAccepted, rec
    <2>3. job' \in [Workers -> Job \cup Rest]
      BY <2>1, <2>2, JobType DEF Steps
    <2> QED BY <1>2, <2>3, DrawnHash DEF TypeOK, CreateAccepted
  <1>3. ASSUME NEW p \in Workers, NEW c \in Clients, NotFound(p, c)
        PROVE  TypeOK'
    BY <1>3, JobType DEF TypeOK, NotFound
  <1>4. ASSUME NEW p \in Workers, NEW actor \in Users, NEW i \in DOMAIN table,
               Refused(p, actor, i)
        PROVE  TypeOK'
    BY <1>4, JobType DEF TypeOK, Refused
  <1>5. ASSUME NEW p \in Workers, NEW actor \in Users, NEW i \in DOMAIN table,
               NEW expires \in Expiries, RegenerateInvalid(p, actor, i, expires)
        PROVE  TypeOK'
    BY <1>5, JobType DEF TypeOK, RegenerateInvalid
  <1>6. ASSUME NEW p \in Workers, NEW actor \in Users, NEW i \in DOMAIN table,
               NEW expires \in Expiries, RegenerateRead(p, actor, i, expires)
        PROVE  TypeOK'
    <2> DEFINE rec == [table[i] EXCEPT !.hash = hash_secret(NextSecret),
                                       !.expires = expires, !.by = actor]
    <2>1. rec \in Row
      BY <1>6, DrawnHash DEF TypeOK, Row, RegenerateRead
    <2> HIDE DEF rec
    <2>2. Continue(p, actor, "update", i, rec)
      BY <1>6 DEF RegenerateRead, rec
    <2>3. i \in Ids
      BY ConstantsAssumption DEF TypeOK, Ids
    <2>4. job' \in [Workers -> Job \cup Rest]
      BY <2>1, <2>2, <2>3, JobType DEF Steps
    <2> QED BY <1>6, <2>4, DrawnHash DEF TypeOK, RegenerateRead
  <1>7. ASSUME NEW p \in Workers, NEW actor \in Users, NEW i \in DOMAIN table,
               RevokeRead(p, actor, i)
        PROVE  TypeOK'
    <2>1. i \in Ids /\ table[i] \in Row
      BY ConstantsAssumption DEF TypeOK, Ids
    <2>2. job' \in [Workers -> Job \cup Rest]
      BY <1>7, <2>1, JobType DEF RevokeRead, Steps
    <2> QED BY <1>7, <2>2 DEF TypeOK, RevokeRead
  <1>8. ASSUME NEW p \in Workers, InsertRow(p)
        PROVE  TypeOK'
    <2>1. job[p] \in Job
      BY <1>8, BusyJob DEF InsertRow, At
    <2>2. lastId + 1 \in Ids /\ lastId' = lastId + 1
      BY <1>8, ConstantsAssumption DEF InsertRow, TypeOK, Ids
    <2>3. job[p].actor \in Users /\ job[p].rec \in Row
      BY <2>1 DEF Job
    <2>4. job' \in [Workers -> Job \cup Rest]
      BY <1>8, <2>2, <2>3, JobType DEF InsertRow, Steps
    <2>5. /\ DOMAIN table' \subseteq 1 .. lastId'
          /\ table' \in [DOMAIN table' -> Row]
      BY <1>8, <2>2, <2>3 DEF InsertRow, TypeOK, Ids
    <2> QED BY <1>8, <2>2, <2>4, <2>5 DEF TypeOK, InsertRow, Ids
  <1>9. ASSUME NEW p \in Workers, UpdateRow(p)
        PROVE  TypeOK'
    <2>1. job[p] \in Job
      BY <1>9, BusyJob DEF UpdateRow, At
    <2>2. job' \in [Workers -> Job \cup Rest]
      BY <1>9, <2>1, JobType DEF UpdateRow, Steps, Job
    <2>3. DOMAIN table' = DOMAIN table /\ table' \in [DOMAIN table' -> Row]
      BY <1>9, <2>1 DEF UpdateRow, TypeOK, Job
    <2> QED BY <1>9, <2>2, <2>3 DEF TypeOK, UpdateRow
  <1>10. ASSUME NEW p \in Workers, DeleteRow(p)
         PROVE  TypeOK'
    <2>1. job[p] \in Job
      BY <1>10, BusyJob DEF DeleteRow, At
    <2>2. job' \in [Workers -> Job \cup Rest]
      BY <1>10, <2>1, JobType DEF DeleteRow, Steps, Job
    <2>3. /\ DOMAIN table' \subseteq DOMAIN table
          /\ table' \in [DOMAIN table' -> Row]
      BY <1>10 DEF DeleteRow, TypeOK
    <2> QED BY <1>10, <2>2, <2>3 DEF TypeOK, DeleteRow
  <1>11. ASSUME NEW p \in Workers, Notify(p) PROVE TypeOK'
    BY <1>11, JobType, PendingType DEF TypeOK, Notify
  <1>12. ASSUME NEW p \in Workers, Crash(p) PROVE TypeOK'
    BY <1>12, JobType, PendingType DEF TypeOK, Crash
  <1>13. CASE Tick
    BY <1>13, ConstantsAssumption DEF TypeOK, Tick
  <1>14. CASE UNCHANGED vars
    BY <1>14 DEF TypeOK, vars
  <1> QED BY <1>1, <1>2, <1>3, <1>4, <1>5, <1>6, <1>7, <1>8, <1>9, <1>10, <1>11,
             <1>12, <1>13, <1>14, StepCases

\* Every reachable state is of its type: in particular the table only holds
\* ids the sequence has issued.
THEOREM TypeCorrect == Spec => []TypeOK
  BY TypeInit, TypeStep, PTL DEF Spec

-----------------------------------------------------------------------------
(* Authorised writers and valid copies                                     *)

\* The two invariants rest on each other: a row is overwritten with a copy,
\* and a copy is taken from a row.
Consistent == AuthorisedRows /\ CopiesValid

\* A step of one worker that leaves the table and the id sequence alone keeps
\* every copy valid if it keeps that worker's copy valid.
LEMMA CopiesFrame ==
    ASSUME TypeOK, CopiesValid, NEW p \in Workers,
           table' = table, lastId' = lastId,
           \A q \in Workers \ {p} : job'[q] = job[q],
           job'[p].step = "idle" \/ CopyValid(p)'
    PROVE  CopiesValid'
  <1> SUFFICES ASSUME NEW q \in Workers, ~At(q, "idle")' PROVE CopyValid(q)'
    BY DEF CopiesValid
  <1>1. CASE q = p
    BY <1>1 DEF At
  <1>2. CASE q # p
    BY <1>2 DEF CopiesValid, CopyValid, At
  <1> QED BY <1>1, <1>2

\* The worker of an action is the only one whose job changes, and this is what
\* it changes to.
LEMMA JobFrame ==
    ASSUME TypeOK, NEW p \in Workers
    PROVE  /\ \A status : Answer(p, status) =>
                 /\ job'[p] = [step |-> "idle", status |-> status]
                 /\ \A q \in Workers \ {p} : job'[q] = job[q]
           /\ \A actor, step, id, rec : Continue(p, actor, step, id, rec) =>
                 /\ job'[p] = [actor |-> actor, step |-> step, id |-> id, rec |-> rec]
                 /\ \A q \in Workers \ {p} : job'[q] = job[q]
  BY DEF TypeOK, Answer, Continue

\* Becoming idle keeps Consistent, whatever the status.
LEMMA ConsistentAnswer ==
    ASSUME TypeOK, Consistent, NEW p \in Workers, NEW status, Answer(p, status),
           UNCHANGED <<table, lastId>>
    PROVE  Consistent'
  <1>1. job'[p].step = "idle"
    BY DEF TypeOK, Answer
  <1>2. CopiesValid'
    BY <1>1, JobFrame, CopiesFrame DEF Consistent
  <1> QED BY <1>2 DEF Consistent, AuthorisedRows

LEMMA ConsistentInit == Init => Consistent
  BY DEF Init, Consistent, AuthorisedRows, CopiesValid, At

LEMMA ConsistentStep == TypeOK /\ Consistent /\ [Next]_vars => Consistent'
  <1> SUFFICES ASSUME TypeOK, Consistent, [Next]_vars PROVE Consistent'
    OBVIOUS
  <1>1. ASSUME NEW p \in Workers, NEW actor \in Users, NEW owner \in Users,
               \/ CreateRefused(p, actor, owner)
               \/ CreateConflict(p, actor, owner)
        PROVE  Consistent'
    BY <1>1, ConsistentAnswer DEF CreateRefused, CreateConflict
  <1>2. ASSUME NEW p \in Workers, NEW actor \in Users, NEW owner \in Users,
               NEW expires \in Expiries, CreateAccepted(p, actor, owner, expires)
        PROVE  Consistent'
    <2> DEFINE rec == [client |-> ClientOf[owner], user |-> owner,
                       hash |-> hash_secret(NextSecret), expires |-> expires,
                       by |-> actor]
    <2>1. job'[p] = [actor |-> actor, step |-> "insert", id |-> 0, rec |-> rec]
      BY <1>2 DEF CreateAccepted, Continue, TypeOK
    <2>2. CopyValid(p)'
      BY <1>2, <2>1 DEF CreateAccepted, CopyValid, Permitted
    <2>3. CopiesValid'
      BY <1>2, <2>2, JobFrame, CopiesFrame DEF CreateAccepted, Consistent
    <2> QED BY <1>2, <2>3 DEF Consistent, AuthorisedRows, CreateAccepted
  <1>3. ASSUME NEW p \in Workers, NEW c \in Clients, NotFound(p, c)
        PROVE  Consistent'
    BY <1>3, ConsistentAnswer DEF NotFound
  <1>4. ASSUME NEW p \in Workers, NEW actor \in Users, NEW i \in DOMAIN table,
               Refused(p, actor, i)
        PROVE  Consistent'
    BY <1>4, ConsistentAnswer DEF Refused
  <1>5. ASSUME NEW p \in Workers, NEW actor \in Users, NEW i \in DOMAIN table,
               NEW expires \in Expiries, RegenerateInvalid(p, actor, i, expires)
        PROVE  Consistent'
    BY <1>5, ConsistentAnswer DEF RegenerateInvalid
  <1>6. ASSUME NEW p \in Workers, NEW actor \in Users, NEW i \in DOMAIN table,
               NEW expires \in Expiries, RegenerateRead(p, actor, i, expires)
        PROVE  Consistent'
    <2> DEFINE rec == [table[i] EXCEPT !.hash = hash_secret(NextSecret),
                                       !.expires = expires, !.by = actor]
    <2>1. /\ rec.user = table[i].user
          /\ rec.client = table[i].client
          /\ rec.by = actor
      BY DEF TypeOK, Row
    <2>2. job'[p] = [actor |-> actor, step |-> "update", id |-> i, rec |-> rec]
      BY <1>6, JobFrame DEF RegenerateRead
    <2> HIDE DEF rec
    <2>3. CopyValid(p)'
      BY <1>6, <2>1, <2>2 DEF RegenerateRead, CopyValid, Permitted, Consistent,
         AuthorisedRows, TypeOK
    <2>4. CopiesValid'
      BY <1>6, <2>3, JobFrame, CopiesFrame DEF RegenerateRead, Consistent
    <2> QED BY <1>6, <2>4 DEF Consistent, AuthorisedRows, RegenerateRead
  <1>7. ASSUME NEW p \in Workers, NEW actor \in Users, NEW i \in DOMAIN table,
               RevokeRead(p, actor, i)
        PROVE  Consistent'
    <2>1. job'[p] = [actor |-> actor, step |-> "delete", id |-> i, rec |-> table[i]]
      BY <1>7 DEF RevokeRead, Continue, TypeOK
    <2>2. CopyValid(p)'
      BY <1>7, <2>1 DEF RevokeRead, CopyValid, Permitted, Consistent,
         AuthorisedRows, TypeOK
    <2>3. CopiesValid'
      BY <1>7, <2>2, JobFrame, CopiesFrame DEF RevokeRead, Consistent
    <2> QED BY <1>7, <2>3 DEF Consistent, AuthorisedRows, RevokeRead
  <1>8. ASSUME NEW p \in Workers, InsertRow(p)
        PROVE  Consistent'
    <2> DEFINE id == lastId + 1
    <2>1. /\ CopyValid(p)
          /\ job[p].step = "insert"
          /\ job[p].rec.by = job[p].actor
      BY <1>8 DEF InsertRow, At, Consistent, CopiesValid, CopyValid
    <2>2. /\ id \notin DOMAIN table
          /\ DOMAIN table' = DOMAIN table \cup {id}
          /\ table'[id] = job[p].rec
          /\ \A i \in DOMAIN table : table'[i] = table[i]
          /\ 1 .. lastId \subseteq 1 .. lastId'
          /\ id \in 1 .. lastId'
          /\ id \notin 1 .. lastId
      BY <1>8, ConstantsAssumption DEF InsertRow, TypeOK
    <2> HIDE DEF id
    <2>3. job'[p] = [actor |-> job[p].actor, step |-> "created", id |-> id,
                     rec |-> job[p].rec]
      BY <1>8, JobFrame DEF InsertRow, id
    <2>4. AuthorisedRows'
      BY <2>1, <2>2 DEF Consistent, AuthorisedRows, CopyValid, Permitted
    <2>5. ASSUME NEW q \in Workers, ~At(q, "idle")'
          PROVE  CopyValid(q)'
      <3>1. CASE q = p
        BY <2>1, <2>2, <2>3, <3>1 DEF CopyValid, Permitted
      <3>2. CASE q # p
        <4>1. job'[q] = job[q] /\ CopyValid(q)
          BY <1>8, <2>5, <3>2, JobFrame DEF InsertRow, At, Consistent, CopiesValid
        <4> QED BY <2>2, <4>1 DEF CopyValid
      <3> QED BY <3>1, <3>2
    <2> QED BY <2>4, <2>5 DEF Consistent, CopiesValid
  <1>9. ASSUME NEW p \in Workers, UpdateRow(p)
        PROVE  Consistent'
    <2>1. /\ CopyValid(p)
          /\ job[p].step = "update"
          /\ job[p].rec.by = job[p].actor
      BY <1>9 DEF UpdateRow, At, Consistent, CopiesValid, CopyValid
    <2>2. /\ DOMAIN table' = DOMAIN table
          /\ lastId' = lastId
          /\ \A i \in DOMAIN table :
                table'[i] = IF i = job[p].id THEN job[p].rec ELSE table[i]
      BY <1>9 DEF UpdateRow
    <2>3. job'[p] = [actor |-> job[p].actor, step |-> "updated", id |-> job[p].id,
                     rec |-> job[p].rec]
      BY <1>9, JobFrame DEF UpdateRow
    <2>4. \A i \in DOMAIN table : table'[i].user = table[i].user
      BY <2>1, <2>2 DEF CopyValid
    <2>5. AuthorisedRows'
      BY <2>1, <2>2 DEF Consistent, AuthorisedRows, CopyValid, Permitted
    <2>6. ASSUME NEW q \in Workers, ~At(q, "idle")'
          PROVE  CopyValid(q)'
      <3>1. CASE q = p
        BY <2>1, <2>2, <2>3, <3>1 DEF CopyValid, Permitted
      <3>2. CASE q # p
        <4>1. job'[q] = job[q] /\ CopyValid(q)
          BY <1>9, <2>6, <3>2, JobFrame DEF UpdateRow, At, Consistent, CopiesValid
        <4> QED BY <2>2, <2>4, <4>1 DEF CopyValid
      <3> QED BY <3>1, <3>2
    <2> QED BY <2>5, <2>6 DEF Consistent, CopiesValid
  <1>10. ASSUME NEW p \in Workers, DeleteRow(p)
         PROVE  Consistent'
    <2>1. CopyValid(p) /\ job[p].step = "delete"
      BY <1>10 DEF DeleteRow, At, Consistent, CopiesValid
    <2>2. /\ DOMAIN table' = DOMAIN table \ {job[p].id}
          /\ lastId' = lastId
          /\ \A i \in DOMAIN table' : table'[i] = table[i]
      BY <1>10 DEF DeleteRow
    <2>3. job'[p] = [actor |-> job[p].actor, step |-> "deleted", id |-> job[p].id,
                     rec |-> job[p].rec]
      BY <1>10, JobFrame DEF DeleteRow
    <2>4. ASSUME NEW q \in Workers, ~At(q, "idle")'
          PROVE  CopyValid(q)'
      <3>1. CASE q = p
        BY <2>1, <2>2, <2>3, <3>1 DEF CopyValid, Permitted
      <3>2. CASE q # p
        <4>1. job'[q] = job[q] /\ CopyValid(q)
          BY <1>10, <2>4, <3>2, JobFrame DEF DeleteRow, At, Consistent, CopiesValid
        <4> QED BY <2>2, <4>1 DEF CopyValid
      <3> QED BY <3>1, <3>2
    <2> QED BY <2>2, <2>4 DEF Consistent, AuthorisedRows, CopiesValid
  <1>11. ASSUME NEW p \in Workers, Notify(p) PROVE Consistent'
    BY <1>11, ConsistentAnswer DEF Notify
  <1>12. ASSUME NEW p \in Workers, Crash(p) PROVE Consistent'
    BY <1>12, ConsistentAnswer DEF Crash
  <1>13. CASE Tick \/ UNCHANGED vars
    BY <1>13 DEF Tick, vars, Consistent, AuthorisedRows, CopiesValid, CopyValid, At
  <1> QED BY <1>1, <1>2, <1>3, <1>4, <1>5, <1>6, <1>7, <1>8, <1>9, <1>10, <1>11,
             <1>12, <1>13, StepCases

\* Whoever wrote a row last was entitled to its owner's credentials, however
\* the reads that checked it and the write interleaved with other requests.
THEOREM RowsAuthorised == Spec => []AuthorisedRows
  BY TypeInit, TypeStep, ConsistentInit, ConsistentStep, PTL DEF Spec, Consistent

\* What a worker remembers of a row stays true where later steps rely on it,
\* for any number of workers that write the row in between.
THEOREM CopiesAlwaysValid == Spec => []CopiesValid
  BY TypeInit, TypeStep, ConsistentInit, ConsistentStep, PTL DEF Spec, Consistent

-----------------------------------------------------------------------------
(* Secrets                                                                 *)

Drawn == {hash_secret(s) : s \in 1 .. lastSecret}

\* Every secret stored or under way was generated before, which is what keeps
\* the next one different from all of them.
Secrets ==
    /\ SecretsUnique
    /\ \A i \in DOMAIN table : table[i].hash \in Drawn
    /\ \A p \in Workers : InFlight(p) => job[p].rec.hash \in Drawn

\* A secret that was just generated is new.
LEMMA FreshHash ==
    ASSUME TypeOK, DrawSecret
    PROVE  /\ hash_secret(NextSecret) \notin Drawn
           /\ hash_secret(NextSecret) \in Drawn'
           /\ Drawn \subseteq Drawn'
  <1>1. /\ lastSecret \in Nat
        /\ lastSecret' = lastSecret + 1
        /\ NextSecret = lastSecret + 1
    BY ConstantsAssumption DEF TypeOK, DrawSecret, NextSecret
  <1>2. \A s \in 1 .. lastSecret : hash_secret(s) # hash_secret(NextSecret)
    BY <1>1 DEF hash_secret
  <1> QED BY <1>1, <1>2 DEF Drawn

\* A worker that has no secret to store after the step cannot disturb Secrets
\* as long as the table keeps its rows or loses some.
LEMMA SecretsFrame ==
    ASSUME Secrets, NEW p \in Workers,
           \A q \in Workers \ {p} : job'[q] = job[q],
           ~InFlight(p)',
           DOMAIN table' \subseteq DOMAIN table,
           \A i \in DOMAIN table' : table'[i] = table[i],
           Drawn \subseteq Drawn'
    PROVE  Secrets'
  <1>1. \A q \in Workers : InFlight(q)' => InFlight(q) /\ job'[q] = job[q]
    BY DEF InFlight, At
  <1> QED BY <1>1 DEF Secrets, SecretsUnique

\* A worker that takes a new secret in hand keeps Secrets.
LEMMA SecretsTaken ==
    ASSUME Secrets, NEW p \in Workers,
           \A q \in Workers \ {p} : job'[q] = job[q],
           job'[p].rec.hash \notin Drawn,
           job'[p].rec.hash \in Drawn',
           table' = table,
           Drawn \subseteq Drawn'
    PROVE  Secrets'
  <1>1. \A q \in Workers \ {p} : InFlight(q)' => InFlight(q) /\ job'[q] = job[q]
    BY DEF InFlight, At
  <1> QED BY <1>1 DEF Secrets, SecretsUnique

\* A worker that stores its secret, in a row of its own or over another, keeps
\* Secrets.
LEMMA SecretsStored ==
    ASSUME Secrets, NEW p \in Workers, InFlight(p), ~InFlight(p)',
           \A q \in Workers \ {p} : job'[q] = job[q],
           NEW k,
           \A i \in DOMAIN table' : IF i = k THEN table'[i] = job[p].rec
                                     ELSE i \in DOMAIN table /\ table'[i] = table[i],
           Drawn' = Drawn
    PROVE  Secrets'
  <1>1. \A q \in Workers : InFlight(q)' => InFlight(q) /\ job'[q] = job[q] /\ q # p
    BY DEF InFlight, At
  <1>2. \A i \in DOMAIN table' : table'[i].hash \in Drawn'
    BY DEF Secrets
  <1>3. \A i, j \in DOMAIN table' : table'[i].hash = table'[j].hash => i = j
    BY DEF Secrets, SecretsUnique
  <1>4. \A q \in Workers : InFlight(q)' =>
           /\ job'[q].rec.hash \in Drawn'
           /\ \A i \in DOMAIN table' : table'[i].hash # job'[q].rec.hash
           /\ \A r \in Workers : InFlight(r)' /\ job'[r].rec.hash = job'[q].rec.hash
                                    => q = r
    BY <1>1 DEF Secrets, SecretsUnique
  <1> QED BY <1>2, <1>3, <1>4 DEF Secrets, SecretsUnique

LEMMA SecretsInit == Init => Secrets
  BY DEF Init, Secrets, SecretsUnique, InFlight, At

LEMMA SecretsStep == TypeOK /\ Secrets /\ [Next]_vars => Secrets'
  <1> SUFFICES ASSUME TypeOK, Secrets, [Next]_vars PROVE Secrets'
    OBVIOUS
  <1> DEFINE Others(p) == \A q \in Workers \ {p} : job'[q] = job[q]
  <1>1. ASSUME NEW p \in Workers, NEW status, Answer(p, status),
               table' = table, Drawn \subseteq Drawn'
        PROVE  Secrets'
    <2>1. job'[p] = [step |-> "idle", status |-> status] /\ Others(p)
      BY <1>1 DEF TypeOK, Answer
    <2>2. ~InFlight(p)'
      BY <2>1 DEF InFlight, At
    <2> QED BY <1>1, <2>1, <2>2, SecretsFrame
  <1>2. ASSUME NEW p \in Workers, NEW actor \in Users, NEW owner \in Users,
               \/ CreateRefused(p, actor, owner)
               \/ CreateConflict(p, actor, owner)
        PROVE  Secrets'
    BY <1>1, <1>2, FreshHash DEF CreateRefused, CreateConflict, Drawn
  <1>3. ASSUME NEW p \in Workers, NEW actor \in Users, NEW owner \in Users,
               NEW expires \in Expiries, CreateAccepted(p, actor, owner, expires)
        PROVE  Secrets'
    <2>1. job'[p].rec.hash = hash_secret(NextSecret) /\ Others(p)
      BY <1>3 DEF CreateAccepted, Continue, TypeOK
    <2> QED BY <1>3, <2>1, FreshHash, SecretsTaken DEF CreateAccepted
  <1>4. ASSUME NEW p \in Workers, NEW c \in Clients, NotFound(p, c)
        PROVE  Secrets'
    BY <1>1, <1>4 DEF NotFound, Drawn
  <1>5. ASSUME NEW p \in Workers, NEW actor \in Users, NEW i \in DOMAIN table,
               Refused(p, actor, i)
        PROVE  Secrets'
    BY <1>1, <1>5 DEF Refused, Drawn
  <1>6. ASSUME NEW p \in Workers, NEW actor \in Users, NEW i \in DOMAIN table,
               NEW expires \in Expiries, RegenerateInvalid(p, actor, i, expires)
        PROVE  Secrets'
    BY <1>1, <1>6 DEF RegenerateInvalid, Drawn
  <1>7. ASSUME NEW p \in Workers, NEW actor \in Users, NEW i \in DOMAIN table,
               NEW expires \in Expiries, RegenerateRead(p, actor, i, expires)
        PROVE  Secrets'
    <2>1. table[i] \in Row
      BY DEF TypeOK
    <2>2. job'[p].rec.hash = hash_secret(NextSecret) /\ Others(p)
      BY <1>7, <2>1 DEF RegenerateRead, Continue, TypeOK, Row
    <2> QED BY <1>7, <2>2, FreshHash, SecretsTaken DEF RegenerateRead
  <1>8. ASSUME NEW p \in Workers, NEW actor \in Users, NEW i \in DOMAIN table,
               RevokeRead(p, actor, i)
        PROVE  Secrets'
    <2>1. job'[p].step = "delete" /\ Others(p)
      BY <1>8 DEF RevokeRead, Continue, TypeOK
    <2>2. ~InFlight(p)'
      BY <2>1 DEF InFlight, At
    <2> QED BY <1>8, <2>1, <2>2, SecretsFrame DEF RevokeRead, Drawn
  <1>9. ASSUME NEW p \in Workers, InsertRow(p)
        PROVE  Secrets'
    <2>1. InFlight(p) /\ job'[p].step = "created" /\ Others(p)
      BY <1>9 DEF InsertRow, InFlight, Continue, TypeOK
    <2>2. ~InFlight(p)'
      BY <2>1 DEF InFlight, At
    <2>3. \A i \in DOMAIN table' : IF i = lastId + 1 THEN table'[i] = job[p].rec
                                    ELSE i \in DOMAIN table /\ table'[i] = table[i]
      BY <1>9 DEF InsertRow
    <2> QED BY <1>9, <2>1, <2>2, <2>3, SecretsStored DEF InsertRow, Drawn
  <1>10. ASSUME NEW p \in Workers, UpdateRow(p)
         PROVE  Secrets'
    <2>1. InFlight(p) /\ job'[p].step = "updated" /\ Others(p)
      BY <1>10 DEF UpdateRow, InFlight, Continue, TypeOK
    <2>2. ~InFlight(p)'
      BY <2>1 DEF InFlight, At
    <2>3. \A i \in DOMAIN table' : IF i = job[p].id THEN table'[i] = job[p].rec
                                    ELSE i \in DOMAIN table /\ table'[i] = table[i]
      BY <1>10 DEF UpdateRow
    <2> QED BY <1>10, <2>1, <2>2, <2>3, SecretsStored DEF UpdateRow, Drawn
  <1>11. ASSUME NEW p \in Workers, DeleteRow(p)
         PROVE  Secrets'
    <2>1. job'[p].step = "deleted" /\ Others(p)
      BY <1>11 DEF DeleteRow, Continue, TypeOK
    <2>2. ~InFlight(p)'
      BY <2>1 DEF InFlight, At
    <2> QED BY <1>11, <2>1, <2>2, SecretsFrame DEF DeleteRow, Drawn
  <1>12. ASSUME NEW p \in Workers, Notify(p) \/ Crash(p) PROVE Secrets'
    BY <1>1, <1>12 DEF Notify, Crash, Drawn
  <1>13. CASE Tick \/ UNCHANGED vars
    BY <1>13 DEF Tick, vars, Secrets, SecretsUnique, InFlight, At, Drawn
  <1> QED BY <1>2, <1>3, <1>4, <1>5, <1>6, <1>7, <1>8, <1>9, <1>10, <1>11, <1>12,
             <1>13, StepCases

\* No two rows ever share a secret, and no insert or update can run into the
\* unique index on (secret_hash, client_id).
THEOREM SecretsAlwaysUnique == Spec => []SecretsUnique
  BY TypeInit, TypeStep, SecretsInit, SecretsStep, PTL DEF Spec, Secrets

-----------------------------------------------------------------------------
(* Duplicate rows                                                          *)

Bounded(c) ==
    Cardinality(RowsOf(c)) + Cardinality(Inserting(c)) <= Cardinality(Workers)

LEMMA BoundedClients == DuplicatesBounded <=> \A c \in Clients : Bounded(c)
  BY DEF DuplicatesBounded, Bounded, RowsOf

\* The sets that DuplicatesBounded counts are finite.
LEMMA CountedFinite ==
    ASSUME TypeOK, NEW c
    PROVE  /\ IsFiniteSet(RowsOf(c))
           /\ IsFiniteSet(Inserting(c))
           /\ Cardinality(RowsOf(c)) \in Nat
           /\ Cardinality(Inserting(c)) \in Nat
           /\ Cardinality(Inserting(c)) <= Cardinality(Workers)
           /\ Cardinality(Workers) \in Nat
  <1>1. IsFiniteSet(1 .. lastId)
    <2>1. 1 \in Int /\ lastId \in Int
      BY ConstantsAssumption DEF TypeOK
    <2> QED BY <2>1, FS_Interval
  <1>2. RowsOf(c) \in SUBSET (1 .. lastId)
    BY DEF RowsOf, TypeOK
  <1>3. Inserting(c) \in SUBSET Workers
    BY DEF Inserting
  <1>4. IsFiniteSet(RowsOf(c))
    BY <1>1, <1>2, FS_Subset
  <1>5. IsFiniteSet(Inserting(c)) /\ Cardinality(Inserting(c)) <= Cardinality(Workers)
    BY <1>3, FS_Subset, ConstantsAssumption
  <1> QED BY <1>4, <1>5, FS_CardinalityType, ConstantsAssumption

\* Losing rows or inserts under way keeps the bound.
LEMMA BoundedShrinks ==
    ASSUME TypeOK, TypeOK', NEW c, Bounded(c),
           RowsOf(c)' \subseteq RowsOf(c), Inserting(c)' \subseteq Inserting(c)
    PROVE  Bounded(c)'
  <1>1. Cardinality(RowsOf(c)') <= Cardinality(RowsOf(c))
    BY CountedFinite, FS_Subset
  <1>2. Cardinality(Inserting(c)') <= Cardinality(Inserting(c))
    BY CountedFinite, FS_Subset
  <1>3. /\ Cardinality(RowsOf(c)) \in Nat /\ Cardinality(Inserting(c)) \in Nat
        /\ Cardinality(RowsOf(c)') \in Nat /\ Cardinality(Inserting(c)') \in Nat
        /\ Cardinality(Workers) \in Nat
    <2>1. IsFiniteSet(RowsOf(c)) /\ IsFiniteSet(Inserting(c))
      BY CountedFinite
    <2>2. RowsOf(c)' \in SUBSET RowsOf(c) /\ Inserting(c)' \in SUBSET Inserting(c)
      OBVIOUS
    <2>3. IsFiniteSet(RowsOf(c)') /\ IsFiniteSet(Inserting(c)')
      BY <2>1, <2>2, FS_Subset
    <2> QED BY <2>1, <2>3, FS_CardinalityType, CountedFinite
  <1> QED BY <1>1, <1>2, <1>3 DEF Bounded

LEMMA BoundedInit == Init => DuplicatesBounded
  <1> SUFFICES ASSUME Init, NEW c \in Clients PROVE Bounded(c)
    BY BoundedClients
  <1>1. RowsOf(c) = {} /\ Inserting(c) = {}
    BY DEF Init, RowsOf, Inserting, At
  <1> QED BY <1>1, FS_EmptySet, FS_CardinalityType, ConstantsAssumption DEF Bounded

LEMMA BoundedStep ==
    TypeOK /\ TypeOK' /\ Consistent /\ DuplicatesBounded /\ [Next]_vars
      => DuplicatesBounded'
  <1> SUFFICES ASSUME TypeOK, TypeOK', Consistent, NEW c \in Clients, Bounded(c),
                      [Next]_vars
               PROVE  Bounded(c)'
    BY BoundedClients DEF DuplicatesBounded, Bounded, RowsOf
  <1>1. ASSUME NEW p \in Workers, NEW status, Answer(p, status), table' = table
        PROVE  Bounded(c)'
    <2>1. Inserting(c)' \subseteq Inserting(c)
      BY <1>1 DEF TypeOK, Answer, Inserting, At
    <2> QED BY <1>1, <2>1, BoundedShrinks DEF RowsOf
  <1>2. ASSUME NEW p \in Workers, NEW actor, NEW step, step # "insert",
               NEW id, NEW rec, Continue(p, actor, step, id, rec),
               RowsOf(c)' \subseteq RowsOf(c)
        PROVE  Bounded(c)'
    <2>1. Inserting(c)' \subseteq Inserting(c)
      BY <1>2 DEF TypeOK, Continue, Inserting, At
    <2> QED BY <1>2, <2>1, BoundedShrinks
  <1>3. ASSUME NEW p \in Workers, NEW actor \in Users, NEW owner \in Users,
               \/ CreateRefused(p, actor, owner)
               \/ CreateConflict(p, actor, owner)
        PROVE  Bounded(c)'
    BY <1>1, <1>3 DEF CreateRefused, CreateConflict
  <1>4. ASSUME NEW p \in Workers, NEW actor \in Users, NEW owner \in Users,
               NEW expires \in Expiries, CreateAccepted(p, actor, owner, expires)
        PROVE  Bounded(c)'
    <2>1. CASE ClientOf[owner] = c
      <3>1. RowsOf(c)' = {}
        BY <1>4, <2>1 DEF CreateAccepted, HasRow, RowsOf
      <3>2. Cardinality(Inserting(c)') <= Cardinality(Workers)
        <4>1. Inserting(c)' \in SUBSET Workers
          BY DEF Inserting
        <4> QED BY <4>1, FS_Subset, ConstantsAssumption
      <3>3. Cardinality(Inserting(c)') \in Nat /\ Cardinality(Workers) \in Nat
        <4>1. IsFiniteSet(Inserting(c)')
          <5>1. Inserting(c)' \in SUBSET Workers
            BY DEF Inserting
          <5> QED BY <5>1, FS_Subset, ConstantsAssumption
        <4> QED BY <4>1, FS_CardinalityType, ConstantsAssumption
      <3> QED BY <3>1, <3>2, <3>3, FS_EmptySet DEF Bounded
    <2>2. CASE ClientOf[owner] # c
      <3>1. job'[p].rec.client # c /\ \A q \in Workers \ {p} : job'[q] = job[q]
        BY <1>4, <2>2 DEF CreateAccepted, Continue, TypeOK
      <3>2. Inserting(c)' \subseteq Inserting(c)
        BY <3>1 DEF Inserting, At
      <3> QED BY <1>4, <3>2, BoundedShrinks DEF CreateAccepted, RowsOf
    <2> QED BY <2>1, <2>2
  <1>5. ASSUME NEW p \in Workers, NEW d \in Clients, NotFound(p, d)
        PROVE  Bounded(c)'
    BY <1>1, <1>5 DEF NotFound
  <1>6. ASSUME NEW p \in Workers, NEW actor \in Users, NEW i \in DOMAIN table,
               Refused(p, actor, i)
        PROVE  Bounded(c)'
    BY <1>1, <1>6 DEF Refused
  <1>7. ASSUME NEW p \in Workers, NEW actor \in Users, NEW i \in DOMAIN table,
               NEW expires \in Expiries,
               \/ RegenerateInvalid(p, actor, i, expires)
               \/ RegenerateRead(p, actor, i, expires)
        PROVE  Bounded(c)'
    BY <1>1, <1>2, <1>7 DEF RegenerateInvalid, RegenerateRead, RowsOf
  <1>8. ASSUME NEW p \in Workers, NEW actor \in Users, NEW i \in DOMAIN table,
               RevokeRead(p, actor, i)
        PROVE  Bounded(c)'
    BY <1>2, <1>8 DEF RevokeRead, RowsOf
  <1>9. ASSUME NEW p \in Workers, InsertRow(p)
        PROVE  Bounded(c)'
    <2> DEFINE id == lastId + 1
    <2>1. /\ At(p, "insert")
          /\ \A q \in Workers \ {p} : job'[q] = job[q]
          /\ job'[p].step = "created"
      BY <1>9 DEF InsertRow, Continue, TypeOK
    <2>2. Inserting(c)' = Inserting(c) \ {p}
      BY <2>1 DEF Inserting, At
    <2>3. id \notin DOMAIN table
      BY ConstantsAssumption DEF TypeOK
    <2>4. CASE job[p].rec.client # c
      <3>1. RowsOf(c)' \subseteq RowsOf(c)
        BY <1>9, <2>4 DEF InsertRow, RowsOf
      <3> QED BY <2>2, <3>1, BoundedShrinks
    <2>5. CASE job[p].rec.client = c
      <3>1. RowsOf(c)' = RowsOf(c) \cup {id}
        BY <1>9, <2>3, <2>5 DEF InsertRow, RowsOf
      <3>2. p \in Inserting(c) /\ id \notin RowsOf(c)
        BY <2>1, <2>3, <2>5 DEF Inserting, RowsOf
      <3>3. Cardinality(RowsOf(c)') = Cardinality(RowsOf(c)) + 1
        BY <3>1, <3>2, CountedFinite, FS_AddElement
      <3>4. Cardinality(Inserting(c)') = Cardinality(Inserting(c)) - 1
        BY <2>2, <3>2, CountedFinite, FS_RemoveElement
      <3> QED BY <3>3, <3>4, CountedFinite DEF Bounded
    <2> QED BY <2>4, <2>5
  <1>10. ASSUME NEW p \in Workers, UpdateRow(p)
         PROVE  Bounded(c)'
    <2>1. CopyValid(p) /\ job[p].step = "update"
      BY <1>10 DEF UpdateRow, At, Consistent, CopiesValid
    <2>2. \A i \in DOMAIN table' : i \in DOMAIN table /\ table'[i].client = table[i].client
      BY <1>10, <2>1 DEF UpdateRow, CopyValid, Consistent, AuthorisedRows
    <2>3. RowsOf(c)' \subseteq RowsOf(c)
      BY <2>2 DEF RowsOf
    <2> QED BY <1>2, <1>10, <2>3 DEF UpdateRow
  <1>11. ASSUME NEW p \in Workers, DeleteRow(p)
         PROVE  Bounded(c)'
    <2>1. RowsOf(c)' \subseteq RowsOf(c)
      BY <1>11 DEF DeleteRow, RowsOf
    <2> QED BY <1>2, <1>11, <2>1 DEF DeleteRow
  <1>12. ASSUME NEW p \in Workers, Notify(p) \/ Crash(p) PROVE Bounded(c)'
    BY <1>1, <1>12 DEF Notify, Crash
  <1>13. CASE Tick \/ UNCHANGED vars
    BY <1>13, BoundedShrinks DEF Tick, vars, RowsOf, Inserting, At
  <1> QED BY <1>3, <1>4, <1>5, <1>6, <1>7, <1>8, <1>9, <1>10, <1>11, <1>12, <1>13,
             StepCases

\* A client never has more rows than there are workers.
THEOREM DuplicatesAlwaysBounded == Spec => []DuplicatesBounded
  BY TypeInit, TypeStep, ConsistentInit, ConsistentStep, BoundedInit, BoundedStep,
     PTL DEF Spec

\* Served one at a time, requests keep one row per client.
THEOREM SerialUnique ==
    ASSUME Cardinality(Workers) = 1
    PROVE  Spec => []OneRowPerClient
  <1>1. TypeOK /\ Consistent /\ DuplicatesBounded => OneRowPerClient
    <2> SUFFICES ASSUME TypeOK, Consistent, DuplicatesBounded,
                        NEW i \in DOMAIN table, NEW j \in DOMAIN table,
                        table[i].client = table[j].client, i # j
                 PROVE  FALSE
      BY DEF OneRowPerClient
    <2> DEFINE c == table[i].client
    <2>1. c \in Clients
      BY DEF TypeOK, Row
    <2>2. Bounded(c)
      BY <2>1, BoundedClients
    <2>3. Cardinality(RowsOf(c)) <= 1
      BY <2>2, CountedFinite DEF Bounded
    <2>4. {i, j} \in SUBSET RowsOf(c)
      BY DEF RowsOf
    <2>5. Cardinality({i, j}) = 2
      <3>1. {i, j} = {i} \cup {j} /\ j \notin {i}
        OBVIOUS
      <3>2. IsFiniteSet({i}) /\ Cardinality({i}) = 1
        BY FS_Singleton
      <3>3. Cardinality({i} \cup {j}) = Cardinality({i}) + 1
        BY <3>1, <3>2, FS_AddElement
      <3> QED BY <3>1, <3>2, <3>3
    <2>6. Cardinality({i, j}) <= Cardinality(RowsOf(c))
      BY <2>4, CountedFinite, FS_Subset
    <2> QED BY <2>3, <2>5, <2>6, CountedFinite
  <1> QED BY <1>1, TypeInit, TypeStep, ConsistentInit, ConsistentStep, BoundedInit,
             BoundedStep, PTL DEF Spec

-----------------------------------------------------------------------------
(* The trail of events                                                     *)

\* A worker that has no event to trigger after the step leaves the trail as it
\* is, once the event it had is logged or lost.
LEMMA TrailSame ==
    ASSUME NEW p \in Workers,
           \A q \in Workers \ {p} : job'[q] = job[q],
           ~Written(p)',
           log' \cup lost' = log \cup lost \cup
                              (IF Written(p) THEN {PendingEvent(p)} ELSE {})
    PROVE  Trail' = Trail
  <1>1. \A q \in Workers : Written(q)' => Written(q) /\ q # p
    BY DEF Written
  <1>2. \A q \in Workers : Written(q) /\ q # p => Written(q)'
    BY DEF Written
  <1>3. \A q \in Workers : q # p => PendingEvent(q)' = PendingEvent(q)
    BY DEF PendingEvent
  <1>4. Pending' = {PendingEvent(q) : q \in {r \in Workers : Written(r) /\ r # p}}
    BY <1>1, <1>2, <1>3 DEF Pending
  <1>5. Pending = Pending' \cup (IF Written(p) THEN {PendingEvent(p)} ELSE {})
    BY <1>4 DEF Pending
  <1> QED BY <1>5 DEF Trail

\* A worker that has just written adds its event to the trail.
LEMMA TrailAdds ==
    ASSUME NEW p \in Workers,
           \A q \in Workers \ {p} : job'[q] = job[q],
           ~Written(p), Written(p)', UNCHANGED <<log, lost>>
    PROVE  Trail' = Trail \cup {PendingEvent(p)'}
  <1>1. \A q \in Workers : q # p => /\ PendingEvent(q)' = PendingEvent(q)
                                    /\ Written(q)' <=> Written(q)
    BY DEF PendingEvent, Written
  <1>2. Pending' = Pending \cup {PendingEvent(p)'}
    BY <1>1 DEF Pending
  <1> QED BY <1>2 DEF Trail

LEMMA TrailFrame ==
    ASSUME TrailExplainsTable, Trail' = Trail, UNCHANGED <<table, lastId>>
    PROVE  TrailExplainsTable'
  BY DEF TrailExplainsTable

LEMMA TrailInit == Init => TrailExplainsTable
  <1> SUFFICES ASSUME Init PROVE TrailExplainsTable
    OBVIOUS
  <1>1. Pending = {}
    BY DEF Init, Pending, Written
  <1> QED BY <1>1 DEF Init, TrailExplainsTable, Trail

LEMMA TrailStep ==
    TypeOK /\ Consistent /\ TrailExplainsTable /\ [Next]_vars => TrailExplainsTable'
  <1> SUFFICES ASSUME TypeOK, Consistent, TrailExplainsTable, [Next]_vars
               PROVE  TrailExplainsTable'
    OBVIOUS
  <1> DEFINE Others(p) == \A q \in Workers \ {p} : job'[q] = job[q]
  <1>1. ASSUME NEW p \in Workers, NEW status, Answer(p, status), At(p, "idle"),
               UNCHANGED <<table, lastId, log, lost>>
        PROVE  TrailExplainsTable'
    <2>1. ~Written(p) /\ ~Written(p)' /\ Others(p)
      BY <1>1 DEF TypeOK, Answer, At, Written
    <2> QED BY <1>1, <2>1, TrailSame, TrailFrame
  <1>2. ASSUME NEW p \in Workers, NEW actor, NEW step \in {"insert", "update", "delete"},
               NEW id, NEW rec, Continue(p, actor, step, id, rec), At(p, "idle"),
               UNCHANGED <<table, lastId, log, lost>>
        PROVE  TrailExplainsTable'
    <2>1. ~Written(p) /\ ~Written(p)' /\ Others(p)
      BY <1>2 DEF TypeOK, Continue, At, Written
    <2> QED BY <1>2, <2>1, TrailSame, TrailFrame
  <1>3. ASSUME NEW p \in Workers, NEW actor \in Users, NEW owner \in Users,
               \/ CreateRefused(p, actor, owner)
               \/ CreateConflict(p, actor, owner)
        PROVE  TrailExplainsTable'
    BY <1>1, <1>3 DEF CreateRefused, CreateConflict
  <1>4. ASSUME NEW p \in Workers, NEW actor \in Users, NEW owner \in Users,
               NEW expires \in Expiries, CreateAccepted(p, actor, owner, expires)
        PROVE  TrailExplainsTable'
    BY <1>2, <1>4 DEF CreateAccepted
  <1>5. ASSUME NEW p \in Workers, NEW c \in Clients, NotFound(p, c)
        PROVE  TrailExplainsTable'
    BY <1>1, <1>5 DEF NotFound
  <1>6. ASSUME NEW p \in Workers, NEW actor \in Users, NEW i \in DOMAIN table,
               Refused(p, actor, i)
        PROVE  TrailExplainsTable'
    BY <1>1, <1>6 DEF Refused
  <1>7. ASSUME NEW p \in Workers, NEW actor \in Users, NEW i \in DOMAIN table,
               NEW expires \in Expiries,
               \/ RegenerateInvalid(p, actor, i, expires)
               \/ RegenerateRead(p, actor, i, expires)
        PROVE  TrailExplainsTable'
    BY <1>1, <1>2, <1>7 DEF RegenerateInvalid, RegenerateRead
  <1>8. ASSUME NEW p \in Workers, NEW actor \in Users, NEW i \in DOMAIN table,
               RevokeRead(p, actor, i)
        PROVE  TrailExplainsTable'
    BY <1>2, <1>8 DEF RevokeRead
  <1>9. ASSUME NEW p \in Workers, InsertRow(p)
        PROVE  TrailExplainsTable'
    <2> DEFINE id == lastId + 1
               e  == PendingEvent(p)'
    <2>1. /\ At(p, "insert") /\ CopyValid(p)
          /\ job[p].rec.by = job[p].actor
      BY <1>9 DEF InsertRow, At, Consistent, CopiesValid, CopyValid
    <2>2. /\ job'[p] = [actor |-> job[p].actor, step |-> "created", id |-> id,
                        rec |-> job[p].rec]
          /\ Others(p)
      BY <1>9 DEF InsertRow, Continue, TypeOK
    <2>3. ~Written(p) /\ Written(p)'
      BY <2>1, <2>2 DEF Written, At
    <2>4. Trail' = Trail \cup {e}
      BY <1>9, <2>2, <2>3, TrailAdds DEF InsertRow
    <2>5. /\ e.kind = "created" /\ e.id = id
          /\ e.by = job[p].rec.by /\ e.hash = job[p].rec.hash
          /\ e.related = job[p].rec.user
      BY <2>1, <2>2 DEF PendingEvent
    <2> HIDE DEF e
    <2>6. /\ DOMAIN table' = DOMAIN table \cup {id}
          /\ table'[id] = job[p].rec
          /\ \A i \in DOMAIN table : i # id /\ table'[i] = table[i]
          /\ lastId' = id
          /\ 1 .. lastId' = (1 .. lastId) \cup {id}
          /\ id \notin 1 .. lastId
      BY <1>9, ConstantsAssumption DEF InsertRow, TypeOK
    <2> QED BY <2>4, <2>5, <2>6 DEF TrailExplainsTable
  <1>10. ASSUME NEW p \in Workers, UpdateRow(p)
         PROVE  TrailExplainsTable'
    <2> DEFINE e == PendingEvent(p)'
    <2>1. /\ At(p, "update") /\ CopyValid(p)
          /\ job[p].rec.by = job[p].actor
      BY <1>10 DEF UpdateRow, At, Consistent, CopiesValid, CopyValid
    <2>2. /\ job'[p] = [actor |-> job[p].actor, step |-> "updated", id |-> job[p].id,
                        rec |-> job[p].rec]
          /\ Others(p)
      BY <1>10 DEF UpdateRow, Continue, TypeOK
    <2>3. ~Written(p) /\ Written(p)'
      BY <2>1, <2>2 DEF Written, At
    <2>4. Trail' = Trail \cup {e}
      BY <1>10, <2>2, <2>3, TrailAdds DEF UpdateRow
    <2>5. /\ e.kind = "updated" /\ e.id = job[p].id
          /\ e.by = job[p].rec.by /\ e.hash = job[p].rec.hash
          /\ e.related = job[p].rec.user
      BY <2>1, <2>2 DEF PendingEvent
    <2> HIDE DEF e
    <2>6. /\ DOMAIN table' = DOMAIN table
          /\ lastId' = lastId
          /\ \A i \in DOMAIN table :
                table'[i] = IF i = job[p].id THEN job[p].rec ELSE table[i]
      BY <1>10 DEF UpdateRow
    <2> QED BY <2>4, <2>5, <2>6 DEF TrailExplainsTable
  <1>11. ASSUME NEW p \in Workers, DeleteRow(p)
         PROVE  TrailExplainsTable'
    <2> DEFINE e == PendingEvent(p)'
    <2>1. At(p, "delete") /\ job[p].id \in 1 .. lastId
      BY <1>11 DEF DeleteRow, At, Consistent, CopiesValid, CopyValid
    <2>2. /\ job'[p] = [actor |-> job[p].actor, step |-> "deleted", id |-> job[p].id,
                        rec |-> job[p].rec]
          /\ Others(p)
      BY <1>11 DEF DeleteRow, Continue, TypeOK
    <2>3. ~Written(p) /\ Written(p)'
      BY <2>1, <2>2 DEF Written, At
    <2>4. Trail' = Trail \cup {e}
      BY <1>11, <2>2, <2>3, TrailAdds DEF DeleteRow
    <2>5. e.kind = "deleted" /\ e.id = job[p].id
      BY <2>2 DEF PendingEvent
    <2> HIDE DEF e
    <2>6. /\ DOMAIN table' = DOMAIN table \ {job[p].id}
          /\ lastId' = lastId
          /\ \A i \in DOMAIN table' : table'[i] = table[i]
      BY <1>11 DEF DeleteRow
    <2> QED BY <2>1, <2>4, <2>5, <2>6 DEF TrailExplainsTable
  <1>12. ASSUME NEW p \in Workers, Notify(p) \/ Crash(p)
         PROVE  TrailExplainsTable'
    <2>1. ~Written(p)' /\ Others(p)
      BY <1>12 DEF Notify, Crash, Answer, TypeOK, Written
    <2>2. log' \cup lost' = log \cup lost \cup
                            (IF Written(p) THEN {PendingEvent(p)} ELSE {})
      BY <1>12 DEF Notify, Crash
    <2>3. UNCHANGED <<table, lastId>>
      BY <1>12 DEF Notify, Crash
    <2> QED BY <2>1, <2>2, <2>3, TrailSame, TrailFrame
  <1>13. CASE Tick \/ UNCHANGED vars
    BY <1>13, TrailFrame DEF Tick, vars, Trail, Pending, PendingEvent, Written
  <1> QED BY <1>3, <1>4, <1>5, <1>6, <1>7, <1>8, <1>9, <1>10, <1>11, <1>12, <1>13,
             StepCases

\* In every reachable state the events logged, about to be triggered or lost
\* with a worker account for every row that is there and for every row that
\* is not.
THEOREM TrailAlwaysExplains == Spec => []TrailExplainsTable
  BY TypeInit, TypeStep, ConsistentInit, ConsistentStep, TrailInit, TrailStep,
     PTL DEF Spec

-----------------------------------------------------------------------------
(* Revocation                                                              *)

LEMMA RowsStayStep ==
    ASSUME TypeOK, Consistent, [Next]_vars
    PROVE  [RowsStay]_vars
  <1>1. ASSUME table' = table
        PROVE  RowsStay
    BY <1>1 DEF RowsStay
  <1>2. ASSUME NEW p \in Workers, InsertRow(p)
        PROVE  RowsStay
    <2>1. /\ DOMAIN table' = DOMAIN table \cup {lastId + 1}
          /\ lastId + 1 \notin 1 .. lastId
          /\ \A i \in DOMAIN table :
                i # lastId + 1 /\ table'[i] = table[i]
          /\ table'[lastId + 1] = job[p].rec
          /\ InFlight(p)
      BY <1>2, ConstantsAssumption DEF InsertRow, TypeOK, InFlight
    <2> QED BY <2>1 DEF RowsStay
  <1>3. ASSUME NEW p \in Workers, UpdateRow(p)
        PROVE  RowsStay
    <2>1. CopyValid(p) /\ InFlight(p) /\ job[p].step = "update"
      BY <1>3 DEF UpdateRow, At, Consistent, CopiesValid, InFlight
    <2>2. /\ DOMAIN table' = DOMAIN table
          /\ \A i \in DOMAIN table :
                table'[i] = IF i = job[p].id THEN job[p].rec ELSE table[i]
      BY <1>3 DEF UpdateRow
    <2>3. \A i \in DOMAIN table : i = job[p].id =>
            job[p].rec.user = table[i].user /\ job[p].rec.client = table[i].client
      BY <2>1 DEF CopyValid, Consistent, AuthorisedRows
    <2> QED BY <2>1, <2>2, <2>3 DEF RowsStay
  <1>4. ASSUME NEW p \in Workers, DeleteRow(p)
        PROVE  RowsStay
    BY <1>4 DEF DeleteRow, RowsStay
  <1>5. ASSUME NEW p \in Workers, NEW actor \in Users, NEW owner \in Users,
               \/ CreateRefused(p, actor, owner)
               \/ CreateConflict(p, actor, owner)
               \/ \E expires \in Expiries : CreateAccepted(p, actor, owner, expires)
        PROVE  table' = table
    BY <1>5 DEF CreateRefused, CreateConflict, CreateAccepted
  <1>6. ASSUME NEW p \in Workers, NEW actor \in Users, NEW i \in DOMAIN table,
               \/ Refused(p, actor, i)
               \/ RevokeRead(p, actor, i)
               \/ \E expires \in Expiries : RegenerateInvalid(p, actor, i, expires)
               \/ \E expires \in Expiries : RegenerateRead(p, actor, i, expires)
        PROVE  table' = table
    BY <1>6 DEF Refused, RevokeRead, RegenerateInvalid, RegenerateRead
  <1>7. ASSUME NEW p \in Workers,
               \/ \E c \in Clients : NotFound(p, c)
               \/ Notify(p) \/ Crash(p)
        PROVE  table' = table
    BY <1>7 DEF NotFound, Notify, Crash
  <1>8. ASSUME Tick \/ UNCHANGED vars
        PROVE  table' = table
    BY <1>8 DEF Tick, vars
  <1>9. CASE Next
    BY <1>1, <1>2, <1>3, <1>4, <1>5, <1>6, <1>7, <1>8, <1>9, StepCases
  <1> QED BY <1>1, <1>8, <1>9

\* What was revoked never comes back, and no replaced secret does.
THEOREM RevocationFinal == Spec => RevokedNeverReturns
  BY TypeInit, TypeStep, ConsistentInit, ConsistentStep, RowsStayStep,
     PTL DEF Spec, RevokedNeverReturns

-----------------------------------------------------------------------------
(* Updates that are lost                                                   *)

\* p stores its update in a row that is there.
LEMMA UpdateStores ==
    ASSUME TypeOK, NEW p \in Workers, At(p, "update"), job'[p].step = "updated", Next,
           job[p].id \in DOMAIN table
    PROVE  \E i \in DOMAIN table' : table'[i].hash = job[p].rec.hash
  <1>1. UpdateRow(p)
    <2>1. ASSUME NEW q \in Workers, NEW status, Answer(q, status) PROVE FALSE
      <3>1. job'[q].step = "idle" /\ (q # p => job'[p] = job[p])
        BY <2>1 DEF Answer, TypeOK
      <3> QED BY <3>1 DEF At
    <2>2. ASSUME NEW q \in Workers, q # p, NEW actor, NEW step, NEW id, NEW rec,
                 Continue(q, actor, step, id, rec)
          PROVE  FALSE
      BY <2>2, JobFrame DEF At
    <2>3. \A q \in Workers : InsertRow(q) \/ DeleteRow(q) => q # p
      BY DEF InsertRow, DeleteRow, At
    <2>4. ~\E q \in Workers : InsertRow(q) \/ DeleteRow(q) \/ Notify(q) \/ Crash(q)
      BY <2>1, <2>2, <2>3 DEF InsertRow, DeleteRow, Notify, Crash
    <2>5. \A q \in Workers : UpdateRow(q) => q = p
      BY <2>2 DEF UpdateRow
    <2>6. ASSUME NEW q \in Workers, NEW actor \in Users, NEW owner \in Users
          PROVE  /\ ~CreateRefused(q, actor, owner) /\ ~CreateConflict(q, actor, owner)
                 /\ \A expires \in Expiries : ~CreateAccepted(q, actor, owner, expires)
      <3>1. At(q, "idle") => q # p
        BY DEF At
      <3> QED BY <2>1, <2>2, <3>1 DEF CreateRefused, CreateConflict, CreateAccepted
    <2>7. ASSUME NEW q \in Workers, NEW actor \in Users, NEW i \in DOMAIN table
          PROVE  /\ ~Refused(q, actor, i) /\ ~RevokeRead(q, actor, i)
                 /\ \A expires \in Expiries : /\ ~RegenerateInvalid(q, actor, i, expires)
                                               /\ ~RegenerateRead(q, actor, i, expires)
      <3>1. At(q, "idle") => q # p
        BY DEF At
      <3> QED BY <2>1, <2>2, <3>1 DEF Refused, RevokeRead, RegenerateInvalid, RegenerateRead
    <2>8. ~\E q \in Workers, c \in Clients : NotFound(q, c)
      BY <2>1 DEF NotFound
    <2>9. ~Tick
      BY DEF Tick, At
    <2> QED BY <2>4, <2>5, <2>6, <2>7, <2>8, <2>9, StepCases
  <1>2. job[p].id \in DOMAIN table' /\ table'[job[p].id] = job[p].rec
    BY <1>1 DEF UpdateRow
  <1> QED BY <1>2

UpdateExplained ==
    \A p \in Workers :
       At(p, "update") /\ job'[p].step = "updated" =>
          \/ \E i \in DOMAIN table' : table'[i].hash = job[p].rec.hash
          \/ \E e \in Trail : e.kind = "deleted" /\ e.id = job[p].id

\* A PATCH that stores nothing, the flaw that UpdateTakesEffect is about, has
\* one cause: the row was deleted since it was read, and the trail says so
\* already when the update is made.
THEOREM LostUpdatesExplained == Spec => [][UpdateExplained]_<<table, job>>
  <1>1. TypeOK /\ Consistent /\ TrailExplainsTable /\ [Next]_vars
          => [UpdateExplained]_<<table, job>>
    <2> SUFFICES ASSUME TypeOK, Consistent, TrailExplainsTable, [Next]_vars,
                        NEW p \in Workers, At(p, "update"), job'[p].step = "updated"
                 PROVE  \/ \E i \in DOMAIN table' : table'[i].hash = job[p].rec.hash
                        \/ \E e \in Trail : e.kind = "deleted" /\ e.id = job[p].id
      BY DEF UpdateExplained
    <2>1. Next
      BY DEF vars, At
    <2>2. job[p].id \in 1 .. lastId
      BY DEF Consistent, CopiesValid, CopyValid, At
    <2>3. CASE job[p].id \in DOMAIN table
      BY <2>1, <2>3, UpdateStores
    <2>4. CASE job[p].id \notin DOMAIN table
      BY <2>2, <2>4 DEF TrailExplainsTable
    <2> QED BY <2>3, <2>4
  <1> QED BY <1>1, TypeInit, TypeStep, ConsistentInit, ConsistentStep, TrailInit, TrailStep,
             PTL DEF Spec

\* A row that is about to be updated is still there.
UpdatesHeld == \A p \in Workers : At(p, "update") => job[p].id \in DOMAIN table

LEMMA UpdatesHeldStep ==
    ASSUME NEW p \in Workers, Workers = {p}, TypeOK, UpdatesHeld, [Next]_vars
    PROVE  UpdatesHeld'
  <1> SUFFICES job'[p].step = "update" => job'[p].id \in DOMAIN table'
    BY DEF UpdatesHeld, At
  <1>1. ASSUME NEW status, Answer(p, status) PROVE job'[p].step # "update"
    <2>1. job'[p].step = "idle"
      BY <1>1 DEF Answer, TypeOK
    <2> QED BY <2>1
  <1>2. ASSUME NEW actor, NEW step, step # "update", NEW id, NEW rec,
               Continue(p, actor, step, id, rec)
        PROVE  job'[p].step # "update"
    <2>1. job'[p].step = step
      BY <1>2 DEF Continue, TypeOK
    <2> QED BY <1>2, <2>1
  <1>3. ASSUME NEW actor \in Users, NEW i \in DOMAIN table, NEW expires \in Expiries,
               RegenerateRead(p, actor, i, expires)
        PROVE  job'[p].id \in DOMAIN table'
    <2> DEFINE new == [table[i] EXCEPT !.hash = hash_secret(NextSecret),
                                       !.expires = expires, !.by = actor]
    <2>1. Continue(p, actor, "update", i, new) /\ table' = table
      BY <1>3 DEF RegenerateRead
    <2> HIDE DEF new
    <2>2. job'[p].id = i
      BY <2>1 DEF Continue, TypeOK
    <2> QED BY <2>1, <2>2
  <1>4. ASSUME NEW actor \in Users, NEW owner \in Users,
               \/ CreateRefused(p, actor, owner)
               \/ CreateConflict(p, actor, owner)
               \/ \E expires \in Expiries : CreateAccepted(p, actor, owner, expires)
        PROVE  job'[p].step # "update"
    BY <1>1, <1>2, <1>4 DEF CreateRefused, CreateConflict, CreateAccepted
  <1>5. ASSUME NEW actor \in Users, NEW i \in DOMAIN table,
               \/ Refused(p, actor, i) \/ RevokeRead(p, actor, i)
               \/ \E expires \in Expiries : RegenerateInvalid(p, actor, i, expires)
        PROVE  job'[p].step # "update"
    BY <1>1, <1>2, <1>5 DEF Refused, RevokeRead, RegenerateInvalid
  <1>6. ASSUME NEW c \in Clients, NotFound(p, c) PROVE job'[p].step # "update"
    BY <1>1, <1>6 DEF NotFound
  <1>7. CASE InsertRow(p) \/ UpdateRow(p) \/ DeleteRow(p)
    BY <1>2, <1>7 DEF InsertRow, UpdateRow, DeleteRow
  <1>8. CASE Notify(p) \/ Crash(p)
    BY <1>1, <1>8 DEF Notify, Crash
  <1>9. CASE UNCHANGED <<table, job>>
    BY <1>9 DEF UpdatesHeld, At
  <1>10. CASE Next
    BY <1>3, <1>4, <1>5, <1>6, <1>7, <1>8, <1>9, <1>10, StepCases DEF Tick
  <1> QED BY <1>9, <1>10 DEF vars

UpdateEffective ==
    \A p \in Workers :
       At(p, "update") /\ job'[p].step = "updated" =>
          \E i \in DOMAIN table' : table'[i].hash = job[p].rec.hash

\* Served one at a time, requests lose no update.
THEOREM SerialUpdates ==
    ASSUME Cardinality(Workers) = 1
    PROVE  Spec => UpdateTakesEffect
  <1>1. PICK w \in Workers : Workers = {w}
    BY FS_Singleton, ConstantsAssumption
  <1>2. Init => UpdatesHeld
    BY DEF Init, UpdatesHeld, At
  <1>3. TypeOK /\ UpdatesHeld /\ [Next]_vars => UpdatesHeld'
    BY <1>1, UpdatesHeldStep
  <1>4. TypeOK /\ UpdatesHeld /\ [Next]_vars =>
          [UpdateEffective]_<<table, job>>
    <2> SUFFICES ASSUME TypeOK, UpdatesHeld, [Next]_vars,
                        NEW p \in Workers, At(p, "update"), job'[p].step = "updated"
                 PROVE  \E i \in DOMAIN table' : table'[i].hash = job[p].rec.hash
      BY DEF UpdateEffective
    <2>1. Next
      BY DEF vars, At
    <2> QED BY <2>1, UpdateStores DEF UpdatesHeld
  <1>5. UpdateTakesEffect <=> [][UpdateEffective]_<<table, job>>
    BY DEF UpdateTakesEffect, UpdateEffective
  <1> QED BY <1>2, <1>3, <1>4, <1>5, TypeInit, TypeStep, PTL DEF Spec

-----------------------------------------------------------------------------
(* Refinement                                                              *)

storeLive    == [i \in DOMAIN table |->
                   [owner |-> table[i].user, secret |-> table[i].hash]]
storeRetired == (1 .. lastId) \ DOMAIN table
storeSpent   == Drawn \ {job[p].rec.hash : p \in {q \in Workers : InFlight(q)}}

\* How a step of one worker moves the spent secrets: not at all when it holds
\* none before and after it, nor when it takes a new one in hand; by the secret
\* it held when it stores it or gives it up.
LEMMA SpentSame ==
    ASSUME NEW p \in Workers, \A q \in Workers \ {p} : job'[q] = job[q],
           ~InFlight(p), ~InFlight(p)', lastSecret' = lastSecret
    PROVE  storeSpent' = storeSpent
  <1>1. \A q \in Workers : InFlight(q)' <=> InFlight(q)
    BY DEF InFlight, At
  <1>2. {job'[r].rec.hash : r \in {q \in Workers : InFlight(q)'}}
         = {job[r].rec.hash : r \in {q \in Workers : InFlight(q)}}
    BY <1>1
  <1> QED BY <1>2 DEF storeSpent, Drawn

LEMMA SpentTaken ==
    ASSUME Secrets, TypeOK, DrawSecret,
           NEW p \in Workers, \A q \in Workers \ {p} : job'[q] = job[q],
           ~InFlight(p), InFlight(p)', job'[p].rec.hash = hash_secret(NextSecret)
    PROVE  storeSpent' = storeSpent
  <1> DEFINE s == hash_secret(NextSecret)
  <1>1. Drawn' = Drawn \cup {s} /\ s \notin Drawn
    <2>1. 1 .. lastSecret' = (1 .. lastSecret) \cup {NextSecret}
      BY ConstantsAssumption DEF TypeOK, DrawSecret, NextSecret
    <2> QED BY <2>1, FreshHash DEF Drawn
  <1> HIDE DEF s
  <1>2. \A q \in Workers : InFlight(q)' <=> InFlight(q) \/ q = p
    BY DEF InFlight, At
  <1>3. {job'[r].rec.hash : r \in {q \in Workers : InFlight(q)'}}
         = {job[r].rec.hash : r \in {q \in Workers : InFlight(q)}} \cup {s}
    BY <1>2 DEF s
  <1> QED BY <1>1, <1>3 DEF storeSpent

LEMMA SpentReleased ==
    ASSUME Secrets, TypeOK,
           NEW p \in Workers, \A q \in Workers \ {p} : job'[q] = job[q],
           InFlight(p), ~InFlight(p)', lastSecret' = lastSecret
    PROVE  /\ storeSpent' = storeSpent \cup {job[p].rec.hash}
           /\ job[p].rec.hash \in Hashes \ storeSpent
  <1> DEFINE s == job[p].rec.hash
  <1>1. \A q \in Workers : InFlight(q)' <=> InFlight(q) /\ q # p
    BY DEF InFlight, At
  <1>2. s \in Drawn
    BY DEF Secrets
  <1>3. \A q \in Workers : InFlight(q) /\ q # p => job[q].rec.hash # s /\ job'[q] = job[q]
    BY DEF Secrets, SecretsUnique
  <1>4. s \in Hashes
    BY <1>2, ConstantsAssumption DEF Drawn, Hashes, TypeOK
  <1> QED BY <1>1, <1>2, <1>3, <1>4 DEF storeSpent, Drawn

\* A step that leaves the rows alone and draws no secret either discards the
\* secret its worker held or changes nothing.
LEMMA StoreAnswer ==
    ASSUME TypeOK, Secrets, NEW p \in Workers,
           \A q \in Workers \ {p} : job'[q] = job[q], ~InFlight(p)',
           UNCHANGED <<table, lastId, lastSecret>>
    PROVE  [Store!Next]_(Store!vars)
  <1>1. UNCHANGED <<storeLive, storeRetired>>
    BY DEF storeLive, storeRetired
  <1>2. CASE ~InFlight(p)
    <2>1. storeSpent' = storeSpent
      BY <1>2, SpentSame
    <2> QED BY <1>1, <2>1 DEF Store!vars, storeLive, storeRetired, storeSpent, Drawn
  <1>3. CASE InFlight(p)
    <2>1. PICK s \in Hashes : /\ storeSpent' = storeSpent \cup {s}
                              /\ s \notin storeSpent
      BY <1>3, SpentReleased
    <2>2. Store!Discard(s)
      BY <1>1, <2>1 DEF Store!Discard, storeLive, storeRetired,
         storeSpent, Drawn
    <2> QED BY <2>1, <2>2 DEF Store!Next, storeSpent, Drawn
  <1> QED BY <1>2, <1>3

LEMMA StoreInit == Init => Store!Init
  <1> SUFFICES ASSUME Init PROVE Store!Init
    OBVIOUS
  <1>1. lastId = 0 /\ lastSecret = 0 /\ DOMAIN table = {}
    BY DEF Init
  <1>2. (1 .. lastId) = {} /\ (1 .. lastSecret) = {}
    BY <1>1
  <1> QED BY <1>1, <1>2 DEF Store!Init

LEMMA StoreStep ==
    ASSUME TypeOK, Consistent, Secrets, [Next]_vars
    PROVE  [Store!Next]_(Store!vars)
  <1> DEFINE Others(p) == \A q \in Workers \ {p} : job'[q] = job[q]
  <1>1. ASSUME NEW p \in Workers, NEW status, Answer(p, status),
               UNCHANGED <<table, lastId, lastSecret>>
        PROVE  [Store!Next]_(Store!vars)
    <2>1. ~InFlight(p)' /\ Others(p)
      BY <1>1 DEF Answer, TypeOK, InFlight, At
    <2> QED BY <1>1, <2>1, StoreAnswer
  <1>2. ASSUME NEW p \in Workers, At(p, "idle"), DrawSecret, Others(p),
               InFlight(p)', job'[p].rec.hash = hash_secret(NextSecret),
               UNCHANGED <<table, lastId>>
        PROVE  [Store!Next]_(Store!vars)
    <2>1. ~InFlight(p)
      BY <1>2 DEF InFlight, At
    <2>2. storeSpent' = storeSpent
      BY <1>2, <2>1, SpentTaken
    <2>3. UNCHANGED <<storeLive, storeRetired>>
      BY <1>2 DEF storeLive, storeRetired
    <2> QED BY <2>2, <2>3 DEF Store!vars, storeLive, storeRetired, storeSpent, Drawn
  <1>3. ASSUME NEW p \in Workers, NEW actor \in Users, NEW owner \in Users,
               CreateRefused(p, actor, owner)
        PROVE  [Store!Next]_(Store!vars)
    BY <1>1, <1>3 DEF CreateRefused
  <1>4. ASSUME NEW p \in Workers, NEW actor \in Users, NEW owner \in Users,
               CreateConflict(p, actor, owner)
        PROVE  [Store!Next]_(Store!vars)
    <2>1. PICK s \in Hashes : s = hash_secret(NextSecret)
      BY <1>4, DrawnHash DEF CreateConflict
    <2>2. /\ \A q \in Workers : InFlight(q)' <=> InFlight(q)
          /\ Others(p) /\ ~InFlight(p)
      BY <1>4 DEF CreateConflict, Answer, TypeOK, InFlight, At
    <2>3. {job'[r].rec.hash : r \in {q \in Workers : InFlight(q)'}}
           = {job[r].rec.hash : r \in {q \in Workers : InFlight(q)}}
      BY <2>2
    <2>4. Drawn' = Drawn \cup {s} /\ s \notin Drawn
      <3>1. 1 .. lastSecret' = (1 .. lastSecret) \cup {NextSecret}
        BY <1>4, ConstantsAssumption DEF CreateConflict, TypeOK, DrawSecret, NextSecret
      <3> QED BY <1>4, <2>1, <3>1, FreshHash DEF CreateConflict, Drawn
    <2>5. \A q \in Workers : InFlight(q) => job[q].rec.hash # s
      BY <2>4 DEF Secrets
    <2>6. storeSpent' = storeSpent \cup {s} /\ s \notin storeSpent
      BY <2>3, <2>4, <2>5 DEF storeSpent
    <2>7. UNCHANGED <<storeLive, storeRetired>>
      BY <1>4 DEF CreateConflict, storeLive, storeRetired
    <2>8. Store!Discard(s)
      BY <2>6, <2>7 DEF Store!Discard, storeLive, storeRetired,
         storeSpent, Drawn
    <2> QED BY <2>6, <2>8 DEF Store!Next, storeSpent, Drawn
  <1>5. ASSUME NEW p \in Workers, NEW actor \in Users, NEW owner \in Users,
               NEW expires \in Expiries, CreateAccepted(p, actor, owner, expires)
        PROVE  [Store!Next]_(Store!vars)
    <2>1. /\ job'[p].rec.hash = hash_secret(NextSecret)
          /\ InFlight(p)' /\ Others(p)
      BY <1>5 DEF CreateAccepted, Continue, TypeOK, InFlight, At
    <2> QED BY <1>2, <1>5, <2>1 DEF CreateAccepted
  <1>6. ASSUME NEW p \in Workers, NEW c \in Clients, NotFound(p, c)
        PROVE  [Store!Next]_(Store!vars)
    BY <1>1, <1>6 DEF NotFound
  <1>7. ASSUME NEW p \in Workers, NEW actor \in Users, NEW i \in DOMAIN table,
               Refused(p, actor, i)
        PROVE  [Store!Next]_(Store!vars)
    BY <1>1, <1>7 DEF Refused
  <1>8. ASSUME NEW p \in Workers, NEW actor \in Users, NEW i \in DOMAIN table,
               NEW expires \in Expiries, RegenerateInvalid(p, actor, i, expires)
        PROVE  [Store!Next]_(Store!vars)
    BY <1>1, <1>8 DEF RegenerateInvalid
  <1>9. ASSUME NEW p \in Workers, NEW actor \in Users, NEW i \in DOMAIN table,
               NEW expires \in Expiries, RegenerateRead(p, actor, i, expires)
        PROVE  [Store!Next]_(Store!vars)
    <2>1. table[i] \in Row
      BY DEF TypeOK
    <2>2. /\ job'[p].rec.hash = hash_secret(NextSecret)
          /\ InFlight(p)' /\ Others(p)
      BY <1>9, <2>1 DEF RegenerateRead, Continue, TypeOK, InFlight, At, Row
    <2> QED BY <1>2, <1>9, <2>2 DEF RegenerateRead
  <1>10. ASSUME NEW p \in Workers, NEW actor \in Users, NEW i \in DOMAIN table,
                RevokeRead(p, actor, i)
         PROVE  [Store!Next]_(Store!vars)
    <2>1. ~InFlight(p)' /\ Others(p)
      BY <1>10 DEF RevokeRead, Continue, TypeOK, InFlight, At
    <2> QED BY <1>10, <2>1, StoreAnswer DEF RevokeRead
  <1>11. ASSUME NEW p \in Workers, InsertRow(p)
         PROVE  [Store!Next]_(Store!vars)
    <2>1. InFlight(p) /\ ~InFlight(p)' /\ Others(p)
      BY <1>11 DEF InsertRow, Continue, TypeOK, InFlight, At
    <2>2. PICK s \in Hashes : /\ s = job[p].rec.hash
                              /\ storeSpent' = storeSpent \cup {s}
                              /\ s \notin storeSpent
      BY <1>11, <2>1, SpentReleased DEF InsertRow
    <2>3. PICK u \in Users : u = job[p].rec.user
      BY <1>11, BusyJob DEF InsertRow, At, Job, Row
    <2>4. PICK id \in Ids : id = lastId + 1
      BY <1>11, ConstantsAssumption DEF InsertRow, TypeOK, Ids
    <2>5. /\ id \notin DOMAIN table /\ id \notin 1 .. lastId
          /\ 1 .. lastId' = (1 .. lastId) \cup {id}
          /\ DOMAIN table' = DOMAIN table \cup {id}
          /\ table'[id] = job[p].rec
          /\ \A i \in DOMAIN table : table'[i] = table[i]
      BY <1>11, <2>4, ConstantsAssumption DEF InsertRow, TypeOK
    <2>6. storeLive' = [i \in DOMAIN storeLive \cup {id} |->
                          IF i = id THEN [owner |-> u, secret |-> s] ELSE storeLive[i]]
      BY <2>2, <2>3, <2>5 DEF storeLive
    <2>7. storeRetired' = storeRetired /\ id \notin DOMAIN storeLive \cup storeRetired
      BY <2>5 DEF storeRetired, storeLive
    <2>8. Store!Issue(id, u, s)
      BY <2>2, <2>6, <2>7 DEF Store!Issue, storeLive, storeRetired,
         storeSpent, Drawn
    <2> QED BY <2>2, <2>8 DEF Store!Next, storeSpent, Drawn
  <1>12. ASSUME NEW p \in Workers, UpdateRow(p)
         PROVE  [Store!Next]_(Store!vars)
    <2>1. /\ InFlight(p) /\ ~InFlight(p)' /\ Others(p)
          /\ CopyValid(p)
      BY <1>12 DEF UpdateRow, Continue, TypeOK, InFlight, At, Consistent, CopiesValid
    <2>2. PICK s \in Hashes : /\ s = job[p].rec.hash
                              /\ storeSpent' = storeSpent \cup {s}
                              /\ s \notin storeSpent
      BY <1>12, <2>1, SpentReleased DEF UpdateRow
    <2>3. storeRetired' = storeRetired
      BY <1>12 DEF UpdateRow, storeRetired
    <2>4. CASE job[p].id \in DOMAIN table
      <3>1. PICK id \in Ids : id = job[p].id
        BY <2>4, ConstantsAssumption DEF TypeOK, Ids
      <3>2. job[p].rec.user = table[id].user
        BY <1>12, <2>1, <2>4, <3>1 DEF CopyValid, UpdateRow, At
      <3>3. storeLive' = [storeLive EXCEPT ![id].secret = s]
        BY <1>12, <2>2, <2>4, <3>1, <3>2 DEF UpdateRow, storeLive
      <3>4. id \in DOMAIN storeLive
        BY <2>4, <3>1 DEF storeLive
      <3>5. Store!Rotate(id, s)
        BY <2>2, <2>3, <3>3, <3>4 DEF Store!Rotate, storeLive,
           storeRetired, storeSpent, Drawn
      <3> QED BY <2>2, <3>5 DEF Store!Next, storeSpent, Drawn
    <2>5. CASE job[p].id \notin DOMAIN table
      <3>1. storeLive' = storeLive
        BY <1>12, <2>5 DEF UpdateRow, storeLive
      <3>2. Store!Discard(s)
        BY <2>2, <2>3, <3>1 DEF Store!Discard, storeLive,
           storeRetired, storeSpent, Drawn
      <3> QED BY <2>2, <3>2 DEF Store!Next, storeSpent, Drawn
    <2> QED BY <2>4, <2>5
  <1>13. ASSUME NEW p \in Workers, DeleteRow(p)
         PROVE  [Store!Next]_(Store!vars)
    <2>1. ~InFlight(p) /\ ~InFlight(p)' /\ Others(p)
      BY <1>13 DEF DeleteRow, Continue, TypeOK, InFlight, At
    <2>2. storeSpent' = storeSpent
      BY <1>13, <2>1, SpentSame DEF DeleteRow
    <2>3. CASE job[p].id \in DOMAIN table
      <3>1. PICK id \in Ids : id = job[p].id /\ id \in 1 .. lastId
        BY <2>3, ConstantsAssumption DEF TypeOK, Ids
      <3>2. storeLive' = [i \in DOMAIN storeLive \ {id} |-> storeLive[i]]
        BY <1>13, <3>1 DEF DeleteRow, storeLive
      <3>3. storeRetired' = storeRetired \cup {id} /\ id \in DOMAIN storeLive
        BY <1>13, <2>3, <3>1 DEF DeleteRow, storeRetired, storeLive
      <3>4. Store!Revoke(id)
        BY <2>2, <3>2, <3>3 DEF Store!Revoke, storeLive, storeRetired, storeSpent, Drawn
      <3> QED BY <3>4 DEF Store!Next
    <2>4. CASE job[p].id \notin DOMAIN table
      <3>1. UNCHANGED <<storeLive, storeRetired>>
        BY <1>13, <2>4 DEF DeleteRow, storeLive, storeRetired
      <3> QED BY <2>2, <3>1 DEF Store!vars, storeLive, storeRetired, storeSpent, Drawn
    <2> QED BY <2>3, <2>4
  <1>14. ASSUME NEW p \in Workers, Notify(p) \/ Crash(p)
         PROVE  [Store!Next]_(Store!vars)
    BY <1>1, <1>14 DEF Notify, Crash
  <1>15. CASE Tick \/ UNCHANGED vars
    BY <1>15 DEF Tick, vars, Store!vars, InFlight, At
  <1>16. CASE Next
    BY <1>3, <1>4, <1>5, <1>6, <1>7, <1>8, <1>9, <1>10, <1>11, <1>12, <1>13, <1>14,
       <1>15, <1>16, StepCases
  <1> QED BY <1>15, <1>16

\* The requests, interleaved and interrupted as the workers run them, implement
\* the atomic store.
THEOREM StoreImplemented == Spec => ImplementsStore
  BY TypeInit, TypeStep, ConsistentInit, ConsistentStep, SecretsInit, SecretsStep,
     StoreInit, StoreStep, PTL DEF Spec, ImplementsStore, Store!Spec

-----------------------------------------------------------------------------
(* What the store promises, for the table                                  *)

SP == INSTANCE CredentialStoreProofs WITH
    Ids     <- Ids,
    Owners  <- Users,
    Secrets <- Hashes,
    live    <- storeLive,
    retired <- storeRetired,
    spent   <- storeSpent

LEMMA SameStore ==
    /\ Store!Init <=> SP!Init
    /\ [Store!Next]_(Store!vars) <=> [SP!Next]_(SP!vars)
  BY DEF Store!Init, SP!Init, Store!Next, SP!Next, Store!vars, SP!vars,
         Store!Issue, SP!Issue, Store!Rotate, SP!Rotate, Store!Revoke, SP!Revoke,
         Store!Discard, SP!Discard,
         storeLive, storeRetired, storeSpent, Drawn

\* The secret was generated, and neither a row nor a request under way has it.
Forgotten(h) ==
    /\ h \in Drawn
    /\ \A i \in DOMAIN table : table[i].hash # h
    /\ \A p \in Workers : InFlight(p) => job[p].rec.hash # h

LEMMA ForgottenDead == \A h : Forgotten(h) <=> SP!Dead(h)
  BY DEF Forgotten, SP!Dead, storeLive, storeSpent

\* The state of the store that the table stands for.
LEMMA StoreSound == TypeOK /\ Secrets => SP!TypeOK /\ SP!Sound
  <1> SUFFICES ASSUME TypeOK, Secrets PROVE SP!TypeOK /\ SP!Sound
    OBVIOUS
  <1>1. lastId \in Int /\ MaxRows \in Int /\ lastSecret \in Int /\ MaxSecrets \in Int
    BY ConstantsAssumption DEF TypeOK
  <1>2. storeLive \in [DOMAIN storeLive -> SP!Credential] /\ DOMAIN storeLive \subseteq Ids
    BY <1>1 DEF TypeOK, Row, storeLive, SP!Credential, Ids
  <1>3. storeRetired \subseteq Ids /\ storeSpent \subseteq Hashes
    BY <1>1 DEF TypeOK, storeRetired, Ids, storeSpent, Drawn, Hashes
  <1>4. \A i \in DOMAIN table : table[i].hash \in storeSpent
    BY DEF Secrets, SecretsUnique, storeSpent
  <1>5. /\ DOMAIN storeLive = DOMAIN table
        /\ \A i \in DOMAIN table : storeLive[i].secret = table[i].hash
    BY DEF storeLive
  <1>6. SP!Sound
    BY <1>4, <1>5 DEF SP!Sound, Secrets, SecretsUnique, storeRetired
  <1> QED BY <1>2, <1>3, <1>6 DEF SP!TypeOK

LEMMA ForgottenStep ==
    ASSUME NEW h, TypeOK, Consistent, Secrets, [Next]_vars, Forgotten(h)
    PROVE  Forgotten(h)'
  <1>1. [SP!Next]_(SP!vars)
    BY StoreStep, SameStore
  <1>2. SP!Dead(h)
    BY ForgottenDead
  <1>3. SP!Dead(h)'
    BY <1>1, <1>2, StoreSound, SP!DeadStays
  <1> QED BY <1>3 DEF Forgotten, SP!Dead, storeLive, storeSpent

\* A secret that a PATCH replaced or a DELETE took away, or that was generated
\* for a request that failed, is never accepted again: no worker puts it back,
\* whatever copy of the row it has read.
THEOREM SecretsForgotten ==
    ASSUME NEW h
    PROVE  Spec => [](Forgotten(h) => []Forgotten(h))
  <1>1. TypeOK /\ Consistent /\ Secrets /\ Forgotten(h) /\ [Next]_vars => Forgotten(h)'
    BY ForgottenStep
  <1> QED BY <1>1, TypeInit, TypeStep, ConsistentInit, ConsistentStep, SecretsInit,
             SecretsStep, PTL DEF Spec
=============================================================================
