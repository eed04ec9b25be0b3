------------------------ MODULE OpenApiCacheProofs ------------------------
(***************************************************************************)
(* Theorems about OpenApiCache for every number of workers, sessions,      *)
(* formats and versions and every ttl, checked by TLAPS.                   *)
(***************************************************************************)
EXTENDS OpenApiCache, TLAPS

-----------------------------------------------------------------------------
(* Types                                                                   *)

Read == [callbacks : 0 .. MaxVersion, routes : 0 .. MaxVersion, files : 0 .. MaxVersion]

\* TypeOK lets a request hold less than it has read: how far its document is
\* follows from its step.
DocsRead ==
    \A p \in Workers :
        /\ At(p, "scan") => job[p].doc.callbacks \in Versions /\ job[p].doc.routes \in Versions
        /\ At(p, "store") => job[p].doc \in Document

Typed == TypeOK /\ DocsRead

\* A worker that is not idle holds a request.
LEMMA BusyJob ==
    ASSUME TypeOK, NEW p \in Workers, ~At(p, "idle")
    PROVE  job[p] \in Job
  BY DEF TypeOK, Rest, At

LEMMA NothingRead == Nothing \in Read /\ Document \subseteq Read
  BY ConstantsAssumption DEF Nothing, Read, Document, Versions

\* A worker gets a new request or answer of the right type.
LEMMA JobTyped ==
    ASSUME Typed, NEW p \in Workers, NEW new \in Job \cup Rest,
           job' = [job EXCEPT ![p] = new],
           new.step = "scan" => new.doc.callbacks \in Versions /\ new.doc.routes \in Versions,
           new.step = "store" => new.doc \in Document
    PROVE  job' \in [Workers -> Job \cup Rest] /\ DocsRead'
  <1>1. job' \in [Workers -> Job \cup Rest]
    BY DEF Typed, TypeOK
  <1>2. job'[p] = new /\ \A q \in Workers \ {p} : job'[q] = job[q]
    BY DEF Typed, TypeOK
  <1>3. DocsRead'
    BY <1>2 DEF Typed, DocsRead, At
  <1> QED BY <1>1, <1>3

LEMMA AnswerTyped ==
    ASSUME Typed, NEW p \in Workers, NEW status \in {0, 200, 400, 500},
           NEW doc \in Document \cup {Nothing}, Answer(p, status, doc)
    PROVE  job' \in [Workers -> Job \cup Rest] /\ DocsRead'
  <1> DEFINE rest == [step |-> "idle", status |-> status, doc |-> doc]
  <1>1. rest \in Rest /\ rest.step = "idle"
    BY DEF Rest
  <1>2. job' = [job EXCEPT ![p] = rest]
    BY DEF Answer
  <1> HIDE DEF rest
  <1> QED BY <1>1, <1>2, JobTyped

LEMMA ContinueTyped ==
    ASSUME Typed, NEW p \in Workers, ~At(p, "idle"),
           NEW step \in {"routes", "scan", "store"}, NEW doc \in Read,
           step = "scan" => doc.callbacks \in Versions /\ doc.routes \in Versions,
           step = "store" => doc \in Document,
           Continue(p, step, doc)
    PROVE  job' \in [Workers -> Job \cup Rest] /\ DocsRead'
  <1> DEFINE new == [job[p] EXCEPT !.step = step, !.doc = doc]
  <1>1. job[p] \in Job
    BY BusyJob DEF Typed
  <1>2. new \in Job /\ new.step = step /\ new.doc = doc
    BY <1>1 DEF Job, Read
  <1>3. job' = [job EXCEPT ![p] = new]
    BY DEF Continue, Typed, TypeOK
  <1> HIDE DEF new
  <1> QED BY <1>2, <1>3, JobTyped

LEMMA PutTyped ==
    ASSUME TypeOK, NEW f \in Formats, NEW doc \in Document, Put(f, doc)
    PROVE  /\ DOMAIN cache' \subseteq Formats
           /\ cache' \in [DOMAIN cache' -> Entry]
  <1>1. [doc |-> doc, age |-> 0] \in Entry
    BY ConstantsAssumption DEF Entry
  <1> QED BY <1>1 DEF Put, TypeOK

LEMMA TypeInit == Init => Typed
  <1> SUFFICES ASSUME Init PROVE Typed
    OBVIOUS
  <1>1. [step |-> "idle", status |-> 0, doc |-> Nothing] \in Rest
    BY DEF Rest
  <1> QED BY <1>1, ConstantsAssumption DEF Init, Typed, TypeOK, DocsRead, At, Versions

LEMMA TypeStep == Typed /\ [Next]_vars => Typed'
  <1> SUFFICES ASSUME Typed, [Next]_vars PROVE Typed'
    OBVIOUS
  <1> USE DEF sessions
  <1>1. ASSUME NEW p \in Workers, NEW s \in Sessions, NEW f \in Formats \cup {Unknown},
               NEW skip \in BOOLEAN, Start(p, s, f, skip)
        PROVE  Typed'
    <2>1. CASE f \in Formats
      <3> DEFINE new == [step |-> NextStep(skip), session |-> s, format |-> f,
                         previous |-> FALSE, skip |-> skip, doc |-> Nothing,
                         since |-> version]
      <3>1. NextStep(skip) \in {"lookup", "routes"}
        BY DEF NextStep
      <3>2. new \in Job
        BY <2>1, <3>1, NothingRead DEF Job, Read, Typed, TypeOK
      <3>3. new.step \in {"lookup", "routes"}
        BY <3>1
      <3>4. job' = [job EXCEPT ![p] = new]
        BY <1>1, <2>1 DEF Start, Begin
      <3> HIDE DEF new
      <3>5. job' \in [Workers -> Job \cup Rest]
        BY <3>2, <3>4 DEF Typed, TypeOK
      <3>6. DocsRead'
        BY <3>3, <3>4 DEF Typed, TypeOK, DocsRead, At
      <3> QED BY <1>1, <3>5, <3>6 DEF Start, Typed, TypeOK
    <2>2. CASE f \notin Formats
      BY <1>1, <2>2, AnswerTyped DEF Start, Typed, TypeOK
    <2> QED BY <2>1, <2>2
  <1>2. ASSUME NEW p \in Workers, Lookup(p) PROVE Typed'
    <2>1. ~At(p, "idle")
      BY <1>2 DEF Lookup, At
    <2>2. CASE Live(job[p].format)
      <3>1. cache[job[p].format].doc \in Document
        BY <2>2 DEF Live, Typed, TypeOK, Entry
      <3> QED BY <1>2, <2>2, <3>1, AnswerTyped DEF Lookup, Typed, TypeOK
    <2>3. CASE ~Live(job[p].format)
      <3>1. Continue(p, "routes", Nothing)
        BY <1>2, <2>3 DEF Lookup
      <3>2. job' \in [Workers -> Job \cup Rest] /\ DocsRead'
        BY <2>1, <3>1, ContinueTyped, NothingRead
      <3> QED BY <1>2, <3>2 DEF Lookup, Typed, TypeOK
    <2> QED BY <2>2, <2>3
  <1>3. ASSUME NEW p \in Workers, ReadRoutes(p) PROVE Typed'
    <2> DEFINE prev == job[p].session \in forced
               read == [callbacks |-> job[p].since, routes |-> version, files |-> 0]
               new == [job[p] EXCEPT !.step = "scan", !.previous = prev, !.doc = read]
    <2>1. /\ job[p] \in Job /\ job[p].session \in Sessions
          /\ job[p].since \in Versions /\ version \in Versions
      BY <1>3, BusyJob DEF ReadRoutes, At, Typed, TypeOK, Job
    <2>2. /\ read \in Read
          /\ read.callbacks \in Versions /\ read.routes \in Versions
      BY <2>1, ConstantsAssumption DEF Versions, Read
    <2>3. prev \in BOOLEAN
      OBVIOUS
    <2> HIDE DEF prev, read
    <2>4. new \in Job /\ new.step = "scan" /\ new.doc = read
      BY <2>1, <2>2, <2>3 DEF Job, Read
    <2>5. job' = [job EXCEPT ![p] = new]
      BY <1>3 DEF ReadRoutes, Typed, TypeOK, prev, read
    <2> HIDE DEF new
    <2>6. job' \in [Workers -> Job \cup Rest] /\ DocsRead'
      BY <2>2, <2>4, <2>5, JobTyped
    <2>7. forced' \subseteq Sessions
      BY <1>3, <2>1 DEF ReadRoutes, ForceLanguage, Typed, TypeOK
    <2> QED BY <1>3, <2>6, <2>7 DEF ReadRoutes, Typed, TypeOK
  <1>4. ASSUME NEW p \in Workers, Scan(p) PROVE Typed'
    <2> DEFINE doc == [job[p].doc EXCEPT !.files = version]
    <2>1. ~At(p, "idle") /\ job[p] \in Job
      BY <1>4, BusyJob DEF Scan, At, Typed
    <2>2. doc \in Document
      BY <1>4, <2>1 DEF Scan, Typed, TypeOK, DocsRead, Document, Job
    <2>3. Continue(p, "store", doc)
      BY <1>4 DEF Scan
    <2> HIDE DEF doc
    <2>4. job' \in [Workers -> Job \cup Rest] /\ DocsRead'
      BY <2>1, <2>2, <2>3, ContinueTyped, NothingRead
    <2>5. forced' \subseteq Sessions
      BY <1>4, <2>1 DEF Scan, Restore, ForceLanguage, Typed, TypeOK, Job
    <2> QED BY <1>4, <2>4, <2>5 DEF Scan, Typed, TypeOK
  <1>5. ASSUME NEW p \in Workers, Throw(p) PROVE Typed'
    <2>1. job[p].session \in Sessions
      BY <1>5, BusyJob DEF Throw, At, Typed, Job
    <2>2. job' \in [Workers -> Job \cup Rest] /\ DocsRead'
      BY <1>5, AnswerTyped DEF Throw
    <2>3. forced' \subseteq Sessions
      BY <1>5, <2>1 DEF Throw, ForceLanguage, Typed, TypeOK
    <2> QED BY <1>5, <2>1, <2>2, <2>3 DEF Throw, Typed, TypeOK
  <1>6. ASSUME NEW p \in Workers, Store(p) PROVE Typed'
    <2>1. job[p] \in Job /\ job[p].doc \in Document
      BY <1>6, BusyJob DEF Store, At, Typed, DocsRead
    <2>2. job' \in [Workers -> Job \cup Rest] /\ DocsRead'
      BY <1>6, <2>1, AnswerTyped DEF Store
    <2>3. DOMAIN cache' \subseteq Formats /\ cache' \in [DOMAIN cache' -> Entry]
      BY <1>6, <2>1, PutTyped DEF Store, Job, Typed, TypeOK
    <2> QED BY <1>6, <2>2, <2>3 DEF Store, Typed, TypeOK
  <1>7. ASSUME NEW p \in Workers, Crash(p) PROVE Typed'
    <2>1. job[p].session \in Sessions /\ job[p].previous \in BOOLEAN
      BY <1>7, BusyJob DEF Crash, Typed, Job
    <2>2. job' \in [Workers -> Job \cup Rest] /\ DocsRead'
      BY <1>7, AnswerTyped DEF Crash
    <2>3. forced' \subseteq Sessions /\ failed' \subseteq Sessions
      BY <1>7, <2>1 DEF Crash, Restore, ForceLanguage, Typed, TypeOK
    <2> QED BY <1>7, <2>2, <2>3 DEF Crash, Typed, TypeOK
  <1>8. CASE Upgrade
    <2>1. version' \in Versions
      BY <1>8, ConstantsAssumption DEF Upgrade, Typed, TypeOK, Versions
    <2>2. DocsRead'
      BY <1>8 DEF Upgrade, Typed, DocsRead, At
    <2> QED BY <1>8, <2>1, <2>2 DEF Upgrade, Typed, TypeOK
  <1>9. CASE Purge
    BY <1>9 DEF Purge, Typed, TypeOK, DocsRead, At
  <1>10. CASE Tick
    <2>1. \A f \in DOMAIN cache :
            [cache[f] EXCEPT !.age = IF @ < TTL THEN @ + 1 ELSE @] \in Entry
      BY ConstantsAssumption DEF Typed, TypeOK, Entry
    <2> QED BY <1>10, <2>1 DEF Tick, Typed, TypeOK, DocsRead, At
  <1>11. CASE UNCHANGED vars
    BY <1>11 DEF vars, Typed, TypeOK, DocsRead, At
  <1> QED BY <1>1, <1>2, <1>3, <1>4, <1>5, <1>6, <1>7, <1>8, <1>9, <1>10, <1>11
          DEF Next, Progress

LEMMA TypedAlways == Spec => []Typed
  BY TypeInit, TypeStep, PTL DEF Spec

\* Every reachable state is of its type: no request makes an entry for
\* anything but a format.
THEOREM TypeCorrect == Spec => []TypeOK
  BY TypedAlways, PTL DEF Typed

-----------------------------------------------------------------------------
(* Steps of one worker                                                     *)

\* A step of a worker leaves the other workers alone; if it goes on with a
\* request, that is still the same request.
LEMMA OthersKept ==
    ASSUME Typed, NEW p \in Workers,
           \/ \E s \in Sessions, f \in Formats \cup {Unknown}, skip \in BOOLEAN :
                Start(p, s, f, skip)
           \/ Progress(p)
           \/ Crash(p)
    PROVE  \A q \in Workers \ {p} : job'[q] = job[q]
  BY DEF Typed, TypeOK, Start, Begin, Answer, Continue, Progress, Lookup, ReadRoutes,
         Scan, Throw, Store, Crash

LEMMA AnswerIdle ==
    ASSUME Typed, NEW p \in Workers, NEW status, NEW doc, Answer(p, status, doc)
    PROVE  job'[p].step = "idle"
  BY DEF Typed, TypeOK, Answer

LEMMA ContinueSame ==
    ASSUME Typed, NEW p \in Workers, ~At(p, "idle"), NEW step, NEW doc,
           Continue(p, step, doc)
    PROVE  /\ job'[p].step = step
           /\ job'[p].doc = doc
           /\ job'[p].session = job[p].session
           /\ job'[p].format = job[p].format
           /\ job'[p].previous = job[p].previous
           /\ job'[p].skip = job[p].skip
           /\ job'[p].since = job[p].since
  <1>1. job[p] \in Job
    BY BusyJob DEF Typed
  <1>2. job'[p] = [job[p] EXCEPT !.step = step, !.doc = doc]
    BY DEF Continue, Typed, TypeOK
  <1> QED BY <1>1, <1>2 DEF Job

LEMMA RoutesRead ==
    ASSUME Typed, NEW p \in Workers, ReadRoutes(p)
    PROVE  /\ job[p].session \in Sessions
           /\ job'[p].step = "scan"
           /\ job'[p].doc.callbacks = job[p].since
           /\ job'[p].doc.routes = version
           /\ job'[p].session = job[p].session
           /\ job'[p].format = job[p].format
           /\ job'[p].previous = (job[p].session \in forced)
           /\ job'[p].skip = job[p].skip
           /\ job'[p].since = job[p].since
  <1>1. job[p] \in Job
    BY BusyJob DEF Typed, ReadRoutes, At
  <1>2. job'[p] = [job[p] EXCEPT !.step = "scan",
                                 !.previous = job[p].session \in forced,
                                 !.doc = [callbacks |-> job[p].since,
                                          routes |-> version, files |-> 0]]
    BY DEF ReadRoutes, Typed, TypeOK
  <1> QED BY <1>1, <1>2 DEF Job

-----------------------------------------------------------------------------
(* The session's language                                                  *)

\* A session is open in one request at a time.
SessionsLocked ==
    \A p, q \in Workers, s \in Sessions : Serves(p, s) /\ Serves(q, s) => p = q

LEMMA LockInit == Init => SessionsLocked
  BY DEF Init, SessionsLocked, Serves, At

\* A worker that stops, or goes on with its session, keeps the lock.
LEMMA LockKept ==
    ASSUME Typed, SessionsLocked, NEW p \in Workers, ~At(p, "idle"),
           \A q \in Workers \ {p} : job'[q] = job[q],
           job'[p].step = "idle" \/ job'[p].session = job[p].session
    PROVE  SessionsLocked'
  BY DEF SessionsLocked, Serves, At

LEMMA LockStep == Typed /\ SessionsLocked /\ [Next]_vars => SessionsLocked'
  <1> SUFFICES ASSUME Typed, SessionsLocked, [Next]_vars PROVE SessionsLocked'
    OBVIOUS
  <1>1. ASSUME NEW p \in Workers, NEW s \in Sessions, NEW f \in Formats \cup {Unknown},
               NEW skip \in BOOLEAN, Start(p, s, f, skip)
        PROVE  SessionsLocked'
    <2>1. \A q \in Workers \ {p} : job'[q] = job[q]
      BY <1>1, OthersKept
    <2>2. \A q \in Workers : ~Serves(q, s)
      BY <1>1 DEF Start
    <2>3. job'[p].step = "idle" \/ job'[p].session = s
      BY <1>1 DEF Start, Begin, Answer, Typed, TypeOK
    <2> QED BY <2>1, <2>2, <2>3 DEF SessionsLocked, Serves, At
  <1>2. ASSUME NEW p \in Workers, Progress(p) PROVE SessionsLocked'
    <2>1. ~At(p, "idle")
      BY <1>2 DEF Progress, Lookup, ReadRoutes, Scan, Throw, Store, At
    <2>2. job'[p].step = "idle" \/ job'[p].session = job[p].session
      BY <1>2, <2>1, AnswerIdle, ContinueSame, RoutesRead
      DEF Progress, Lookup, Scan, Throw, Store
    <2> QED BY <1>2, <2>1, <2>2, OthersKept, LockKept
  <1>3. ASSUME NEW p \in Workers, Crash(p) PROVE SessionsLocked'
    BY <1>3, AnswerIdle, OthersKept, LockKept DEF Crash
  <1>4. CASE UNCHANGED job
    BY <1>4 DEF SessionsLocked, Serves, At
  <1> QED BY <1>1, <1>2, <1>3, <1>4 DEF Next, Upgrade, Purge, Tick, vars

\* What a generation puts back at its end is explained as well: it found the
\* session forced only after a failure.  Without this ForcedByFailure would
\* not survive the end of a generation.
PreviousExplained ==
    \A p \in Workers : At(p, "scan") /\ job[p].previous => job[p].session \in failed

LanguageExplained == ForcedByFailure /\ PreviousExplained

LEMMA LanguageInit == Init => LanguageExplained
  BY DEF Init, LanguageExplained, ForcedByFailure, PreviousExplained, At

\* A step of a worker that is not generating, before or after, and leaves the
\* sessions alone.
LEMMA LanguageFrame ==
    ASSUME LanguageExplained, UNCHANGED sessions, NEW p \in Workers,
           ~At(p, "scan"), job'[p].step # "scan",
           \A q \in Workers \ {p} : job'[q] = job[q]
    PROVE  LanguageExplained'
  BY DEF LanguageExplained, ForcedByFailure, PreviousExplained, Serves, At, sessions

\* A generation of the session s that comes to its end, well or not.
LEMMA LanguageEnd ==
    ASSUME LanguageExplained, NEW p \in Workers, job'[p].step # "scan",
           ~At(p, "idle"), NEW s, s = job[p].session,
           \A q \in Workers \ {p} : job'[q] = job[q],
           failed \subseteq failed',
           forced' \subseteq forced \cup {s},
           s \in forced' => s \in failed'
    PROVE  LanguageExplained'
  <1>1. ForcedByFailure'
    <2> SUFFICES ASSUME NEW t \in forced', t \notin failed'
                 PROVE  \E q \in Workers : (Serves(q, t) /\ At(q, "scan"))'
      BY DEF ForcedByFailure
    <2>1. t # s /\ t \in forced /\ t \notin failed
      OBVIOUS
    <2>2. PICK q \in Workers : Serves(q, t) /\ At(q, "scan")
      BY <2>1 DEF LanguageExplained, ForcedByFailure
    <2>3. q # p
      BY <2>1, <2>2 DEF Serves
    <2> QED BY <2>2, <2>3 DEF Serves, At
  <1>2. PreviousExplained'
    BY DEF LanguageExplained, PreviousExplained, At
  <1> QED BY <1>1, <1>2 DEF LanguageExplained

LEMMA LanguageStep ==
    Typed /\ SessionsLocked /\ LanguageExplained /\ [Next]_vars => LanguageExplained'
  <1> SUFFICES ASSUME Typed, SessionsLocked, LanguageExplained, [Next]_vars
               PROVE  LanguageExplained'
    OBVIOUS
  <1>1. ASSUME NEW p \in Workers, NEW s \in Sessions, NEW f \in Formats \cup {Unknown},
               NEW skip \in BOOLEAN, Start(p, s, f, skip)
        PROVE  LanguageExplained'
    <2>1. job'[p].step # "scan"
      BY <1>1 DEF Start, Begin, NextStep, Answer, Typed, TypeOK
    <2> QED BY <1>1, <2>1, OthersKept, LanguageFrame DEF Start, At
  <1>2. ASSUME NEW p \in Workers, Lookup(p) PROVE LanguageExplained'
    <2>1. job'[p].step # "scan"
      BY <1>2, AnswerIdle, ContinueSame DEF Lookup, At
    <2> QED BY <1>2, <2>1, OthersKept, LanguageFrame DEF Lookup, Progress, At
  <1>3. ASSUME NEW p \in Workers, ReadRoutes(p) PROVE LanguageExplained'
    <2> DEFINE s == job[p].session
    <2>1. /\ s \in Sessions
          /\ job'[p].step = "scan"
          /\ job'[p].session = s
          /\ job'[p].previous = (s \in forced)
      BY <1>3, RoutesRead
    <2>2. \A q \in Workers \ {p} : job'[q] = job[q]
      BY <1>3, OthersKept DEF Progress
    <2>3. forced' = forced \cup {s} /\ failed' = failed
      BY <1>3 DEF ReadRoutes, ForceLanguage
    <2>4. At(p, "routes")
      BY <1>3 DEF ReadRoutes
    <2>5. s \in forced => s \in failed
      <3> SUFFICES ASSUME s \in forced, s \notin failed PROVE FALSE
        OBVIOUS
      <3>1. PICK q \in Workers : Serves(q, s) /\ At(q, "scan")
        BY DEF LanguageExplained, ForcedByFailure
      <3>2. Serves(p, s)
        BY <2>4 DEF Serves, At
      <3> QED BY <2>1, <2>4, <3>1, <3>2 DEF SessionsLocked, At
    <2> HIDE DEF s
    <2>6. PreviousExplained'
      BY <2>1, <2>2, <2>3, <2>5 DEF LanguageExplained, PreviousExplained, At
    <2>7. ForcedByFailure'
      <3> SUFFICES ASSUME NEW t \in forced', t \notin failed'
                   PROVE  \E q \in Workers : (Serves(q, t) /\ At(q, "scan"))'
        BY DEF ForcedByFailure
      <3>1. CASE t = s
        BY <2>1, <3>1 DEF Serves, At
      <3>2. CASE t # s
        <4>1. PICK q \in Workers : Serves(q, t) /\ At(q, "scan")
          BY <2>3, <3>2 DEF LanguageExplained, ForcedByFailure
        <4>2. q # p
          BY <2>4, <4>1 DEF At
        <4> QED BY <2>2, <4>1, <4>2 DEF Serves, At
      <3> QED BY <3>1, <3>2
    <2> QED BY <2>6, <2>7 DEF LanguageExplained
  <1>4. ASSUME NEW p \in Workers, Scan(p) PROVE LanguageExplained'
    <2>1. job'[p].step # "scan" /\ ~At(p, "idle")
      BY <1>4, ContinueSame DEF Scan, At
    <2>2. failed' = failed
      BY <1>4 DEF Scan
    <2>3. CASE job[p].previous
      <3>1. job[p].session \in failed
        BY <1>4, <2>3 DEF Scan, LanguageExplained, PreviousExplained
      <3>2. forced' = forced \cup {job[p].session}
        BY <1>4, <2>3 DEF Scan, Restore, ForceLanguage
      <3> QED BY <1>4, <2>1, <2>2, <3>1, <3>2, OthersKept, LanguageEnd DEF Progress
    <2>4. CASE ~job[p].previous
      <3>1. forced' = forced \ {job[p].session}
        BY <1>4, <2>4 DEF Scan, Restore, ForceLanguage
      <3> QED BY <1>4, <2>1, <2>2, <3>1, OthersKept, LanguageEnd DEF Progress
    <2> QED BY <2>3, <2>4
  <1>5. ASSUME NEW p \in Workers, Throw(p) PROVE LanguageExplained'
    <2>1. job'[p].step # "scan" /\ ~At(p, "idle")
      BY <1>5, AnswerIdle DEF Throw, At
    <2>2. /\ forced' = forced \cup {job[p].session}
          /\ failed' = failed \cup {job[p].session}
      BY <1>5 DEF Throw, ForceLanguage
    <2> QED BY <1>5, <2>1, <2>2, OthersKept, LanguageEnd DEF Progress
  <1>6. ASSUME NEW p \in Workers, Store(p) PROVE LanguageExplained'
    <2>1. job'[p].step # "scan"
      BY <1>6, AnswerIdle DEF Store
    <2> QED BY <1>6, <2>1, OthersKept, LanguageFrame DEF Store, Progress, At
  <1>7. ASSUME NEW p \in Workers, Crash(p) PROVE LanguageExplained'
    <2>1. job'[p].step # "scan" /\ ~At(p, "idle")
      BY <1>7, AnswerIdle DEF Crash
    <2>2. CASE At(p, "scan")
      <3>1. /\ failed' = failed \cup {job[p].session}
            /\ forced' \subseteq forced \cup {job[p].session}
        BY <1>7, <2>2 DEF Crash, Restore, ForceLanguage
      <3> QED BY <1>7, <2>1, <3>1, OthersKept, LanguageEnd
    <2>3. CASE ~At(p, "scan")
      BY <1>7, <2>1, <2>3, OthersKept, LanguageFrame DEF Crash
    <2> QED BY <2>2, <2>3
  <1>8. CASE UNCHANGED <<sessions, job>>
    BY <1>8 DEF LanguageExplained, ForcedByFailure, PreviousExplained, Serves, At, sessions
  <1> QED BY <1>1, <1>2, <1>3, <1>4, <1>5, <1>6, <1>7, <1>8
          DEF Next, Progress, Upgrade, Purge, Tick, vars, sessions

\* A session stays in the language of the site only because a generation of it
\* failed: the one way, that is, in which a generation does not put it back.
THEOREM LanguageExplainedAlways == Spec => []ForcedByFailure
  <1>1. Spec => []SessionsLocked
    BY TypedAlways, LockInit, LockStep, PTL DEF Spec
  <1>2. Spec => []LanguageExplained
    BY <1>1, TypedAlways, LanguageInit, LanguageStep, PTL DEF Spec
  <1> QED BY <1>2, PTL DEF LanguageExplained

-----------------------------------------------------------------------------
(* What a request generates                                                *)

\* What AnswersRecent says of an answer, of what a request has read so far;
\* and a request that keeps off the cache does not look there.
ReadRecently ==
    \A p \in Workers : ~At(p, "idle") =>
        /\ job[p].since <= version
        /\ At(p, "scan") \/ At(p, "store") =>
             /\ job[p].doc.callbacks = job[p].since
             /\ job[p].doc.routes \in job[p].since .. version
        /\ At(p, "store") => job[p].doc.files \in job[p].doc.routes .. version
        /\ job[p].skip => ~At(p, "lookup")

LEMMA RecentInit == Init => ReadRecently
  BY DEF Init, ReadRecently, At

LEMMA VersionTypes ==
    ASSUME Typed, NEW p \in Workers, ~At(p, "idle")
    PROVE  /\ job[p] \in Job
           /\ version \in Int /\ job[p].since \in Int
           /\ job[p].doc.routes \in Int /\ job[p].doc.files \in Int
  BY BusyJob, ConstantsAssumption DEF Typed, TypeOK, Versions, Job

\* A worker that has no request any more, or goes on with its own.
LEMMA RecentKept ==
    ASSUME Typed, ReadRecently, NEW p \in Workers, version' = version,
           \A q \in Workers \ {p} : job'[q] = job[q],
           \/ job'[p].step = "idle"
           \/ /\ ~At(p, "idle")
              /\ job'[p].since = job[p].since /\ job'[p].skip = job[p].skip
              /\ \/ job'[p].step = "routes"
                 \/ /\ job'[p].step = "scan" /\ job'[p].doc.routes = version
                    /\ job'[p].doc.callbacks = job[p].since
                 \/ /\ At(p, "scan") /\ job'[p].step = "store"
                    /\ job'[p].doc.callbacks = job[p].doc.callbacks
                    /\ job'[p].doc.routes = job[p].doc.routes
                    /\ job'[p].doc.files = version
    PROVE  ReadRecently'
  <1> SUFFICES ASSUME NEW q \in Workers, ~At(q, "idle")'
               PROVE  /\ job'[q].since <= version'
                      /\ (At(q, "scan") \/ At(q, "store"))' =>
                           /\ job'[q].doc.callbacks = job'[q].since
                           /\ job'[q].doc.routes \in job'[q].since .. version'
                      /\ At(q, "store")' =>
                           job'[q].doc.files \in job'[q].doc.routes .. version'
                      /\ job'[q].skip => ~At(q, "lookup")'
    BY DEF ReadRecently
  <1>1. CASE q # p
    BY <1>1 DEF ReadRecently, At
  <1>2. CASE q = p
    <2>1. ~At(p, "idle")
      BY <1>2 DEF At
    <2>2. version \in Int /\ job[p].since \in Int /\ job[p].doc.routes \in Int
      BY <2>1, VersionTypes
    <2> QED BY <1>2, <2>1, <2>2 DEF ReadRecently, At
  <1> QED BY <1>1, <1>2

LEMMA RecentStep == Typed /\ ReadRecently /\ [Next]_vars => ReadRecently'
  <1> SUFFICES ASSUME Typed, ReadRecently, [Next]_vars PROVE ReadRecently'
    OBVIOUS
  <1>1. ASSUME NEW p \in Workers, NEW s \in Sessions, NEW f \in Formats \cup {Unknown},
               NEW skip \in BOOLEAN, Start(p, s, f, skip)
        PROVE  ReadRecently'
    <2>1. \A q \in Workers \ {p} : job'[q] = job[q]
      BY <1>1, OthersKept
    <2>2. version' = version /\ version \in Int
      BY <1>1, ConstantsAssumption DEF Start, Typed, TypeOK, Versions
    <2>3. \/ job'[p].step = "idle"
          \/ /\ job'[p].step = NextStep(skip)
             /\ job'[p].since = version /\ job'[p].skip = skip
      BY <1>1 DEF Start, Begin, Answer, Typed, TypeOK
    <2> QED BY <2>1, <2>2, <2>3 DEF ReadRecently, At, NextStep
  <1>2. ASSUME NEW p \in Workers, Progress(p) PROVE ReadRecently'
    <2>1. ~At(p, "idle")
      BY <1>2 DEF Progress, Lookup, ReadRoutes, Scan, Throw, Store, At
    <2>2. version' = version /\ \A q \in Workers \ {p} : job'[q] = job[q]
      BY <1>2, OthersKept DEF Progress, Lookup, ReadRoutes, Scan, Throw, Store
    <2>3. CASE Lookup(p)
      BY <2>1, <2>2, <2>3, AnswerIdle, ContinueSame, RecentKept DEF Lookup
    <2>4. CASE ReadRoutes(p)
      BY <2>1, <2>2, <2>4, RoutesRead, RecentKept
    <2>5. CASE Scan(p)
      <3>1. job[p] \in Job
        BY <2>1, VersionTypes
      <3>2. /\ job'[p].step = "store"
            /\ job'[p].doc = [job[p].doc EXCEPT !.files = version]
            /\ job'[p].skip = job[p].skip /\ job'[p].since = job[p].since
        BY <2>1, <2>5, ContinueSame DEF Scan
      <3>3. /\ job'[p].doc.callbacks = job[p].doc.callbacks
            /\ job'[p].doc.routes = job[p].doc.routes /\ job'[p].doc.files = version
        BY <3>1, <3>2 DEF Job
      <3> QED BY <2>1, <2>2, <2>5, <3>2, <3>3, RecentKept DEF Scan
    <2>6. CASE Throw(p) \/ Store(p)
      BY <2>2, <2>6, AnswerIdle, RecentKept DEF Throw, Store
    <2> QED BY <1>2, <2>3, <2>4, <2>5, <2>6 DEF Progress
  <1>3. ASSUME NEW p \in Workers, Crash(p) PROVE ReadRecently'
    BY <1>3, AnswerIdle, OthersKept, RecentKept DEF Crash
  <1>4. CASE Upgrade
    <2>1. \A p \in Workers : ~At(p, "idle") =>
             /\ version \in Int /\ job[p].since \in Int
             /\ job[p].doc.routes \in Int /\ job[p].doc.files \in Int
      BY VersionTypes
    <2> QED BY <1>4, <2>1 DEF Upgrade, ReadRecently, At
  <1>5. CASE Purge \/ Tick
    BY <1>5 DEF Purge, Tick, ReadRecently, At
  <1>6. CASE UNCHANGED vars
    BY <1>6 DEF vars, ReadRecently, At
  <1> QED BY <1>1, <1>2, <1>3, <1>4, <1>5, <1>6 DEF Next

LEMMA RecentAlways == Spec => []ReadRecently
  BY TypedAlways, RecentInit, RecentStep, PTL DEF Spec

RecentAnswer ==
    \A p \in Workers :
       /\ At(p, "store") \/ (~At(p, "idle") /\ job[p].skip)
       /\ job'[p].step = "idle" /\ job'[p].status = 200
       => /\ job'[p].doc.callbacks \in job[p].since .. version
          /\ job'[p].doc.routes \in job'[p].doc.callbacks .. version
          /\ job'[p].doc.files \in job'[p].doc.routes .. version

\* A request answered 200 was found in the cache or has stored its document.
LEMMA Answered ==
    ASSUME Typed, [Next]_vars, NEW p \in Workers, ~At(p, "idle"),
           job'[p].step = "idle", job'[p].status = 200
    PROVE  At(p, "lookup") \/ (At(p, "store") /\ job'[p].doc = job[p].doc)
  <1>1. ASSUME NEW q \in Workers,
               \/ \E s \in Sessions, f \in Formats \cup {Unknown}, skip \in BOOLEAN :
                    Start(q, s, f, skip)
               \/ Progress(q)
               \/ Crash(q)
        PROVE  \/ At(p, "lookup")
               \/ At(p, "store") /\ job'[p].doc = job[p].doc
    <2>1. q = p
      BY <1>1, OthersKept DEF At
    <2>2. ~\E s \in Sessions, f \in Formats \cup {Unknown}, skip \in BOOLEAN :
             Start(p, s, f, skip)
      BY DEF Start
    <2>3. CASE Lookup(p)
      BY <2>3 DEF Lookup
    <2>4. CASE ReadRoutes(p)
      BY <2>4, RoutesRead
    <2>5. CASE Scan(p)
      BY <2>5, ContinueSame DEF Scan
    <2>6. CASE Throw(p) \/ Crash(p)
      BY <2>6 DEF Throw, Crash, Answer, Typed, TypeOK
    <2>7. CASE Store(p)
      BY <2>7 DEF Store, Answer, Typed, TypeOK
    <2> QED BY <1>1, <2>1, <2>2, <2>3, <2>4, <2>5, <2>6, <2>7 DEF Progress
  <1>2. CASE UNCHANGED job
    BY <1>2 DEF At
  <1> QED BY <1>1, <1>2 DEF Next, Upgrade, Purge, Tick, vars

\* Whoever changes the code and then makes a request as a developer, or one that
\* finds nothing in the cache, gets no document of the code before the change,
\* whatever other workers generate and store meanwhile.
THEOREM AnswersAlwaysRecent == Spec => AnswersRecent
  <1>1. Typed /\ ReadRecently /\ [Next]_vars => [RecentAnswer]_vars
    <2> SUFFICES ASSUME Typed, ReadRecently, [Next]_vars PROVE RecentAnswer
      OBVIOUS
    <2> SUFFICES ASSUME NEW p \in Workers,
                        At(p, "store") \/ (~At(p, "idle") /\ job[p].skip),
                        job'[p].step = "idle", job'[p].status = 200
                 PROVE  /\ job'[p].doc.callbacks \in job[p].since .. version
                        /\ job'[p].doc.routes \in job'[p].doc.callbacks .. version
                        /\ job'[p].doc.files \in job'[p].doc.routes .. version
      BY DEF RecentAnswer
    <2>1. ~At(p, "idle")
      BY DEF At
    <2>2. At(p, "store") /\ job'[p].doc = job[p].doc
      BY <2>1, Answered DEF ReadRecently, At
    <2>3. version \in Int /\ job[p].since \in Int
      BY <2>1, VersionTypes
    <2> QED BY <2>1, <2>2, <2>3 DEF ReadRecently
  <1>2. Spec => [][RecentAnswer]_vars
    BY <1>1, TypedAlways, RecentAlways, PTL DEF Spec
  <1>3. AnswersRecent <=> [][RecentAnswer]_vars
    BY DEF AnswersRecent, RecentAnswer
  <1> QED BY <1>2, <1>3

-----------------------------------------------------------------------------
(* The purge                                                               *)

\* What PurgeSuffices needs of the requests under way: as long as the cache is
\* clean, those that may fill it run the present code.
FillsCurrent == clean => \A p \in Workers : ~OldRequest(p)

Clean == PurgeSuffices /\ FillsCurrent

LEMMA CleanInit == Init => Clean
  BY DEF Init, Clean, PurgeSuffices, FillsCurrent, OldRequest, At

\* A request of the present code stores a document of the present code.
LEMMA NewRequestCurrent ==
    ASSUME Typed, ReadRecently, NEW p \in Workers, At(p, "store"),
           ~job[p].skip, ~OldRequest(p)
    PROVE  Current(job[p].doc)
  <1>1. ~At(p, "idle") /\ job[p].since = version
    BY DEF OldRequest, At
  <1>2. /\ version \in Int
        /\ job[p].doc.routes \in Int /\ job[p].doc.files \in Int
    BY <1>1, VersionTypes
  <1>3. /\ job[p].doc.callbacks = version
        /\ job[p].doc.routes \in version .. version
        /\ job[p].doc.files \in job[p].doc.routes .. version
    BY <1>1 DEF ReadRecently
  <1> QED BY <1>2, <1>3 DEF Current

\* A request that begins is none of an older code, and one that goes on is one
\* only if it was.
LEMMA OldRequestStep ==
    ASSUME Typed, [Next]_vars, version' = version
    PROVE  \A p \in Workers :
             OldRequest(p)' => OldRequest(p) /\ job'[p].format = job[p].format
  <1>1. ASSUME NEW p \in Workers,
               \/ ~OldRequest(p)'
               \/ /\ ~At(p, "idle") /\ job'[p].since = job[p].since
                  /\ job'[p].skip = job[p].skip /\ job'[p].format = job[p].format,
               \A q \in Workers \ {p} : job'[q] = job[q]
        PROVE  \A q \in Workers :
                 OldRequest(q)' => OldRequest(q) /\ job'[q].format = job[q].format
    BY <1>1 DEF OldRequest, At
  <1>2. ASSUME NEW p \in Workers, NEW s \in Sessions, NEW f \in Formats \cup {Unknown},
               NEW skip \in BOOLEAN, Start(p, s, f, skip)
        PROVE  ~OldRequest(p)'
    BY <1>2 DEF Start, Begin, Answer, Typed, TypeOK, OldRequest, At
  <1>3. ASSUME NEW p \in Workers, Progress(p) \/ Crash(p)
        PROVE  \/ ~OldRequest(p)'
               \/ /\ ~At(p, "idle") /\ job'[p].since = job[p].since
                  /\ job'[p].skip = job[p].skip /\ job'[p].format = job[p].format
    <2>1. ~At(p, "idle")
      BY <1>3 DEF Progress, Lookup, ReadRoutes, Scan, Throw, Store, Crash, At
    <2>2. job'[p].step = "idle" => ~OldRequest(p)'
      BY DEF OldRequest, At
    <2>3. CASE Lookup(p) \/ Scan(p)
      BY <2>1, <2>2, <2>3, AnswerIdle, ContinueSame DEF Lookup, Scan
    <2>4. CASE ReadRoutes(p)
      BY <2>1, <2>4, RoutesRead
    <2>5. CASE Throw(p) \/ Store(p) \/ Crash(p)
      BY <2>2, <2>5, AnswerIdle DEF Throw, Store, Crash
    <2> QED BY <1>3, <2>3, <2>4, <2>5 DEF Progress
  <1>4. CASE UNCHANGED job
    BY <1>4 DEF OldRequest, At
  <1>5. CASE \E p \in Workers :
               \/ \E s \in Sessions, f \in Formats \cup {Unknown}, skip \in BOOLEAN :
                    Start(p, s, f, skip)
               \/ Progress(p)
               \/ Crash(p)
    <2>1. PICK p \in Workers :
               \/ \E s \in Sessions, f \in Formats \cup {Unknown}, skip \in BOOLEAN :
                    Start(p, s, f, skip)
               \/ Progress(p)
               \/ Crash(p)
      BY <1>5
    <2>2. \A q \in Workers \ {p} : job'[q] = job[q]
      BY <2>1, OthersKept
    <2>3. \/ ~OldRequest(p)'
          \/ /\ ~At(p, "idle") /\ job'[p].since = job[p].since
             /\ job'[p].skip = job[p].skip /\ job'[p].format = job[p].format
      BY <2>1, <1>2, <1>3
    <2> QED BY <2>2, <2>3, <1>1
  <1> QED BY <1>4, <1>5 DEF Next, Upgrade, Purge, Tick, vars

\* The cache changes by a purge, by the clock, which leaves the documents, and by
\* a worker that stores what it made.
LEMMA EntryStep ==
    ASSUME Typed, [Next]_vars, NEW f \in DOMAIN cache'
    PROVE  \/ f \in DOMAIN cache /\ cache'[f].doc = cache[f].doc
           \/ \E p \in Workers :
                /\ Store(p) /\ ~job[p].skip /\ job[p].format = f
                /\ cache'[f].doc = job[p].doc
  <1>1. CASE \E p \in Workers : Store(p)
    <2>1. PICK p \in Workers : Store(p)
      BY <1>1
    <2>2. CASE job[p].skip
      BY <2>1, <2>2 DEF Store
    <2>3. CASE ~job[p].skip
      BY <2>1, <2>3 DEF Store, Put
    <2> QED BY <2>2, <2>3
  <1>2. CASE Purge
    BY <1>2 DEF Purge
  <1>3. CASE Tick
    <2>1. f \in DOMAIN cache /\ cache[f] \in Entry
      BY <1>3 DEF Tick, Typed, TypeOK
    <2> QED BY <1>3, <2>1 DEF Tick, Entry
  <1>4. CASE UNCHANGED cache
    BY <1>4
  <1> QED BY <1>1, <1>2, <1>3, <1>4
          DEF Next, Progress, Start, Lookup, ReadRoutes, Scan, Throw, Crash, Upgrade, vars

LEMMA CleanStep == Typed /\ ReadRecently /\ Clean /\ [Next]_vars => Clean'
  <1> SUFFICES ASSUME Typed, ReadRecently, Clean, [Next]_vars, clean'
               PROVE  /\ \A f \in DOMAIN cache' : Current(cache[f].doc)'
                      /\ \A p \in Workers : ~OldRequest(p)'
    BY DEF Clean, PurgeSuffices, FillsCurrent
  <1>1. version' = version
    BY DEF Next, Progress, Start, Lookup, ReadRoutes, Scan, Throw, Store, Crash, Upgrade,
           Purge, Tick, vars
  <1>2. CASE Purge
    BY <1>2, OldRequestStep, <1>1 DEF Purge, Clean, FillsCurrent
  <1>3. CASE ~Purge
    <2>1. clean
      BY <1>3 DEF Next, Progress, Start, Lookup, ReadRoutes, Scan, Throw, Store, Crash,
                  Upgrade, Tick, vars
    <2>2. \A p \in Workers : ~OldRequest(p)
      BY <2>1 DEF Clean, FillsCurrent
    <2>3. ASSUME NEW f \in DOMAIN cache' PROVE Current(cache'[f].doc)
      <3>1. CASE f \in DOMAIN cache /\ cache'[f].doc = cache[f].doc
        BY <2>1, <3>1 DEF Clean, PurgeSuffices
      <3>2. CASE \E p \in Workers :
                   /\ Store(p) /\ ~job[p].skip /\ job[p].format = f
                   /\ cache'[f].doc = job[p].doc
        BY <2>2, <3>2, NewRequestCurrent DEF Store
      <3> QED BY <3>1, <3>2, EntryStep
    <2> QED BY <1>1, <2>2, <2>3, OldRequestStep DEF Current
  <1> QED BY <1>2, <1>3

\* One purge when every request from before the change has ended is enough, for any
\* number of workers and formats, however many changes there were before, and
\* although what a request stores is only as new as the functions it has loaded.
THEOREM PurgeSufficesAlways == Spec => []PurgeSuffices
  <1>1. Spec => []Clean
    BY TypedAlways, RecentAlways, CleanInit, CleanStep, PTL DEF Spec
  <1> QED BY <1>1, PTL DEF Clean

-----------------------------------------------------------------------------
(* How old documents go out of use                                         *)

Stale(f) == f \in DOMAIN cache /\ ~Current(cache[f].doc)

\* While the code does not change no request comes to be of an older code, and an
\* entry with an old document is older than before unless one of those requests
\* has just stored it and ended.
Subsiding ==
    version' = version =>
        /\ \A p \in Workers :
             OldRequest(p)' => OldRequest(p) /\ job'[p].format = job[p].format
        /\ \A f \in Formats : Stale(f)' =>
             \/ /\ Stale(f) /\ cache'[f].doc = cache[f].doc
                /\ cache'[f].age >= cache[f].age
             \/ \E p \in Workers : OldRequest(p) /\ ~OldRequest(p)' /\ job[p].format = f

\* Time makes every entry older until its ttl has passed.
Ageing ==
    Tick => \A f \in DOMAIN cache :
              /\ f \in DOMAIN cache' /\ cache'[f].doc = cache[f].doc
              /\ Live(f) => cache'[f].age = cache[f].age + 1
              /\ ~Live(f) => ~Live(f)'

LEMMA TickAges ==
    ASSUME Typed, Tick
    PROVE  /\ DOMAIN cache' = DOMAIN cache
           /\ \A f \in DOMAIN cache :
                /\ cache'[f].doc = cache[f].doc /\ cache'[f].age >= cache[f].age
                /\ cache[f].age < TTL => cache'[f].age = cache[f].age + 1
                /\ ~(cache[f].age < TTL) => cache'[f].age = cache[f].age
  <1>1. \A f \in DOMAIN cache : cache[f].age \in Nat /\ TTL \in Nat
    BY ConstantsAssumption DEF Typed, TypeOK, Entry, ConstantsAssumption
  <1>2. \A f \in DOMAIN cache :
          cache'[f] = [cache[f] EXCEPT !.age = IF @ < TTL THEN @ + 1 ELSE @]
    BY DEF Tick
  <1>3. \A f \in DOMAIN cache : cache[f] \in Entry
    BY DEF Typed, TypeOK
  <1> QED BY <1>1, <1>2, <1>3 DEF Tick, Entry

LEMMA SubsidingStep ==
    ASSUME Typed, ReadRecently, [Next]_vars PROVE Subsiding
  <1> SUFFICES ASSUME version' = version, NEW f \in Formats, Stale(f)'
               PROVE  \/ /\ Stale(f) /\ cache'[f].doc = cache[f].doc
                         /\ cache'[f].age >= cache[f].age
                      \/ \E p \in Workers :
                           OldRequest(p) /\ ~OldRequest(p)' /\ job[p].format = f
    BY OldRequestStep DEF Subsiding
  <1>1. ASSUME NEW p \in Workers, Store(p), ~job[p].skip, job[p].format = f
        PROVE  OldRequest(p) /\ ~OldRequest(p)'
    <2>1. ~OldRequest(p)'
      BY <1>1, AnswerIdle DEF Store, OldRequest, At
    <2>2. cache'[f].doc = job[p].doc
      BY <1>1 DEF Store, Put
    <2>3. ~Current(job[p].doc)
      BY <2>2 DEF Stale, Current
    <2> QED BY <1>1, <2>1, <2>3, NewRequestCurrent DEF Store
  <1>2. ASSUME NEW p \in Workers, Store(p), ~job[p].skip, job[p].format # f
        PROVE  f \in DOMAIN cache /\ cache'[f] = cache[f]
    BY <1>2 DEF Store, Put, Stale
  <1>3. CASE f \in DOMAIN cache /\ cache'[f] = cache[f]
    <2>1. Stale(f)
      BY <1>3 DEF Stale, Current
    <2>2. cache[f].age \in Int
      BY <1>3, ConstantsAssumption DEF Typed, TypeOK, Entry
    <2> QED BY <1>3, <2>1, <2>2
  <1>4. CASE Tick
    BY <1>4, TickAges DEF Stale, Current
  <1>5. CASE UNCHANGED cache
    BY <1>3, <1>5 DEF Stale
  <1>6. ~Purge
    BY DEF Purge, Stale
  <1>7. CASE \E p \in Workers : Store(p)
    <2>1. PICK p \in Workers : Store(p)
      BY <1>7
    <2>2. CASE job[p].skip
      BY <1>5, <2>1, <2>2 DEF Store
    <2>3. CASE ~job[p].skip
      BY <1>1, <1>2, <1>3, <2>1, <2>3
    <2> QED BY <2>2, <2>3
  <1> QED BY <1>4, <1>5, <1>6, <1>7
          DEF Next, Progress, Start, Lookup, ReadRoutes, Scan, Throw, Crash, Upgrade, vars

LEMMA AgeingStep == ASSUME Typed PROVE Ageing
  BY TickAges DEF Ageing, Live

\* What is left of EventuallyFresh without fairness, for any number of workers,
\* formats and versions: while the code does not change the requests that began
\* before it was installed, whatever they have read yet, only become fewer; an
\* entry with an old document is the same as before and not younger, unless one of
\* them has just stored what it made and has ended; and each tick brings it nearer
\* to its ttl, however often it is read meanwhile.
THEOREM StalenessSubsides == Spec => [][Subsiding /\ Ageing]_vars
  <1>1. Typed /\ ReadRecently /\ [Next]_vars => [Subsiding /\ Ageing]_vars
    BY SubsidingStep, AgeingStep
  <1> QED BY <1>1, TypedAlways, RecentAlways, PTL DEF Spec
=============================================================================
