---------------------------- MODULE OpenApiCache ----------------------------
(***************************************************************************)
(* The OpenAPI document of GET /docs/openapi.{format}: generated from the  *)
(* routes and the files of their controllers, and kept in a cache shared   *)
(* by the workers, for a day.                                              *)
(*                                                                         *)
(* The callbacks with which plugins add routes are loaded when a request   *)
(* begins, like any PHP code.  A generation runs them again, reads the     *)
(* plugin's own routes, scans the files later, and puts what it made in    *)
(* the cache when it is done, whatever happened since.                     *)
(* Meanwhile the plugins that register routes are upgraded, the caches are *)
(* purged, other workers generate the same document and workers die.       *)
(*                                                                         *)
(* A generation also forces the session of its client, a browser that      *)
(* shows the documentation say, to the language of the site, and lets it   *)
(* go at the end.                                                          *)
(***************************************************************************)
EXTENDS Integers

CONSTANTS
    Workers,     \* PHP workers serving requests
    Sessions,    \* Moodle sessions of the clients
    Formats,     \* json and yaml
    Unknown,     \* any other value in the path
    MaxVersion,  \* bound on the versions of the code
    TTL          \* ttl of the cache area, in ticks of the clock

ASSUME ConstantsAssumption ==
    /\ Unknown \notin Formats
    /\ MaxVersion \in Nat \ {0}
    /\ TTL \in Nat \ {0}

VARIABLES
    version,  \* the installed routes and controllers
    cache,    \* the cache area: for each format its entry, if there is one
    forced,   \* the sessions whose language is forced
    job,      \* the request each worker serves, or its last answer
    failed,   \* history: sessions with a generation that threw or died
    clean     \* history: the caches were purged since the code last changed,
              \* when no request from before the change could still fill them

vars == <<version, cache, forced, job, failed, clean>>
sessions == <<forced, failed>>

-----------------------------------------------------------------------------
Versions == 1 .. MaxVersion

\* A document, by the versions of what it was made from: the callbacks of the
\* plugins, routes.php and the files of the controllers.
Document == [callbacks : Versions, routes : Versions, files : Versions]
Nothing  == [callbacks |-> 0, routes |-> 0, files |-> 0]

Entry == [doc : Document, age : 0 .. TTL]

\* A request under way: its session and the format it asks for, whether
\* developer debugging keeps it off the cache, whether its session was forced
\* before (previous_language), what it has read so far, and the version that
\* was installed when it began, which is that of the functions PHP has loaded.
Job == [step : {"lookup", "routes", "scan", "store"}, session : Sessions,
        format : Formats, previous : BOOLEAN,
        skip : BOOLEAN,
        doc : [callbacks : 0 .. MaxVersion, routes : 0 .. MaxVersion, files : 0 .. MaxVersion],
        since : Versions]

\* A worker between two requests: its last answer.
Rest == [step : {"idle"}, status : {0, 200, 400, 500}, doc : Document \cup {Nothing}]

At(p, step) == job[p].step = step

\* The worker may yet fill the cache, and it runs code from before a change.
OldRequest(p) == ~At(p, "idle") /\ ~job[p].skip /\ job[p].since # version

\* Moodle's cache does not return an entry whose ttl has passed.
Live(f) == f \in DOMAIN cache /\ cache[f].age < TTL

Put(f, doc) ==
    cache' = [g \in DOMAIN cache \cup {f} |->
                IF g = f THEN [doc |-> doc, age |-> 0] ELSE cache[g]]

Answer(p, status, doc) ==
    job' = [job EXCEPT ![p] = [step |-> "idle", status |-> status, doc |-> doc]]

Continue(p, step, doc) ==
    job' = [job EXCEPT ![p].step = step, ![p].doc = doc]

\* force_current_language, which sets forcelang in the session.
ForceLanguage(s) == forced' = forced \cup {s}

\* The same with what it returned before.
Restore(p) ==
    IF job[p].previous THEN ForceLanguage(job[p].session)
                       ELSE forced' = forced \ {job[p].session}

\* A session is locked by the request that has it open.
Serves(p, s) == ~At(p, "idle") /\ job[p].session = s

-----------------------------------------------------------------------------
Init ==
    /\ version = 1
    /\ cache = [f \in {} |-> {}]
    /\ forced = {}
    /\ failed = {}
    /\ job = [p \in Workers |-> [step |-> "idle", status |-> 0, doc |-> Nothing]]
    /\ clean = TRUE

\* Fault: the developer's request looks in the cache first.
NextStepCached(skip) == "lookup"

\* get: a developer's request goes straight to generate.
NextStep(skip) == IF skip THEN "routes" ELSE "lookup"

Begin(p, s, f, skip) ==
    job' = [job EXCEPT ![p] =
              [step |-> NextStep(skip), session |-> s, format |-> f,
               previous |-> FALSE, skip |-> skip, doc |-> Nothing, since |-> version]]

\* Fault: get does not call validate_format.
StartAny(p, s, f, skip) ==
    /\ At(p, "idle")
    /\ ~\E q \in Workers : Serves(q, s)
    /\ Begin(p, s, f, skip)
    /\ UNCHANGED <<version, cache, sessions, clean>>

\* validate_format, then skip_cache, which looks at the site's debug level.
Start(p, s, f, skip) ==
    /\ At(p, "idle")
    /\ ~\E q \in Workers : Serves(q, s)
    /\ IF f \in Formats THEN Begin(p, s, f, skip) ELSE Answer(p, 400, Nothing)
    /\ UNCHANGED <<version, cache, sessions, clean>>

\* Fault: a hit renews the entry.
LookupRenews(p) ==
    /\ At(p, "lookup")
    /\ LET f == job[p].format IN
         IF Live(f)
           THEN /\ Answer(p, 200, cache[f].doc)
                /\ Put(f, cache[f].doc)
           ELSE /\ Continue(p, "routes", Nothing)
                /\ UNCHANGED cache
    /\ UNCHANGED <<version, sessions, clean>>

\* cache->get: a hit is the answer.
Lookup(p) ==
    /\ At(p, "lookup")
    /\ LET f == job[p].format IN
         IF Live(f) THEN Answer(p, 200, cache[f].doc)
                    ELSE Continue(p, "routes", Nothing)
    /\ UNCHANGED <<version, cache, sessions, clean>>

\* generate: the language is forced, and initialize_router fills a router of its
\* own: it requires routes.php anew and runs the callbacks loaded already.
ReadRoutes(p) ==
    /\ At(p, "routes")
    /\ ForceLanguage(job[p].session)
    /\ job' = [job EXCEPT ![p].step = "scan",
                          ![p].previous = job[p].session \in forced,
                          ![p].doc = [callbacks |-> job[p].since,
                                       routes |-> version, files |-> 0]]
    /\ UNCHANGED <<version, cache, failed, clean>>

\* Fault: the language is not put back.
ScanForced(p) ==
    /\ At(p, "scan")
    /\ Continue(p, "store", [job[p].doc EXCEPT !.files = version])
    /\ UNCHANGED <<version, cache, sessions, clean>>

\* generate: the files of their controllers are scanned, and the language is
\* put back to what the session had.
Scan(p) ==
    /\ At(p, "scan")
    /\ Continue(p, "store", [job[p].doc EXCEPT !.files = version])
    /\ Restore(p)
    /\ UNCHANGED <<version, cache, failed, clean>>

\* A callback or the scanner throws.  Nothing puts the language back.
Throw(p) ==
    /\ At(p, "routes") \/ At(p, "scan")
    /\ Answer(p, 500, Nothing)
    /\ ForceLanguage(job[p].session)
    /\ failed' = failed \cup {job[p].session}
    /\ UNCHANGED <<version, cache, clean>>

\* Fault: a developer's request renews the entry that it did not look at.
StoreAlways(p) ==
    /\ At(p, "store")
    /\ Put(job[p].format, job[p].doc)
    /\ Answer(p, 200, job[p].doc)
    /\ UNCHANGED <<version, sessions, clean>>

\* cache->set, unless the cache is skipped, and the answer.
Store(p) ==
    /\ At(p, "store")
    /\ IF job[p].skip THEN UNCHANGED cache ELSE Put(job[p].format, job[p].doc)
    /\ Answer(p, 200, job[p].doc)
    /\ UNCHANGED <<version, sessions, clean>>

\* The worker dies; no answer reaches the client, and the session is saved as
\* it is or not at all.
Crash(p) ==
    LET s == job[p].session IN
    /\ ~At(p, "idle")
    /\ Answer(p, 0, Nothing)
    /\ IF At(p, "scan")
         THEN /\ failed' = failed \cup {s}
              /\ UNCHANGED forced \/ Restore(p)
         ELSE UNCHANGED sessions
    /\ UNCHANGED <<version, cache, clean>>

\* A plugin is installed or upgraded: routes and controllers change.
Upgrade ==
    /\ version < MaxVersion
    /\ version' = version + 1
    /\ clean' = FALSE
    /\ UNCHANGED <<cache, sessions, job>>

\* Moodle purges its caches at the end of an upgrade, an administrator any time.
Purge ==
    /\ cache' = [f \in {} |-> {}]
    /\ clean' = (clean \/ ~\E p \in Workers : OldRequest(p))
    /\ UNCHANGED <<version, sessions, job>>

\* Time passes; past the ttl an entry is as old as it gets.
Tick ==
    /\ cache' = [f \in DOMAIN cache |->
                   [cache[f] EXCEPT !.age = IF @ < TTL THEN @ + 1 ELSE @]]
    /\ UNCHANGED <<version, sessions, job, clean>>

Progress(p) ==
    \/ Lookup(p)
    \/ ReadRoutes(p)
    \/ Scan(p)
    \/ Throw(p)
    \/ Store(p)

Next ==
    \/ \E p \in Workers :
         \/ \E s \in Sessions, f \in Formats \cup {Unknown}, skip \in BOOLEAN :
              Start(p, s, f, skip)
         \/ Progress(p)
         \/ Crash(p)
    \/ Upgrade
    \/ Purge
    \/ Tick

\* A PHP worker goes on until it answers, unless it dies; and time passes.
Fairness ==
    /\ \A p \in Workers : WF_vars(Progress(p))
    /\ WF_vars(Tick)

Spec == Init /\ [][Next]_vars /\ Fairness

-----------------------------------------------------------------------------
(* Properties                                                              *)

\* Every variable keeps its type, and only the two formats get an entry,
\* whatever a client asks for.
TypeOK ==
    /\ version \in Versions
    /\ DOMAIN cache \subseteq Formats
    /\ cache \in [DOMAIN cache -> Entry]
    /\ job \in [Workers -> Job \cup Rest]
    /\ forced \subseteq Sessions
    /\ failed \subseteq Sessions
    /\ clean \in BOOLEAN

Current(doc) == doc.callbacks = version /\ doc.routes = version /\ doc.files = version

\* After a change of the code, one purge at a moment when every request from
\* before the change has ended, but for those of developers, is enough: from then
\* on the cache has only documents of the present code, although several workers
\* fill the same entry and developers store nothing.  A purge while an older
\* request is under way, even one that has yet to look in the cache, is not: that
\* request runs the callbacks it loaded and stores their routes after the purge.
PurgeSuffices == clean => \A f \in DOMAIN cache : Current(cache[f].doc)

\* Without a purge, or with one at the wrong moment, a document of old code
\* that got into the cache goes out of use all the same, however often it is
\* asked for: the ttl counts from when it was stored.
EventuallyFresh == <>[](\A f \in Formats : Live(f) => Current(cache[f].doc))

\* A session is forced to the language of the site only while one of its
\* requests generates, or because a generation of it threw or died: then it
\* stays forced, and every later generation, which finds it so, leaves it so.
ForcedByFailure ==
    \A s \in forced : s \in failed \/ \E p \in Workers : Serves(p, s) /\ At(p, "scan")

\* What a request generates is of the code installed when it began, or later
\* code; and a developer's request always generates, although others fill the
\* cache meanwhile: whoever changes the code and asks again sees the change.
AnswersRecent ==
    [][\A p \in Workers :
         /\ At(p, "store") \/ (~At(p, "idle") /\ job[p].skip)
         /\ job'[p].step = "idle" /\ job'[p].status = 200
         => /\ job'[p].doc.callbacks \in job[p].since .. version
            /\ job'[p].doc.routes \in job'[p].doc.callbacks .. version
            /\ job'[p].doc.files \in job'[p].doc.routes .. version
      ]_vars
=============================================================================
