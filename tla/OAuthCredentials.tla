-------------------------- MODULE OAuthCredentials --------------------------
(***************************************************************************)
(* The OAuth2 client credentials of the plugin: the table                  *)
(* webservice_api_credentials, the persistent oauth2_credentials that      *)
(* reads and writes it, the service that guards it and the three           *)
(* controller operations (create, update, delete).                         *)
(*                                                                         *)
(* Every HTTP request runs in a PHP worker of its own.  Workers share only *)
(* the database, and the code opens no transaction, so a request is a      *)
(* sequence of separate database accesses: one read that decides, one      *)
(* write, and the event that the persistent triggers after the write.      *)
(* Each of these is an action; other workers run in between, and a worker  *)
(* may die between any two of them.                                        *)
(***************************************************************************)
EXTENDS Integers, FiniteSets

CONSTANTS
    Workers,       \* PHP workers serving requests
    Users,         \* accounts: the caller, and the owner of credentials
    Managers,      \* users with webservice/api:managecredentials
    SelfManagers,  \* users with webservice/api:manageselfcredentials
    Clients,       \* values of the column client_id
    ClientOf,      \* generate_client_id: a prefix of the user id's sha256
    Expiries,      \* values of expires_at in requests; 0 means never
    MaxRows,       \* bound on the rows ever inserted
    MaxSecrets,    \* bound on the secrets ever generated
    MaxTime        \* bound on the clock

ASSUME ConstantsAssumption ==
    /\ IsFiniteSet(Workers)
    /\ ClientOf \in [Users -> Clients]
    /\ Expiries \subseteq Nat
    /\ 0 \in Expiries
    /\ MaxRows \in Nat
    /\ MaxSecrets \in Nat
    /\ MaxTime \in Nat \ {0}

VARIABLES
    table,       \* the rows now stored, by id
    lastId,      \* the table's id sequence
    lastSecret,  \* number of secrets generated so far
    now,         \* time()
    job,         \* the request each worker serves, or its last answer
    log,         \* events triggered, each with its snapshot of the row
    lost         \* history: events whose worker died before triggering them

vars == <<table, lastId, lastSecret, now, job, log, lost>>

-----------------------------------------------------------------------------
(* Data                                                                    *)

\* sha256 of a secret; secrets are numbered in the order they are generated.
hash_secret(s) == <<"sha256", s>>

Ids    == 1 .. MaxRows
Hashes == {hash_secret(s) : s \in 1 .. MaxSecrets}

Row == [client : Clients, user : Users, hash : Hashes,
        expires : Expiries, by : Users]

Steps == {"insert", "created", "update", "updated", "delete", "deleted"}

\* A request under way: the caller, the next step, and the persistent in the
\* worker's memory (its id and its fields).
Job == [actor : Users, step : Steps, id : Ids \cup {0}, rec : Row]

\* An event: the id of the row, who did it, relateduserid, which is the owner of
\* the row, and the hash in its snapshot.
Event == [kind : {"created", "updated", "deleted"}, id : Ids \cup {0},
          by : Users, related : Users, hash : Hashes]

\* A worker between two requests, and the status it answered last; 0 when
\* there is no answer, because none was due yet or the worker died.
Rest == [step : {"idle"}, status : {0, 200, 400, 403, 404, 409}]

At(p, step) == job[p].step = step

\* The write is done, its event is not triggered yet.
Written(p) == job[p].step \in {"created", "updated", "deleted"}

-----------------------------------------------------------------------------
(* Helpers of the service and the persistent                               *)

\* Fault: the owner is let through without manageselfcredentials.
PermittedOwnerAlways(actor, owner) == actor # owner => actor \in Managers

\* check_permissions: the owner needs manageselfcredentials, anyone else
\* managecredentials.  Each capability is asked on its own.
Permitted(actor, owner) ==
    IF actor # owner THEN actor \in Managers ELSE actor \in SelfManagers

\* Fault: before_create does not look for a row.
HasRowNever(c) == FALSE

\* record_exists on client_id
HasRow(c) == \E i \in DOMAIN table : table[i].client = c

\* The rows get_by_client_id may return: the column is not unique, and the
\* query gives the first match in an order the code does not choose.
RowsOf(c) == {i \in DOMAIN table : table[i].client = c}

\* regenerate_credentials refuses an expiration that is not in the future.
Past(expires) == expires # 0 /\ expires <= now

NextSecret == lastSecret + 1

\* Fault: the generator repeats itself.
DrawSecretAgain ==
    /\ lastSecret < MaxSecrets
    /\ UNCHANGED lastSecret

\* generate_secret
DrawSecret ==
    /\ lastSecret < MaxSecrets
    /\ lastSecret' = NextSecret

\* Fault: relateduserid is the caller.
PendingEventOfActor(p) == [kind |-> job[p].step, id |-> job[p].id,
                           by |-> job[p].actor, related |-> job[p].actor,
                           hash |-> job[p].rec.hash]

PendingEvent(p) == [kind |-> job[p].step, id |-> job[p].id,
                    by |-> job[p].actor, related |-> job[p].rec.user,
                    hash |-> job[p].rec.hash]

Answer(p, status) ==
    job' = [job EXCEPT ![p] = [step |-> "idle", status |-> status]]

Continue(p, actor, step, id, rec) ==
    job' = [job EXCEPT ![p] =
              [actor |-> actor, step |-> step, id |-> id, rec |-> rec]]

-----------------------------------------------------------------------------
Init ==
    /\ table = [i \in {} |-> {}]
    /\ lastId = 0
    /\ lastSecret = 0
    /\ now = 1
    /\ job = [p \in Workers |-> [step |-> "idle", status |-> 0]]
    /\ log = {}
    /\ lost = {}

\* POST: the permission check, then the persistent's validation, which draws
\* a secret, then before_create, which looks for a row of the same client.
CreateRefused(p, actor, owner) ==
    /\ At(p, "idle")
    /\ ~Permitted(actor, owner)
    /\ Answer(p, 403)
    /\ UNCHANGED <<table, lastId, lastSecret, now, log, lost>>

\* Fault: the conflict keeps the exception's default status.
CreateConflictUnset(p, actor, owner) ==
    /\ At(p, "idle")
    /\ Permitted(actor, owner)
    /\ DrawSecret
    /\ HasRow(ClientOf[owner])
    /\ Answer(p, 500)
    /\ UNCHANGED <<table, lastId, now, log, lost>>

CreateConflict(p, actor, owner) ==
    /\ At(p, "idle")
    /\ Permitted(actor, owner)
    /\ DrawSecret
    /\ HasRow(ClientOf[owner])
    /\ Answer(p, 409)
    /\ UNCHANGED <<table, lastId, now, log, lost>>

CreateAccepted(p, actor, owner, expires) ==
    /\ At(p, "idle")
    /\ Permitted(actor, owner)
    /\ DrawSecret
    /\ ~HasRow(ClientOf[owner])
    /\ Continue(p, actor, "insert", 0,
                [client |-> ClientOf[owner], user |-> owner,
                 hash |-> hash_secret(NextSecret), expires |-> expires,
                 by |-> actor])
    /\ UNCHANGED <<table, lastId, now, log, lost>>

\* insert_record: the only unique key, (secret_hash, client_id), cannot clash
\* with a secret that was just generated.
InsertRow(p) ==
    LET id == lastId + 1 IN
    /\ At(p, "insert")
    /\ lastId < MaxRows
    /\ lastId' = id
    /\ table' = [i \in DOMAIN table \cup {id} |->
                   IF i = id THEN job[p].rec ELSE table[i]]
    /\ Continue(p, job[p].actor, "created", id, job[p].rec)
    /\ UNCHANGED <<lastSecret, now, log, lost>>

\* PATCH and DELETE start with get_credentials.
NotFound(p, c) ==
    /\ At(p, "idle")
    /\ ~HasRow(c)
    /\ Answer(p, 404)
    /\ UNCHANGED <<table, lastId, lastSecret, now, log, lost>>

Refused(p, actor, i) ==
    /\ At(p, "idle")
    /\ ~Permitted(actor, table[i].user)
    /\ Answer(p, 403)
    /\ UNCHANGED <<table, lastId, lastSecret, now, log, lost>>

\* PATCH: the expiration is tested after the permission and before a new
\* secret is drawn; a request without expires_at carries 0, which is stored.
RegenerateInvalid(p, actor, i, expires) ==
    /\ At(p, "idle")
    /\ Permitted(actor, table[i].user)
    /\ Past(expires)
    /\ Answer(p, 400)
    /\ UNCHANGED <<table, lastId, lastSecret, now, log, lost>>

\* Fault: before_update does not set modified_by.
RegenerateReadSameWriter(p, actor, i, expires) ==
    /\ At(p, "idle")
    /\ Permitted(actor, table[i].user)
    /\ ~Past(expires)
    /\ DrawSecret
    /\ Continue(p, actor, "update", i,
                [table[i] EXCEPT !.hash = hash_secret(NextSecret),
                                 !.expires = expires])
    /\ UNCHANGED <<table, lastId, now, log, lost>>

RegenerateRead(p, actor, i, expires) ==
    /\ At(p, "idle")
    /\ Permitted(actor, table[i].user)
    /\ ~Past(expires)
    /\ DrawSecret
    /\ Continue(p, actor, "update", i,
                [table[i] EXCEPT !.hash = hash_secret(NextSecret),
                                 !.expires = expires, !.by = actor])
    /\ UNCHANGED <<table, lastId, now, log, lost>>

\* Fault: the update inserts the row again when it is gone.
UpdateRowOrInsert(p) ==
    /\ At(p, "update")
    /\ table' = [i \in DOMAIN table \cup {job[p].id} |->
                   IF i = job[p].id THEN job[p].rec ELSE table[i]]
    /\ Continue(p, job[p].actor, "updated", job[p].id, job[p].rec)
    /\ UNCHANGED <<lastId, lastSecret, now, log, lost>>

\* update_record writes every column of the copy read earlier, on the row
\* with that id.  If the row is gone nothing is written and no error is raised.
UpdateRow(p) ==
    /\ At(p, "update")
    /\ table' = [i \in DOMAIN table |->
                   IF i = job[p].id THEN job[p].rec ELSE table[i]]
    /\ Continue(p, job[p].actor, "updated", job[p].id, job[p].rec)
    /\ UNCHANGED <<lastId, lastSecret, now, log, lost>>

\* Fault: DELETE does not check the permission.
RevokeReadUnchecked(p, actor, i) ==
    /\ At(p, "idle")
    /\ Continue(p, actor, "delete", i, table[i])
    /\ UNCHANGED <<table, lastId, lastSecret, now, log, lost>>

\* DELETE
RevokeRead(p, actor, i) ==
    /\ At(p, "idle")
    /\ Permitted(actor, table[i].user)
    /\ Continue(p, actor, "delete", i, table[i])
    /\ UNCHANGED <<table, lastId, lastSecret, now, log, lost>>

\* Fault: the deletion selects by client_id instead of id.
DeleteRowsOfClient(p) ==
    /\ At(p, "delete")
    /\ table' = [i \in DOMAIN table \ RowsOf(job[p].rec.client) |-> table[i]]
    /\ Continue(p, job[p].actor, "deleted", job[p].id, job[p].rec)
    /\ UNCHANGED <<lastId, lastSecret, now, log, lost>>

\* delete_records succeeds whether or not the row is still there.
DeleteRow(p) ==
    /\ At(p, "delete")
    /\ table' = [i \in DOMAIN table \ {job[p].id} |-> table[i]]
    /\ Continue(p, job[p].actor, "deleted", job[p].id, job[p].rec)
    /\ UNCHANGED <<lastId, lastSecret, now, log, lost>>

\* after_create, after_update and after_delete trigger the event; then the
\* controller returns the resource and the request is answered.
Notify(p) ==
    /\ Written(p)
    /\ log' = log \cup {PendingEvent(p)}
    /\ Answer(p, 200)
    /\ UNCHANGED <<table, lastId, lastSecret, now, lost>>

\* The worker dies: what it wrote stays, what it had in memory is gone.
Crash(p) ==
    /\ ~At(p, "idle")
    /\ lost' = IF Written(p) THEN lost \cup {PendingEvent(p)} ELSE lost
    /\ Answer(p, 0)
    /\ UNCHANGED <<table, lastId, lastSecret, now, log>>

Tick ==
    /\ now < MaxTime
    /\ now' = now + 1
    /\ UNCHANGED <<table, lastId, lastSecret, job, log, lost>>

Create(p, actor) ==
    \E owner \in Users :
        \/ CreateRefused(p, actor, owner)
        \/ CreateConflict(p, actor, owner)
        \/ \E expires \in Expiries : CreateAccepted(p, actor, owner, expires)

Regenerate(p, actor) ==
    \E c \in Clients : \E i \in RowsOf(c), expires \in Expiries :
        \/ RegenerateInvalid(p, actor, i, expires)
        \/ RegenerateRead(p, actor, i, expires)

Revoke(p, actor) ==
    \E c \in Clients : \E i \in RowsOf(c) : RevokeRead(p, actor, i)

Lookup(p, actor) ==
    \E c \in Clients :
        \/ NotFound(p, c)
        \/ \E i \in RowsOf(c) : Refused(p, actor, i)

Request(p) ==
    \E actor \in Users :
        \/ Create(p, actor)
        \/ Lookup(p, actor)
        \/ Regenerate(p, actor)
        \/ Revoke(p, actor)

Finish(p) == InsertRow(p) \/ UpdateRow(p) \/ DeleteRow(p) \/ Notify(p)

Next ==
    \/ \E p \in Workers : Request(p) \/ Finish(p) \/ Crash(p)
    \/ Tick

Spec == Init /\ [][Next]_vars

-----------------------------------------------------------------------------
(* Properties                                                              *)

\* Every variable keeps its type, and ids and secrets come from the sequences.
TypeOK ==
    /\ lastId \in 0 .. MaxRows
    /\ lastSecret \in 0 .. MaxSecrets
    /\ now \in 1 .. MaxTime
    /\ DOMAIN table \subseteq 1 .. lastId
    /\ table \in [DOMAIN table -> Row]
    /\ job \in [Workers -> Job \cup Rest]
    /\ log \subseteq Event
    /\ lost \subseteq Event

\* A row belongs to the client its owner's id hashes to, and whoever wrote it
\* last was entitled to: its owner with the right to manage their own
\* credentials, or somebody else with the right to manage everyone's.  A
\* writer checks the row it read, then writes the whole copy back, possibly
\* after other workers have written the row.
AuthorisedRows ==
    \A i \in DOMAIN table :
        LET r == table[i] IN
        /\ r.client = ClientOf[r.user]
        /\ r.by = r.user => r.by \in SelfManagers
        /\ r.by # r.user => r.by \in Managers

CopyValid(p) ==
    LET j == job[p] IN
    /\ Permitted(j.actor, j.rec.user)
    /\ j.rec.client = ClientOf[j.rec.user]
    /\ j.step \in {"insert", "created", "update", "updated"} => j.rec.by = j.actor
    /\ j.step # "insert" => j.id \in 1 .. lastId
    /\ j.step # "insert" /\ j.id \in DOMAIN table => table[j.id].user = j.rec.user
    /\ j.step = "deleted" => j.id \notin DOMAIN table

\* What a worker remembers of a row stays true where later steps rely on it,
\* whatever other workers do to the row meanwhile: the caller is entitled to
\* its owner's credentials, the row if it still exists has that owner, a copy
\* about to be written carries the caller as its writer, and a row whose
\* deletion is about to be announced is gone.
CopiesValid == \A p \in Workers : ~At(p, "idle") => CopyValid(p)

\* Secrets a worker holds and has yet to store.
InFlight(p) == At(p, "insert") \/ At(p, "update")

\* No two rows, no row and request under way, and no two requests under way
\* have the same secret, so the one unique index of the table is never hit.
SecretsUnique ==
    /\ \A i, j \in DOMAIN table : table[i].hash = table[j].hash => i = j
    /\ \A p \in Workers : InFlight(p) =>
         /\ \A i \in DOMAIN table : table[i].hash # job[p].rec.hash
         /\ \A q \in Workers : InFlight(q) /\ job[q].rec.hash = job[p].rec.hash
                                  => p = q

Inserting(c) == {p \in Workers : At(p, "insert") /\ job[p].rec.client = c}

\* The existence check of before_create and the insert are two accesses, so
\* a client can get several rows, but never more than there are workers:
\* rows and inserts under way of one client together stay within that number.
DuplicatesBounded ==
    \A c \in Clients :
        Cardinality({i \in DOMAIN table : table[i].client = c})
          + Cardinality(Inserting(c)) <= Cardinality(Workers)

\* One row per client: what before_create is there to ensure.  It holds when
\* requests are served one at a time and fails when two of them interleave.
OneRowPerClient ==
    \A i, j \in DOMAIN table : table[i].client = table[j].client => i = j

Pending == {PendingEvent(p) : p \in {q \in Workers : Written(q)}}

Trail == log \cup Pending \cup lost

\* The events explain the table.  A stored secret, its last writer and its
\* owner appear together in an event that was logged, is about to be, or died
\* with its worker; so does every row that is gone; and no event speaks of a
\* deletion that did not happen.
TrailExplainsTable ==
    /\ \A i \in DOMAIN table : \E e \in Trail :
         /\ e.kind \in {"created", "updated"}
         /\ e.id = i /\ e.by = table[i].by
         /\ e.related = table[i].user /\ e.hash = table[i].hash
    /\ \A i \in 1 .. lastId : i \notin DOMAIN table =>
         \E e \in Trail : e.kind = "deleted" /\ e.id = i
    /\ \A e \in Trail : e.kind = "deleted" =>
         e.id \in 1 .. lastId /\ e.id \notin DOMAIN table

RowsStay ==
    /\ \A i \in DOMAIN table \cap DOMAIN table' :
         /\ table'[i].user = table[i].user
         /\ table'[i].client = table[i].client
    /\ \A i \in 1 .. lastId : i \in DOMAIN table' => i \in DOMAIN table
    /\ \A i \in DOMAIN table' :
         \/ \E j \in DOMAIN table : table[j].hash = table'[i].hash
         \/ \E p \in Workers : InFlight(p) /\ job[p].rec.hash = table'[i].hash

\* A row keeps its owner and client as long as it exists; an id that was
\* deleted stays deleted, although requests that read the row before may still
\* be about to update it; and a secret that enters the table comes from the
\* request that generated it, never from a copy read earlier.
RevokedNeverReturns == [][RowsStay]_vars

\* The requests, each taken as the single write it performs, behave like the
\* atomic store of CredentialStore.
Store == INSTANCE CredentialStore WITH
    Ids     <- Ids,
    Owners  <- Users,
    Secrets <- Hashes,
    live    <- [i \in DOMAIN table |->
                  [owner |-> table[i].user, secret |-> table[i].hash]],
    retired <- (1 .. lastId) \ DOMAIN table,
    spent   <- {hash_secret(s) : s \in 1 .. lastSecret}
                 \ {job[p].rec.hash : p \in {q \in Workers : InFlight(q)}}

ImplementsStore == Store!Spec

\* A PATCH that will be answered 200 has stored the secret it answers with.
\* The code does not ensure it: the row may be deleted between the read that
\* finds it and the update, which then writes nothing.
UpdateTakesEffect ==
    [][\A p \in Workers :
         At(p, "update") /\ job'[p].step = "updated" =>
            \E i \in DOMAIN table' : table'[i].hash = job[p].rec.hash
      ]_<<table, job>>
=============================================================================
