----------------------------- MODULE ApiSystem -----------------------------
(***************************************************************************)
(* The API as a whole: OAuthTokens and OAuthCredentials put together.  A   *)
(* worker that serves /oauth2/credentials has let the caller through by a  *)
(* token (request, the part that OAuthTokens describes) and then runs the  *)
(* credentials service for that caller (writer, the part that              *)
(* OAuthCredentials describes); the client credentials grant looks its     *)
(* client up in the very table that the service writes.                    *)
(*                                                                         *)
(* So access is circular: a token lets its user make credentials, and      *)
(* credentials get their user tokens.  The signing keys stay as installed; *)
(* OAuthTokens says what happens when they change.                         *)
(***************************************************************************)
EXTENDS Integers, FiniteSets

CONSTANTS
    Workers, Users, AccessTTL, RefreshTTL, Expiries, MaxGrants, MaxKeys,
    MaxTime, Managers, SelfManagers, Clients, ClientOf, MaxRows, MaxSecrets,
    PasswordUsers,  \* accounts with a password of their own
    States          \* what happens to accounts here

VARIABLES
    account, keys, lastKey, now, tokens, grants, overtaken,  \* of OAuthTokens
    request,                                   \* its variable job
    table, lastId, lastSecret, log, lost,      \* of OAuthCredentials
    writer                                     \* its variable job

credentialVars == <<table, lastId, lastSecret, writer, log, lost>>
tokenVars == <<account, keys, lastKey, tokens, grants, overtaken, request>>
vars == <<credentialVars, tokenVars, now>>

\* What OAuthTokens keeps of the table: for each user the expiration of the
\* row that lasts longest.
EndsOf(u) == {table[i].expires : i \in {j \in DOMAIN table : table[j].user = u}}

LastEnd(u) ==
    LET ends == EndsOf(u) IN
      IF ends = {} THEN -1
      ELSE IF 0 \in ends THEN 0
      ELSE CHOOSE e \in ends : \A f \in ends : f <= e

Best == [u \in Users |-> LastEnd(u)]

T == INSTANCE OAuthTokens WITH job <- request, expiry <- Best
C == INSTANCE OAuthCredentials WITH job <- writer

ASSUME SystemAssumption ==
    /\ IsFiniteSet(Workers)
    /\ Users # {}
    /\ AccessTTL \in Nat
    /\ RefreshTTL \in Nat
    /\ Expiries \subseteq Nat
    /\ 0 \in Expiries
    /\ MaxGrants \in Nat
    /\ MaxKeys \in Nat \ {0, 1}
    /\ MaxTime \in Nat \ {0}
    /\ ClientOf \in [Users -> Clients]
    /\ MaxRows \in Nat
    /\ MaxSecrets \in Nat
    /\ PasswordUsers \subseteq Users
    /\ States \subseteq T!Accounts

\* No insert waits for ever.
ASSUME BoundsAssumption == MaxSecrets <= MaxRows

-----------------------------------------------------------------------------
\* Both signing keys are set: the installation generates them.
Init ==
    /\ C!Init
    /\ T!Init
    /\ keys.refresh # T!Unset

\* Fault: the row's expiration is not looked at.
AcceptsExpired(i, c, h) == table[i].client = c /\ table[i].hash = h

\* validate_credentials, of the model and of the service: the row of this
\* client and this secret, not expired.
Accepts(i, c, h) ==
    /\ table[i].client = c
    /\ table[i].hash = h
    /\ ~(table[i].expires # 0 /\ table[i].expires <= now)

\* Client credentials grant, with any secret: current, replaced or wrong.
ClientGrant(p, c, h) ==
    /\ UNCHANGED credentialVars
    /\ T!Starts(p)
    /\ \/ \E i \in DOMAIN table :
            Accepts(i, c, h) /\ T!Pass(p, "client", table[i].user)
       \/ ~(\E i \in DOMAIN table : Accepts(i, c, h)) /\ T!Fail(p, 401)

\* The other ways a request starts.
OtherRequest(p) ==
    /\ UNCHANGED credentialVars
    /\ \/ \E u \in PasswordUsers : T!PasswordGrant(p, u)
       \/ \E token \in tokens : T!RefreshGrant(p, token) \/ T!Call(p, token)

\* A token request or the middleware goes on.
TokenStep(p) ==
    /\ UNCHANGED credentialVars
    /\ T!ClientUser(p) \/ T!RenewUser(p) \/ T!Issue(p) \/ T!CallUser(p)

\* The controller has an answer, which the middleware hands on.
Return(p) ==
    /\ T!Goes(p, "run")
    /\ T!Answer(p, writer'[p].status)
    /\ UNCHANGED <<tokens, grants>>

\* A controller that touches no credentials: GET /me.
Me(p) ==
    /\ C!At(p, "idle")
    /\ UNCHANGED credentialVars
    /\ T!Goes(p, "run")
    /\ T!Answer(p, 200)
    /\ UNCHANGED <<tokens, grants>>

\* The service answers at once, or goes on to a write.
Proceed(p) ==
    IF writer'[p].step = "idle" THEN Return(p) ELSE UNCHANGED tokenVars

Serve(p, actor) ==
    \/ C!Create(p, actor)
    \/ C!Lookup(p, actor)
    \/ C!Regenerate(p, actor)
    \/ C!Revoke(p, actor)

\* Fault: the routes of the credentials are not behind the middleware.
BeginUnauthenticated(p) ==
    /\ T!At(p, "run")
    /\ \E actor \in Users : Serve(p, actor)
    /\ Proceed(p)

\* The controller of /oauth2/credentials starts, for the user that the
\* middleware let through.
Begin(p) ==
    /\ T!At(p, "run")
    /\ Serve(p, request[p].user)
    /\ Proceed(p)

\* The write of the service; it overtakes the requests under way if it changes
\* what OAuthTokens keeps of the table.
Write(p) ==
    /\ C!InsertRow(p) \/ C!UpdateRow(p) \/ C!DeleteRow(p)
    /\ overtaken' = IF Best' = Best THEN overtaken
                    ELSE {q \in Workers : ~T!At(q, "idle")}
    /\ UNCHANGED <<account, keys, lastKey, tokens, grants, request>>

\* Fault: the request is answered without its event.
FinishSilently(p) ==
    /\ C!Written(p)
    /\ C!Answer(p, 200)
    /\ UNCHANGED <<table, lastId, lastSecret, log, lost>>
    /\ Return(p)

\* The event, and then the answer.
Finish(p) ==
    /\ C!Notify(p)
    /\ Return(p)

\* The worker dies, with whatever it was doing.
Crash(p) ==
    /\ C!Crash(p) \/ (C!At(p, "idle") /\ UNCHANGED credentialVars)
    /\ T!Crash(p)

SetAccount(u, state) ==
    /\ UNCHANGED credentialVars
    /\ T!SetAccount(u, state)

Tick ==
    /\ now < MaxTime
    /\ now' = now + 1
    /\ UNCHANGED <<credentialVars, tokenVars>>

Progress(p) ==
    \/ TokenStep(p)
    \/ Me(p)
    \/ Begin(p)
    \/ Write(p)
    \/ Finish(p)

Next ==
    \/ \E p \in Workers :
         \/ \E c \in Clients, h \in C!Hashes : ClientGrant(p, c, h)
         \/ OtherRequest(p)
         \/ Progress(p)
         \/ Crash(p)
    \/ \E u \in Users, state \in States : SetAccount(u, state)
    \/ Tick

\* A PHP worker goes on until it answers, unless it dies.
Fairness == \A p \in Workers : WF_vars(Progress(p))

Spec == Init /\ [][Next]_vars /\ Fairness

-----------------------------------------------------------------------------
(* Properties                                                              *)

\* Every variable keeps the type that its component gives it.
TypeOK == C!TypeOK /\ T!TypeOK

\* Credentials are only ever written for the caller.  As long as the service
\* works for somebody, the same worker has let that very user through by a
\* token, and unless something changed meanwhile the account is one that may
\* call.  The check and the work are in different components and several steps
\* apart, and a worker may die in either.
ActorAdmitted ==
    \A p \in Workers : ~C!At(p, "idle") =>
        /\ T!At(p, "run")
        /\ writer[p].actor = request[p].user
        /\ p \notin overtaken => T!Callable(account[request[p].user])

\* Nobody lets themselves in.  A user without a password has tokens only if
\* somebody else, who was allowed to, created credentials for that user first;
\* and an event that names both of them is in the log, about to be, or died with
\* its worker, however the credentials were replaced or revoked since.
AccessAccounted ==
    \A t \in tokens : t.user \notin PasswordUsers =>
        \E e \in C!Trail :
            /\ e.kind = "created" /\ e.related = t.user
            /\ e.by # t.user /\ C!Permitted(e.by, t.user)

\* Once an account is deleted, its writes to the table come to an end for
\* good, although its tokens stay valid and a write may be under way.
DeletionEndsWrites ==
    \A u \in Users :
        account[u] = "deleted" ~>
          [](\A p \in Workers : C!At(p, "idle") \/ writer[p].actor # u)

\* The composition does to the credentials only what OAuthCredentials allows,
\* so what is proved there holds here.
ImplementsCredentials == C!Spec

\* OAuthTokens, which keeps one expiration of the table for each user and
\* changes it at will, allows all that happens with the real table: several
\* rows of a user, secrets replaced, writes lost.
ImplementsTokens == T!Safety
=============================================================================
