---------------------------- MODULE OAuthTokens ----------------------------
(***************************************************************************)
(* Tokens: how POST /oauth2/token issues them by its three grants, and how *)
(* the middleware oauth2_token_auth lets a call run on one.                *)
(*                                                                         *)
(* A token is a signed statement of a user and an expiration; the server   *)
(* keeps none.  What a request relies on is read at different moments: the *)
(* configuration when the request starts, the credentials, then the        *)
(* account.  Meanwhile accounts are suspended and deleted, credentials     *)
(* revoked and signing keys replaced.                                      *)
(***************************************************************************)
EXTENDS Integers, FiniteSets

CONSTANTS
    Workers,     \* PHP workers serving requests
    Users,       \* accounts
    AccessTTL,   \* jwt_ttl
    RefreshTTL,  \* jwt_refresh_ttl
    Expiries,    \* values of expires_at in requests; 0 means never
    MaxGrants,   \* bound on the grants that get past their first check
    MaxKeys,     \* bound on the signing keys ever set
    MaxTime      \* bound on the clock

ASSUME ConstantsAssumption ==
    /\ AccessTTL \in Nat
    /\ RefreshTTL \in Nat
    /\ Expiries \subseteq Nat
    /\ MaxGrants \in Nat
    /\ MaxKeys \in Nat \ {0, 1}
    /\ MaxTime \in Nat \ {0}

VARIABLES
    account,    \* the row of table user: what the code looks at in it
    expiry,     \* the client credentials of each user: expires_at, or none
    keys,       \* the settings jwt_secret and jwt_refresh_secret
    lastKey,    \* number of keys set so far
    now,        \* time()
    tokens,     \* the tokens handed out
    grants,     \* number of grants that got past their first check
    job,        \* the request each worker serves, or its last answer
    overtaken   \* history: workers whose request began before the last change
                \* to accounts, credentials or keys

vars == <<account, expiry, keys, lastKey, now, tokens, grants, job, overtaken>>
environment == <<account, expiry, keys, lastKey>>

-----------------------------------------------------------------------------
Times  == 1 .. MaxTime
Accounts == {"active", "suspended", "deleted", "unconfirmed",
             "undecided",   \* has not agreed to the site policy
             "nologin",     \* its auth method, or an expired password
             "unentitled"}  \* without webservice/api:use, or in maintenance

Unset  == 0    \* the setting does not exist
Empty  == -1   \* it exists and is the empty string
KeyIds == 1 .. MaxKeys
Keys   == [access  : KeyIds \cup {Unset},
           refresh : KeyIds \cup {Unset, Empty}]

NoCredentials == -1
Never == 0

\* iat is left out: with one clock no token comes from the future.  The field
\* shared is history: no refresh token secret was set when it was issued.
Token == [kind : {"access", "refresh"}, user : Users,
          key : KeyIds \cup {Empty}, exp : Nat, shared : BOOLEAN]

\* A request under way: its next step, the user it is for, and the keys of
\* the configuration it loaded.
Job  == [step : {"client", "renew", "call", "issue", "run"}, user : Users, keys : Keys]
Rest == [step : {"idle"}, status : {0, 200, 400, 401, 403, 404, 409, 500}]

At(p, step) == job[p].step = step

\* get_jwt_refresh_token_secret: the access token secret unless another is
\* set, if only to the empty string.
RefreshKey(k) == IF k.refresh # Unset THEN k.refresh ELSE k.access

\* is_expired
Expired(u) == expiry[u] # Never /\ expiry[u] <= now

\* Fault: decode does not look at the expiration.
ParsesExpired(token, key) == key \in KeyIds /\ token.key = key

\* jwt_token::parse: the key is one php-jwt takes, the signature verifies under
\* it and the token has not expired.
Parses(token, key) == key \in KeyIds /\ token.key = key /\ now < token.exp

Answer(p, status) ==
    job' = [job EXCEPT ![p] = [step |-> "idle", status |-> status]]

Continue(p, step, u, k) ==
    job' = [job EXCEPT ![p] = [step |-> step, user |-> u, keys |-> k]]

\* A request starts: it loads the configuration, and nothing has overtaken it.
Starts(p) ==
    /\ At(p, "idle")
    /\ overtaken' = overtaken \ {p}
    /\ UNCHANGED <<environment, now, tokens>>

\* A grant passes its first check.
Pass(p, step, u) ==
    /\ grants < MaxGrants
    /\ grants' = grants + 1
    /\ Continue(p, step, u, keys)

Fail(p, status) == Answer(p, status) /\ UNCHANGED grants

Goes(p, step) ==
    /\ At(p, step)
    /\ UNCHANGED <<environment, now, overtaken>>

-----------------------------------------------------------------------------
Init ==
    /\ account = [u \in Users |-> "active"]
    /\ expiry = [u \in Users |-> NoCredentials]
    /\ keys \in {[access |-> 1, refresh |-> 2], [access |-> 1, refresh |-> Unset]}
    /\ lastKey = 2
    /\ now = 1
    /\ tokens = {}
    /\ grants = 0
    /\ job = [p \in Workers |-> [step |-> "idle", status |-> 0]]
    /\ overtaken = {}

\* POST /oauth2/token without a grant type it knows, or without the
\* parameters of that grant.
BadRequest(p) ==
    /\ Starts(p)
    /\ Fail(p, 400)

\* Fault: the client credentials grant ignores expires_at.
ClientGrantExpired(p, u) ==
    /\ Starts(p)
    /\ IF expiry[u] # NoCredentials THEN Pass(p, "client", u) ELSE Fail(p, 401)

\* Client credentials grant: the row of the client and the hash of the secret
\* it presents, if there is one and it has not expired.
ClientGrant(p, u) ==
    /\ Starts(p)
    /\ IF expiry[u] # NoCredentials /\ ~Expired(u)
         THEN Pass(p, "client", u)
         ELSE Fail(p, 401)

\* validate_user of the controller.  A suspended account is not refused here.
Grantable(state) == state \notin {"deleted", "unconfirmed", "undecided"}

\* The other two grants look the account up with suspended and deleted 0.
Found(state) == state \notin {"suspended", "deleted"}

\* get_user takes the account of the credentials whatever its state.
ClientUser(p) ==
    /\ Goes(p, "client")
    /\ IF Grantable(account[job[p].user])
         THEN Continue(p, "issue", job[p].user, job[p].keys)
         ELSE Answer(p, 401)
    /\ UNCHANGED <<tokens, grants>>

\* Password grant; the password may be wrong.
PasswordGrant(p, u) ==
    /\ Starts(p)
    /\ \/ Fail(p, 401)
       \/ Found(account[u]) /\ Grantable(account[u]) /\ Pass(p, "issue", u)

\* Fault: the refresh token is parsed with the access token secret.
RefreshGrantAccessKey(p, token) ==
    /\ Starts(p)
    /\ IF keys.access # Unset /\ Parses(token, keys.access)
         THEN Pass(p, "renew", token.user)
         ELSE Fail(p, 401)

\* Refresh token grant, first the token: any token handed out may be sent.
\* Without jwt_secret the configuration throws, even if the other key is set.
RefreshGrant(p, token) ==
    /\ Starts(p)
    /\ IF keys.access # Unset /\ Parses(token, RefreshKey(keys))
         THEN Pass(p, "renew", token.user)
         ELSE Fail(p, 401)

\* Then the account.  If the query finds nothing, false is no object to return,
\* and that error too is answered 401.
RenewUser(p) ==
    /\ Goes(p, "renew")
    /\ IF Found(account[job[p].user]) /\ Grantable(account[job[p].user])
         THEN Continue(p, "issue", job[p].user, job[p].keys)
         ELSE Answer(p, 401)
    /\ UNCHANGED <<tokens, grants>>

\* The pair of tokens, with the configuration loaded when the request began.
PairFor(u, k, refreshKey) ==
    {[kind |-> "access", user |-> u, key |-> k.access,
      exp |-> now + AccessTTL, shared |-> k.refresh = Unset],
     [kind |-> "refresh", user |-> u, key |-> refreshKey,
      exp |-> now + RefreshTTL, shared |-> k.refresh = Unset]}

\* Fault: both tokens are signed with the access token secret.
IssueOneKey(p) ==
    /\ Goes(p, "issue")
    /\ LET k == job[p].keys IN
         IF k.access = Unset
           THEN Answer(p, 500) /\ UNCHANGED tokens
           ELSE /\ tokens' = tokens \cup PairFor(job[p].user, k, k.access)
                /\ Answer(p, 200)
    /\ UNCHANGED grants

\* Fault: a missing jwt_secret is not noticed.
IssueUnkeyed(p) ==
    /\ Goes(p, "issue")
    /\ LET k == job[p].keys IN
         tokens' = tokens \cup PairFor(job[p].user, k, RefreshKey(k))
    /\ Answer(p, 200)
    /\ UNCHANGED grants

\* generate_access_token_for_user; without jwt_secret it throws.
Issue(p) ==
    /\ Goes(p, "issue")
    /\ LET k == job[p].keys IN
         IF k.access = Unset
           THEN Answer(p, 500) /\ UNCHANGED tokens
           ELSE /\ tokens' = tokens \cup PairFor(job[p].user, k, RefreshKey(k))
                /\ Answer(p, 200)
    /\ UNCHANGED grants

\* An API call: get_authenticated_user parses the bearer token.
Call(p, token) ==
    /\ Starts(p)
    /\ UNCHANGED grants
    /\ IF Parses(token, keys.access)
         THEN Continue(p, "call", token.user, keys)
         ELSE Answer(p, 401)

\* validate_user of the middleware: the accounts it refuses by an
\* auth_failure_exception, and those it refuses otherwise.
Callable(state) == state \in {"active", "undecided"}

\* Fault: the middleware lets a suspended or deleted account through.
CallUserAny(p) ==
    /\ Goes(p, "call")
    /\ IF account[job[p].user] # "unconfirmed"
         THEN Continue(p, "run", job[p].user, job[p].keys)
         ELSE Answer(p, 500)
    /\ UNCHANGED <<tokens, grants>>

\* It then reads the account, and validate_user refuses one that is not in
\* order.  Its refusal calls setOther, which the exception does not have, so
\* the request fails with status 500; a missing capability is answered 403,
\* maintenance 500.
CallUser(p) ==
    /\ Goes(p, "call")
    /\ LET state == account[job[p].user] IN
         \/ Callable(state) /\ Continue(p, "run", job[p].user, job[p].keys)
         \/ ~Callable(state) /\ Answer(p, 500)
         \/ state = "unentitled" /\ Answer(p, 403)
    /\ UNCHANGED <<tokens, grants>>

\* The controller has run for the user; these are the statuses of those that
\* the routes have.
Run(p) ==
    /\ Goes(p, "run")
    /\ \E status \in {200, 400, 403, 404, 409} : Answer(p, status)
    /\ UNCHANGED <<tokens, grants>>

\* The worker dies; no answer, and no token, reaches the client.
Crash(p) ==
    /\ ~At(p, "idle")
    /\ Answer(p, 0)
    /\ UNCHANGED <<environment, now, tokens, grants, overtaken>>

\* What Moodle and the administrator change.
Changes ==
    /\ overtaken' = {p \in Workers : ~At(p, "idle")}
    /\ UNCHANGED <<now, tokens, grants, job>>

\* A deleted account stays deleted.
SetAccount(u, state) ==
    /\ account[u] # "deleted"
    /\ account[u] # state
    /\ account' = [account EXCEPT ![u] = state]
    /\ Changes
    /\ UNCHANGED <<expiry, keys, lastKey>>

\* POST and PATCH /oauth2/credentials, by what they leave in the table.  POST
\* takes an expiration that is past.
IssueCredentials(u, expires) ==
    /\ expiry' = [expiry EXCEPT ![u] = expires]
    /\ expiry' # expiry
    /\ Changes
    /\ UNCHANGED <<account, keys, lastKey>>

RevokeCredentials(u) ==
    /\ expiry[u] # NoCredentials
    /\ expiry' = [expiry EXCEPT ![u] = NoCredentials]
    /\ Changes
    /\ UNCHANGED <<account, keys, lastKey>>

\* generate_secrets sets the two keys one after the other.
SetKey(kind) ==
    /\ lastKey < MaxKeys
    /\ lastKey' = lastKey + 1
    /\ keys' = [keys EXCEPT ![kind] = lastKey + 1]
    /\ Changes
    /\ UNCHANGED <<account, expiry>>

\* A key is removed or, the refresh token secret, set to the empty string.
ClearKey(kind, value) ==
    /\ value = Empty => kind = "refresh"
    /\ keys[kind] # value
    /\ keys' = [keys EXCEPT ![kind] = value]
    /\ Changes
    /\ UNCHANGED <<account, expiry, lastKey>>

Tick ==
    /\ now < MaxTime
    /\ now' = now + 1
    /\ UNCHANGED <<environment, tokens, grants, job, overtaken>>

Request(p) ==
    \/ BadRequest(p)
    \/ \E u \in Users : ClientGrant(p, u) \/ PasswordGrant(p, u)
    \/ \E token \in tokens : RefreshGrant(p, token) \/ Call(p, token)

Progress(p) ==
    \/ ClientUser(p)
    \/ RenewUser(p)
    \/ Issue(p)
    \/ CallUser(p)
    \/ Run(p)

Administer ==
    \/ \E u \in Users :
         \/ \E state \in Accounts : SetAccount(u, state)
         \/ \E expires \in Expiries : IssueCredentials(u, expires)
         \/ RevokeCredentials(u)
    \/ \E kind \in {"access", "refresh"} :
         SetKey(kind) \/ \E value \in {Unset, Empty} : ClearKey(kind, value)

Next ==
    \/ \E p \in Workers : Request(p) \/ Progress(p) \/ Crash(p)
    \/ Administer
    \/ Tick

\* A PHP worker that serves a request goes on until it answers, unless it dies.
Fairness == \A p \in Workers : WF_vars(Progress(p))

\* Everything but the fairness, which ApiSystem implements.
Safety == Init /\ [][Next]_vars

Spec == Safety /\ Fairness

-----------------------------------------------------------------------------
(* Properties                                                              *)

\* Every variable keeps its type.
TypeOK ==
    /\ account \in [Users -> Accounts]
    /\ expiry \in [Users -> Nat \cup {NoCredentials}]
    /\ keys \in Keys
    /\ lastKey \in KeyIds
    /\ now \in Times
    /\ tokens \subseteq Token
    /\ grants \in 0 .. MaxGrants
    /\ job \in [Workers -> Job \cup Rest]
    /\ overtaken \subseteq Workers

\* A request decides on the present.  Unless an account, a client or a key was
\* changed while it was under way, a call runs only for an account that may
\* call, and tokens are about to be issued only to one that may have them: no
\* request that starts after a deletion acts for the user, however old its
\* token.  The code reads the token first and the account later.
DecisionsCurrent ==
    \A p \in Workers \ overtaken :
        /\ At(p, "run") => Callable(account[job[p].user])
        /\ At(p, "issue") => Grantable(account[job[p].user])

\* The two kinds of token are told apart by their keys alone.  A refresh token
\* does for a call only if it was issued while no refresh token secret was set
\* (and then also after one is set), and an access token renews only while
\* none is set, however the keys are replaced and whatever configuration the
\* request that issued them had loaded.
KindsSeparate ==
    \A t \in tokens :
        /\ t.kind = "refresh" /\ t.key = keys.access => t.shared
        /\ t.kind = "access" /\ t.key = RefreshKey(keys) => keys.refresh = Unset

KindHonoured ==
    \A p \in Workers : At(p, "idle") =>
       /\ job'[p].step = "call" =>
            \E t \in tokens : /\ t.user = job'[p].user /\ Parses(t, keys.access)
                              /\ t.kind = "access" \/ t.shared
       /\ job'[p].step = "renew" =>
            \E t \in tokens : /\ t.user = job'[p].user /\ Parses(t, RefreshKey(keys))
                              /\ t.kind = "refresh" \/ keys.refresh = Unset

\* Tokens are used for what they were issued for, although no token says in a
\* field of its own what that is.  A request that gets past its token has sent one
\* of its user that verifies under the key of that use, and that is of that kind,
\* unless it was issued for a call, or is sent to renew, while there is one key
\* for both.
KindsHonoured == [][KindHonoured]_vars

\* What a request is accepted on is within its life: a call needs a token of
\* the same user, signed with the key the request loaded, that the clock has
\* not passed; a client credentials grant needs credentials that the clock
\* has not passed.
AcceptedInTime ==
    [][\A p \in Workers :
         /\ At(p, "idle") /\ job'[p].step = "call" =>
              \E t \in tokens : /\ t.user = job'[p].user /\ t.key = keys.access
                                /\ now < t.exp
         /\ At(p, "idle") /\ job'[p].step = "client" =>
              \/ expiry[job'[p].user] = Never
              \/ expiry[job'[p].user] > now
      ]_vars

\* Once an account is deleted, work for it stops for good: the calls and the
\* grants under way end, and no new one is let through, although its tokens
\* stay valid.
DeletionTakesHold ==
    \A u \in Users :
        account[u] = "deleted" ~>
          [](\A p \in Workers : At(p, "run") \/ At(p, "issue") => job[p].user # u)
=============================================================================
