# A TLA+ model of the Moodle plugin webservice_api

The plugin gives Moodle a REST API: OAuth2 tokens and client credentials, an
authentication middleware, rate limiting, request logging, CORS and generated
OpenAPI documentation. This directory models the parts whose correctness
depends on the order in which things happen, checks them with TLC on small
instances and proves, with TLAPS, that their safety properties hold
for instances of every size.

Paths below are relative to the repository; `classes/` is meant where no
directory is given.

## 1. The system

Every HTTP request runs `index.php` in a PHP worker of its own. Workers share
nothing but the database and Moodle's configuration, the code opens no
transaction and takes no lock, and a worker may be killed at any moment. So a
request is a sequence of separate accesses, and the interesting behaviour is
what other requests, administrators and the clock do between two of them.

| Component | State | Operations | What makes it correct |
|---|---|---|---|
| Client credentials (`models/auth/oauth2_credentials.php`, `services/oauth2_credentials_service.php`, `controllers/auth/client_credentials_controller.php`) | table `webservice_api_credentials`; the persistent in each worker's memory | POST (create), PATCH (new secret, new expiration), DELETE | rows are written only on behalf of somebody entitled to the owner's credentials; secrets are unique; one row per client; revocation is final; the events explain the table |
| Credential events (`event/oauth2_credentials_*.php`) | the log | triggered after each write, with the user it is about | none invented; none missing unless a worker died |
| Tokens (`controllers/auth/oauth2_controller.php`, `services/oauth2_token_service.php`, `value_objects/auth/jwt_token.php`) | none on the server: a token is signed | password, refresh token and client credentials grants | expiry; access and refresh tokens apart; only to accounts in order |
| Authentication (`http/middlewares/auth/`) | `$USER` | accept a token, read the account, run the rest | calls only for accounts in order, refusals reported |
| Rate limit (`http/middlewares/rate_limiting/authenticated_rate_limit.php`) | table `webservice_api_ratelimit` | count a request, decide | never counts more than was asked; exact while a user's requests do not overlap; refuses only above the limit |
| Logger, CORS, handling of throwables (`http/middlewares/log`, `cors_middleware.php`, `handlers/exception_handler.php`, `routing/strategies/json_strategy.php`) | the request | wrap the controller | each request logged once with what was answered |
| Configuration (`config.php`) | two signing keys, two lifetimes, flags | load per request, replace keys one by one | a missing key is noticed; the fallback does not mix kinds of token unexpectedly |
| OpenAPI documentation (`services/openapi_documentation_service.php`) | a cache by format; the language of each session | get, generate, purge, expiry | a purge gets rid of old documents; sessions get their language back |
| Pagination (`helpers/pagination/`) | none on the server: the query in the client's hands | page, limit, links | a helper accepts its own links and they lead where they say |
| Request parameters, external API adapter | none | pure functions | see 5 |
| Routing, resources and transformers, hooks, language, settings, vendored libraries | none of interest | | not modelled |

Interactions: the middlewares call each other and the controller in a stack
that the league router builds; the token controller calls the credentials
service (`validate_credentials`) and the token service; the middleware
`oauth2_token_auth` calls the token service and reads table `user`; the
persistent calls back `before_validate`, `before_create`, `before_update`,
`after_*`, and these trigger the events. The controller of the credentials runs
behind `oauth2_token_auth`, and the grant that gets a token by credentials reads the
table that this controller writes.

The hard behaviours, each listed at its line in `PROJECT.json` under
"hazards": check-then-act on the database, copies written back after others
wrote, a worker that dies between a write and its event, a request overtaken
by a suspension or a key change, expirations at their boundaries, exceptions
that leave by a path nobody catches, a document that is stored after the code it
describes was replaced.

## 2. Modules

| Module | Contents |
|---|---|
| `CredentialStore`, `CredentialStoreProofs` | what the credentials API promises: issue once, rotate, revoke for good, each request one atomic step; what follows from it |
| `OAuthCredentials` | the credentials component, one action per database access |
| `OAuthCredentialsProofs` | its theorems |
| `OAuthTokens` | grants, tokens and calls, while accounts, credentials and keys change |
| `OAuthTokensProofs` | its theorems |
| `ApiSystem` | `OAuthTokens` and `OAuthCredentials` composed: the credentials routes behind the middleware, the grant on the real table |
| `ApiSystemProofs` | that it implements both, and its own invariants |
| `RateLimit`, `RateLimitProofs` | the rate limit: the read and write of the default statements, and the statement Moodle refuses; its theorems |
| `RequestPipeline`, `RequestPipelineProofs` | one request through its middlewares and back; its theorems |
| `OpenApiCache`, `OpenApiCacheProofs` | the documents generated and cached while the code is upgraded; its theorems |
| `Pagination`, `PaginationProofs` | the two pagination helpers, walked by a client; its theorems |
| `MC...` | the instances for TLC |

Each model has some operators marked *Fault*, standing before the definition
that they get wrong in one way. No specification uses them; they are there to
see that the property they are paired with in `PROJECT.json` fails when the code
has that bug.

### OAuthCredentials

`table` holds the rows by id, `lastId` the sequence, `lastSecret` the number
of secrets drawn so far: secrets are the numbers 1, 2, ..., because `uniqid`
and 16 random bytes do not repeat, and `hash_secret` is injective on them for
the same reason. `job[p]` is the request of worker `p`: the caller, the step
it comes to next, and the persistent in its memory. `log` and `lost` are the
events triggered and those that died with their worker; an event has the row's id and
hash, the caller, and as `relateduserid` the user whose credentials they are.

| Code | Action |
|---|---|
| POST up to `record_exists` in `before_create` | `CreateRefused` (403), `CreateConflict` (409), `CreateAccepted` |
| `insert_record` | `InsertRow` |
| PATCH up to the write | `NotFound` (404), `Refused` (403), `RegenerateInvalid` (400), `RegenerateRead` |
| `update_record` (every column, no error on a missing row) | `UpdateRow` |
| DELETE up to the write; `delete_records` | `RevokeRead`; `DeleteRow` |
| `after_create`, `after_update`, `after_delete`, answer | `Notify` |
| a worker dies | `Crash` |

One action contains the one read of the database that a request decides on and
the computation that follows it. `ClientOf` is the prefix of the SHA-256 of the
user's id; nothing assumes that it is injective. From Moodle the model takes
that `core\persistent` validates before `before_create` and `before_update`,
that `get_record` with several matches returns one of them, and that update
and delete by id do not fail on a missing row.

### OAuthTokens

An account is in one of seven states, which is what the two `validate_user`
functions and the queries tell apart. The configuration is loaded when a request
begins and kept in `job`. `overtaken` is a history variable: the workers whose
request was under way when an account, a client or a key last changed. The
secrets of clients are not modelled again: the table is reduced to one expiration
for each user, which may be issued anew or revoked at any time. That this
reduction allows everything the real table does is shown in `ApiSystem`. php-jwt is
external: it refuses an empty key, a wrong signature and a token whose `exp` is
not after the clock. The clock is read once for a pair of tokens, where the
code reads it twice for each.

### ApiSystem

The variables are those of the two components; `job` of `OAuthTokens` is
`request` here, `job` of `OAuthCredentials` is `writer`, and `now` is shared. A worker
has both: `request` says that the middleware let its caller through (step `run`),
and meanwhile `writer` is the credentials service at work for that caller. Every action
is made of actions of the components:

| Code | Action |
|---|---|
| client credentials grant: `validate_credentials` on the table | `ClientGrant` with `Accepts` |
| the other grants; the bearer token; the steps after them | `OtherRequest`, `TokenStep` |
| `/oauth2/credentials` is routed and the service reads | `Begin` (`Create`, `Lookup`, `Regenerate`, `Revoke` of `OAuthCredentials`) |
| the service writes | `Write` |
| the event, the answer through the middleware | `Finish`, `Return` |
| `/me` | `Me` |
| a worker dies in either part | `Crash` |

The refinement mapping to `OAuthCredentials` is the identity on its variables. That to
`OAuthTokens` computes `expiry` from the table: `Best[u]` is the expiration of
the row of `u` that lasts longest, `Never` counting as the longest, or
`NoCredentials` when there is no row. A grant on any row that has not expired is
then one that `OAuthTokens` allows; a write is `IssueCredentials`, `RevokeCredentials` or,
when `Best` does not change, a stutter. Signing keys are not changed here;
that is the business of `OAuthTokens`.

### OpenApiCache

`version` stands for the installed code. A document is made of three things, each with the
version it is of: the callbacks with which plugins add routes, `routes.php`, and the files
of the controllers. The callbacks are functions and closures that `index.php` has loaded when the
request begins (`factories/router/router_factory.php`, `routing/route_manager.php`); a
generation runs them again, but PHP loads no function twice, so they are of the version in
`job[p].since`. `routes.php` is required anew by `initialize_router`, and the files are scanned
after that, so either is of the version installed at that step. `cache` maps a format to its entry and
age. `forced` are the sessions with `forcelang` set; `job[p].previous` is what
`force_current_language` returned. `failed` and `clean` are history.

| Code | Action |
|---|---|
| `validate_format`, `skip_cache` | `Start` (400 for an unknown format) |
| `$cache->get` | `Lookup` |
| the language is forced; `initialize_router` | `ReadRoutes` |
| `Generator::scan`, the language put back | `Scan` |
| anything of that throws | `Throw` |
| `$cache->set` | `Store` |
| a worker dies; upgrade; purge; the clock | `Crash`, `Upgrade`, `Purge`, `Tick` |

Moodle locks a session for the request that has it open, so no two requests of
one session run at a time. Where a killed worker's session ends up is
left open.

### Pagination

No server state: `helper` is how an endpoint sets its helper up and `query` the
request the client has just made. `Reload`, `Forward` and `Back` follow the links of
`get_current_page_url`, `make_next_page_url` and `make_previous_page_url`. A
parameter is an integer because the helpers cast it; `PHP_INT_MAX` is the
constant `MaxInt`, and `Cast` says what happens past it. A maximum that was never set
is 0, as `intval(INF)` is.

### RateLimit

`backend` is what the statements of the database do. Moodle's
`get_dbfamily` returns `mysql`, `postgres`, `mssql` or `oracle`, so of the names the
code compares it with only `mysql` ever occurs and every other database takes the
default: a read, a computation in PHP and a write (`ReadRow` or `ReadNothing`, then `UpdateRow` or
`InsertRow`). The statement for `mysql` repeats a named parameter, which Moodle's `execute`
refuses with an exception: nothing is counted and the request ends in status 500 (`Reject`).
The MERGE and ON CONFLICT statements repeat theirs too, and are never run; nothing is said here of
what a database would make of them. `counted` is the history of the requests
counted, `disturbed` the users who had two requests under way at a time or one that died
with what it was to write. `Users` stands for pairs of user
and identifier.

### RequestPipeline

`depth` counts the middlewares that have called the next one, `result` is what
comes back. The order of the stack is that of `League\Route\Dispatcher`: the
strategy's throwable handler outermost, then the middlewares in the order of
registration. The controller may return or throw anything. The rate limit here
may let through or answer 429; `RateLimit` says when. A route adds a middleware
at most once, which is the assumption on `Routes`.

## 3. What the runs check

| Run | Instance | Result |
|---|---|---|
| `credentials` | 2 workers; ann manages others' credentials, bob his own, cal none; ann and cal share a client id; 2 rows, 3 secrets, clock 1..2, expirations never and 2 | `TypeOK`, `AuthorisedRows`, `CopiesValid`, `TrailExplainsTable`, `SecretsUnique`, `DuplicatesBounded`, `RevokedNeverReturns` and the refinement `ImplementsStore` hold |
| `duplicate` | as `credentials` | `OneRowPerClient` fails: two POSTs interleave |
| `lost_update` | as `credentials` | `UpdateTakesEffect` fails: DELETE between PATCH's read and write |
| `tokens` | 1 worker, 1 account, 2 grants, 3 keys, clock 1..2, access token for 1, refresh token for 2, credentials for ever or until 2 | `TypeOK`, `DecisionsCurrent`, `KindsSeparate`, `KindsHonoured`, `AcceptedInTime` hold and, under fairness, `DeletionTakesHold` |
| `api_system` | 1 worker; ann with a password, who manages others' credentials, and svc, a service account without one, who may manage its own; one client id for both; 2 rows, 2 secrets, 2 grants, clock 1..2; accounts may be deleted | `TypeOK`, `ActorAdmitted`, `AccessAccounted`, the refinements `ImplementsCredentials` and `ImplementsTokens` hold and, under fairness, `DeletionEndsWrites` |
| `openapi_cache` | 2 workers, 2 sessions, one format and an unknown one, 3 versions, ttl 2 | `TypeOK`, `PurgeSuffices`, `ForcedByFailure`, `AnswersRecent` hold and, under fairness, `EventuallyFresh` |
| `pagination` | both helpers, every query with integers -1..4, default limits 1 and 3, maximum 2 or none, throwing or not, first page 0 or 1, 3 clicks forward or nowhere | `TypeOK`, `LinksHold`, `BackUndoesForward` hold and, under fairness, `BackEnds` |
| `rate_limit` | 2 workers, 2 users, 4 requests, limit 1, window 1, clock 0..2, both backends | `TypeOK`, `NeverOvercounts`, `RowsBounded`, `ExactAlone` hold |
| `rate_limit_answer` | as `rate_limit` | `LimitAnswered` fails: the decision is inverted |
| `pipeline` | 6 orders of middlewares, every throwable | `TypeOK`, `LoggedOnce`, `LoggedAsAnswered`, `FailureReported`, `CorsOnResponses`, `ControllerAuthenticated` hold |
| `pipeline_refusal` | as `pipeline` | `RefusalsReported` fails: `setOther` does not exist |
| `pipeline_cors` | as `pipeline` | `CorsOnAllRoutes` fails: an answer made from a throwable has no headers |

Five runs end in a violation on purpose; `PROJECT.json` under "findings" says
which line of code is at odds with which line of documentation.

### Why the bounds are enough

*Credentials.* Every property speaks of at most two rows or two requests. Two
workers give each pair of requests every interleaving; two rows and three
secrets allow a row with its secret replaced, a deleted row with a new one
after it, and the duplicate with the secret of one of its rows replaced or about to be. The run
tells states apart by the view `Told`, which leaves out whether an event was logged or
lost and which status an idle worker answered last. No guard reads these and each step treats
two states of one view alike; the properties of the run read `log` and `lost` only as a union (`Trail`) or
ask of each alike whether its members are events, and ask of a status only whether the type allows it, which the
view keeps. So states of one view have the same successors up to the view and the same
verdicts. The runs `duplicate` and `lost_update` do without it.
For more of anything there are the theorems. No deadlock arises when the
bounds are used up, since PATCH and DELETE are still refused or answered 404
or 403.

*Tokens.* One account: no action relates two. One worker: requests act on nothing
that another request reads except the tokens, which a single worker also
issues and presents, so what interleaves with a request is the administrator, the keys and the
clock; the theorems cover any number of workers. Two grants are a grant and a
renewal by its refresh token. An access token and credentials
issued at 1 die at 2, where the refresh token issued with them still renews: the
expired and the live token meet in the run. The death of a refresh token is the
same comparison and is not reached. Three keys with two set at the start leave one
replacement, of either key; removing and emptying are not bounded.

*The API as a whole.* The interleavings of workers inside either component are the
subject of `credentials`, whose properties the refinement transfers; what is new here
is the circle from a token to credentials to another account's token, and two
grants, two rows and two accounts go round it once. With one worker the
duplicates do not occur in this run; `ApiSystemProofs` has any number of workers.

*OpenAPI.* The formats never meet, so one is enough next to an unknown one. Two
workers with a session each fill one entry across two upgrades: a document can
be two versions old, and made of two versions. With a ttl of 2 an entry is fresh,
aged and expired.

*Pagination.* `MaxInt` = 4 has limits and pages below, at and above the
maximum and the first page, and the last integer; a click forward from it is
among the three.

*Rate limit.* Four requests on two workers give a stale copy written over a
newer window (two requests of one window, one of the next, one more to see the
effect). Two users on these workers have one whose requests overlap or die next to one whose requests
do not, and one whose single worker crosses the end of its window. The state `Terminating` lets the instance stop when requests and clock
are used up.

*Pipeline.* Requests share nothing, so one at a time is all there is. The
orders are those of `routes.php` and those in which a plugin could put the
logger, the rate limit or CORS on the other side of authentication; the theorems
have every order.

`MCPagination.cfg` alone turns the deadlock check off: a client may stop on a page
without a previous one, or where the helper refused.

### Fairness

`OAuthTokens`, `ApiSystem` and `OpenApiCache` assume `WF(Progress(p))` for each
worker: a PHP worker that serves a request goes on to the next statement until
it answers, unless it is killed. `Crash` is no part of the fairness, and no
request or administrator is assumed ever to act. `OpenApiCache` adds
`WF(Tick)`, since its entries expire by the clock; the clock is unbounded there
and ages stop at the ttl. In `Pagination` `WF(Back)` is the client that
`BackEnds` is about, one that goes back as long as there is a link.
`DeletionTakesHold` and `DeletionEndsWrites` need that a call let through just before the
deletion comes to its end; `EventuallyFresh` that a stale generation under way is
stored and then expires.

## 4. What is proved

Each theorem holds for every value of the constants that the named assumption of its module
allows; that is, for any number of workers, users, rows, sessions, versions and keys, any
lifetime, window and limit.

| Module | Theorems: `Spec => []P` for an invariant, `Spec => P` for an action property or a refinement |
|---|---|
| `OAuthCredentialsProofs` | `TypeCorrect`; `RowsAuthorised`, `CopiesAlwaysValid`, `SecretsAlwaysUnique`, `DuplicatesAlwaysBounded`, `TrailAlwaysExplains` for the invariants of similar names; `RevocationFinal` (`RevokedNeverReturns`); `StoreImplemented` (`ImplementsStore`); `SerialUnique`, `SerialUpdates`: with one worker `[]OneRowPerClient` and `UpdateTakesEffect`; `LostUpdatesExplained`; `SecretsForgotten` |
| `CredentialStoreProofs` | `TypeCorrect`, `AlwaysSound`, `AlwaysContinuous`, `DeadForGood` |
| `OAuthTokensProofs` | `TypeCorrect`, `DecisionsAlwaysCurrent`, `AlwaysAcceptedInTime`, `KindsAlwaysSeparate`, `KindsAlwaysHonoured` (`KindsHonoured`); `DeletedWorkDwindles`, `DeletionFinal`, `DeletedGetsNoToken` |
| `ApiSystemProofs` | `TypeCorrect`, `CredentialsImplemented`, `TokensImplemented`, `ActorAlwaysAdmitted`, `AccessAlwaysAccounted`; transferred from the components: `CredentialsSafe`, `CredentialsRevoked`, `TokensSafe`, `TokensInTime`; from these: `ForgottenRefused`, `TokensForTheirUse`, `DeletionFinal`, `DeletedWritesNoRow` |
| `OpenApiCacheProofs` | `TypeCorrect`, `PurgeSufficesAlways`, `LanguageExplainedAlways` (`ForcedByFailure`), `AnswersAlwaysRecent`, `StalenessSubsides` |
| `RateLimitProofs` | `TypeCorrect`, `NeverOvercountsAlways`, `RowsAlwaysBounded`, `AlwaysExactAlone` (`ExactAlone`) |
| `RequestPipelineProofs` | `TypeCorrect`, `LoggedOnceAlways`, `LoggedAsAnsweredAlways`, `FailuresAlwaysReported`, `CorsAlwaysOnResponses`, `ControllersAuthenticated` |
| `PaginationProofs` | `TypeCorrect`, `LinksAlwaysHold`, `BackAlwaysUndoes`, `BackDescends` |

### Credentials, layer by layer

1. `TypeOK` is inductive. It says that ids come from the sequence and secrets
   from the generator, which every later layer uses.
2. `Consistent == AuthorisedRows /\ CopiesValid`. Neither is inductive alone:
   PATCH stores a copy, so the row is authorised only because the copy was
   valid; the copy is valid only because the row it was read from was
   authorised and no other worker changes a row's owner.
3. `Secrets` adds to `SecretsUnique` that every secret stored or under way was
   drawn before, which makes the next one differ from all of them.
4. `DuplicatesBounded` counts rows and pending inserts of a client together. It is
   preserved because a worker that passes the check has found no row, so only
   inserts of other workers are counted before it. With one worker the bound
   is 1, which is `SerialUnique`: the duplicates of run `duplicate` come from
   interleaving and from nothing else.
5. `TrailExplainsTable` follows a write's event through pending, logged and
   lost; it needs `CopiesValid` for an event that says a row is gone.
6. `RowsStay`, the action under `RevokedNeverReturns`, follows from 1 to 3.
7. The refinement maps a row to a live credential, an id that was issued and is
   gone to a retired one, and a drawn secret to a spent one unless a request is
   about to store it. `InsertRow` is `Issue`, `UpdateRow` is `Rotate` or, when the
   row is gone, `Discard`; `DeleteRow` is `Revoke` or a stutter; `Crash` of a
   request with a secret in hand is `Discard`, as is a refused creation.
8. What the store promises then holds for the table. `CredentialStoreProofs` shows of the
   store alone that no step revives an identifier or a secret (`Continuous`) and that a
   secret which was replaced or revoked is `Dead` for good; through the mapping of 7 this is
   `SecretsForgotten`, although workers write back copies they read before.
9. `LostUpdatesExplained` gives the cause of what run `lost_update` finds. PATCH stores
   nothing only if its row is gone; its copy was read from a row that existed, ids come from
   the sequence, and by 5 an id that was issued and is gone has its deletion in the trail.
   With one worker no row goes between the read and the write (`SerialUpdates`).

### Tokens

`Follows` says what one step of a worker may make of its request; with it
`DecisionsCurrent` is preserved because a change of the environment puts every busy worker
into `overtaken`. `KindsSeparate` needs `KeysApart`: the keys that stand, or stood when something was made,
for access tokens (in the settings, in the configuration of a request under way, on a
token) and those for refresh tokens, where they were not shared, have nothing in common, and all of them were set
before, so the next key is different. A request's own copy belongs to the invariant
because it signs with what may be long replaced.
`KindHonoured` turns this into what a request does: a step that starts a call or a renewal finds
a token that passes with the key the step verifies with, and `KindsSeparate` says of which kind it is.

`DeletionTakesHold` is liveness, but what makes it true is not. No account leaves the state
`deleted`, and every step that starts work for an account, or goes on to it, reads its state first, so the workers with a
request let through before (`WorkFor`) only become fewer (`DeletedWorkDwindles`). Once there
are none there are none for ever (`DeletionFinal`), and nobody is left who could issue the account a
token (`DeletedGetsNoToken`). Fairness adds only that each request under way ends.

### The API as a whole

`Composed` is the types of both components with `Consistent` of the credentials: under it every
step of `ApiSystem` is a step or a stutter of each component (`CredentialsImplemented`,
`TokensImplemented`), so every theorem about a component holds here. The step that needs care is
`Write`: a lost update or the deletion of one of two rows must change `Best` in a way
`OAuthTokens` allows, so the row that lasts longest has to exist (`GreatestValue`, by the
well-founded ordering of strict subsets) and a copy written back has to be valid.
`SameCaller`, that a worker whose service is at work has let that very user
through, gives `ActorAdmitted`; the other half is `DecisionsCurrent` of the tokens.
`AllVouched` carries `AccessAccounted`: tokens come from requests, these from rows, and a
row perhaps from a request of its own user, so tokens, requests, rows and copies are
accounted for together, and events are never forgotten (`TrailGrows`).
Each theorem about a component is cited for its instance and needs only that `Spec` implies the
instance's (`CredentialsSafe`, `TokensSafe` and so on). Some then say more than they did
there: a secret that is `Dead` in the store belongs to no row, and a grant compares what
the client sent with rows, so it is refused for good (`ForgottenRefused`); the keys are constant
here, so with both set calls run on access tokens only (`TokensForTheirUse`). `DeletionFinal` needs `ActorAdmitted`: a
worker writes for a user only while its `request` runs for that user, and the
tokens' module says that none starts after the deletion.
`SystemAssumption` repeats the components' assumptions because the cited theorems of an instance
carry them.

### OpenAPI documents

`PurgeSuffices` speaks of a purge when every request from before the change, but for those of
developers, has ended (`OldRequest`). One earlier is not enough, even if such a request has yet to look
in the cache: it finds nothing after the purge and stores the routes of the callbacks it
loaded before. The property is not inductive: `FillsCurrent` adds that while `clean` holds
no old request is under way. It becomes true at a purge that finds none,
is lost only by `Upgrade`, which resets `clean`, and with it each document under way is of
the present code, by `ReadRecently`.
`ForcedByFailure` needs `SessionsLocked` (a session has one request at a time) and
`PreviousExplained` (a request that found its session forced found it so
because an earlier generation failed). `DocsRead` completes the types.
`AnswersRecent` needs `ReadRecently`, which bounds what a request has read so far from below by the version installed
when it began and from above by the present one. `StalenessSubsides` is the part of `EventuallyFresh`
that is safety: while the code does not change no request comes to be an old one, an old entry is as it was
and not younger unless an old request has just ended by storing it, and each tick ages it until its ttl has passed.
The number of old requests and the ages are then the measure by which the fairness of
`Progress` and `Tick` leads to fresh answers.

### Rate limit

`NeverOvercounts` is inductive only with what a worker holds: `Backed` says of each stored counter
and of each copy in a worker's hands that its window has begun and that its count is at most the number of
requests since. Requests carry a number of their own (`Numbered`), so that each is counted
once and the history is finite; `Prepared` says where a copy will be written. `RowsCounted`
bounds the ids by the arrivals.

`ExactAlone` says whom the lost counts hit. `AloneFor` strengthens it for a user who is not
`disturbed`: one request is under way at most and none counted before it has read a later time; there is one row at most, and none
while a request is about to insert one; and what is stored, or held while the row is out of date,
`Fits`: it is the number of requests since its window began, and none of them read a time past the
window's end. That last part makes the step to a new window right, since no request but the one
that takes it has read a time in the new window. `TimeWindow > 0` is needed: with windows of no length two
requests of one second each store 1.

### Pipeline

`Passed` are the middlewares that have called the next one, `Left` those that the request has
left again. The invariant states for the way in (`Inbound`) that nothing has happened yet,
and for the way out what those in `Left` have done: `Headers` for CORS,
`LogEvents` and `LogEventsTrue` for the logger, `FailureEvents` for authentication. The order of the
middlewares never enters.

### Pagination

The lemmas say what `Merge` gives a link, that `Limit` of a limit that is already capped
is itself, and that the cast changes nothing below `MaxInt`; the theorems follow
for each link. `BackDescends` counts the pages before the present one: each click back takes
away exactly one, and there is a link back as long as one is left, so `BackEnds` needs only a client that clicks.

### Only model-checked

Liveness (`DeletionTakesHold`, `DeletionEndsWrites`, `EventuallyFresh`, `BackEnds`), which
the prover cannot do; for each of them the safety that it rests on is proved
(`DeletionFinal` in either module, `StalenessSubsides`, `BackDescends`), so what is left to
TLC is that fair steps are taken. And that the five findings are reachable.

## 5. Not modelled

- *Request parameters and the external API adapter*: stateless. The models start from parsed
  parameters; what is wrong before that is below.
- *Routing*: the router is built anew by each request in one thread. That the
  documentation service builds a second one is in `OpenApiCache`.
- *Error handler*: a stateless switch. `RequestPipeline` relies on it for a warning that
  does not become an exception.
- *`moodle_session_auth`*: extends an interface, so PHP refuses to load it; no route uses it.
- *Resources and transformers, the user controller, the hook*: formatting, or a
  single read (`Me`).
- *Moodle itself* (sessions, capabilities, passwords, the persistent, caches) and the
  vendored libraries, swagger-php and php-jwt among them, are external and
  taken as the plugin uses them. The minified Swagger UI files under `docs/`
  are third-party browser code: no definition maps to them, so a measure of coverage
  that counts only JavaScript files sees nothing of this project. The plugin is PHP.

Observed on the way, and not the subject of a run:

- POST `/oauth2/credentials` accepts an `expires_at` that is past. The string
  "Credentials expiration must be a future timestamp" (`lang/en/webservice_api.php:67`)
  is enforced by PATCH only.
- `abstract_pagination_helper` starts with `intval(INF)`, which is 0, as the largest
  limit: without `set_max_limit` every limit becomes 0. With `throws` a limit equal to
  the maximum is refused (`:36` uses `<`), though the message is "The maximum allowed
  page size is {$a}" (`lang/en/webservice_api.php:69`).
- The links of a credentials resource point at `/credentials/{id}`
  (`factories/resources/api_resource_factory.php`), the route is `/oauth2/credentials`. The
  README and the OpenAPI attributes name `/oauth/credentials` and `/user/me`, which
  no route serves.
- `openapi_controller::redirect_to_index` redirects without the `/webservice/api` prefix.
- A PATCH with a form body arrives without its parameters; a body that is JSON `null` ends in
  a `TypeError` and status 500.
- The hook classes named in `db/hooks.php` and the README do not exist, nor does the interface that
  `collection_transformer` implements.
- Examples given as `new lang_string` serialise as `{}` in the document.
- The session of a client stays in the site's language after a failed generation
  (`ForcedByFailure` says that nothing else does this).
- The README's `$CFG->webservice_api` settings are read nowhere.

## 6. What could come next

Request parameters: `required_param`, `optional_param` and the precedence of query, path and
body in `external_api_adapter` as operators over small inputs, which is a table of cases rather
than behaviour. A second worker in `api_system`, which the
theorems cover already. The fairness part of the liveness properties, should the prover come to
reason about `ENABLED`.
