------------------------- MODULE OAuthTokensProofs -------------------------
(***************************************************************************)
(* Theorems about OAuthTokens for every number of workers, users and keys  *)
(* and every lifetime of tokens, checked by TLAPS.                         *)
(***************************************************************************)
EXTENDS OAuthTokens, TLAPS

-----------------------------------------------------------------------------
(* Types, and what one step of a worker does                               *)

LEMMA BusyJob ==
    ASSUME TypeOK, NEW p \in Workers, ~At(p, "idle")
    PROVE  job[p] \in Job
  BY DEF TypeOK, Rest, At

LEMMA RestType ==
    ASSUME NEW status \in {0, 200, 400, 401, 403, 404, 409, 500}
    PROVE  /\ [step |-> "idle", status |-> status] \in Rest
           /\ [step |-> "idle", status |-> status].step = "idle"
  BY DEF Rest

LEMMA JobType ==
    ASSUME NEW step \in {"client", "renew", "call", "issue", "run"},
           NEW u \in Users, NEW k \in Keys
    PROVE  /\ [step |-> step, user |-> u, keys |-> k] \in Job
           /\ [step |-> step, user |-> u, keys |-> k].step = step
           /\ [step |-> step, user |-> u, keys |-> k].user = u
           /\ [step |-> step, user |-> u, keys |-> k].keys = k
  BY DEF Job

\* A job j that the worker p may have after a step of its own: with the
\* configuration that it had or that there is, and in the steps that decide
\* only for an account that may be decided for.
Follows(p, j) ==
    /\ j \in Job \cup Rest
    /\ j.step # "idle" => \/ j.keys = keys
                          \/ ~At(p, "idle") /\ j.keys = job[p].keys
    /\ j.step = "run" => Callable(account[j.user])
    /\ j.step = "issue" => Grantable(account[j.user])
    /\ j.step = "issue" /\ At(p, "renew") => Found(account[j.user])

LEMMA AnswerFollows ==
    ASSUME NEW p \in Workers,
           NEW status \in {0, 200, 400, 401, 403, 404, 409, 500}, Answer(p, status)
    PROVE  \E j : Follows(p, j) /\ job' = [job EXCEPT ![p] = j]
  <1> DEFINE j == [step |-> "idle", status |-> status]
  <1>1. Follows(p, j)
    BY RestType DEF Follows
  <1>2. job' = [job EXCEPT ![p] = j]
    BY DEF Answer
  <1> HIDE DEF j
  <1> QED BY <1>1, <1>2

LEMMA ContinueFollows ==
    ASSUME NEW p \in Workers, NEW step \in {"client", "renew", "call", "issue", "run"},
           NEW u \in Users, NEW k \in Keys, Continue(p, step, u, k),
           k = keys \/ (~At(p, "idle") /\ k = job[p].keys),
           step = "run" => Callable(account[u]),
           step = "issue" => Grantable(account[u]),
           step = "issue" /\ At(p, "renew") => Found(account[u])
    PROVE  \E j : Follows(p, j) /\ job' = [job EXCEPT ![p] = j]
  <1> DEFINE j == [step |-> step, user |-> u, keys |-> k]
  <1>1. Follows(p, j)
    BY JobType DEF Follows
  <1>2. job' = [job EXCEPT ![p] = j]
    BY DEF Continue
  <1> HIDE DEF j
  <1> QED BY <1>1, <1>2

\* A request that starts.
LEMMA RequestStep ==
    ASSUME TypeOK, NEW p \in Workers, Request(p)
    PROVE  /\ Starts(p)
           /\ grants' \in 0 .. MaxGrants
           /\ \E j : Follows(p, j) /\ job' = [job EXCEPT ![p] = j]
  <1> USE DEF Fail
  <1>1. ASSUME NEW step \in {"client", "renew", "issue"}, NEW u \in Users, Pass(p, step, u),
               Starts(p), step = "issue" => Grantable(account[u])
        PROVE  /\ grants' \in 0 .. MaxGrants
               /\ \E j : Follows(p, j) /\ job' = [job EXCEPT ![p] = j]
    <2>1. grants' \in 0 .. MaxGrants
      BY <1>1, ConstantsAssumption DEF Pass, TypeOK
    <2>2. Continue(p, step, u, keys) /\ keys \in Keys /\ ~At(p, "renew")
      BY <1>1 DEF Pass, TypeOK, Starts, At
    <2> QED BY <1>1, <2>1, <2>2, ContinueFollows
  <1>2. CASE BadRequest(p)
    BY <1>2, AnswerFollows DEF BadRequest, TypeOK
  <1>3. ASSUME NEW u \in Users, ClientGrant(p, u)
        PROVE  /\ Starts(p) /\ grants' \in 0 .. MaxGrants
               /\ \E j : Follows(p, j) /\ job' = [job EXCEPT ![p] = j]
    BY <1>1, <1>3, AnswerFollows DEF ClientGrant, TypeOK
  <1>4. ASSUME NEW u \in Users, PasswordGrant(p, u)
        PROVE  /\ Starts(p) /\ grants' \in 0 .. MaxGrants
               /\ \E j : Follows(p, j) /\ job' = [job EXCEPT ![p] = j]
    BY <1>1, <1>4, AnswerFollows DEF PasswordGrant, TypeOK
  <1>5. ASSUME NEW token \in tokens, RefreshGrant(p, token)
        PROVE  /\ Starts(p) /\ grants' \in 0 .. MaxGrants
               /\ \E j : Follows(p, j) /\ job' = [job EXCEPT ![p] = j]
    <2>1. token.user \in Users
      BY DEF TypeOK, Token
    <2> QED BY <1>1, <1>5, <2>1, AnswerFollows DEF RefreshGrant, TypeOK
  <1>6. ASSUME NEW token \in tokens, Call(p, token)
        PROVE  /\ Starts(p) /\ grants' \in 0 .. MaxGrants
               /\ \E j : Follows(p, j) /\ job' = [job EXCEPT ![p] = j]
    <2>1. token.user \in Users /\ keys \in Keys
      BY DEF TypeOK, Token
    <2>2. CASE Parses(token, keys.access)
      BY <1>6, <2>1, <2>2, ContinueFollows DEF Call, TypeOK
    <2>3. CASE ~Parses(token, keys.access)
      BY <1>6, <2>3, AnswerFollows DEF Call, TypeOK
    <2> QED BY <2>2, <2>3
  <1> QED BY <1>2, <1>3, <1>4, <1>5, <1>6 DEF Request

\* A request that goes on, or dies.
LEMMA ProgressStep ==
    ASSUME TypeOK, NEW p \in Workers, Progress(p) \/ Crash(p)
    PROVE  /\ UNCHANGED <<environment, now, overtaken, grants>>
           /\ \E j : Follows(p, j) /\ job' = [job EXCEPT ![p] = j]
  <1> USE DEF Goes
  <1>1. ~At(p, "idle")
    BY DEF Progress, ClientUser, RenewUser, Issue, CallUser, Run, Crash, At
  <1>2. job[p] \in Job /\ job[p].user \in Users /\ job[p].keys \in Keys
    BY <1>1, BusyJob DEF Job
  <1>3. CASE ClientUser(p)
    <2>1. CASE Grantable(account[job[p].user])
      BY <1>1, <1>2, <1>3, <2>1, ContinueFollows DEF ClientUser, At
    <2>2. CASE ~Grantable(account[job[p].user])
      BY <1>3, <2>2, AnswerFollows DEF ClientUser
    <2> QED BY <2>1, <2>2
  <1>4. CASE RenewUser(p)
    <2>1. CASE Found(account[job[p].user]) /\ Grantable(account[job[p].user])
      BY <1>1, <1>2, <1>4, <2>1, ContinueFollows DEF RenewUser
    <2>2. CASE ~(Found(account[job[p].user]) /\ Grantable(account[job[p].user]))
      BY <1>4, <2>2, AnswerFollows DEF RenewUser
    <2> QED BY <2>1, <2>2
  <1>5. CASE Issue(p)
    BY <1>5, AnswerFollows DEF Issue
  <1>6. CASE CallUser(p)
    <2>1. CASE Callable(account[job[p].user])
                 /\ Continue(p, "run", job[p].user, job[p].keys)
      BY <1>1, <1>2, <1>6, <2>1, ContinueFollows DEF CallUser
    <2> QED BY <1>6, <2>1, AnswerFollows DEF CallUser
  <1>7. CASE Run(p)
    BY <1>7, AnswerFollows DEF Run
  <1>8. CASE Crash(p)
    BY <1>8, AnswerFollows DEF Crash
  <1> QED BY <1>3, <1>4, <1>5, <1>6, <1>7, <1>8 DEF Progress

\* Tokens come from Issue alone.
LEMMA TokensStep ==
    ASSUME TypeOK, NEW p \in Workers, Request(p) \/ Progress(p) \/ Crash(p)
    PROVE  \/ tokens' = tokens
           \/ /\ At(p, "issue")
              /\ job[p].keys.access # Unset
              /\ tokens' = tokens \cup PairFor(job[p].user, job[p].keys,
                                               RefreshKey(job[p].keys))
  <1>1. CASE Request(p)
    BY <1>1, RequestStep DEF Starts
  <1>2. CASE Progress(p)
    BY <1>2 DEF Progress, ClientUser, RenewUser, Issue, CallUser, Run, Goes
  <1>3. CASE Crash(p)
    BY <1>3 DEF Crash
  <1> QED BY <1>1, <1>2, <1>3

LEMMA PairType ==
    ASSUME TypeOK, NEW u \in Users, NEW k \in Keys, k.access # Unset
    PROVE  PairFor(u, k, RefreshKey(k)) \subseteq Token
  <1>1. k.access \in KeyIds /\ RefreshKey(k) \in KeyIds \cup {Empty}
    BY DEF Keys, RefreshKey
  <1>2. now + AccessTTL \in Nat /\ now + RefreshTTL \in Nat
    BY ConstantsAssumption DEF TypeOK, Times
  <1>3. (k.refresh = Unset) \in BOOLEAN
    OBVIOUS
  <1> DEFINE s == k.refresh = Unset
             r == RefreshKey(k)
  <1> HIDE DEF s, r
  <1>4. /\ [kind |-> "access", user |-> u, key |-> k.access,
            exp |-> now + AccessTTL, shared |-> s] \in Token
        /\ [kind |-> "refresh", user |-> u, key |-> r,
            exp |-> now + RefreshTTL, shared |-> s] \in Token
    BY <1>1, <1>2, <1>3 DEF Token, s, r
  <1> QED BY <1>4 DEF PairFor, s, r

LEMMA PairMembers ==
    ASSUME NEW u, NEW k, NEW r, NEW t \in PairFor(u, k, r)
    PROVE  /\ (t.kind = "access" /\ t.key = k.access) \/ (t.kind = "refresh" /\ t.key = r)
           /\ t.shared = (k.refresh = Unset)
  <1> DEFINE s == k.refresh = Unset
  <1>1. t \in {[kind |-> "access", user |-> u, key |-> k.access,
                exp |-> now + AccessTTL, shared |-> s],
               [kind |-> "refresh", user |-> u, key |-> r,
                exp |-> now + RefreshTTL, shared |-> s]}
    BY DEF PairFor
  <1> HIDE DEF s
  <1>2. /\ (t.kind = "access" /\ t.key = k.access) \/ (t.kind = "refresh" /\ t.key = r)
        /\ t.shared = s
    BY <1>1
  <1> QED BY <1>2 DEF s

LEMMA TypeInit == Init => TypeOK
  <1> SUFFICES ASSUME Init PROVE TypeOK
    OBVIOUS
  <1>1. keys \in Keys /\ lastKey \in KeyIds
    BY ConstantsAssumption DEF Init, Keys, KeyIds, Unset
  <1>2. job \in [Workers -> Job \cup Rest]
    BY RestType DEF Init
  <1>3. now \in Times /\ grants \in 0 .. MaxGrants
    BY ConstantsAssumption DEF Init, Times
  <1> QED BY <1>1, <1>2, <1>3 DEF Init, TypeOK, Accounts

LEMMA TypeStep == TypeOK /\ [Next]_vars => TypeOK'
  <1> SUFFICES ASSUME TypeOK, [Next]_vars PROVE TypeOK'
    OBVIOUS
  <1> USE DEF environment
  <1>1. ASSUME NEW p \in Workers, Request(p) PROVE TypeOK'
    <2>1. Starts(p) /\ grants' \in 0 .. MaxGrants
      BY <1>1, RequestStep
    <2>2. job' \in [Workers -> Job \cup Rest]
      BY <1>1, RequestStep DEF Follows, TypeOK
    <2> QED BY <2>1, <2>2 DEF Starts, TypeOK
  <1>2. ASSUME NEW p \in Workers, Progress(p) \/ Crash(p) PROVE TypeOK'
    <2>1. UNCHANGED <<environment, now, overtaken, grants>>
      BY <1>2, ProgressStep
    <2>2. job' \in [Workers -> Job \cup Rest]
      BY <1>2, ProgressStep DEF Follows, TypeOK
    <2>3. At(p, "issue") => job[p].user \in Users /\ job[p].keys \in Keys
      BY BusyJob DEF At, Job
    <2>4. tokens' \subseteq Token
      BY <1>2, <2>3, TokensStep, PairType DEF TypeOK
    <2> QED BY <2>1, <2>2, <2>4 DEF TypeOK
  <1>3. ASSUME NEW u \in Users, NEW state \in Accounts, SetAccount(u, state)
        PROVE  TypeOK'
    BY <1>3 DEF SetAccount, Changes, TypeOK
  <1>4. ASSUME NEW u \in Users, NEW e \in Expiries, IssueCredentials(u, e)
        PROVE  TypeOK'
    BY <1>4, ConstantsAssumption DEF IssueCredentials, Changes, TypeOK
  <1>5. ASSUME NEW u \in Users, RevokeCredentials(u) PROVE TypeOK'
    BY <1>5 DEF RevokeCredentials, Changes, TypeOK
  <1>6. ASSUME NEW kind \in {"access", "refresh"}, SetKey(kind) PROVE TypeOK'
    <2>1. lastKey' \in KeyIds /\ keys' \in Keys
      BY <1>6, ConstantsAssumption DEF SetKey, TypeOK, KeyIds, Keys
    <2> QED BY <1>6, <2>1 DEF SetKey, Changes, TypeOK
  <1>7. ASSUME NEW kind \in {"access", "refresh"}, NEW value \in {Unset, Empty},
               ClearKey(kind, value)
        PROVE  TypeOK'
    <2>1. keys' \in Keys
      BY <1>7 DEF ClearKey, TypeOK, Keys, Unset, Empty
    <2> QED BY <1>7, <2>1 DEF ClearKey, Changes, TypeOK
  <1>8. CASE Tick
    BY <1>8, ConstantsAssumption DEF Tick, TypeOK, Times
  <1>9. CASE UNCHANGED vars
    BY <1>9 DEF vars, TypeOK
  <1> QED BY <1>1, <1>2, <1>3, <1>4, <1>5, <1>6, <1>7, <1>8, <1>9 DEF Next, Administer

\* Every variable keeps its type, whatever the requests and the changes.
THEOREM TypeCorrect == Spec => []TypeOK
  BY TypeInit, TypeStep, PTL DEF Spec, Safety
-----------------------------------------------------------------------------
(* What a request decides on                                               *)

\* What an administrator changes overtakes every request under way.
LEMMA AdministerStep ==
    ASSUME Administer
    PROVE  Changes
  BY DEF Administer, SetAccount, IssueCredentials, RevokeCredentials, SetKey, ClearKey

LEMMA DecisionsInit == Init => DecisionsCurrent
  BY DEF Init, DecisionsCurrent, At

LEMMA DecisionsStep == TypeOK /\ DecisionsCurrent /\ [Next]_vars => DecisionsCurrent'
  <1> SUFFICES ASSUME TypeOK, DecisionsCurrent, [Next]_vars PROVE DecisionsCurrent'
    OBVIOUS
  <1> USE DEF environment
  <1>1. ASSUME NEW p \in Workers, Request(p) \/ Progress(p) \/ Crash(p)
        PROVE  DecisionsCurrent'
    <2>1. account' = account /\ overtaken \ {p} \subseteq overtaken'
      BY <1>1, RequestStep, ProgressStep DEF Starts
    <2>2. PICK j : Follows(p, j) /\ job' = [job EXCEPT ![p] = j]
      BY <1>1, RequestStep, ProgressStep
    <2>3. job'[p] = j /\ \A q \in Workers \ {p} : job'[q] = job[q]
      BY <2>2 DEF TypeOK
    <2> QED BY <2>1, <2>2, <2>3 DEF DecisionsCurrent, Follows, At
  <1>2. CASE Administer
    BY <1>2, AdministerStep DEF Changes, DecisionsCurrent, At
  <1>3. CASE UNCHANGED <<account, job, overtaken>>
    BY <1>3 DEF DecisionsCurrent, At
  <1> QED BY <1>1, <1>2, <1>3 DEF Next, Tick, vars

\* No request acts on an account in a state that was already refused when the
\* request began: only a change made while it was under way can pass it.
THEOREM DecisionsAlwaysCurrent == Spec => []DecisionsCurrent
  BY TypeCorrect, DecisionsInit, DecisionsStep, TypeInit, TypeStep, PTL DEF Spec, Safety

InTime ==
    \A p \in Workers :
       /\ At(p, "idle") /\ job'[p].step = "call" =>
            \E t \in tokens : /\ t.user = job'[p].user /\ t.key = keys.access
                              /\ now < t.exp
       /\ At(p, "idle") /\ job'[p].step = "client" =>
            \/ expiry[job'[p].user] = Never
            \/ expiry[job'[p].user] > now

LEMMA InTimeStep == TypeOK /\ [Next]_vars => [InTime]_vars
  <1> SUFFICES ASSUME TypeOK, [Next]_vars, NEW p \in Workers, At(p, "idle"),
                      job'[p].step \in {"call", "client"}
               PROVE  \/ /\ job'[p].step = "call"
                         /\ \E t \in tokens : /\ t.user = job'[p].user
                                               /\ t.key = keys.access
                                               /\ now < t.exp
                      \/ /\ job'[p].step = "client"
                         /\ \/ expiry[job'[p].user] = Never
                            \/ expiry[job'[p].user] > now
    BY DEF InTime
  <1>1. job' # job
    BY DEF At
  <1>2. PICK q \in Workers : Request(q) \/ Progress(q) \/ Crash(q)
    BY <1>1, AdministerStep DEF Next, Tick, vars, Changes
  <1>3. q = p
    <2>1. PICK j : job' = [job EXCEPT ![q] = j]
      BY <1>2, RequestStep, ProgressStep
    <2> QED BY <2>1 DEF TypeOK, At
  <1>4. Request(p)
    BY <1>2, <1>3 DEF Progress, ClientUser, RenewUser, Issue, CallUser, Run, Goes,
                      Crash, At
  <1>5. \A status : Answer(p, status) => job'[p].step = "idle"
    BY DEF Answer, TypeOK
  <1>6. \A step, u, k : Continue(p, step, u, k) =>
          job'[p].step = step /\ job'[p].user = u
    BY DEF Continue, TypeOK
  <1>7. CASE BadRequest(p)
    BY <1>5, <1>7 DEF BadRequest, Fail
  <1>8. ASSUME NEW u \in Users, ClientGrant(p, u)
        PROVE  /\ job'[p].step = "client" /\ job'[p].user = u
               /\ expiry[u] = Never \/ expiry[u] > now
    <2>1. expiry[u] # NoCredentials /\ ~Expired(u) /\ Pass(p, "client", u)
      BY <1>5, <1>8 DEF ClientGrant, Fail
    <2>2. expiry[u] \in Nat /\ now \in Nat
      BY <2>1 DEF TypeOK, Times
    <2> QED BY <1>6, <2>1, <2>2 DEF Pass, Expired
  <1>9. ASSUME NEW u \in Users, PasswordGrant(p, u) PROVE FALSE
    BY <1>5, <1>6, <1>9 DEF PasswordGrant, Fail, Pass
  <1>10. ASSUME NEW t \in tokens, RefreshGrant(p, t) PROVE FALSE
    BY <1>5, <1>6, <1>10 DEF RefreshGrant, Fail, Pass
  <1>11. ASSUME NEW t \in tokens, Call(p, t)
         PROVE  /\ job'[p].step = "call" /\ job'[p].user = t.user
                /\ t.key = keys.access /\ now < t.exp
    BY <1>5, <1>6, <1>11 DEF Call, Parses
  <1> QED BY <1>4, <1>7, <1>8, <1>9, <1>10, <1>11 DEF Request

\* Neither an expired token nor expired credentials let a request start.
THEOREM AlwaysAcceptedInTime == Spec => AcceptedInTime
  <1>1. AcceptedInTime <=> [][InTime]_vars
    BY DEF AcceptedInTime, InTime
  <1> QED BY <1>1, InTimeStep, TypeCorrect, PTL DEF Spec, Safety

-----------------------------------------------------------------------------
(* The two kinds of token                                                  *)

Busy == {p \in Workers : ~At(p, "idle")}

\* The keys that stand, or stood when something under way or handed out was
\* made, for access tokens, and those for refresh tokens.  KindsSeparate is
\* about the present keys only, and would not survive the loading of a
\* configuration that is replaced before the tokens are signed.
AccessKeys ==
    {keys.access} \cup {job[p].keys.access : p \in Busy}
      \cup {t.key : t \in {x \in tokens : x.kind = "access" \/ x.shared}}

RefreshKeys ==
    {keys.refresh} \cup {job[p].keys.refresh : p \in Busy}
      \cup {t.key : t \in {x \in tokens : x.kind = "refresh" /\ ~x.shared}}

\* No key is of both uses, and none is yet to be set.
KeysApart ==
    /\ AccessKeys \cap RefreshKeys \subseteq {Unset}
    /\ AccessKeys \subseteq 0 .. lastKey
    /\ RefreshKeys \subseteq -1 .. lastKey

LEMMA KeysInit == Init => KeysApart
  <1> SUFFICES ASSUME Init PROVE KeysApart
    OBVIOUS
  <1>1. Busy = {} /\ tokens = {}
    BY DEF Init, Busy, At
  <1> QED BY <1>1 DEF Init, KeysApart, AccessKeys, RefreshKeys, Unset

\* A step that sets no key adds none but the absent and the empty one.
LEMMA KeysFrame ==
    ASSUME KeysApart, lastKey' = lastKey, lastKey \in Nat,
           AccessKeys' \subseteq AccessKeys \cup {Unset},
           RefreshKeys' \subseteq RefreshKeys \cup {Unset, Empty}
    PROVE  KeysApart'
  BY DEF KeysApart, Unset, Empty

LEMMA KeysStep == TypeOK /\ KeysApart /\ [Next]_vars => KeysApart'
  <1> SUFFICES ASSUME TypeOK, KeysApart, [Next]_vars PROVE KeysApart'
    OBVIOUS
  <1> USE DEF environment
  <1>0. lastKey \in Nat
    BY DEF TypeOK, KeyIds
  <1>1. ASSUME NEW p \in Workers, Request(p) \/ Progress(p) \/ Crash(p)
        PROVE  KeysApart'
    <2>1. UNCHANGED <<keys, lastKey>>
      BY <1>1, RequestStep, ProgressStep DEF Starts
    <2>2. PICK j : Follows(p, j) /\ job' = [job EXCEPT ![p] = j]
      BY <1>1, RequestStep, ProgressStep
    <2>3. job'[p] = j /\ \A q \in Workers \ {p} : job'[q] = job[q]
      BY <2>2 DEF TypeOK
    <2>4. \A q \in Busy' : \/ job'[q].keys = keys
                           \/ q \in Busy /\ job'[q].keys = job[q].keys
      BY <2>2, <2>3 DEF Follows, Busy, At
    <2>5. \A t \in tokens' \ tokens :
            /\ t.kind = "access" \/ t.shared => t.key \in AccessKeys
            /\ t.kind = "refresh" /\ ~t.shared => t.key \in RefreshKeys
      <3> SUFFICES ASSUME NEW t \in tokens' \ tokens
                   PROVE  /\ t.kind = "access" \/ t.shared => t.key \in AccessKeys
                          /\ t.kind = "refresh" /\ ~t.shared => t.key \in RefreshKeys
        OBVIOUS
      <3> DEFINE k == job[p].keys
      <3>1. At(p, "issue") /\ t \in PairFor(job[p].user, k, RefreshKey(k))
        BY <1>1, TokensStep
      <3>2. k.access \in AccessKeys /\ k.refresh \in RefreshKeys
        BY <3>1 DEF AccessKeys, RefreshKeys, Busy, At
      <3>3. t.shared = (k.refresh = Unset)
        BY <3>1, PairMembers
      <3>4. CASE t.kind = "access"
        <4>1. t.key = k.access
          BY <3>1, <3>4, PairMembers
        <4> QED BY <3>2, <3>4, <4>1
      <3>5. CASE t.kind = "refresh"
        <4>1. t.key = RefreshKey(k)
          BY <3>1, <3>5, PairMembers
        <4> QED BY <3>2, <3>3, <3>5, <4>1 DEF RefreshKey
      <3> QED BY <3>1, <3>4, <3>5, PairMembers
    <2>6. AccessKeys' \subseteq AccessKeys
      BY <2>1, <2>4, <2>5 DEF AccessKeys
    <2>7. RefreshKeys' \subseteq RefreshKeys
      BY <2>1, <2>4, <2>5 DEF RefreshKeys
    <2> QED BY <1>0, <2>1, <2>6, <2>7, KeysFrame
  <1>2. ASSUME NEW kind \in {"access", "refresh"}, SetKey(kind) PROVE KeysApart'
    <2>1. lastKey' = lastKey + 1 /\ keys' = [keys EXCEPT ![kind] = lastKey + 1]
      BY <1>2 DEF SetKey
    <2>2. UNCHANGED <<job, tokens, Busy>>
      BY <1>2 DEF SetKey, Changes, Busy, At
    <2>3. CASE kind = "access"
      <3>1. /\ AccessKeys' \subseteq AccessKeys \cup {lastKey + 1}
            /\ RefreshKeys' = RefreshKeys
        BY <2>1, <2>2, <2>3 DEF AccessKeys, RefreshKeys, TypeOK, Keys
      <3> QED BY <1>0, <2>1, <3>1 DEF KeysApart
    <2>4. CASE kind = "refresh"
      <3>1. /\ AccessKeys' = AccessKeys
            /\ RefreshKeys' \subseteq RefreshKeys \cup {lastKey + 1}
        BY <2>1, <2>2, <2>4 DEF AccessKeys, RefreshKeys, TypeOK, Keys
      <3> QED BY <1>0, <2>1, <3>1 DEF KeysApart
    <2> QED BY <2>3, <2>4
  <1>3. ASSUME NEW kind \in {"access", "refresh"}, NEW value \in {Unset, Empty},
               ClearKey(kind, value)
        PROVE  KeysApart'
    <2>1. UNCHANGED <<job, tokens, Busy, lastKey>>
      BY <1>3 DEF ClearKey, Changes, Busy, At
    <2>2. /\ keys'.access \in {keys.access, Unset}
          /\ keys'.refresh \in {keys.refresh, Unset, Empty}
      BY <1>3 DEF ClearKey, TypeOK, Keys, Unset, Empty
    <2>3. AccessKeys' \subseteq AccessKeys \cup {Unset}
      BY <2>1, <2>2 DEF AccessKeys
    <2>4. RefreshKeys' \subseteq RefreshKeys \cup {Unset, Empty}
      BY <2>1, <2>2 DEF RefreshKeys
    <2> QED BY <1>0, <2>1, <2>3, <2>4, KeysFrame
  <1>4. CASE UNCHANGED <<keys, lastKey, job, tokens>>
    BY <1>4 DEF KeysApart, AccessKeys, RefreshKeys, Busy, At
  <1> QED BY <1>1, <1>2, <1>3, <1>4
          DEF Next, Administer, SetAccount, IssueCredentials, RevokeCredentials,
              Changes, Tick, vars

LEMMA ApartSeparates == TypeOK /\ KeysApart => KindsSeparate
  <1> SUFFICES ASSUME TypeOK, KeysApart, NEW t \in tokens
               PROVE  /\ t.kind = "refresh" /\ t.key = keys.access => t.shared
                      /\ t.kind = "access" /\ t.key = RefreshKey(keys)
                           => keys.refresh = Unset
    BY DEF KindsSeparate
  <1>1. t.key # Unset
    BY DEF TypeOK, Token, KeyIds, Unset, Empty
  <1>2. ASSUME t.kind = "refresh", t.key = keys.access, ~t.shared PROVE FALSE
    <2>1. t.key \in AccessKeys /\ t.key \in RefreshKeys
      BY <1>2 DEF AccessKeys, RefreshKeys
    <2> QED BY <1>1, <2>1 DEF KeysApart
  <1>3. ASSUME t.kind = "access", t.key = RefreshKey(keys), keys.refresh # Unset
        PROVE  FALSE
    <2>1. t.key = keys.refresh
      BY <1>3 DEF RefreshKey
    <2>2. t.key \in AccessKeys /\ t.key \in RefreshKeys
      BY <1>3, <2>1 DEF AccessKeys, RefreshKeys
    <2> QED BY <1>1, <2>2 DEF KeysApart
  <1> QED BY <1>2, <1>3

\* Access and refresh tokens are kept apart by their keys, for any number of
\* keys set one after the other and requests under way while they are.
THEOREM KindsAlwaysSeparate == Spec => []KindsSeparate
  BY TypeInit, TypeStep, KeysInit, KeysStep, ApartSeparates, PTL DEF Spec, Safety

LEMMA KindHonouredStep == TypeOK /\ KindsSeparate /\ [Next]_vars => [KindHonoured]_vars
  <1> SUFFICES ASSUME TypeOK, KindsSeparate, [Next]_vars, NEW p \in Workers,
                      At(p, "idle"), job'[p].step \in {"call", "renew"}
               PROVE  \E t \in tokens :
                         /\ t.user = job'[p].user
                         /\ \/ /\ job'[p].step = "call" /\ Parses(t, keys.access)
                               /\ t.kind = "access" \/ t.shared
                            \/ /\ job'[p].step = "renew" /\ Parses(t, RefreshKey(keys))
                               /\ t.kind = "refresh" \/ keys.refresh = Unset
    BY DEF KindHonoured
  <1>1. job' # job
    BY DEF At
  <1>2. PICK q \in Workers : Request(q) \/ Progress(q) \/ Crash(q)
    BY <1>1, AdministerStep DEF Next, Tick, vars, Changes
  <1>3. q = p
    <2>1. PICK j : job' = [job EXCEPT ![q] = j]
      BY <1>2, RequestStep, ProgressStep
    <2> QED BY <2>1 DEF TypeOK, At
  <1>4. Request(p)
    BY <1>2, <1>3 DEF Progress, ClientUser, RenewUser, Issue, CallUser, Run, Goes,
                      Crash, At
  <1>5. \A status : Answer(p, status) => job'[p].step = "idle"
    BY DEF Answer, TypeOK
  <1>6. \A step, u, k : Continue(p, step, u, k) =>
          job'[p].step = step /\ job'[p].user = u
    BY DEF Continue, TypeOK
  <1>7. ~BadRequest(p)
    BY <1>5 DEF BadRequest, Fail
  <1>8. ASSUME NEW u \in Users, ClientGrant(p, u) \/ PasswordGrant(p, u) PROVE FALSE
    BY <1>5, <1>6, <1>8 DEF ClientGrant, PasswordGrant, Fail, Pass
  <1>9. PICK t \in tokens : RefreshGrant(p, t) \/ Call(p, t)
    BY <1>4, <1>7, <1>8 DEF Request
  <1>10. t.kind \in {"access", "refresh"}
    BY DEF TypeOK, Token
  <1>11. CASE RefreshGrant(p, t)
    <2>1. Parses(t, RefreshKey(keys)) /\ Pass(p, "renew", t.user)
      BY <1>5, <1>11 DEF RefreshGrant, Fail
    <2>2. job'[p].step = "renew" /\ job'[p].user = t.user
      BY <1>6, <2>1 DEF Pass
    <2>3. t.kind = "refresh" \/ keys.refresh = Unset
      BY <1>10, <2>1 DEF Parses, KindsSeparate
    <2> QED BY <2>1, <2>2, <2>3
  <1>12. CASE Call(p, t)
    <2>1. Parses(t, keys.access) /\ Continue(p, "call", t.user, keys)
      BY <1>5, <1>12 DEF Call
    <2>2. job'[p].step = "call" /\ job'[p].user = t.user
      BY <1>6, <2>1
    <2>3. t.kind = "access" \/ t.shared
      BY <1>10, <2>1 DEF Parses, KindsSeparate
    <2> QED BY <2>1, <2>2, <2>3
  <1> QED BY <1>9, <1>11, <1>12

\* Tokens are used for what they were issued for: no call runs on a refresh
\* token and no access token renews, except where one key serves both.
THEOREM KindsAlwaysHonoured == Spec => KindsHonoured
  BY KindHonouredStep, TypeCorrect, KindsAlwaysSeparate, PTL DEF Spec, Safety, KindsHonoured

-----------------------------------------------------------------------------
(* A deleted account                                                       *)

\* The workers that run a call of the user or are about to issue tokens to it,
\* and the tokens it has been given.
WorkFor(u) == {p \in Workers : (At(p, "run") \/ At(p, "issue")) /\ job[p].user = u}

TokensOf(u) == {t \in tokens : t.user = u}

Ended(u) == account[u] = "deleted" /\ WorkFor(u) = {}

LEMMA DeletedStaysDeleted ==
    ASSUME NEW u \in Users, TypeOK, [Next]_vars, account[u] = "deleted"
    PROVE  account'[u] = "deleted"
  <1> USE DEF environment
  <1>1. ASSUME NEW p \in Workers, Request(p) \/ Progress(p) \/ Crash(p)
        PROVE  account'[u] = "deleted"
    BY <1>1, RequestStep, ProgressStep DEF Starts
  <1>2. ASSUME NEW v \in Users, NEW state \in Accounts, SetAccount(v, state)
        PROVE  account'[u] = "deleted"
    BY <1>2 DEF SetAccount, TypeOK
  <1>3. CASE UNCHANGED account
    BY <1>3
  <1> QED
    BY <1>1, <1>2, <1>3
    DEF Next, Administer, IssueCredentials, RevokeCredentials, SetKey, ClearKey, Tick, vars

\* No step of any worker takes up work for a deleted account: the calls and
\* grants that passed their check before the deletion are the last, however
\* many of its tokens are still valid.
LEMMA NoNewWork ==
    ASSUME NEW u \in Users, TypeOK, [Next]_vars, account[u] = "deleted"
    PROVE  WorkFor(u)' \subseteq WorkFor(u)
  <1>1. ASSUME NEW p \in Workers, Request(p) \/ Progress(p) \/ Crash(p)
        PROVE  WorkFor(u)' \subseteq WorkFor(u)
    <2>1. PICK j : Follows(p, j) /\ job' = [job EXCEPT ![p] = j]
      BY <1>1, RequestStep, ProgressStep
    <2>2. job'[p] = j /\ \A q \in Workers \ {p} : job'[q] = job[q]
      BY <2>1 DEF TypeOK
    <2>3. j.step = "run" \/ j.step = "issue" => j.user # u
      BY <2>1 DEF Follows, Callable, Grantable
    <2> QED BY <2>2, <2>3 DEF WorkFor, At
  <1>2. CASE UNCHANGED job
    BY <1>2 DEF WorkFor, At
  <1> QED BY <1>1, <1>2, AdministerStep DEF Next, Changes, Tick, vars

\* Tokens of a user come from a worker that issues them to it.
LEMMA NoNewTokens ==
    ASSUME NEW u \in Users, TypeOK, [Next]_vars, WorkFor(u) = {}
    PROVE  TokensOf(u)' = TokensOf(u)
  <1>1. ASSUME NEW p \in Workers, Request(p) \/ Progress(p) \/ Crash(p)
        PROVE  TokensOf(u)' = TokensOf(u)
    <2>1. CASE tokens' = tokens
      BY <2>1 DEF TokensOf
    <2>2. CASE /\ At(p, "issue")
               /\ tokens' = tokens \cup PairFor(job[p].user, job[p].keys,
                                                RefreshKey(job[p].keys))
      <3>1. job[p].user # u
        BY <2>2 DEF WorkFor
      <3>2. \A t \in PairFor(job[p].user, job[p].keys, RefreshKey(job[p].keys)) :
               t.user = job[p].user
        BY DEF PairFor
      <3> QED BY <2>2, <3>1, <3>2 DEF TokensOf
    <2> QED BY <1>1, <2>1, <2>2, TokensStep
  <1>2. CASE UNCHANGED tokens
    BY <1>2 DEF TokensOf
  <1> QED BY <1>1, <1>2, AdministerStep DEF Next, Changes, Tick, vars

\* The safety half of DeletionTakesHold.  While an account is deleted the work
\* under way for it only becomes less.
THEOREM DeletedWorkDwindles ==
    ASSUME NEW u \in Users
    PROVE  Spec => [][account[u] = "deleted" =>
                        account'[u] = "deleted" /\ WorkFor(u)' \subseteq WorkFor(u)]_vars
  <1>1. TypeOK /\ [Next]_vars =>
          [account[u] = "deleted" =>
             account'[u] = "deleted" /\ WorkFor(u)' \subseteq WorkFor(u)]_vars
    BY DeletedStaysDeleted, NoNewWork
  <1> QED BY <1>1, TypeCorrect, PTL DEF Spec, Safety

\* Once the last of it has ended, nothing is ever done for the account again.
THEOREM DeletionFinal ==
    ASSUME NEW u \in Users
    PROVE  Spec => [](Ended(u) => []Ended(u))
  <1>1. TypeOK /\ Ended(u) /\ [Next]_vars => Ended(u)'
    BY DeletedStaysDeleted, NoNewWork DEF Ended
  <1> QED BY <1>1, TypeCorrect, PTL DEF Spec, Safety

\* And from then on it is given no token.
THEOREM DeletedGetsNoToken ==
    ASSUME NEW u \in Users
    PROVE  Spec => [][Ended(u) => TokensOf(u)' = TokensOf(u)]_vars
  <1>1. TypeOK /\ [Next]_vars => [Ended(u) => TokensOf(u)' = TokensOf(u)]_vars
    BY NoNewTokens DEF Ended
  <1> QED BY <1>1, TypeCorrect, PTL DEF Spec, Safety
=============================================================================
