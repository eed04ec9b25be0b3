-------------------------- MODULE ApiSystemProofs --------------------------
(***************************************************************************)
(* Theorems about ApiSystem for every number of workers, users and rows,   *)
(* checked by TLAPS: what the API does to the credentials OAuthCredentials *)
(* allows, what it does with tokens OAuthTokens allows, so that what is    *)
(* proved of each holds of both together.                                  *)
(***************************************************************************)
EXTENDS ApiSystem, TLAPS, FiniteSetTheorems

CP == INSTANCE OAuthCredentialsProofs WITH job <- writer
TP == INSTANCE OAuthTokensProofs WITH job <- request, expiry <- Best

-----------------------------------------------------------------------------
(* The components, as ApiSystem and as their proofs instantiate them       *)

LEMMA SameCredentials ==
    /\ C!vars = CP!vars /\ C!vars' = CP!vars'
    /\ C!Init <=> CP!Init
    /\ C!Next <=> CP!Next
    /\ (C!TypeOK <=> CP!TypeOK) /\ (C!TypeOK' <=> CP!TypeOK')
  BY DEF C!vars, CP!vars, C!Init, CP!Init, C!TypeOK, CP!TypeOK, C!Row, CP!Row,
         C!Job, CP!Job, C!Rest, CP!Rest, C!Event, CP!Event, C!Hashes, CP!Hashes,
         C!hash_secret, CP!hash_secret, C!Ids, CP!Ids, C!Steps, CP!Steps,
         C!Next, CP!Next, C!Request, CP!Request, C!Create, CP!Create,
         C!CreateRefused, CP!CreateRefused, C!CreateConflict, CP!CreateConflict,
         C!CreateAccepted, CP!CreateAccepted, C!Lookup, CP!Lookup,
         C!NotFound, CP!NotFound, C!Refused, CP!Refused, C!Regenerate, CP!Regenerate,
         C!RegenerateInvalid, CP!RegenerateInvalid, C!RegenerateRead, CP!RegenerateRead,
         C!Revoke, CP!Revoke, C!RevokeRead, CP!RevokeRead, C!Finish, CP!Finish,
         C!InsertRow, CP!InsertRow, C!UpdateRow, CP!UpdateRow,
         C!DeleteRow, CP!DeleteRow, C!Notify, CP!Notify, C!Crash, CP!Crash,
         C!Tick, CP!Tick, C!Answer, CP!Answer, C!Continue, CP!Continue, C!At, CP!At,
         C!Permitted, CP!Permitted, C!HasRow, CP!HasRow, C!RowsOf, CP!RowsOf,
         C!DrawSecret, CP!DrawSecret, C!NextSecret, CP!NextSecret, C!Past, CP!Past,
         C!Written, CP!Written, C!PendingEvent, CP!PendingEvent

LEMMA SameTokens ==
    /\ T!vars = TP!vars /\ T!vars' = TP!vars'
    /\ T!Init <=> TP!Init
    /\ T!Next <=> TP!Next
    /\ (T!TypeOK <=> TP!TypeOK) /\ (T!TypeOK' <=> TP!TypeOK')
    /\ (T!DecisionsCurrent <=> TP!DecisionsCurrent)
    /\ (T!DecisionsCurrent' <=> TP!DecisionsCurrent')
  BY DEF T!vars, TP!vars, T!Init, TP!Init, T!TypeOK, TP!TypeOK, T!Accounts, TP!Accounts,
         T!NoCredentials, TP!NoCredentials, T!Never, TP!Never, T!Keys, TP!Keys,
         T!KeyIds, TP!KeyIds, T!Unset, TP!Unset, T!Empty, TP!Empty, T!Times, TP!Times,
         T!Token, TP!Token, T!Job, TP!Job, T!Rest, TP!Rest,
         T!DecisionsCurrent, TP!DecisionsCurrent, T!Callable, TP!Callable,
         T!Grantable, TP!Grantable, T!Found, TP!Found,
         T!Next, TP!Next, T!Request, TP!Request, T!Progress, TP!Progress,
         T!Administer, TP!Administer, T!BadRequest, TP!BadRequest,
         T!ClientGrant, TP!ClientGrant, T!PasswordGrant, TP!PasswordGrant,
         T!RefreshGrant, TP!RefreshGrant, T!Call, TP!Call, T!ClientUser, TP!ClientUser,
         T!RenewUser, TP!RenewUser, T!Issue, TP!Issue, T!CallUser, TP!CallUser,
         T!Run, TP!Run, T!Crash, TP!Crash, T!SetAccount, TP!SetAccount,
         T!IssueCredentials, TP!IssueCredentials, T!RevokeCredentials,
         TP!RevokeCredentials, T!SetKey, TP!SetKey, T!ClearKey, TP!ClearKey,
         T!Tick, TP!Tick, T!Changes, TP!Changes, T!Starts, TP!Starts, T!Goes, TP!Goes,
         T!Pass, TP!Pass, T!Fail, TP!Fail, T!Answer, TP!Answer, T!Continue, TP!Continue,
         T!At, TP!At, T!Expired, TP!Expired, T!Parses, TP!Parses,
         T!RefreshKey, TP!RefreshKey, T!PairFor, TP!PairFor,
         T!environment, TP!environment

\* What is proved of them, under their own assumptions.
LEMMA CredentialsFacts ==
    /\ CP!Init => CP!TypeOK /\ CP!Consistent
    /\ CP!TypeOK /\ CP!Consistent /\ [CP!Next]_CP!vars => CP!TypeOK' /\ CP!Consistent'
  <1>1. CP!IsFiniteSet(Workers)
    BY SystemAssumption DEF IsFiniteSet, CP!IsFiniteSet
  <1> QED BY <1>1, SystemAssumption, CP!TypeInit, CP!TypeStep, CP!ConsistentInit,
             CP!ConsistentStep

LEMMA TokensFacts ==
    /\ TP!Init => TP!TypeOK /\ TP!DecisionsCurrent
    /\ TP!TypeOK /\ [TP!Next]_TP!vars => TP!TypeOK'
    /\ TP!TypeOK /\ TP!DecisionsCurrent /\ [TP!Next]_TP!vars => TP!DecisionsCurrent'
  BY SystemAssumption, TP!TypeInit, TP!TypeStep, TP!DecisionsInit, TP!DecisionsStep

-----------------------------------------------------------------------------
(* Every step is one of OAuthCredentials                                   *)

LEMMA CallerType ==
    ASSUME T!TypeOK, NEW p \in Workers, ~T!At(p, "idle")
    PROVE  request[p] \in T!Job /\ request[p].user \in Users
  BY DEF T!TypeOK, T!At, T!Job, T!Rest

LEMMA CredentialsStep == T!TypeOK /\ [Next]_vars => [C!Next]_C!vars
  <1> SUFFICES ASSUME T!TypeOK, [Next]_vars PROVE [C!Next]_C!vars
    OBVIOUS
  <1> USE DEF credentialVars, C!vars
  <1>1. ASSUME NEW p \in Workers, NEW c \in Clients, NEW h \in C!Hashes,
               ClientGrant(p, c, h)
        PROVE  UNCHANGED C!vars
    BY <1>1 DEF ClientGrant, T!Starts
  <1>2. ASSUME NEW p \in Workers, OtherRequest(p) PROVE UNCHANGED C!vars
    BY <1>2 DEF OtherRequest, T!PasswordGrant, T!RefreshGrant, T!Call, T!Starts
  <1>3. ASSUME NEW p \in Workers, TokenStep(p) PROVE UNCHANGED C!vars
    BY <1>3 DEF TokenStep, T!ClientUser, T!RenewUser, T!Issue, T!CallUser, T!Goes
  <1>4. ASSUME NEW p \in Workers, Me(p) PROVE UNCHANGED C!vars
    BY <1>4 DEF Me, T!Goes
  <1>5. ASSUME NEW p \in Workers, Begin(p) PROVE C!Next
    <2>1. request[p].user \in Users
      BY <1>5, CallerType DEF Begin, T!At
    <2> QED BY <1>5, <2>1 DEF Begin, Serve, C!Next, C!Request
  <1>6. ASSUME NEW p \in Workers, Write(p) PROVE C!Next
    BY <1>6 DEF Write, C!Next, C!Finish
  <1>7. ASSUME NEW p \in Workers, Finish(p) PROVE C!Next
    BY <1>7 DEF Finish, C!Next, C!Finish
  <1>8. ASSUME NEW p \in Workers, Crash(p) PROVE [C!Next]_C!vars
    BY <1>8 DEF Crash, C!Next, T!Crash
  <1>9. ASSUME NEW u \in Users, NEW state \in States, SetAccount(u, state)
        PROVE  UNCHANGED C!vars
    BY <1>9 DEF SetAccount, T!SetAccount, T!Changes
  <1>10. CASE Tick
    BY <1>10 DEF Tick, C!Next, C!Tick
  <1>11. CASE UNCHANGED vars
    BY <1>11 DEF vars
  <1> QED BY <1>1, <1>2, <1>3, <1>4, <1>5, <1>6, <1>7, <1>8, <1>9, <1>10, <1>11
          DEF Next, Progress

-----------------------------------------------------------------------------
(* The row that lasts longest                                              *)

\* A function on a finite set has a greatest value.  The sets of arguments
\* with a value at least as great as another's have a smallest one.
LEMMA GreatestValue ==
    ASSUME NEW S, IsFiniteSet(S), S # {}, NEW f, \A i \in S : f[i] \in Nat
    PROVE  \E i \in S : \A j \in S : f[j] <= f[i]
  <1> DEFINE Above(i) == {j \in S : f[j] >= f[i]}
             Sets == {Above(i) : i \in S}
             R == StrictSubsetOrdering(S)
  <1>1. Sets \subseteq FiniteSubsetsOf(S) /\ Sets # {}
    <2>1. ASSUME NEW i \in S PROVE Above(i) \in FiniteSubsetsOf(S)
      <3>1. Above(i) \in SUBSET S
        OBVIOUS
      <3> QED BY <3>1, FS_Subset DEF FiniteSubsetsOf
    <2> HIDE DEF Above
    <2> QED BY <2>1
  <1>2. IsWellFoundedOn(R, FiniteSubsetsOf(S))
    BY FS_StrictSubsetOrderingWellFounded
  <1>3. PICK x \in Sets : \A y \in Sets : <<y, x>> \notin R
    <2> HIDE DEF Sets, R
    <2> QED BY <1>1, <1>2, WFMin
  <1>4. PICK i \in S : x = Above(i)
    BY <1>3
  <1>5. ASSUME NEW j \in S, ~(f[j] <= f[i]) PROVE FALSE
    <2>1. Above(j) \in Sets /\ Above(j) \subseteq x /\ i \in x /\ i \notin Above(j)
      BY <1>4, <1>5
    <2>2. <<Above(j), x>> \in R
      BY <1>4, <2>1 DEF StrictSubsetOrdering
    <2> QED BY <1>3, <2>1, <2>2
  <1> QED BY <1>5

LEMMA LastEndIs ==
    ASSUME C!TypeOK, NEW u \in Users
    PROVE  /\ LastEnd(u) \in Expiries \cup {-1}
           /\ LastEnd(u) = -1 <=> \A i \in DOMAIN table : table[i].user # u
           /\ \A i \in DOMAIN table : table[i].user = u =>
                \/ LastEnd(u) = 0
                \/ table[i].expires # 0 /\ table[i].expires <= LastEnd(u)
  <1> DEFINE S == {i \in DOMAIN table : table[i].user = u}
             ends == EndsOf(u)
  <1>1. \A i \in S : table[i].expires \in Expiries /\ table[i].expires \in Nat
    BY SystemAssumption DEF C!TypeOK, C!Row
  <1>2. IsFiniteSet(S)
    <2>1. IsFiniteSet(1 .. lastId) /\ S \subseteq 1 .. lastId
      <3>1. lastId \in Int /\ 1 \in Int /\ DOMAIN table \subseteq 1 .. lastId
        BY SystemAssumption DEF C!TypeOK
      <3> QED BY <3>1, FS_Interval
    <2> QED BY <2>1, FS_Subset
  <1>3. /\ \A i \in S : table[i].expires \in ends
        /\ \A e \in ends : \E i \in S : e = table[i].expires
    BY DEF EndsOf
  <1>4. CASE S = {}
    <2>1. ends = {} /\ LastEnd(u) = -1
      BY <1>3, <1>4 DEF LastEnd
    <2> QED BY <1>4, <2>1
  <1>5. CASE S # {} /\ 0 \in ends
    <2>1. LastEnd(u) = 0
      BY <1>5 DEF LastEnd
    <2> QED BY <1>5, <2>1, SystemAssumption
  <1>6. CASE S # {} /\ 0 \notin ends
    <2> DEFINE f == [i \in S |-> table[i].expires]
    <2>1. PICK i \in S : \A j \in S : f[j] <= f[i]
      <3>1. \A i \in S : f[i] \in Nat
        BY <1>1
      <3> HIDE DEF f, S
      <3> QED BY <1>2, <1>6, <3>1, GreatestValue
    <2>2. table[i].expires \in ends /\ \A e \in ends : e <= table[i].expires
      BY <1>3, <2>1
    <2>3. LastEnd(u) = CHOOSE e \in ends : \A g \in ends : g <= e
      BY <1>6, <2>2 DEF LastEnd
    <2>4. LastEnd(u) \in ends /\ \A g \in ends : g <= LastEnd(u)
      BY <2>2, <2>3
    <2>5. LastEnd(u) \in Expiries /\ LastEnd(u) # -1
      BY <1>1, <1>3, <2>4
    <2> QED BY <1>3, <1>6, <2>4, <2>5
  <1> QED BY <1>4, <1>5, <1>6
-----------------------------------------------------------------------------
(* Every step is one of OAuthTokens                                        *)

LEMMA BestSame == ASSUME table' = table PROVE Best' = Best
  BY DEF Best, LastEnd, EndsOf

EndsTyped == \A u \in Users : LastEnd(u) \in Expiries \cup {-1}

LEMMA LastEndType == C!TypeOK => EndsTyped
  BY LastEndIs DEF EndsTyped

LEMMA LastEndTypeNext == C!TypeOK' => EndsTyped'
  BY LastEndType, PTL

\* A write touches one row, and that row has the owner of the worker's copy
\* before and after.
LEMMA WriteTouches ==
    ASSUME C!TypeOK, CP!Consistent, NEW p \in Workers,
           C!InsertRow(p) \/ C!UpdateRow(p) \/ C!DeleteRow(p)
    PROVE  /\ writer[p].rec.user \in Users
           /\ \E i :
                /\ \A j \in DOMAIN table \ {i} : j \in DOMAIN table' /\ table'[j] = table[j]
                /\ DOMAIN table' \subseteq DOMAIN table \cup {i}
                /\ i \in DOMAIN table => table[i].user = writer[p].rec.user
                /\ i \in DOMAIN table' => table'[i].user = writer[p].rec.user
  <1>1. writer[p] \in C!Job
    BY DEF C!TypeOK, C!Rest, C!InsertRow, C!UpdateRow, C!DeleteRow, C!At
  <1>2. writer[p].rec.user \in Users
    BY <1>1 DEF C!Job, C!Row
  <1>3. CASE C!InsertRow(p)
    <2>1. lastId + 1 \notin DOMAIN table
      BY SystemAssumption DEF C!TypeOK
    <2> QED BY <1>2, <1>3, <2>1 DEF C!InsertRow
  <1>4. ~C!At(p, "insert") /\ ~C!At(p, "idle") /\ writer[p].id \in DOMAIN table
          => table[writer[p].id].user = writer[p].rec.user
    BY DEF CP!Consistent, CP!CopiesValid, CP!CopyValid, CP!At, C!At
  <1>5. CASE C!UpdateRow(p)
    BY <1>2, <1>4, <1>5 DEF C!UpdateRow, C!At
  <1>6. CASE C!DeleteRow(p)
    BY <1>2, <1>4, <1>6 DEF C!DeleteRow, C!At
  <1> QED BY <1>3, <1>5, <1>6

\* So it changes, if anything, what OAuthTokens keeps of that owner.
LEMMA WriteChanges ==
    ASSUME C!TypeOK, C!TypeOK', CP!Consistent, NEW p \in Workers,
           C!InsertRow(p) \/ C!UpdateRow(p) \/ C!DeleteRow(p), Best' # Best
    PROVE  \E u \in Users :
             \/ Best[u] # -1 /\ Best' = [Best EXCEPT ![u] = -1]
             \/ \E e \in Expiries : Best' = [Best EXCEPT ![u] = e]
  <1>1. PICK u \in Users : u = writer[p].rec.user
    BY WriteTouches
  <1>2. PICK i :
          /\ \A j \in DOMAIN table \ {i} : j \in DOMAIN table' /\ table'[j] = table[j]
          /\ DOMAIN table' \subseteq DOMAIN table \cup {i}
          /\ i \in DOMAIN table => table[i].user = u
          /\ i \in DOMAIN table' => table'[i].user = u
    BY <1>1, WriteTouches
  <1>3. ASSUME NEW v \in Users \ {u} PROVE LastEnd(v)' = LastEnd(v)
    <2>1. {j \in DOMAIN table' : table'[j].user = v} = {j \in DOMAIN table : table[j].user = v}
      BY <1>2
    <2>2. \A j \in {k \in DOMAIN table : table[k].user = v} : table'[j] = table[j]
      BY <1>2
    <2>3. EndsOf(v)' = EndsOf(v)
      BY <2>1, <2>2 DEF EndsOf
    <2> QED BY <2>3 DEF LastEnd
  <1>4. Best' = [Best EXCEPT ![u] = LastEnd(u)']
    <2>1. Best' = [v \in Users |-> LastEnd(v)'] /\ Best = [v \in Users |-> LastEnd(v)]
      BY DEF Best
    <2>2. \A v \in Users : v # u => LastEnd(v)' = LastEnd(v)
      BY <1>3
    <2> QED BY <1>1, <2>1, <2>2
  <1>5. Best[u] # LastEnd(u)'
    BY <1>1, <1>4 DEF Best
  <1>6. LastEnd(u)' \in Expiries \cup {-1}
    BY <1>1, LastEndTypeNext DEF EndsTyped
  <1> QED BY <1>1, <1>4, <1>5, <1>6

\* Answers of the service, at once or after its event.
LEMMA ServeAnswers ==
    ASSUME C!TypeOK, NEW p \in Workers, NEW actor, Serve(p, actor),
           writer'[p].step = "idle"
    PROVE  writer'[p].status \in {200, 400, 403, 404, 409}
  <1>1. \A status : C!Answer(p, status) => writer'[p].status = status
    BY DEF C!TypeOK, C!Answer
  <1>2. \A a, step, id, rec : C!Continue(p, a, step, id, rec) => writer'[p].step = step
    BY DEF C!TypeOK, C!Continue
  <1>3. CASE C!Create(p, actor)
    <2>1. PICK owner \in Users :
            \/ C!CreateRefused(p, actor, owner)
            \/ C!CreateConflict(p, actor, owner)
            \/ \E expires \in Expiries : C!CreateAccepted(p, actor, owner, expires)
      BY <1>3 DEF C!Create
    <2>2. CASE C!CreateRefused(p, actor, owner) \/ C!CreateConflict(p, actor, owner)
      BY <1>1, <2>2 DEF C!CreateRefused, C!CreateConflict
    <2>3. ASSUME NEW expires \in Expiries, C!CreateAccepted(p, actor, owner, expires)
          PROVE  writer'[p].step = "insert"
      BY <1>2, <2>3 DEF C!CreateAccepted
    <2> QED BY <2>1, <2>2, <2>3
  <1>4. CASE C!Lookup(p, actor)
    BY <1>1, <1>4 DEF C!Lookup, C!NotFound, C!Refused
  <1>5. CASE C!Regenerate(p, actor)
    BY <1>1, <1>2, <1>5 DEF C!Regenerate, C!RegenerateInvalid, C!RegenerateRead
  <1>6. CASE C!Revoke(p, actor)
    BY <1>2, <1>6 DEF C!Revoke, C!RevokeRead
  <1> QED BY <1>3, <1>4, <1>5, <1>6 DEF Serve

LEMMA ServeKeepsTable ==
    ASSUME NEW p \in Workers, NEW actor, Serve(p, actor)
    PROVE  UNCHANGED <<table, now>>
  BY DEF Serve, C!Create, C!CreateRefused, C!CreateConflict, C!CreateAccepted,
         C!Lookup, C!NotFound, C!Refused, C!Regenerate, C!RegenerateInvalid,
         C!RegenerateRead, C!Revoke, C!RevokeRead

LEMMA ReturnRuns ==
    ASSUME NEW p \in Workers, Return(p), writer'[p].status \in {200, 400, 403, 404, 409}
    PROVE  T!Run(p)
  BY DEF Return, T!Run

LEMMA TokensStep ==
    C!TypeOK /\ C!TypeOK' /\ CP!Consistent /\ T!TypeOK /\ [Next]_vars => [T!Next]_T!vars
  <1> SUFFICES ASSUME C!TypeOK, C!TypeOK', CP!Consistent, T!TypeOK, [Next]_vars
               PROVE  [T!Next]_T!vars
    OBVIOUS
  <1> USE DEF credentialVars
  <1>1. ASSUME NEW p \in Workers, NEW c \in Clients, NEW h \in C!Hashes,
               ClientGrant(p, c, h)
        PROVE  T!Next
    <2>1. ASSUME NEW i \in DOMAIN table, Accepts(i, c, h),
                 T!Pass(p, "client", table[i].user)
          PROVE  T!Request(p)
      <3> DEFINE u == table[i].user
      <3>1. u \in Users /\ table[i].expires \in Nat
        BY SystemAssumption DEF C!TypeOK, C!Row
      <3>2. /\ LastEnd(u) \in Expiries \cup {-1} /\ LastEnd(u) # -1
            /\ LastEnd(u) = 0 \/ (table[i].expires # 0 /\ table[i].expires <= LastEnd(u))
        BY <3>1, LastEndIs
      <3>3. LastEnd(u) \in Nat /\ now \in Nat
        BY <3>2, SystemAssumption DEF C!TypeOK
      <3>4. Best[u] = LastEnd(u)
        BY <3>1 DEF Best
      <3>5. Best[u] # T!NoCredentials /\ ~T!Expired(u)
        BY <2>1, <3>1, <3>2, <3>3, <3>4 DEF T!NoCredentials, T!Expired, T!Never, Accepts
      <3>6. T!ClientGrant(p, u)
        BY <1>1, <2>1, <3>5 DEF ClientGrant, T!ClientGrant
      <3> QED BY <3>1, <3>6 DEF T!Request
    <2>2. CASE T!Fail(p, 401)
      <3>1. PICK u \in Users : TRUE
        BY SystemAssumption
      <3> QED BY <1>1, <2>2, <3>1 DEF ClientGrant, T!PasswordGrant, T!Request, T!Next
    <2> QED BY <1>1, <2>1, <2>2 DEF ClientGrant, T!Next
  <1>2. ASSUME NEW p \in Workers, OtherRequest(p) PROVE T!Next
    BY <1>2, SystemAssumption DEF OtherRequest, T!Request, T!Next
  <1>3. ASSUME NEW p \in Workers, TokenStep(p) PROVE T!Next
    BY <1>3 DEF TokenStep, T!Progress, T!Next
  <1>4. ASSUME NEW p \in Workers, Me(p) PROVE T!Next
    BY <1>4 DEF Me, T!Run, T!Progress, T!Next
  <1>5. ASSUME NEW p \in Workers, Begin(p) PROVE [T!Next]_T!vars
    <2>1. UNCHANGED <<Best, now>>
      BY <1>5, ServeKeepsTable, BestSame DEF Begin
    <2>2. CASE writer'[p].step = "idle"
      BY <1>5, <2>2, ServeAnswers, ReturnRuns DEF Begin, Proceed, T!Progress, T!Next
    <2>3. CASE writer'[p].step # "idle"
      BY <1>5, <2>1, <2>3 DEF Begin, Proceed, tokenVars, T!vars
    <2> QED BY <2>2, <2>3
  <1>6. ASSUME NEW p \in Workers, Write(p) PROVE [T!Next]_T!vars
    <2>0. UNCHANGED <<account, keys, lastKey, tokens, grants, request, now>>
      BY <1>6 DEF Write, C!InsertRow, C!UpdateRow, C!DeleteRow
    <2>1. CASE Best' = Best
      BY <1>6, <2>0, <2>1 DEF Write, T!vars
    <2>2. CASE Best' # Best
      <3>1. T!Changes
        BY <1>6, <2>0, <2>2 DEF Write, T!Changes
      <3>2. PICK u \in Users :
              \/ Best[u] # -1 /\ Best' = [Best EXCEPT ![u] = -1]
              \/ \E e \in Expiries : Best' = [Best EXCEPT ![u] = e]
        BY <1>6, <2>2, WriteChanges DEF Write
      <3>3. T!Administer
        BY <2>0, <2>2, <3>1, <3>2
        DEF T!Administer, T!IssueCredentials, T!RevokeCredentials, T!NoCredentials
      <3> QED BY <3>3 DEF T!Next
    <2> QED BY <2>1, <2>2
  <1>7. ASSUME NEW p \in Workers, Finish(p) PROVE T!Next
    <2>1. writer'[p].status = 200
      BY <1>7 DEF Finish, C!Notify, C!Answer, C!TypeOK
    <2> QED BY <1>7, <2>1, ReturnRuns DEF Finish, T!Progress, T!Next
  <1>8. ASSUME NEW p \in Workers, Crash(p) PROVE T!Next
    BY <1>8 DEF Crash, T!Next
  <1>9. ASSUME NEW u \in Users, NEW state \in States, SetAccount(u, state)
        PROVE  T!Next
    BY <1>9, SystemAssumption DEF SetAccount, T!Administer, T!Next
  <1>10. CASE Tick
    <2>1. Best' = Best
      BY <1>10, BestSame DEF Tick
    <2> QED BY <1>10, <2>1 DEF Tick, tokenVars, T!Tick, T!environment, T!Next
  <1>11. CASE UNCHANGED vars
    <2>1. Best' = Best
      BY <1>11, BestSame DEF vars
    <2> QED BY <1>11, <2>1 DEF vars, tokenVars, T!vars
  <1> QED BY <1>1, <1>2, <1>3, <1>4, <1>5, <1>6, <1>7, <1>8, <1>9, <1>10, <1>11
          DEF Next, Progress
-----------------------------------------------------------------------------
(* What the components promise holds of both together                      *)

\* The invariant rests on both components: the steps are those of the tokens
\* as long as the copies of rows are valid, and those of the credentials as
\* long as callers are users.
Composed == C!TypeOK /\ T!TypeOK /\ CP!Consistent

LEMMA ComposedInit == Init => Composed
  <1> SUFFICES ASSUME Init PROVE Composed
    OBVIOUS
  <1>1. CP!Init /\ TP!Init
    BY SameCredentials, SameTokens DEF Init
  <1>2. CP!TypeOK /\ CP!Consistent /\ TP!TypeOK
    BY <1>1, CredentialsFacts, TokensFacts
  <1> QED BY <1>2, SameCredentials, SameTokens DEF Composed

LEMMA ComposedStep ==
    Composed /\ [Next]_vars => Composed' /\ [CP!Next]_CP!vars /\ [TP!Next]_TP!vars
  <1> SUFFICES ASSUME Composed, [Next]_vars
               PROVE  Composed' /\ [CP!Next]_CP!vars /\ [TP!Next]_TP!vars
    OBVIOUS
  <1>1. [CP!Next]_CP!vars
    BY CredentialsStep, SameCredentials DEF Composed
  <1>2. CP!TypeOK' /\ CP!Consistent'
    BY <1>1, CredentialsFacts, SameCredentials DEF Composed
  <1>3. [TP!Next]_TP!vars
    BY <1>2, TokensStep, SameCredentials, SameTokens DEF Composed
  <1>4. TP!TypeOK'
    BY <1>3, TokensFacts, SameTokens DEF Composed
  <1> QED BY <1>1, <1>2, <1>3, <1>4, SameCredentials, SameTokens DEF Composed

LEMMA ComposedAlways == Spec => []Composed
  BY ComposedInit, ComposedStep, PTL DEF Spec

\* Every variable keeps the type its component gives it.
THEOREM TypeCorrect == Spec => []TypeOK
  <1>1. Composed => TypeOK
    BY DEF Composed, TypeOK
  <1> QED BY <1>1, ComposedAlways, PTL

\* Whoever calls, and by whatever token, the API does to the credentials only
\* what OAuthCredentials describes.
THEOREM CredentialsImplemented == Spec => ImplementsCredentials
  <1>1. Init => C!Init
    BY DEF Init
  <1>2. Composed /\ [Next]_vars => [C!Next]_C!vars
    BY CredentialsStep DEF Composed
  <1> QED BY <1>1, <1>2, ComposedAlways, PTL DEF Spec, ImplementsCredentials, C!Spec

\* One expiration for each user, changed at will, stands for the real table:
\* rows of several clients and secrets, written, overwritten and deleted by
\* workers that overtake each other and die.
THEOREM TokensImplemented == Spec => ImplementsTokens
  <1>1. Init => T!Init
    BY DEF Init
  <1>2. Composed /\ Composed' /\ [Next]_vars => [T!Next]_T!vars
    BY TokensStep DEF Composed
  <1> QED BY <1>1, <1>2, ComposedAlways, PTL DEF Spec, ImplementsTokens, T!Safety

-----------------------------------------------------------------------------
(* What is proved of the credentials, for the API                          *)

LEMMA SameCounts == \A S : C!Cardinality(S) = CP!Cardinality(S)
  BY DEF C!Cardinality, CP!Cardinality

LEMMA SameSafety ==
    /\ C!AuthorisedRows <=> CP!AuthorisedRows
    /\ C!CopiesValid <=> CP!CopiesValid
    /\ C!SecretsUnique <=> CP!SecretsUnique
    /\ C!DuplicatesBounded <=> CP!DuplicatesBounded
    /\ C!TrailExplainsTable <=> CP!TrailExplainsTable
    /\ C!RowsStay <=> CP!RowsStay
  <1> USE DEF C!At, CP!At, C!InFlight, CP!InFlight
  <1>1. C!AuthorisedRows <=> CP!AuthorisedRows
    BY DEF C!AuthorisedRows, CP!AuthorisedRows
  <1>2. C!CopiesValid <=> CP!CopiesValid
    BY DEF C!CopiesValid, CP!CopiesValid, C!CopyValid, CP!CopyValid,
           C!Permitted, CP!Permitted
  <1>3. C!SecretsUnique <=> CP!SecretsUnique
    BY DEF C!SecretsUnique, CP!SecretsUnique
  <1>4. C!DuplicatesBounded <=> CP!DuplicatesBounded
    BY SameCounts DEF C!DuplicatesBounded, CP!DuplicatesBounded, C!Inserting, CP!Inserting
  <1>5. C!Trail = CP!Trail
    BY DEF C!Trail, CP!Trail, C!Pending, CP!Pending, C!PendingEvent, CP!PendingEvent,
           C!Written, CP!Written
  <1>6. C!TrailExplainsTable <=> CP!TrailExplainsTable
    BY <1>5 DEF C!TrailExplainsTable, CP!TrailExplainsTable
  <1>7. C!RowsStay <=> CP!RowsStay
    BY DEF C!RowsStay, CP!RowsStay
  <1> QED BY <1>1, <1>2, <1>3, <1>4, <1>6, <1>7

\* The inductive invariants of OAuthCredentialsProofs that Composed leaves out.
Guarded == CP!Secrets /\ CP!DuplicatesBounded /\ CP!TrailExplainsTable

LEMMA GuardedFacts ==
    /\ CP!Init => Guarded
    /\ /\ CP!TypeOK /\ CP!TypeOK' /\ CP!Consistent /\ Guarded /\ [CP!Next]_CP!vars
       => Guarded'
    /\ CP!TypeOK /\ CP!Consistent /\ [CP!Next]_CP!vars => [CP!RowsStay]_CP!vars
  <1>1. CP!IsFiniteSet(Workers)
    BY SystemAssumption DEF IsFiniteSet, CP!IsFiniteSet
  <1>2. CP!Init => CP!Secrets /\ CP!DuplicatesBounded /\ CP!TrailExplainsTable
    BY <1>1, SystemAssumption, CP!SecretsInit, CP!BoundedInit, CP!TrailInit
  <1>3. CP!TypeOK /\ CP!Secrets /\ [CP!Next]_CP!vars => CP!Secrets'
    BY <1>1, SystemAssumption, CP!SecretsStep
  <1>4. /\ CP!TypeOK /\ CP!TypeOK' /\ CP!Consistent /\ CP!DuplicatesBounded
        /\ [CP!Next]_CP!vars
        => CP!DuplicatesBounded'
    BY <1>1, SystemAssumption, CP!BoundedStep
  <1>5. CP!TypeOK /\ CP!Consistent /\ CP!TrailExplainsTable /\ [CP!Next]_CP!vars
          => CP!TrailExplainsTable'
    BY <1>1, SystemAssumption, CP!TrailStep
  <1>6. CP!TypeOK /\ CP!Consistent /\ [CP!Next]_CP!vars => [CP!RowsStay]_CP!vars
    BY <1>1, SystemAssumption, CP!RowsStayStep
  <1> QED BY <1>2, <1>3, <1>4, <1>5, <1>6 DEF Guarded

LEMMA GuardedAlways == Spec => []Guarded
  <1>1. Init => Guarded
    BY GuardedFacts, SameCredentials DEF Init
  <1>2. Composed /\ Guarded /\ [Next]_vars => Guarded'
    <2> SUFFICES ASSUME Composed, Guarded, [Next]_vars PROVE Guarded'
      OBVIOUS
    <2>1. [CP!Next]_CP!vars /\ CP!TypeOK /\ CP!TypeOK' /\ CP!Consistent
      BY ComposedStep, SameCredentials DEF Composed
    <2> QED BY <2>1, GuardedFacts
  <1> QED BY <1>1, <1>2, ComposedAlways, PTL DEF Spec

\* Behind the middleware, with real callers and their tokens, the credentials
\* keep all that OAuthCredentials promises: rows only by those entitled to
\* write them, copies that stay true, secrets that never collide, no more rows
\* of a client than workers, and a trail that explains the table.
THEOREM CredentialsSafe ==
    Spec => []( /\ C!AuthorisedRows
                /\ C!CopiesValid
                /\ C!SecretsUnique
                /\ C!DuplicatesBounded
                /\ C!TrailExplainsTable )
  <1>1. Composed /\ Guarded =>
          /\ C!AuthorisedRows
          /\ C!CopiesValid
          /\ C!SecretsUnique
          /\ C!DuplicatesBounded
          /\ C!TrailExplainsTable
    BY SameSafety DEF Composed, Guarded, CP!Consistent, CP!Secrets
  <1> QED BY <1>1, ComposedAlways, GuardedAlways, PTL

\* What is revoked through the API never comes back, whoever still had read it.
THEOREM CredentialsRevoked == Spec => C!RevokedNeverReturns
  <1>1. Composed /\ [Next]_vars => [C!RowsStay]_C!vars
    <2> SUFFICES ASSUME Composed, [Next]_vars PROVE [C!RowsStay]_C!vars
      OBVIOUS
    <2>1. [CP!Next]_CP!vars /\ CP!TypeOK /\ CP!Consistent
      BY ComposedStep, SameCredentials DEF Composed
    <2> QED BY <2>1, GuardedFacts, SameCredentials, SameSafety
  <1> QED BY <1>1, ComposedAlways, PTL DEF Spec, C!RevokedNeverReturns

\* The secret was generated, and neither a row nor a request under way has it.
Forgotten(h) ==
    /\ h \in {C!hash_secret(s) : s \in 1 .. lastSecret}
    /\ \A i \in DOMAIN table : table[i].hash # h
    /\ \A p \in Workers : C!InFlight(p) => writer[p].rec.hash # h

\* A client that kept a secret that was replaced or revoked gets no token by it
\* any more: no row accepts it, now or later, under any client.
THEOREM ForgottenRefused ==
    ASSUME NEW h
    PROVE  Spec => [](Forgotten(h) => [](~\E i \in DOMAIN table, c \in Clients : Accepts(i, c, h)))
  <1>1. Forgotten(h) <=> CP!Forgotten(h)
    BY DEF Forgotten, CP!Forgotten, CP!Drawn, C!hash_secret, CP!hash_secret,
           C!InFlight, CP!InFlight, C!At, CP!At
  <1>2. Forgotten(h)' <=> CP!Forgotten(h)'
    BY DEF Forgotten, CP!Forgotten, CP!Drawn, C!hash_secret, CP!hash_secret,
           C!InFlight, CP!InFlight, C!At, CP!At
  <1>3. Composed /\ Guarded /\ Forgotten(h) /\ [Next]_vars => Forgotten(h)'
    <2> SUFFICES ASSUME Composed, Guarded, CP!Forgotten(h), [Next]_vars
                 PROVE  CP!Forgotten(h)'
      BY <1>1, <1>2
    <2>1. [CP!Next]_CP!vars /\ CP!TypeOK /\ CP!Consistent /\ CP!Secrets
      BY ComposedStep, SameCredentials DEF Composed, Guarded
    <2>2. CP!IsFiniteSet(Workers)
      BY SystemAssumption DEF IsFiniteSet, CP!IsFiniteSet
    <2> QED BY <2>1, <2>2, SystemAssumption, CP!ForgottenStep
  <1>4. Forgotten(h) => ~\E i \in DOMAIN table, c \in Clients : Accepts(i, c, h)
    BY DEF Forgotten, Accepts
  <1> QED BY <1>3, <1>4, ComposedAlways, GuardedAlways, PTL DEF Spec

-----------------------------------------------------------------------------
(* The caller                                                              *)

\* The worker that runs the service is the one that let the caller through.
SameCaller ==
    \A p \in Workers : ~C!At(p, "idle") =>
        T!At(p, "run") /\ writer[p].actor = request[p].user

\* A worker that is not running the service may do anything to its request;
\* one that is may go on with it.
LEMMA CallerFrame ==
    ASSUME SameCaller, NEW p \in Workers,
           \A q \in Workers \ {p} : writer'[q] = writer[q] /\ request'[q] = request[q],
           \/ writer'[p].step = "idle"
           \/ /\ request'[p] = request[p] /\ T!At(p, "run")
              /\ writer'[p].actor = request[p].user
    PROVE  SameCaller'
  BY DEF SameCaller, C!At, T!At

LEMMA CallerInit == Init => SameCaller
  BY DEF Init, C!Init, SameCaller, C!At

\* The requests of the other workers are left alone.
LEMMA RequestFrame ==
    ASSUME T!TypeOK, NEW p \in Workers,
           \/ \E status : T!Answer(p, status)
           \/ \E step, u, k : T!Continue(p, step, u, k)
    PROVE  \A q \in Workers \ {p} : request'[q] = request[q]
  BY DEF T!TypeOK, T!Answer, T!Continue

LEMMA WriterFrame ==
    ASSUME C!TypeOK, NEW p \in Workers
    PROVE  /\ \A status : C!Answer(p, status) =>
                 /\ writer'[p].step = "idle"
                 /\ \A q \in Workers \ {p} : writer'[q] = writer[q]
           /\ \A actor, step, id, rec : C!Continue(p, actor, step, id, rec) =>
                 /\ writer'[p].actor = actor
                 /\ \A q \in Workers \ {p} : writer'[q] = writer[q]
  BY DEF C!TypeOK, C!Answer, C!Continue

LEMMA ServeFrame ==
    ASSUME C!TypeOK, NEW p \in Workers, NEW actor, Serve(p, actor)
    PROVE  /\ \A q \in Workers \ {p} : writer'[q] = writer[q]
           /\ writer'[p].step = "idle" \/ writer'[p].actor = actor
  <1>1. CASE C!Create(p, actor)
    <2>1. PICK owner \in Users :
            \/ C!CreateRefused(p, actor, owner)
            \/ C!CreateConflict(p, actor, owner)
            \/ \E expires \in Expiries : C!CreateAccepted(p, actor, owner, expires)
      BY <1>1 DEF C!Create
    <2>2. CASE C!CreateRefused(p, actor, owner) \/ C!CreateConflict(p, actor, owner)
      BY <2>2, WriterFrame DEF C!CreateRefused, C!CreateConflict
    <2>3. ASSUME NEW expires \in Expiries, C!CreateAccepted(p, actor, owner, expires)
          PROVE  /\ \A q \in Workers \ {p} : writer'[q] = writer[q]
                 /\ writer'[p].actor = actor
      BY <2>3, WriterFrame DEF C!CreateAccepted
    <2> QED BY <2>1, <2>2, <2>3
  <1>2. CASE C!Lookup(p, actor)
    BY <1>2, WriterFrame DEF C!Lookup, C!NotFound, C!Refused
  <1>3. CASE C!Regenerate(p, actor)
    BY <1>3, WriterFrame DEF C!Regenerate, C!RegenerateInvalid, C!RegenerateRead
  <1>4. CASE C!Revoke(p, actor)
    BY <1>4, WriterFrame DEF C!Revoke, C!RevokeRead
  <1> QED BY <1>1, <1>2, <1>3, <1>4 DEF Serve

LEMMA CallerStep == Composed /\ SameCaller /\ [Next]_vars => SameCaller'
  <1> SUFFICES ASSUME Composed, SameCaller, [Next]_vars PROVE SameCaller'
    OBVIOUS
  <1> USE DEF credentialVars
  <1>1. ASSUME NEW p \in Workers, UNCHANGED writer, ~T!At(p, "run"),
               \/ \E status : T!Answer(p, status)
               \/ \E step, u, k : T!Continue(p, step, u, k)
        PROVE  SameCaller'
    <2>1. \A q \in Workers \ {p} : writer'[q] = writer[q] /\ request'[q] = request[q]
      BY <1>1, RequestFrame DEF Composed
    <2>2. writer'[p].step = "idle"
      BY <1>1 DEF SameCaller, C!At
    <2> QED BY <2>1, <2>2, CallerFrame
  <1>2. ASSUME NEW p \in Workers, NEW c \in Clients, NEW h \in C!Hashes,
               ClientGrant(p, c, h)
        PROVE  SameCaller'
    BY <1>1, <1>2 DEF ClientGrant, T!Starts, T!At, T!Pass, T!Fail
  <1>3. ASSUME NEW p \in Workers, OtherRequest(p) PROVE SameCaller'
    BY <1>1, <1>3 DEF OtherRequest, T!PasswordGrant, T!RefreshGrant, T!Call,
                      T!Starts, T!At, T!Pass, T!Fail
  <1>4. ASSUME NEW p \in Workers, TokenStep(p) PROVE SameCaller'
    BY <1>1, <1>4 DEF TokenStep, T!ClientUser, T!RenewUser, T!Issue, T!CallUser,
                      T!Goes, T!At
  <1>5. ASSUME NEW p \in Workers, Me(p) PROVE SameCaller'
    <2>1. \A q \in Workers \ {p} : writer'[q] = writer[q] /\ request'[q] = request[q]
      BY <1>5, RequestFrame DEF Me, Composed
    <2> QED BY <1>5, <2>1, CallerFrame DEF Me, C!At
  <1>6. ASSUME NEW p \in Workers, Begin(p) PROVE SameCaller'
    <2>1. /\ \A q \in Workers \ {p} : writer'[q] = writer[q]
          /\ writer'[p].step = "idle" \/ writer'[p].actor = request[p].user
      BY <1>6, ServeFrame DEF Begin, Composed
    <2>2. CASE writer'[p].step = "idle"
      <3>1. \A q \in Workers \ {p} : request'[q] = request[q]
        BY <1>6, <2>2, RequestFrame DEF Begin, Proceed, Return, Composed
      <3> QED BY <2>1, <2>2, <3>1, CallerFrame
    <2>3. CASE writer'[p].step # "idle"
      <3>1. request' = request /\ T!At(p, "run")
        BY <1>6, <2>3 DEF Begin, Proceed, tokenVars
      <3> QED BY <2>1, <2>3, <3>1, CallerFrame
    <2> QED BY <2>2, <2>3
  <1>7. ASSUME NEW p \in Workers, Write(p) PROVE SameCaller'
    <2>1. request' = request /\ ~C!At(p, "idle")
      BY <1>7 DEF Write, C!InsertRow, C!UpdateRow, C!DeleteRow, C!At
    <2>2. /\ \A q \in Workers \ {p} : writer'[q] = writer[q]
          /\ writer'[p].actor = writer[p].actor
      BY <1>7, WriterFrame DEF Write, C!InsertRow, C!UpdateRow, C!DeleteRow, Composed
    <2> QED BY <2>1, <2>2, CallerFrame DEF SameCaller
  <1>8. ASSUME NEW p \in Workers, Finish(p) PROVE SameCaller'
    <2>1. /\ \A q \in Workers \ {p} : writer'[q] = writer[q] /\ request'[q] = request[q]
          /\ writer'[p].step = "idle"
      BY <1>8, WriterFrame, RequestFrame DEF Finish, C!Notify, Return, Composed
    <2> QED BY <2>1, CallerFrame
  <1>9. ASSUME NEW p \in Workers, Crash(p) PROVE SameCaller'
    <2>1. \A q \in Workers \ {p} : request'[q] = request[q]
      BY <1>9, RequestFrame DEF Crash, T!Crash, Composed
    <2>2. /\ \A q \in Workers \ {p} : writer'[q] = writer[q]
          /\ writer'[p].step = "idle"
      BY <1>9, WriterFrame DEF Crash, C!Crash, C!At, Composed
    <2> QED BY <2>1, <2>2, CallerFrame
  <1>10. CASE UNCHANGED <<writer, request>>
    BY <1>10 DEF SameCaller, C!At, T!At
  <1> QED BY <1>2, <1>3, <1>4, <1>5, <1>6, <1>7, <1>8, <1>9, <1>10
          DEF Next, Progress, SetAccount, T!SetAccount, T!Changes, Tick, tokenVars, vars

\* The service works for the user that the middleware let through, in every
\* worker and although each of the two may die or be overtaken in between.
THEOREM ActorAlwaysAdmitted == Spec => []ActorAdmitted
  <1>1. Init => TP!DecisionsCurrent
    <2>1. Init => TP!Init
      BY SameTokens DEF Init
    <2> QED BY <2>1, TokensFacts
  <1>2. Composed /\ TP!DecisionsCurrent /\ [Next]_vars => TP!DecisionsCurrent'
    BY ComposedStep, TokensFacts, SameTokens DEF Composed
  <1>3. SameCaller /\ TP!DecisionsCurrent => ActorAdmitted
    BY SameTokens DEF SameCaller, ActorAdmitted, T!DecisionsCurrent
  <1> QED BY <1>1, <1>2, <1>3, CallerInit, CallerStep, ComposedAlways, PTL DEF Spec

-----------------------------------------------------------------------------
(* What is proved of the tokens, for the API                               *)

LEMMA SameTokenSafety ==
    /\ T!KindsSeparate <=> TP!KindsSeparate
    /\ T!Empty = TP!Empty /\ T!Unset = TP!Unset
    /\ \A t, k : T!Parses(t, k) <=> TP!Parses(t, k)
    /\ \A k : T!RefreshKey(k) = TP!RefreshKey(k)
    /\ \A p, step : T!At(p, step) <=> TP!At(p, step)
    /\ T!Never = TP!Never
  BY DEF T!KindsSeparate, TP!KindsSeparate, T!RefreshKey, TP!RefreshKey, T!Unset, TP!Unset,
         T!Empty, TP!Empty, T!Parses, TP!Parses, T!KeyIds, TP!KeyIds, T!At, TP!At,
         T!Never, TP!Never

LEMMA KeysFacts ==
    /\ TP!Init => TP!KeysApart
    /\ TP!TypeOK /\ TP!KeysApart /\ [TP!Next]_TP!vars => TP!KeysApart'
    /\ TP!TypeOK /\ TP!KeysApart => TP!KindsSeparate
    /\ TP!TypeOK /\ TP!KindsSeparate /\ [TP!Next]_TP!vars => [TP!KindHonoured]_TP!vars
    /\ TP!TypeOK /\ [TP!Next]_TP!vars => [TP!InTime]_TP!vars
  BY SystemAssumption, TP!KeysInit, TP!KeysStep, TP!ApartSeparates, TP!KindHonouredStep,
     TP!InTimeStep

\* Both signing keys were installed and stay, so nothing was ever signed for
\* both uses.
TwoKeys ==
    /\ keys.refresh # T!Unset
    /\ \A p \in Workers : ~T!At(p, "idle") => request[p].keys.refresh # T!Unset
    /\ \A t \in tokens : ~t.shared
    /\ TP!KeysApart

LEMMA TwoKeysInit == Init => TwoKeys
  BY KeysFacts, SameTokens DEF Init, T!Init, TwoKeys, T!At

LEMMA PairUnshared ==
    ASSUME NEW u, NEW k, NEW r, k.refresh # T!Unset, NEW t \in T!PairFor(u, k, r)
    PROVE  ~t.shared
  <1> DEFINE s == k.refresh = T!Unset
  <1>1. t \in {[kind |-> "access", user |-> u, key |-> k.access,
                exp |-> now + AccessTTL, shared |-> s],
               [kind |-> "refresh", user |-> u, key |-> r,
                exp |-> now + RefreshTTL, shared |-> s]}
    BY DEF T!PairFor
  <1>2. ~s
    OBVIOUS
  <1> HIDE DEF s
  <1>3. t.shared = s
    BY <1>1
  <1> QED BY <1>2, <1>3

LEMMA TwoKeysStep == Composed /\ TwoKeys /\ [Next]_vars => TwoKeys'
  <1> SUFFICES ASSUME Composed, TwoKeys, [Next]_vars PROVE TwoKeys'
    OBVIOUS
  <1>1. TP!KeysApart'
    BY ComposedStep, KeysFacts, SameTokens DEF Composed, TwoKeys
  <1>2. ASSUME NEW p \in Workers, keys' = keys, tokens' = tokens,
               \/ \E status : T!Answer(p, status)
               \/ \E step, u : T!Continue(p, step, u, keys)
               \/ ~T!At(p, "idle") /\ \E step, u : T!Continue(p, step, u, request[p].keys)
        PROVE  TwoKeys'
    <2>1. \A q \in Workers \ {p} : request'[q] = request[q]
      BY <1>2, RequestFrame DEF Composed
    <2>2. request'[p].step # "idle" => request'[p].keys.refresh # T!Unset
      BY <1>2 DEF Composed, T!TypeOK, T!Answer, T!Continue, TwoKeys
    <2> QED BY <1>1, <1>2, <2>1, <2>2 DEF TwoKeys, T!At
  <1>3. ASSUME NEW p \in Workers, NEW c \in Clients, NEW h \in C!Hashes,
               ClientGrant(p, c, h)
        PROVE  TwoKeys'
    BY <1>2, <1>3 DEF ClientGrant, T!Starts, T!Pass, T!Fail, T!environment
  <1>4. ASSUME NEW p \in Workers, OtherRequest(p) PROVE TwoKeys'
    BY <1>2, <1>4 DEF OtherRequest, T!PasswordGrant, T!RefreshGrant, T!Call, T!Starts,
                      T!Pass, T!Fail, T!environment
  <1>5. ASSUME NEW p \in Workers, T!ClientUser(p) \/ T!RenewUser(p) \/ T!CallUser(p)
        PROVE  TwoKeys'
    <2>1. ~T!At(p, "idle") /\ UNCHANGED <<keys, tokens>>
      BY <1>5 DEF T!ClientUser, T!RenewUser, T!CallUser, T!Goes, T!At, T!environment
    <2> QED BY <1>2, <1>5, <2>1 DEF T!ClientUser, T!RenewUser, T!CallUser
  <1>6. ASSUME NEW p \in Workers, T!Issue(p) PROVE TwoKeys'
    <2>1. /\ keys' = keys /\ ~T!At(p, "idle")
          /\ \E status : T!Answer(p, status)
      BY <1>6 DEF T!Issue, T!Goes, T!At, T!environment
    <2>2. \A t \in tokens' : ~t.shared
      <3>1. request[p].keys.refresh # T!Unset
        BY <2>1 DEF TwoKeys
      <3>2. ASSUME NEW t \in tokens' PROVE ~t.shared
        <4>1. \/ t \in tokens
              \/ t \in T!PairFor(request[p].user, request[p].keys,
                                 T!RefreshKey(request[p].keys))
          BY <1>6 DEF T!Issue
        <4> QED BY <3>1, <4>1, PairUnshared DEF TwoKeys
      <3> QED BY <3>2
    <2>3. /\ \A q \in Workers \ {p} : request'[q] = request[q]
          /\ request'[p].step = "idle"
      BY <2>1, RequestFrame DEF Composed, T!TypeOK, T!Answer
    <2> QED BY <1>1, <2>1, <2>2, <2>3 DEF TwoKeys, T!At
  <1>7. ASSUME NEW p \in Workers, Me(p) \/ Finish(p) \/ Crash(p) PROVE TwoKeys'
    BY <1>2, <1>7 DEF Me, Finish, Return, Crash, T!Crash, T!Goes, T!environment
  <1>8. ASSUME NEW p \in Workers, Begin(p) PROVE TwoKeys'
    <2>1. CASE Return(p)
      BY <1>2, <2>1 DEF Return, T!Goes, T!environment
    <2>2. CASE UNCHANGED tokenVars
      BY <1>1, <2>2 DEF tokenVars, TwoKeys, T!At
    <2> QED BY <1>8, <2>1, <2>2 DEF Begin, Proceed
  <1>9. CASE UNCHANGED <<keys, tokens, request>>
    BY <1>1, <1>9 DEF TwoKeys, T!At
  <1> QED BY <1>3, <1>4, <1>5, <1>6, <1>7, <1>8, <1>9
          DEF Next, Progress, TokenStep, Write, SetAccount, T!SetAccount, T!Changes, Tick,
              tokenVars, vars

LEMMA TwoKeysAlways == Spec => []TwoKeys
  BY TwoKeysInit, TwoKeysStep, ComposedAlways, PTL DEF Spec

\* A request that starts with a token: one of its user, for this use, whose
\* time has not run out.
ByToken ==
    \A p \in Workers : T!At(p, "idle") =>
       /\ request'[p].step = "call" =>
            \E t \in tokens : /\ t.user = request'[p].user /\ t.kind = "access"
                              /\ T!Parses(t, keys.access)
       /\ request'[p].step = "renew" =>
            \E t \in tokens : /\ t.user = request'[p].user /\ t.kind = "refresh"
                              /\ T!Parses(t, keys.refresh)

\* With the two keys that the installation generates, calls run on access
\* tokens and renewals on refresh tokens alone, whoever holds which of them.
THEOREM TokensForTheirUse == Spec => [][ByToken]_vars
  <1>1. Composed /\ TwoKeys /\ [Next]_vars => [ByToken]_vars
    <2> SUFFICES ASSUME Composed, TwoKeys, [Next]_vars, NEW p \in Workers,
                        T!At(p, "idle"), request'[p].step \in {"call", "renew"}
                 PROVE  \E t \in tokens :
                           /\ t.user = request'[p].user
                           /\ \/ /\ request'[p].step = "call" /\ t.kind = "access"
                                 /\ T!Parses(t, keys.access)
                              \/ /\ request'[p].step = "renew" /\ t.kind = "refresh"
                                 /\ T!Parses(t, keys.refresh)
      BY DEF ByToken
    <2>1. TP!TypeOK /\ TP!KindsSeparate /\ [TP!Next]_TP!vars
      BY ComposedStep, KeysFacts, SameTokens DEF Composed, TwoKeys
    <2>2. request' # request
      BY DEF T!At
    <2>3. TP!KindHonoured
      BY <2>1, <2>2, KeysFacts DEF TP!vars
    <2>4. PICK t \in tokens :
            /\ t.user = request'[p].user
            /\ \/ /\ request'[p].step = "call" /\ TP!Parses(t, keys.access)
                  /\ t.kind = "access" \/ t.shared
               \/ /\ request'[p].step = "renew" /\ TP!Parses(t, TP!RefreshKey(keys))
                  /\ t.kind = "refresh" \/ keys.refresh = TP!Unset
      BY <2>3, SameTokenSafety DEF TP!KindHonoured
    <2>5. ~t.shared /\ keys.refresh # TP!Unset /\ TP!RefreshKey(keys) = keys.refresh
      BY SameTokenSafety DEF TwoKeys, TP!RefreshKey
    <2>6. T!Parses(t, keys.access) <=> TP!Parses(t, keys.access)
      BY SameTokenSafety
    <2>7. T!Parses(t, keys.refresh) <=> TP!Parses(t, keys.refresh)
      BY SameTokenSafety
    <2>8. CASE request'[p].step = "call"
      BY <2>4, <2>5, <2>6, <2>8
    <2>9. CASE request'[p].step = "renew"
      <3>1. t.kind = "refresh" /\ TP!Parses(t, keys.refresh)
        BY <2>4, <2>5, <2>9
      <3> QED BY <2>4, <2>7, <2>9, <3>1
    <2> QED BY <2>8, <2>9
  <1> QED BY <1>1, ComposedAlways, TwoKeysAlways, PTL DEF Spec

\* The decisions on accounts, and the kinds of token, with the real table.
THEOREM TokensSafe == Spec => [](T!DecisionsCurrent /\ T!KindsSeparate)
  <1>1. Init => TP!DecisionsCurrent
    BY TokensFacts, SameTokens DEF Init
  <1>2. Composed /\ TP!DecisionsCurrent /\ [Next]_vars => TP!DecisionsCurrent'
    BY ComposedStep, TokensFacts, SameTokens DEF Composed
  <1>3. Composed /\ TwoKeys => T!KindsSeparate
    BY KeysFacts, SameTokens, SameTokenSafety DEF Composed, TwoKeys
  <1> QED BY <1>1, <1>2, <1>3, SameTokens, ComposedAlways, TwoKeysAlways, PTL DEF Spec

InTime ==
    \A p \in Workers :
       /\ T!At(p, "idle") /\ request'[p].step = "call" =>
            \E t \in tokens : /\ t.user = request'[p].user /\ t.key = keys.access
                              /\ now < t.exp
       /\ T!At(p, "idle") /\ request'[p].step = "client" =>
            \/ Best[request'[p].user] = T!Never
            \/ Best[request'[p].user] > now

\* A request starts on a token or on a row of the table only within its time.
THEOREM TokensInTime == Spec => T!AcceptedInTime
  <1>1. Composed /\ [Next]_vars => [InTime]_T!vars
    <2> SUFFICES ASSUME Composed, [Next]_vars PROVE [InTime]_T!vars
      OBVIOUS
    <2>1. [TP!InTime]_TP!vars
      BY ComposedStep, KeysFacts, SameTokens DEF Composed
    <2>2. TP!InTime => InTime
      BY SameTokenSafety DEF TP!InTime, InTime
    <2> QED BY <2>1, <2>2, SameTokens
  <1>2. T!AcceptedInTime <=> [][InTime]_T!vars
    BY DEF T!AcceptedInTime, InTime
  <1> QED BY <1>1, <1>2, ComposedAlways, PTL DEF Spec

-----------------------------------------------------------------------------
(* A deleted account                                                       *)

\* Nothing is under way for the deleted account.
Gone(u) ==
    /\ account[u] = "deleted"
    /\ \A p \in Workers : T!At(p, "run") \/ T!At(p, "issue") => request[p].user # u

NotWriting(u) == \A p \in Workers : C!At(p, "idle") \/ writer[p].actor # u

LEMMA GoneStays ==
    ASSUME NEW u \in Users, Composed, [Next]_vars, Gone(u)
    PROVE  Gone(u)'
  <1>1. TP!TypeOK /\ [TP!Next]_TP!vars
    BY ComposedStep, SameTokens DEF Composed
  <1>2. TP!WorkFor(u) = {}
    BY SameTokenSafety DEF Gone, TP!WorkFor
  <1>3. account'[u] = "deleted"
    BY <1>1, SystemAssumption, TP!DeletedStaysDeleted DEF Gone
  <1>4. TP!WorkFor(u)' \subseteq TP!WorkFor(u)
    BY <1>1, SystemAssumption, TP!NoNewWork DEF Gone
  <1> QED BY <1>2, <1>3, <1>4 DEF Gone, TP!WorkFor, TP!At, T!At

\* The safety half of DeletionEndsWrites.  Once the calls that the middleware
\* let through before the deletion have ended, no worker writes for the account
\* again, whatever tokens of it are still valid.
THEOREM DeletionFinal ==
    ASSUME NEW u \in Users
    PROVE  Spec => [](Gone(u) => []NotWriting(u))
  <1>1. SameCaller /\ Gone(u) => NotWriting(u)
    BY DEF SameCaller, Gone, NotWriting
  <1>2. Composed /\ Gone(u) /\ [Next]_vars => Gone(u)'
    BY GoneStays
  <1> QED BY <1>1, <1>2, ComposedAlways, CallerInit, CallerStep, PTL DEF Spec

\* And no row is written in its name: those that carry it as their last writer
\* are the ones that did before, unchanged.
THEOREM DeletedWritesNoRow ==
    ASSUME NEW u \in Users
    PROVE  Spec => [][Gone(u) => \A i \in DOMAIN table' :
                        table'[i].by = u => i \in DOMAIN table /\ table'[i] = table[i]]_vars
  <1>1. Composed /\ SameCaller /\ [Next]_vars =>
          [Gone(u) => \A i \in DOMAIN table' :
             table'[i].by = u => i \in DOMAIN table /\ table'[i] = table[i]]_vars
    <2> SUFFICES ASSUME Composed, SameCaller, [Next]_vars, Gone(u), NEW i \in DOMAIN table',
                        table'[i].by = u
                 PROVE  i \in DOMAIN table /\ table'[i] = table[i]
      OBVIOUS
    <2>1. NotWriting(u)
      BY DEF SameCaller, Gone, NotWriting
    <2>2. ASSUME NEW p \in Workers, C!InsertRow(p) \/ C!UpdateRow(p),
                 table'[i] = writer[p].rec
          PROVE  FALSE
      <3>1. C!At(p, "insert") \/ C!At(p, "update")
        BY <2>2 DEF C!InsertRow, C!UpdateRow
      <3>2. writer[p].rec.by = writer[p].actor
        BY <3>1 DEF Composed, CP!Consistent, CP!CopiesValid, CP!CopyValid, CP!At, C!At
      <3> QED BY <2>1, <2>2, <3>1, <3>2 DEF NotWriting, C!At
    <2>3. ASSUME NEW p \in Workers, C!InsertRow(p) \/ C!UpdateRow(p) \/ C!DeleteRow(p)
          PROVE  \/ i \in DOMAIN table /\ table'[i] = table[i]
                 \/ ~C!DeleteRow(p) /\ table'[i] = writer[p].rec
      BY <2>3 DEF C!InsertRow, C!UpdateRow, C!DeleteRow, C!At
    <2>4. CASE table' = table
      BY <2>4
    <2>5. CASE \E p \in Workers : C!InsertRow(p) \/ C!UpdateRow(p) \/ C!DeleteRow(p)
      BY <2>2, <2>3, <2>5
    <2>6. CASE \E p \in Workers : Begin(p)
      BY <2>6, ServeKeepsTable DEF Begin
    <2>7. \/ table' = table
          \/ \E p \in Workers : C!InsertRow(p) \/ C!UpdateRow(p) \/ C!DeleteRow(p)
          \/ \E p \in Workers : Begin(p)
      BY DEF Next, ClientGrant, OtherRequest, Progress, TokenStep, Me, Write, Finish,
             C!Notify, Crash, C!Crash, SetAccount, Tick, credentialVars, vars
    <2> QED BY <2>4, <2>5, <2>6, <2>7, ServeKeepsTable DEF Begin
  <1> QED BY <1>1, ComposedAlways, CallerInit, CallerStep, PTL DEF Spec

-----------------------------------------------------------------------------
(* Who let whom in                                                         *)

\* The users with a password, and those for whom somebody else, who was
\* allowed to, created credentials.
Vouched ==
    PasswordUsers \cup {u \in Users : \E e \in C!Trail :
        e.kind = "created" /\ e.related = u /\ e.by # u /\ C!Permitted(e.by, u)}

\* AccessAccounted is about tokens.  They come from requests and these from
\* rows, but a row comes from a request, of its own user perhaps: all of them
\* are accounted for together.  Only a copy that is about to be inserted is
\* not, until it is.
AllVouched ==
    /\ \A t \in tokens : t.user \in Vouched
    /\ \A p \in Workers : ~T!At(p, "idle") => request[p].user \in Vouched
    /\ \A i \in DOMAIN table : table[i].user \in Vouched
    /\ \A p \in Workers :
         writer[p].step \notin {"idle", "insert"} => writer[p].rec.user \in Vouched

LEMMA VouchedInit == Init => AllVouched
  BY DEF Init, C!Init, T!Init, AllVouched, T!At

\* Events are never forgotten: one that is pending is logged or lost.
LEMMA TrailGrows == C!TypeOK /\ [C!Next]_C!vars => C!Trail \subseteq C!Trail'
  <1> SUFFICES ASSUME C!TypeOK, [C!Next]_C!vars PROVE C!Trail \subseteq C!Trail'
    OBVIOUS
  <1>1. ASSUME NEW p \in Workers,
               \A q \in Workers \ {p} : writer'[q] = writer[q],
               log \subseteq log', lost \subseteq lost',
               C!Written(p) => C!PendingEvent(p) \in log' \cup lost'
        PROVE  C!Trail \subseteq C!Trail'
    <2>1. \A q \in Workers : C!Written(q) =>
            \/ C!PendingEvent(q) \in log' \cup lost'
            \/ C!Written(q)' /\ C!PendingEvent(q)' = C!PendingEvent(q)
      BY <1>1 DEF C!Written, C!PendingEvent
    <2>2. C!Pending \subseteq C!Pending' \cup log' \cup lost'
      BY <2>1 DEF C!Pending
    <2> QED BY <1>1, <2>2 DEF C!Trail
  <1>2. ASSUME NEW p \in Workers, NEW actor \in Users, Serve(p, actor)
        PROVE  C!Trail \subseteq C!Trail'
    <2>1. C!At(p, "idle") /\ UNCHANGED <<log, lost>>
      BY <1>2 DEF Serve, C!Create, C!CreateRefused, C!CreateConflict, C!CreateAccepted,
                  C!Lookup, C!NotFound, C!Refused, C!Regenerate, C!RegenerateInvalid,
                  C!RegenerateRead, C!Revoke, C!RevokeRead
    <2> QED BY <1>1, <1>2, <2>1, ServeFrame DEF C!At, C!Written
  <1>3. ASSUME NEW p \in Workers, C!InsertRow(p) \/ C!UpdateRow(p) \/ C!DeleteRow(p)
        PROVE  C!Trail \subseteq C!Trail'
    BY <1>1, <1>3, WriterFrame DEF C!InsertRow, C!UpdateRow, C!DeleteRow, C!At, C!Written
  <1>4. ASSUME NEW p \in Workers, C!Notify(p) PROVE C!Trail \subseteq C!Trail'
    BY <1>1, <1>4, WriterFrame DEF C!Notify
  <1>5. ASSUME NEW p \in Workers, C!Crash(p) PROVE C!Trail \subseteq C!Trail'
    BY <1>1, <1>5, WriterFrame DEF C!Crash
  <1>6. CASE UNCHANGED <<writer, log, lost>>
    BY <1>6 DEF C!Trail, C!Pending, C!Written, C!PendingEvent
  <1> QED BY <1>2, <1>3, <1>4, <1>5, <1>6
          DEF C!Next, C!Request, Serve, C!Finish, C!Tick, C!vars

LEMMA VouchedGrows == Composed /\ [Next]_vars => Vouched \subseteq Vouched'
  BY CredentialsStep, TrailGrows DEF Composed, Vouched, C!Permitted

\* One worker's step, by what it brings in.
LEMMA VouchedFrame ==
    ASSUME AllVouched, Vouched \subseteq Vouched', NEW p \in Workers,
           \A q \in Workers \ {p} : writer'[q] = writer[q] /\ request'[q] = request[q],
           request'[p].step = "idle" \/ request'[p].user \in Vouched',
           writer'[p].step \in {"idle", "insert"} \/ writer'[p].rec.user \in Vouched',
           \A t \in tokens' \ tokens : t.user \in Vouched',
           \A i \in DOMAIN table' :
             \/ i \in DOMAIN table /\ table'[i] = table[i]
             \/ table'[i].user \in Vouched'
    PROVE  AllVouched'
  <1>1. \A t \in tokens' : t.user \in Vouched'
    BY DEF AllVouched
  <1>2. \A q \in Workers : ~T!At(q, "idle")' => request'[q].user \in Vouched'
    BY DEF AllVouched, T!At
  <1>3. \A i \in DOMAIN table' : table'[i].user \in Vouched'
    BY DEF AllVouched
  <1>4. \A q \in Workers : writer'[q].step \notin {"idle", "insert"}
                             => writer'[q].rec.user \in Vouched'
    BY DEF AllVouched
  <1> QED BY <1>1, <1>2, <1>3, <1>4 DEF AllVouched

\* The request of p is answered.
LEMMA AnswerVouched ==
    ASSUME Composed, AllVouched, Vouched \subseteq Vouched', NEW p \in Workers,
           UNCHANGED <<writer, table>>, NEW status, T!Answer(p, status),
           \A t \in tokens' \ tokens : t.user \in Vouched
    PROVE  AllVouched'
  <1>1. request'[p].step = "idle"
    BY DEF Composed, T!TypeOK, T!Answer
  <1>2. \A q \in Workers \ {p} : writer'[q] = writer[q] /\ request'[q] = request[q]
    BY DEF Composed, T!TypeOK, T!Answer
  <1>3. writer'[p].step \in {"idle", "insert"} \/ writer'[p].rec.user \in Vouched'
    BY DEF AllVouched
  <1> QED BY <1>1, <1>2, <1>3, VouchedFrame

\* The request of p goes on, for a user who is vouched for.
LEMMA ContinueVouched ==
    ASSUME Composed, AllVouched, Vouched \subseteq Vouched', NEW p \in Workers,
           UNCHANGED <<writer, table, tokens>>,
           NEW step, NEW u \in Vouched, NEW k, T!Continue(p, step, u, k)
    PROVE  AllVouched'
  <1>1. request'[p].user = u
    BY DEF Composed, T!TypeOK, T!Continue
  <1>2. \A q \in Workers \ {p} : writer'[q] = writer[q] /\ request'[q] = request[q]
    BY DEF Composed, T!TypeOK, T!Continue
  <1>3. writer'[p].step \in {"idle", "insert"} \/ writer'[p].rec.user \in Vouched'
    BY DEF AllVouched
  <1>4. tokens' \ tokens = {}
    OBVIOUS
  <1>5. request'[p].user \in Vouched'
    BY <1>1
  <1> QED BY <1>2, <1>3, <1>4, <1>5, VouchedFrame

LEMMA VouchedStep ==
    Composed /\ SameCaller /\ AllVouched /\ [Next]_vars => AllVouched'
  <1> SUFFICES ASSUME Composed, SameCaller, AllVouched, [Next]_vars PROVE AllVouched'
    OBVIOUS
  <1> USE DEF credentialVars
  <1>0. Vouched \subseteq Vouched'
    BY VouchedGrows
  <1>1. ASSUME NEW p \in Workers, NEW c \in Clients, NEW h \in C!Hashes,
               ClientGrant(p, c, h)
        PROVE  AllVouched'
    <2>1. UNCHANGED <<writer, table, tokens>>
      BY <1>1 DEF ClientGrant, T!Starts
    <2>2. ASSUME NEW i \in DOMAIN table, T!Pass(p, "client", table[i].user)
          PROVE  AllVouched'
      <3>1. table[i].user \in Vouched
        BY DEF AllVouched
      <3> QED BY <1>0, <2>1, <2>2, <3>1, ContinueVouched DEF T!Pass
    <2>3. ASSUME T!Fail(p, 401) PROVE AllVouched'
      BY <1>0, <2>1, <2>3, AnswerVouched DEF T!Fail
    <2> QED BY <1>1, <2>2, <2>3 DEF ClientGrant
  <1>2. ASSUME NEW p \in Workers, OtherRequest(p) PROVE AllVouched'
    <2>1. UNCHANGED <<writer, table, tokens>>
      BY <1>2 DEF OtherRequest, T!PasswordGrant, T!RefreshGrant, T!Call, T!Starts
    <2>2. ASSUME NEW u \in PasswordUsers, T!PasswordGrant(p, u) PROVE AllVouched'
      <3>1. u \in Vouched
        BY DEF Vouched
      <3>2. CASE T!Fail(p, 401)
        BY <1>0, <2>1, <3>2, AnswerVouched DEF T!Fail
      <3>3. CASE T!Pass(p, "issue", u)
        BY <1>0, <2>1, <3>1, <3>3, ContinueVouched DEF T!Pass
      <3> QED BY <2>2, <3>2, <3>3 DEF T!PasswordGrant
    <2>3. ASSUME NEW t \in tokens, T!RefreshGrant(p, t) \/ T!Call(p, t)
          PROVE  AllVouched'
      <3>1. t.user \in Vouched
        BY DEF AllVouched
      <3>2. CASE T!Answer(p, 401)
        BY <1>0, <2>1, <3>2, AnswerVouched
      <3>3. CASE T!Pass(p, "renew", t.user) \/ T!Continue(p, "call", t.user, keys)
        BY <1>0, <2>1, <3>1, <3>3, ContinueVouched DEF T!Pass
      <3> QED BY <2>3, <3>2, <3>3 DEF T!RefreshGrant, T!Call, T!Fail
    <2> QED BY <1>2, <2>2, <2>3 DEF OtherRequest
  <1>3. ASSUME NEW p \in Workers, TokenStep(p) PROVE AllVouched'
    <2>1. request[p].user \in Vouched
      BY <1>3 DEF TokenStep, T!ClientUser, T!RenewUser, T!Issue, T!CallUser, T!Goes,
                  T!At, AllVouched
    <2>2. UNCHANGED <<writer, table>>
      BY <1>3 DEF TokenStep
    <2>3. CASE T!ClientUser(p) \/ T!RenewUser(p) \/ T!CallUser(p)
      <3>1. tokens' = tokens
        BY <2>3 DEF T!ClientUser, T!RenewUser, T!CallUser
      <3>2. \/ \E status : T!Answer(p, status)
            \/ \E step, k : T!Continue(p, step, request[p].user, k)
        BY <2>3 DEF T!ClientUser, T!RenewUser, T!CallUser
      <3> QED BY <1>0, <2>1, <2>2, <3>1, <3>2, AnswerVouched, ContinueVouched
    <2>4. CASE T!Issue(p)
      <3>1. \A t \in tokens' \ tokens : t.user = request[p].user
        BY <2>4 DEF T!Issue, T!PairFor
      <3>2. \E status : T!Answer(p, status)
        BY <2>4 DEF T!Issue
      <3> QED BY <1>0, <2>1, <2>2, <3>1, <3>2, AnswerVouched
    <2> QED BY <1>3, <2>3, <2>4 DEF TokenStep
  <1>4. ASSUME NEW p \in Workers, Me(p) PROVE AllVouched'
    BY <1>0, <1>4, AnswerVouched DEF Me
  <1>5. ASSUME NEW p \in Workers, Begin(p) PROVE AllVouched'
    <2>1. UNCHANGED <<table, tokens>>
      BY <1>5, ServeKeepsTable DEF Begin, Proceed, Return, tokenVars
    <2>2. \A q \in Workers \ {p} : writer'[q] = writer[q]
      BY <1>5, ServeFrame DEF Begin, Composed
    <2>3. writer'[p].step \in {"idle", "insert"} \/ writer'[p].rec.user \in Vouched'
      <3>1. \A status : C!Answer(p, status) => writer'[p].step = "idle"
        BY DEF Composed, C!TypeOK, C!Answer
      <3>2. \A actor, step, id, rec : C!Continue(p, actor, step, id, rec) =>
              writer'[p].step = step /\ writer'[p].rec = rec
        BY DEF Composed, C!TypeOK, C!Continue
      <3> DEFINE actor == request[p].user
      <3>3. CASE C!Create(p, actor)
        <4>1. PICK owner \in Users :
                \/ C!CreateRefused(p, actor, owner)
                \/ C!CreateConflict(p, actor, owner)
                \/ \E expires \in Expiries : C!CreateAccepted(p, actor, owner, expires)
          BY <3>3 DEF C!Create
        <4>2. CASE C!CreateRefused(p, actor, owner) \/ C!CreateConflict(p, actor, owner)
          BY <3>1, <4>2 DEF C!CreateRefused, C!CreateConflict
        <4>3. ASSUME NEW expires \in Expiries, C!CreateAccepted(p, actor, owner, expires)
              PROVE  writer'[p].step = "insert"
          BY <3>2, <4>3 DEF C!CreateAccepted
        <4> QED BY <4>1, <4>2, <4>3
      <3>4. CASE C!Lookup(p, actor)
        BY <3>1, <3>4 DEF C!Lookup, C!NotFound, C!Refused
      <3>5. CASE C!Regenerate(p, actor)
        <4>1. PICK i \in DOMAIN table, expires \in Expiries :
                \/ C!RegenerateInvalid(p, actor, i, expires)
                \/ C!RegenerateRead(p, actor, i, expires)
          BY <3>5 DEF C!Regenerate, C!RowsOf
        <4>2. table[i] \in C!Row /\ table[i].user \in Vouched'
          BY <1>0, <4>1 DEF AllVouched, Composed, C!TypeOK
        <4>3. CASE C!RegenerateInvalid(p, actor, i, expires)
          BY <3>1, <4>3 DEF C!RegenerateInvalid
        <4>4. CASE C!RegenerateRead(p, actor, i, expires)
          <5> DEFINE new == [table[i] EXCEPT !.hash = C!hash_secret(C!NextSecret),
                                             !.expires = expires, !.by = actor]
          <5>1. writer'[p].rec = new
            BY <3>2, <4>4 DEF C!RegenerateRead
          <5>2. new.user = table[i].user
            BY <4>2 DEF C!Row
          <5> QED BY <4>2, <5>1, <5>2
        <4> QED BY <4>1, <4>3, <4>4
      <3>6. CASE C!Revoke(p, actor)
        <4>1. PICK i \in DOMAIN table : C!RevokeRead(p, actor, i)
          BY <3>6 DEF C!Revoke, C!RowsOf
        <4>2. table[i].user \in Vouched'
          BY <1>0, <4>1 DEF AllVouched
        <4> QED BY <3>2, <4>1, <4>2 DEF C!RevokeRead
      <3> QED BY <1>5, <3>3, <3>4, <3>5, <3>6 DEF Begin, Serve
    <2>4. /\ \A q \in Workers \ {p} : request'[q] = request[q]
          /\ request'[p].step = "idle" \/ request'[p] = request[p]
      BY <1>5, RequestFrame
      DEF Begin, Proceed, Return, tokenVars, T!Answer, T!TypeOK, Composed
    <2>5. request[p].user \in Vouched
      BY <1>5 DEF Begin, T!At, AllVouched
    <2> QED BY <1>0, <2>1, <2>2, <2>3, <2>4, <2>5, VouchedFrame
  <1>6. ASSUME NEW p \in Workers, Write(p) PROVE AllVouched'
    <2>1. UNCHANGED <<request, tokens>>
      BY <1>6 DEF Write
    <2>2. \A q \in Workers \ {p} : writer'[q] = writer[q]
      BY <1>6, WriterFrame DEF Write, C!InsertRow, C!UpdateRow, C!DeleteRow, Composed
    <2>3. writer'[p].rec = writer[p].rec
      BY <1>6 DEF Write, C!InsertRow, C!UpdateRow, C!DeleteRow, C!Continue, Composed,
                  C!TypeOK
    <2>4. \A i \in DOMAIN table' :
            \/ i \in DOMAIN table /\ table'[i] = table[i]
            \/ table'[i] = writer[p].rec
      BY <1>6 DEF Write, C!InsertRow, C!UpdateRow, C!DeleteRow
    <2>5. writer[p].rec.user \in Vouched'
      <3>1. ~C!At(p, "idle")
        BY <1>6 DEF Write, C!InsertRow, C!UpdateRow, C!DeleteRow, C!At
      <3> DEFINE u == writer[p].rec.user
                 a == writer[p].actor
      <3>2. a \in Vouched
        BY <3>1 DEF SameCaller, AllVouched, T!At
      <3>3. CASE ~C!At(p, "insert")
        BY <1>0, <3>1, <3>3 DEF AllVouched, C!At
      <3>4. CASE C!At(p, "insert") /\ a = u
        BY <1>0, <3>2, <3>4
      <3>5. CASE C!At(p, "insert") /\ a # u
        <4>1. writer[p] \in C!Job /\ u \in Users
          BY <3>1 DEF Composed, C!TypeOK, C!Rest, C!At, C!Job, C!Row
        <4>2. C!InsertRow(p)
          BY <1>6, <3>5 DEF Write, C!UpdateRow, C!DeleteRow, C!At
        <4>3. /\ writer'[p].step = "created" /\ writer'[p].actor = a
              /\ writer'[p].rec.user = u
          BY <4>2 DEF C!InsertRow, C!Continue, Composed, C!TypeOK
        <4>4. C!Permitted(a, u)
          BY <3>1 DEF Composed, CP!Consistent, CP!CopiesValid, CP!CopyValid, CP!At, C!At,
                      CP!Permitted, C!Permitted
        <4>5. PICK e : e = C!PendingEvent(p)'
          OBVIOUS
        <4>6. e \in C!Trail' /\ e.kind = "created" /\ e.by = a /\ e.related = u
          BY <4>3, <4>5 DEF C!Trail, C!Pending, C!Written, C!PendingEvent
        <4> QED BY <3>5, <4>1, <4>4, <4>6 DEF Vouched, C!Permitted
      <3> QED BY <3>3, <3>4, <3>5
    <2>6. ~T!At(p, "idle") => request[p].user \in Vouched
      BY DEF AllVouched
    <2> QED BY <1>0, <2>1, <2>2, <2>3, <2>4, <2>5, <2>6, VouchedFrame DEF T!At
  <1>7. ASSUME NEW p \in Workers, Finish(p) PROVE AllVouched'
    <2>1. /\ \A q \in Workers \ {p} : writer'[q] = writer[q] /\ request'[q] = request[q]
          /\ writer'[p].step = "idle"
      BY <1>7, WriterFrame, RequestFrame DEF Finish, C!Notify, Return, Composed
    <2>2. request'[p].step = "idle"
      BY <1>7 DEF Finish, Return, T!Answer, T!TypeOK, Composed
    <2>3. UNCHANGED <<table, tokens>>
      BY <1>7 DEF Finish, C!Notify, Return
    <2> QED BY <1>0, <2>1, <2>2, <2>3, VouchedFrame
  <1>8. ASSUME NEW p \in Workers, Crash(p) PROVE AllVouched'
    <2>1. \A q \in Workers \ {p} : request'[q] = request[q]
      BY <1>8, RequestFrame DEF Crash, T!Crash, Composed
    <2>2. /\ \A q \in Workers \ {p} : writer'[q] = writer[q]
          /\ writer'[p].step = "idle"
      BY <1>8, WriterFrame DEF Crash, C!Crash, C!At, Composed
    <2>3. request'[p].step = "idle"
      BY <1>8 DEF Crash, T!Crash, T!Answer, T!TypeOK, Composed
    <2>4. UNCHANGED <<table, tokens>>
      BY <1>8 DEF Crash, C!Crash, T!Crash
    <2> QED BY <1>0, <2>1, <2>2, <2>3, <2>4, VouchedFrame
  <1>9. CASE UNCHANGED <<tokens, request, table, writer>>
    BY <1>0, <1>9 DEF AllVouched, T!At
  <1> QED BY <1>1, <1>2, <1>3, <1>4, <1>5, <1>6, <1>7, <1>8, <1>9
          DEF Next, Progress, SetAccount, T!SetAccount, T!Changes, Tick, tokenVars, vars

\* Access is not made out of nothing: however tokens make credentials and
\* credentials tokens, at the beginning of each user's there is a password or
\* somebody else who was allowed to let them in.
THEOREM AccessAlwaysAccounted == Spec => []AccessAccounted
  <1>1. AllVouched => AccessAccounted
    BY DEF AllVouched, Vouched, AccessAccounted
  <1> QED BY <1>1, CallerInit, CallerStep, VouchedInit, VouchedStep, ComposedAlways, PTL
          DEF Spec
=============================================================================
