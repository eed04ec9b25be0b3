----------------------- MODULE CredentialStoreProofs -----------------------
(***************************************************************************)
(* Theorems about CredentialStore, whatever the identifiers, owners and    *)
(* secrets, checked by TLAPS: what the promise of the store amounts to.    *)
(***************************************************************************)
EXTENDS CredentialStore, TLAPS

-----------------------------------------------------------------------------
(* The state                                                               *)

LEMMA TypeInit == Init => TypeOK
  BY DEF Init, TypeOK

LEMMA TypeStep == TypeOK /\ [Next]_vars => TypeOK'
  <1> SUFFICES ASSUME TypeOK, [Next]_vars PROVE TypeOK'
    OBVIOUS
  <1> USE DEF TypeOK, Credential
  <1>1. ASSUME NEW i \in Ids, NEW u \in Owners, NEW s \in Secrets \ spent, Issue(i, u, s)
        PROVE  TypeOK'
    BY <1>1 DEF Issue
  <1>2. ASSUME NEW i \in Ids, NEW s \in Secrets \ spent, Rotate(i, s)
        PROVE  TypeOK'
    BY <1>2 DEF Rotate
  <1>3. ASSUME NEW i \in Ids, Revoke(i)
        PROVE  TypeOK'
    BY <1>3 DEF Revoke
  <1>4. ASSUME NEW s \in Secrets \ spent, Discard(s)
        PROVE  TypeOK'
    BY <1>4 DEF Discard
  <1>5. CASE UNCHANGED vars
    BY <1>5 DEF vars
  <1> QED BY <1>1, <1>2, <1>3, <1>4, <1>5 DEF Next

\* Every variable of the store keeps its type.
THEOREM TypeCorrect == Spec => []TypeOK
  BY TypeInit, TypeStep, PTL DEF Spec

\* No credential is both valid and revoked; the valid ones have secrets that
\* count as spent, each its own.
Sound ==
    /\ DOMAIN live \cap retired = {}
    /\ \A i \in DOMAIN live : live[i].secret \in spent
    /\ \A i, j \in DOMAIN live : live[i].secret = live[j].secret => i = j

LEMMA SoundInit == Init => Sound
  BY DEF Init, Sound

\* What a step makes of the credentials that stay valid.
LEMMA RotateKeeps ==
    ASSUME TypeOK, NEW i \in Ids, NEW s \in Secrets, Rotate(i, s)
    PROVE  /\ DOMAIN live' = DOMAIN live
           /\ live'[i].secret = s /\ live'[i].owner = live[i].owner
           /\ \A j \in DOMAIN live \ {i} : live'[j] = live[j]
  BY DEF TypeOK, Credential, Rotate

LEMMA SoundStep == TypeOK /\ Sound /\ [Next]_vars => Sound'
  <1> SUFFICES ASSUME TypeOK, Sound, [Next]_vars PROVE Sound'
    OBVIOUS
  <1> USE DEF Sound
  <1>1. ASSUME NEW i \in Ids, NEW u \in Owners, NEW s \in Secrets \ spent, Issue(i, u, s)
        PROVE  Sound'
    <2>1. /\ live'[i].secret = s
          /\ \A j \in DOMAIN live : live'[j] = live[j]
          /\ DOMAIN live' = DOMAIN live \cup {i}
      BY <1>1 DEF Issue
    <2>2. \A j \in DOMAIN live : live[j].secret # s
      BY <1>1 DEF Issue
    <2> QED BY <1>1, <2>1, <2>2 DEF Issue
  <1>2. ASSUME NEW i \in Ids, NEW s \in Secrets \ spent, Rotate(i, s)
        PROVE  Sound'
    <2>1. \A j \in DOMAIN live : live[j].secret # s
      BY <1>2 DEF Rotate
    <2> QED BY <1>2, <2>1, RotateKeeps DEF Rotate
  <1>3. ASSUME NEW i \in Ids, Revoke(i)
        PROVE  Sound'
    BY <1>3 DEF Revoke
  <1>4. ASSUME NEW s \in Secrets \ spent, Discard(s)
        PROVE  Sound'
    BY <1>4 DEF Discard
  <1>5. CASE UNCHANGED vars
    BY <1>5 DEF vars
  <1> QED BY <1>1, <1>2, <1>3, <1>4, <1>5 DEF Next

\* Valid and revoked are told apart, and one secret opens one credential.
THEOREM AlwaysSound == Spec => []Sound
  BY TypeInit, TypeStep, SoundInit, SoundStep, PTL DEF Spec

-----------------------------------------------------------------------------
(* What is over is over                                                    *)

\* The secret s was used up: it was valid once, or thrown away, and is not now.
Dead(s) == s \in spent /\ \A i \in DOMAIN live : live[i].secret # s

\* A step neither revives an identifier or a secret nor moves one to another
\* owner: what is valid afterwards under a secret that was spent before was
\* valid before, as the same credential of the same owner.
Continuous ==
    /\ retired \subseteq retired'
    /\ spent \subseteq spent'
    /\ \A i \in DOMAIN live' :
         /\ i \notin retired
         /\ live'[i].secret \in spent => i \in DOMAIN live /\ live'[i] = live[i]
         /\ i \in DOMAIN live => live'[i].owner = live[i].owner

LEMMA ContinuousStep == TypeOK /\ Sound /\ [Next]_vars => [Continuous]_vars
  <1> SUFFICES ASSUME TypeOK, Sound, Next PROVE Continuous
    OBVIOUS
  <1> USE DEF Sound, Continuous
  <1>1. ASSUME NEW i \in Ids, NEW u \in Owners, NEW s \in Secrets \ spent, Issue(i, u, s)
        PROVE  Continuous
    BY <1>1 DEF Issue
  <1>2. ASSUME NEW i \in Ids, NEW s \in Secrets \ spent, Rotate(i, s)
        PROVE  Continuous
    <2>1. s \notin spent /\ retired' = retired /\ spent \subseteq spent'
      BY <1>2 DEF Rotate
    <2> QED BY <1>2, <2>1, RotateKeeps DEF Rotate
  <1>3. ASSUME NEW i \in Ids, Revoke(i)
        PROVE  Continuous
    BY <1>3 DEF Revoke
  <1>4. ASSUME NEW s \in Secrets \ spent, Discard(s)
        PROVE  Continuous
    BY <1>4 DEF Discard
  <1> QED BY <1>1, <1>2, <1>3, <1>4 DEF Next

\* Identifiers and secrets are used once, and keep their owner.
THEOREM AlwaysContinuous == Spec => [][Continuous]_vars
  BY ContinuousStep, TypeInit, TypeStep, SoundInit, SoundStep, PTL DEF Spec

LEMMA DeadStays ==
    ASSUME NEW s, TypeOK, Sound, Dead(s), [Next]_vars
    PROVE  Dead(s)'
  <1>1. CASE Continuous
    BY <1>1 DEF Continuous, Dead
  <1>2. CASE UNCHANGED vars
    BY <1>2 DEF vars, Dead
  <1> QED BY <1>1, <1>2, ContinuousStep

\* A secret that was replaced, revoked or thrown away opens nothing ever again.
THEOREM DeadForGood ==
    ASSUME NEW s
    PROVE  Spec => [](Dead(s) => []Dead(s))
  <1>1. TypeOK /\ Sound /\ Dead(s) /\ [Next]_vars => Dead(s)'
    BY DeadStays
  <1> QED BY <1>1, TypeInit, TypeStep, SoundInit, SoundStep, PTL DEF Spec
=============================================================================
