-------------------------- MODULE CredentialStore --------------------------
(***************************************************************************)
(* What the credentials API promises its users, with every request an      *)
(* atomic step: a credential is issued once, its secret may be replaced,   *)
(* and it is revoked for good.  An identifier is never given twice and a   *)
(* secret that was used, replaced or thrown away never becomes valid       *)
(* again.  OAuthCredentials implements this module.                        *)
(***************************************************************************)
CONSTANTS Ids, Owners, Secrets

VARIABLES
    live,     \* identifier -> [owner, secret] of the credentials now valid
    retired,  \* identifiers of the revoked credentials
    spent     \* secrets that were valid at some time, or were thrown away

vars == <<live, retired, spent>>

Credential == [owner : Owners, secret : Secrets]

TypeOK ==
    /\ DOMAIN live \subseteq Ids
    /\ live \in [DOMAIN live -> Credential]
    /\ retired \subseteq Ids
    /\ spent \subseteq Secrets

Init ==
    /\ live = [i \in {} |-> {}]
    /\ retired = {}
    /\ spent = {}

Issue(i, u, s) ==
    /\ i \in Ids \ (DOMAIN live \cup retired)
    /\ live' = [j \in DOMAIN live \cup {i} |->
                  IF j = i THEN [owner |-> u, secret |-> s] ELSE live[j]]
    /\ spent' = spent \cup {s}
    /\ UNCHANGED retired

Rotate(i, s) ==
    /\ i \in DOMAIN live
    /\ live' = [live EXCEPT ![i].secret = s]
    /\ spent' = spent \cup {s}
    /\ UNCHANGED retired

Revoke(i) ==
    /\ i \in DOMAIN live
    /\ live' = [j \in DOMAIN live \ {i} |-> live[j]]
    /\ retired' = retired \cup {i}
    /\ UNCHANGED spent

\* A secret that was generated for a request that stores nothing.
Discard(s) ==
    /\ spent' = spent \cup {s}
    /\ UNCHANGED <<live, retired>>

\* A secret is new when it enters: it was never valid and never thrown away.
Next ==
    \/ \E s \in Secrets \ spent :
         \/ \E i \in Ids, u \in Owners : Issue(i, u, s)
         \/ \E i \in Ids : Rotate(i, s)
         \/ Discard(s)
    \/ \E i \in Ids : Revoke(i)

Spec == Init /\ [][Next]_vars
=============================================================================
