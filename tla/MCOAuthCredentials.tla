------------------------ MODULE MCOAuthCredentials ------------------------
(* Instances of OAuthCredentials for TLC.                                  *)
EXTENDS OAuthCredentials, TLC

CONSTANTS w1, w2, ann, bob, cal, c1, c2

\* ann manages everybody's credentials but not her own; bob only his own; cal
\* none. The ids of ann and cal hash to the same prefix.
MCUsers == {ann, bob, cal}
MCManagers == {ann}
MCSelfManagers == {bob}
MCClients == {c1, c2}
MCClientOf == ann :> c1 @@ bob :> c2 @@ cal :> c1

\* 0 is "never", 2 is a future that passes.
MCExpiriesSmall == {0, 2}

TwoWorkers == {w1, w2}

\* Workers are interchangeable.
Symmetry == Permutations(Workers)

\* What TLC tells states apart by: not whether an event was logged or lost, nor
\* which of its statuses an idle worker answered last. No guard reads either, and
\* the properties of the run read the two sets of events only together and of a
\* status only whether it is one that the type allows.
Told == <<table, lastId, lastSecret, now, log \cup lost,
          [p \in Workers |-> IF At(p, "idle") THEN job[p] \in Rest ELSE job[p]]>>
=============================================================================
