---------------------------- MODULE MCApiSystem ----------------------------
(* An instance of ApiSystem for TLC.                                       *)
EXTENDS ApiSystem, TLC

CONSTANTS w1, ann, svc, c1

\* ann has a password and manages credentials; svc is a service account that
\* may manage its own.
OneWorker       == {w1}
MCUsers         == {ann, svc}
MCManagers      == {ann}
MCSelfManagers  == {svc}
MCPasswordUsers == {ann}
MCClients       == {c1}
MCClientOf      == ann :> c1 @@ svc :> c1
MCExpiries      == {0, 2}
MCStates        == {"deleted"}
=============================================================================
