---------------------------- MODULE MCRateLimit ----------------------------
(* Instances of RateLimit for TLC.                                         *)
EXTENDS RateLimit, TLC

CONSTANTS w1, w2, ann, bob

MCWorkers  == {w1, w2}
MCUsers    == {ann, bob}
MCBackends == {"default", "refused"}

\* Workers are interchangeable, and so are users.
Symmetry == Permutations(Workers) \cup Permutations(Users)
=============================================================================
