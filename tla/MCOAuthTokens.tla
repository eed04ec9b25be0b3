--------------------------- MODULE MCOAuthTokens ---------------------------
(* Instances of OAuthTokens for TLC.                                       *)
EXTENDS OAuthTokens, TLC

CONSTANTS w1, ann

OneWorker   == {w1}
MCUsers     == {ann}
\* 0 is never, 2 is a future that passes.
MCExpiries  == {0, 2}
=============================================================================
