--------------------------- MODULE MCOpenApiCache ---------------------------
(* An instance of OpenApiCache for TLC.                                    *)
EXTENDS OpenApiCache

CONSTANTS w1, w2, s1, s2

TwoWorkers  == {w1, w2}
TwoSessions == {s1, s2}
Json        == {"json"}
=============================================================================
