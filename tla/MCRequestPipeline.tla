------------------------- MODULE MCRequestPipeline -------------------------
(* An instance of RequestPipeline for TLC.                                 *)
EXTENDS RequestPipeline

\* The routes of routes.php (token, credentials, current user), and routes a
\* plugin may add: a rate limit, and the logger or the rate limit outermost.
MCRoutes == {
    <<"cors">>,
    <<"cors", "auth">>,
    <<"cors", "auth", "log">>,
    <<"cors", "auth", "log", "limit">>,
    <<"cors", "log", "auth">>,
    <<"limit", "log", "auth", "cors">>}
=============================================================================
