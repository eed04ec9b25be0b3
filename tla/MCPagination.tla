---------------------------- MODULE MCPagination ----------------------------
(* An instance of Pagination for TLC.                                      *)
EXTENDS Pagination

\* 2 is the maximum that endpoints set: limits on both sides of it.
MCDefaults   == {1, 3}
MCMaxima     == {2}
MCFirstPages == {0, 1}
=============================================================================
