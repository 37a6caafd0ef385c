--------------------------- MODULE MCPostVersions ---------------------------
(* Small instances of PostVersions for TLC. *)
EXTENDS PostVersions

CONSTANTS w1, w2, s1    \* two requests and the sweeper
=============================================================================
