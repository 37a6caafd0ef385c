----------------------------- MODULE MCPostCache -----------------------------
(* One post with two slugs, two writers and a visitor who comes twice. *)
EXTENDS PostCache

CONSTANTS p1, a, b, w1, w2, r1
=============================================================================
