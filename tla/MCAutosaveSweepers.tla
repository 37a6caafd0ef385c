------------------------- MODULE MCAutosaveSweepers -------------------------
(* Small instances of AutosaveSweepers for TLC. *)
EXTENDS AutosaveSweepers

CONSTANTS w1, w2, p1, p2, p3    \* tasks and posts
=============================================================================
