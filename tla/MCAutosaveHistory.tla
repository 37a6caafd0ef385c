------------------------- MODULE MCAutosaveHistory -------------------------
(* Small instances of AutosaveHistory for TLC. *)
EXTENDS AutosaveHistory, TLC

CONSTANTS w1, w2, w3, b0, b1, b2    \* coroutines and bodies

\* Two editor tabs and the leading sweeper.
OneFlusher == w1 :> {"autosave"} @@ w2 :> {"autosave", "archive", "delete"}
                @@ w3 :> {"sweep"}

\* An editor that autosaves and PATCHes, and the leading sweeper.
PatchAndSweep == w1 :> {"autosave", "patch"} @@ w2 :> {"sweep"} @@ w3 :> {}
=============================================================================
