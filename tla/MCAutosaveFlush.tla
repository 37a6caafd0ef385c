-------------------------- MODULE MCAutosaveFlush --------------------------
(* Small instances of AutosaveFlush for TLC. *)
EXTENDS AutosaveFlush, TLC

CONSTANTS w1, w2, w3, b0, b1, b2    \* coroutines and bodies

\* Every operation, by two users and a sweeper.
AllOps == w1 :> {"autosave", "publish", "restore"} @@ w2 :> {"sweep"}
            @@ w3 :> {"autosave", "patch", "unpublish", "archive", "delete"}

\* Editors, restores and two sweepers that both believe they lead.
TwoFlushers == w1 :> {"autosave", "restore", "archive", "delete"}
                 @@ w2 :> {"sweep"} @@ w3 :> {"sweep"}
=============================================================================
