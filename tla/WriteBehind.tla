----------------------------- MODULE WriteBehind -----------------------------
(***************************************************************************)
(* What the autosave path promises (apps/blog/store.py 3-8): edits are     *)
(* accepted at once, coalesce in a buffer, and reach durable storage in    *)
(* the order they were typed; an edit that has been passed over never      *)
(* comes back.                                                             *)
(***************************************************************************)
EXTENDS Naturals, Sequences

CONSTANTS Body, InitBody

VARIABLES
    durable,    \* the stored body
    buffer      \* the edits accepted since the stored one, oldest first

Init == durable = InitBody /\ buffer = <<>>

Accept(b) == buffer' = Append(buffer, b) /\ UNCHANGED durable

\* One write stores some buffered edit and drops the older ones.
Coalesce ==
    \E n \in 1..Len(buffer) :
        /\ durable' = buffer[n]
        /\ buffer' = SubSeq(buffer, n + 1, Len(buffer))

Next == Coalesce \/ \E b \in Body : Accept(b)

Spec == Init /\ [][Next]_<<durable, buffer>>
=============================================================================
