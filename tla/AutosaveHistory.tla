-------------------------- MODULE AutosaveHistory --------------------------
(***************************************************************************)
(* AutosaveFlush with history variables: the edits the store has accepted, *)
(* and which of them each flusher has read and Postgres has committed.     *)
(* They observe the steps of AutosaveFlush and restrict none of them.      *)
(***************************************************************************)
EXTENDS AutosaveFlush

VARIABLES
    edits,      \* the bodies saved to Redis, oldest first
    readAt,     \* per coroutine, the number of edits when it read the snapshot
    storedAt,   \* the number of the edit Postgres has committed last
    patchedAt   \* the number of edits superseded by a committed PATCH of the body

history == <<edits, readAt, storedAt, patchedAt>>
hvars == <<vars, history>>

HInit ==
    /\ Init
    /\ edits = <<>>
    /\ readAt = [p \in Proc |-> 0]
    /\ storedAt = 0
    /\ patchedAt = 0

\* The snapshot holds the newest edit, if it holds any.
ObserveSave(p) ==
    /\ AutosaveSave(p)
    /\ edits' = Append(edits, loc[p].body)
    /\ UNCHANGED <<readAt, storedAt, patchedAt>>

ObserveRead(p) ==
    /\ GetSnapshot(p) \/ DiscardHash(p)
    /\ readAt' = [readAt EXCEPT ![p] = Len(edits)]
    /\ UNCHANGED <<edits, storedAt, patchedAt>>

Wrote(p) == rowLock = p /\ loc[p].op \in {"sweep", "publish"} /\ work.body # db.body

ObserveCommit(p) ==
    /\ Commit(p)
    /\ storedAt' = IF Wrote(p) THEN readAt[p] ELSE storedAt
    /\ patchedAt' = IF loc[p].op = "patch" /\ rowLock = p THEN readAt[p] ELSE patchedAt
    /\ UNCHANGED <<edits, readAt>>

OtherStep(p) ==
    \/ Start(p) \/ SweepPick(p)
    \/ LoadPost(p) \/ AcquireFlushLock(p) \/ WriteFlush(p)
    \/ UnlockFlush(p) \/ MarkFlushed(p) \/ Reload(p)
    \/ FindPost(p) \/ PublishWrite(p)
    \/ PatchWrite(p) \/ DiscardIndex(p)
    \/ TurnWrite(p) \/ RestoreWrite(p)

HNext ==
    \/ \E p \in Proc : ObserveSave(p) \/ ObserveRead(p) \/ ObserveCommit(p)
    \/ (\E p \in Proc : OtherStep(p)) /\ UNCHANGED history
    \/ Environment /\ UNCHANGED history
    \/ Idle /\ UNCHANGED history

HSpec == HInit /\ [][HNext]_hvars

HFairSpec == HSpec /\ Fairness

----------------------------------------------------------------------------
\* store.py 7-8: with one flusher, and nobody writing the body but the editor,
\* Postgres goes through the edits in the order they were typed.
Buffer == INSTANCE WriteBehind
    WITH durable <- db.body, buffer <- SubSeq(edits, storedAt + 1, Len(edits))

ImplementsWriteBehind == Buffer!Spec

Retyped == \E i \in 1..(Len(edits) - 1) : edits[i] = edits[Len(edits)]

\* store.py 5-8 with the sweeper's fairness: when the editor stops, its last edit is
\* in Postgres for good, unless the post has been deleted under it or the edit went
\* back to an earlier text: a save keeps flushed_hash (store.py 59-85), so that text counts
\* as flushed although the flush of a newer one may be under way.
EditorConverges ==
    <>[](db.deleted \/ Retyped \/ (edits # <<>> => db.body = edits[Len(edits)]))

\* _posts.py 357-358: once a PATCH has committed, no edit that it superseded is
\* committed after it.
PatchNotOverwritten ==
    [][\A p \in Proc :
        pc[p] = "commit" /\ db'.body # db.body /\ Wrote(p) => readAt[p] > patchedAt]_hvars
=============================================================================
