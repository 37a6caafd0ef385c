------------------------ MODULE AutosaveFlush_proofs ------------------------
(***************************************************************************)
(* Theorems about AutosaveFlush, for every set of coroutines, bodies and   *)
(* faults and every bound: types, the flush lock and the dirty index, what *)
(* is committed to Postgres, what the version history keeps, and that      *)
(* AutosaveHistory implements WriteBehind.                                 *)
(***************************************************************************)
EXTENDS AutosaveHistory, TLAPS, SequenceTheorems

----------------------------------------------------------------------------
(* Typing lemmas: what the shared parts of the actions preserve.           *)

LEMMA OneInSeq == ASSUME NEW S, NEW v \in S PROVE <<v>> \in Seq(S)
OBVIOUS

LEMMA VersionTyped ==
    ASSUME NEW b \in Body, NEW s \in Status, NEW x \in BOOLEAN, NEW y \in BOOLEAN,
           NEW vs \in Seq(Version)
    PROVE  Append(vs, Ver(b, s, x, y)) \in Seq(Version)
<1>1. Ver(b, s, x, y) \in Version
  BY DEF Ver, Version
<1> QED BY <1>1

LEMMA FlushVersionTyped ==
    ASSUME NEW vs \in Seq(Version), NEW b \in Body, NEW s \in Status
    PROVE  WithFlushVersion(vs, b, s) \in Seq(Version)
<1>1. IsPublishTransition(s, LastOf(vs)) \in BOOLEAN
  BY DEF IsPublishTransition
<1>2. Append(vs, Ver(b, s, IsPublishTransition(s, LastOf(vs)), FALSE)) \in Seq(Version)
  BY <1>1, VersionTyped
<1> QED BY <1>2 DEF WithFlushVersion

\* The columns of a well-typed row, and the rows that updates make of it.
LEMMA RowFields ==
    ASSUME NEW r \in Row
    PROVE  /\ r.body \in Body /\ r.status \in Status /\ r.deleted \in BOOLEAN
           /\ r.versions \in Seq(Version)
BY DEF Row

LEMMA BodyUpdate ==
    ASSUME NEW r \in Row, NEW b \in Body, NEW vs \in Seq(Version)
    PROVE  [r EXCEPT !.body = b] \in Row /\ [r EXCEPT !.body = b, !.versions = vs] \in Row
BY DEF Row

LEMMA StatusUpdate ==
    ASSUME NEW r \in Row, NEW s \in Status, NEW vs \in Seq(Version)
    PROVE  [r EXCEPT !.status = s] \in Row /\ [r EXCEPT !.status = s, !.versions = vs] \in Row
BY DEF Row

LEMMA DeleteUpdate == ASSUME NEW r \in Row PROVE [r EXCEPT !.deleted = TRUE] \in Row
BY DEF Row

LEMMA LocalFields ==
    ASSUME ControlOK, NEW p \in Proc
    PROVE  /\ loc[p].status \in Status /\ loc[p].body \in Body \cup {None}
           /\ pc[p] \in HoldsBody => loc[p].body \in Body
           /\ pc[p] = "turnwrite" => loc[p].op \in Turn
BY DEF ControlOK, Local

LEMMA UndoTyped ==
    ASSUME PostgresOK, NEW p \in Proc, Undo(p)
    PROVE  PostgresOK'
BY DEF Undo, PostgresOK

LEMMA LeaveTyped ==
    ASSUME ControlOK, NEW p \in Proc, Leave(p)
    PROVE  ControlOK'
BY DEF Leave, Goto, Blank, ControlOK, HoldsBody, Label, Local, Kind, Status

LEMMA GotoTyped ==
    ASSUME ControlOK, NEW p \in Proc, NEW l \in Label, Goto(p, l), UNCHANGED loc,
           l \in HoldsBody => loc[p].body \in Body, l # "turnwrite"
    PROVE  ControlOK'
BY DEF Goto, ControlOK

LEMMA GotoBodyTyped ==
    ASSUME ControlOK, NEW p \in Proc, NEW l \in Label, Goto(p, l), NEW b \in Body,
           loc' = [loc EXCEPT ![p].body = b], l # "turnwrite"
    PROVE  ControlOK'
BY DEF Goto, ControlOK, Local

LEMMA GotoStatusTyped ==
    ASSUME ControlOK, NEW p \in Proc, NEW l \in Label, Goto(p, l), NEW s \in Status,
           loc' = [loc EXCEPT ![p].status = s],
           l \in HoldsBody => loc[p].body \in Body, l # "turnwrite"
    PROVE  ControlOK'
BY DEF Goto, ControlOK, Local

LEMMA RequestTyped ==
    ASSUME TypeOK, ConstAssumption, NEW p \in Proc, NEW k \in Kind,
           NEW b \in Body \cup {None}, NEW l \in Label,
           l \in HoldsBody => b \in Body, l = "turnwrite" => k \in Turn,
           Request(p, k, b, l)
    PROVE  TypeOK'
<1>1. db.status \in Status
  BY RowFields DEF TypeOK, PostgresOK
<1>2. BoundsOK'
  BY DEF Request, TypeOK, BoundsOK, ConstAssumption
<1>3. ControlOK'
  BY <1>1 DEF Request, Goto, TypeOK, ControlOK, Local
<1>4. RedisOK' /\ PostgresOK'
  BY DEF Request, TypeOK, RedisOK, PostgresOK, redis, postgres
<1> QED BY <1>2, <1>3, <1>4 DEF TypeOK

LEMMA InitType == ASSUME ConstAssumption PROVE Init => TypeOK
<1> SUFFICES ASSUME Init PROVE TypeOK OBVIOUS
<1>1. Ver(InitBody, "draft", FALSE, FALSE) \in Version
  BY DEF Ver, Version, Status, ConstAssumption
<1>2. <<Ver(InitBody, "draft", FALSE, FALSE)>> \in Seq(Version)
  BY <1>1, OneInSeq
<1>3. db \in Row /\ work \in Row
  BY <1>2 DEF Init, Row, Status, ConstAssumption
<1>4. PostgresOK
  BY <1>3 DEF Init, PostgresOK
<1>5. ControlOK
  BY DEF Init, ControlOK, Blank, Label, Local, Status, HoldsBody
<1>6. RedisOK
  BY DEF Init, NoSnapshot, Snapshot, RedisOK
<1>7. BoundsOK
  BY DEF Init, BoundsOK, ConstAssumption
<1> QED BY <1>4, <1>5, <1>6, <1>7 DEF TypeOK

LEMMA NextType == ASSUME ConstAssumption, TypeOK, [Next]_vars PROVE TypeOK'
<1> USE DEF TypeOK
<1>1. ASSUME NEW p \in Proc, AutosaveSave(p) PROVE TypeOK'
  <2>1. ControlOK'
    BY <1>1, LeaveTyped DEF AutosaveSave
  <2>2. PostgresOK'
    BY <1>1 DEF AutosaveSave, PostgresOK, postgres
  <2>3. RedisOK'
    BY <1>1 DEF AutosaveSave, RedisOK, ControlOK, HoldsBody, Snapshot
  <2>4. BoundsOK'
    BY <1>1 DEF AutosaveSave, BoundsOK, bounds
  <2> QED BY <2>1, <2>2, <2>3, <2>4
<1>2. ASSUME NEW p \in Proc, SweepPick(p) PROVE TypeOK'
  <2>1. ControlOK'
    BY <1>2 DEF SweepPick, Goto, ControlOK, Local, Kind, Label, HoldsBody
  <2>2. PostgresOK'
    BY <1>2 DEF SweepPick, PostgresOK, postgres
  <2>3. RedisOK'
    BY <1>2 DEF SweepPick, RedisOK, redis
  <2>4. BoundsOK'
    BY <1>2 DEF SweepPick, BoundsOK, bounds
  <2> QED BY <2>1, <2>2, <2>3, <2>4
<1>3. ASSUME NEW p \in Proc, GetSnapshot(p) PROVE TypeOK'
  <2>1. ControlOK'
    BY <1>3, LeaveTyped, GotoTyped, GotoBodyTyped DEF GetSnapshot, NothingFlushed, Dirty, RedisOK, Label, HoldsBody
  <2>2. PostgresOK'
    BY <1>3 DEF GetSnapshot, PostgresOK, postgres
  <2>3. RedisOK'
    BY <1>3 DEF GetSnapshot, RedisOK, redis
  <2>4. BoundsOK'
    BY <1>3 DEF GetSnapshot, BoundsOK, bounds
  <2> QED BY <2>1, <2>2, <2>3, <2>4
<1>4. ASSUME NEW p \in Proc, LoadPost(p) PROVE TypeOK'
  <2>1. ControlOK'
    <3>1. CASE db.deleted
      BY <1>4, <3>1, LeaveTyped DEF LoadPost, Raise
    <3>2. CASE ~db.deleted
      <4>1. db.status \in Status
        BY RowFields DEF PostgresOK
      <4>2. loc[p].body \in Body
        BY <1>4, LocalFields DEF LoadPost, HoldsBody
      <4> QED BY <1>4, <3>2, <4>1, <4>2, GotoStatusTyped DEF LoadPost, Label
    <3> QED BY <3>1, <3>2
  <2>2. PostgresOK'
    BY <1>4, UndoTyped DEF LoadPost, Raise, PostgresOK, postgres
  <2>3. RedisOK'
    BY <1>4 DEF LoadPost, RedisOK, redis
  <2>4. BoundsOK'
    BY <1>4 DEF LoadPost, BoundsOK, bounds
  <2> QED BY <2>1, <2>2, <2>3, <2>4
<1>5. ASSUME NEW p \in Proc, AcquireFlushLock(p) PROVE TypeOK'
  <2>1. ControlOK'
    BY <1>5, LeaveTyped, GotoTyped DEF AcquireFlushLock, NothingFlushed, ControlOK, Label, HoldsBody
  <2>2. PostgresOK'
    BY <1>5 DEF AcquireFlushLock, PostgresOK, postgres
  <2>3. RedisOK'
    BY <1>5 DEF AcquireFlushLock, RedisOK
  <2>4. BoundsOK'
    BY <1>5 DEF AcquireFlushLock, BoundsOK, bounds
  <2> QED BY <2>1, <2>2, <2>3, <2>4
<1>6. ASSUME NEW p \in Proc, WriteFlush(p) PROVE TypeOK'
  <2>1. ControlOK'
    BY <1>6, GotoTyped DEF WriteFlush, ControlOK, Label, HoldsBody
  <2>2. PostgresOK'
    <3>1. work \in Row /\ loc[p].body \in Body /\ loc[p].status \in Status
      BY <1>6, LocalFields DEF WriteFlush, PostgresOK, HoldsBody
    <3>2. WithFlushVersion(work.versions, loc[p].body, loc[p].status) \in Seq(Version)
      BY <3>1, RowFields, FlushVersionTyped
    <3>3. work' \in Row
      BY <1>6, <3>1, <3>2, BodyUpdate DEF WriteFlush
    <3> QED BY <1>6, <3>3 DEF WriteFlush, PostgresOK
  <2>3. RedisOK'
    BY <1>6 DEF WriteFlush, RedisOK, redis
  <2>4. BoundsOK'
    BY <1>6 DEF WriteFlush, BoundsOK, bounds
  <2> QED BY <2>1, <2>2, <2>3, <2>4
<1>7. ASSUME NEW p \in Proc, UnlockFlush(p) PROVE TypeOK'
  <2>1. ControlOK'
    BY <1>7, GotoTyped DEF UnlockFlush, ControlOK, Label, HoldsBody
  <2>2. PostgresOK'
    BY <1>7 DEF UnlockFlush, PostgresOK, postgres
  <2>3. RedisOK'
    BY <1>7 DEF UnlockFlush, RedisOK
  <2>4. BoundsOK'
    BY <1>7 DEF UnlockFlush, BoundsOK, bounds
  <2> QED BY <2>1, <2>2, <2>3, <2>4
<1>8. ASSUME NEW p \in Proc, MarkFlushed(p) PROVE TypeOK'
  <2>1. ControlOK'
    BY <1>8, GotoTyped DEF MarkFlushed, ControlOK, Label, HoldsBody
  <2>2. PostgresOK'
    BY <1>8 DEF MarkFlushed, PostgresOK, postgres
  <2>3. RedisOK'
    BY <1>8 DEF MarkFlushed, RedisOK, ControlOK, HoldsBody
  <2>4. BoundsOK'
    BY <1>8 DEF MarkFlushed, BoundsOK, bounds
  <2> QED BY <2>1, <2>2, <2>3, <2>4
<1>9. ASSUME NEW p \in Proc, Reload(p) PROVE TypeOK'
  <2>1. ControlOK'
    BY <1>9, LeaveTyped, GotoTyped DEF Reload, Raise, Label, HoldsBody
  <2>2. PostgresOK'
    BY <1>9, UndoTyped DEF Reload, Raise, PostgresOK, postgres
  <2>3. RedisOK'
    BY <1>9 DEF Reload, RedisOK, redis
  <2>4. BoundsOK'
    BY <1>9 DEF Reload, BoundsOK, bounds
  <2> QED BY <2>1, <2>2, <2>3, <2>4
<1>10. ASSUME NEW p \in Proc, Commit(p) PROVE TypeOK'
  <2>1. ControlOK'
    BY <1>10, LeaveTyped DEF Commit
  <2>2. PostgresOK'
    BY <1>10 DEF Commit, View, PostgresOK
  <2>3. RedisOK'
    BY <1>10 DEF Commit, RedisOK, redis
  <2>4. BoundsOK'
    BY <1>10 DEF Commit, BoundsOK, bounds
  <2> QED BY <2>1, <2>2, <2>3, <2>4
<1>11. ASSUME NEW p \in Proc, FindPost(p) PROVE TypeOK'
  <2>1. ControlOK'
    BY <1>11, LeaveTyped, GotoBodyTyped, RowFields DEF FindPost, View, Raise, PostgresOK, Label
  <2>2. PostgresOK'
    BY <1>11, UndoTyped DEF FindPost, Raise, PostgresOK, postgres
  <2>3. RedisOK'
    BY <1>11 DEF FindPost, RedisOK, redis
  <2>4. BoundsOK'
    BY <1>11 DEF FindPost, BoundsOK, bounds
  <2> QED BY <2>1, <2>2, <2>3, <2>4
<1>12. ASSUME NEW p \in Proc, PublishWrite(p) PROVE TypeOK'
  <2>1. ControlOK'
    BY <1>12, LeaveTyped, GotoTyped DEF PublishWrite, Raise, Label, HoldsBody
  <2>2. PostgresOK'
    <3>1. CASE work.deleted
      BY <1>12, <3>1, UndoTyped DEF PublishWrite, Raise
    <3>2. CASE ~work.deleted
      <4>1. work \in Row /\ loc[p].body \in Body /\ "published" \in Status
        BY <1>12, LocalFields DEF PublishWrite, PostgresOK, HoldsBody, Status
      <4>2. Append(work.versions, Ver(loc[p].body, "published", TRUE, FALSE)) \in Seq(Version)
        BY <4>1, RowFields, VersionTyped
      <4>3. [work EXCEPT !.status = "published",
                         !.versions = Append(work.versions,
                                             Ver(loc[p].body, "published", TRUE, FALSE))] \in Row
        BY <4>1, <4>2, StatusUpdate
      <4>4. work' \in Row
        BY <1>12, <3>2, <4>3 DEF PublishWrite
      <4> QED BY <1>12, <3>2, <4>4 DEF PublishWrite, PostgresOK
    <3> QED BY <3>1, <3>2
  <2>3. RedisOK'
    BY <1>12 DEF PublishWrite, RedisOK, redis
  <2>4. BoundsOK'
    BY <1>12 DEF PublishWrite, BoundsOK, bounds
  <2> QED BY <2>1, <2>2, <2>3, <2>4
<1>13. ASSUME NEW p \in Proc, PatchWrite(p) PROVE TypeOK'
  <2>1. ControlOK'
    BY <1>13, LeaveTyped, GotoTyped DEF PatchWrite, Raise, Label, HoldsBody
  <2>2. PostgresOK'
    <3>1. CASE View(p).deleted
      BY <1>13, <3>1, UndoTyped DEF PatchWrite, Raise
    <3>2. CASE ~View(p).deleted /\ loc[p].body = None
      BY <1>13, <3>2 DEF PatchWrite, PostgresOK
    <3>3. CASE ~View(p).deleted /\ loc[p].body # None
      <4>1. work \in Row /\ loc[p].body \in Body
        BY <3>3, LocalFields DEF PostgresOK
      <4>2. work.versions \in Seq(Version)
        BY <4>1, RowFields
      <4>3. work' \in Row
        BY <1>13, <3>3, <4>1, <4>2, BodyUpdate DEF PatchWrite
      <4> QED BY <1>13, <3>3, <4>3 DEF PatchWrite, PostgresOK
    <3> QED BY <3>1, <3>2, <3>3
  <2>3. RedisOK'
    BY <1>13 DEF PatchWrite, RedisOK, redis
  <2>4. BoundsOK'
    BY <1>13 DEF PatchWrite, BoundsOK, bounds
  <2> QED BY <2>1, <2>2, <2>3, <2>4
<1>14. ASSUME NEW p \in Proc, DiscardHash(p) PROVE TypeOK'
  <2>1. ControlOK'
    BY <1>14, GotoTyped DEF DiscardHash, Label, HoldsBody
  <2>2. PostgresOK'
    BY <1>14 DEF DiscardHash, PostgresOK, postgres
  <2>3. RedisOK'
    BY <1>14 DEF DiscardHash, RedisOK, NoSnapshot, Snapshot
  <2>4. BoundsOK'
    BY <1>14 DEF DiscardHash, BoundsOK, bounds
  <2> QED BY <2>1, <2>2, <2>3, <2>4
<1>15. ASSUME NEW p \in Proc, DiscardIndex(p) PROVE TypeOK'
  <2>1. ControlOK'
    BY <1>15, GotoTyped DEF DiscardIndex, Label, HoldsBody
  <2>2. PostgresOK'
    BY <1>15 DEF DiscardIndex, PostgresOK, postgres
  <2>3. RedisOK'
    BY <1>15 DEF DiscardIndex, RedisOK
  <2>4. BoundsOK'
    BY <1>15 DEF DiscardIndex, BoundsOK, bounds
  <2> QED BY <2>1, <2>2, <2>3, <2>4
<1>16. ASSUME NEW p \in Proc, TurnWrite(p) PROVE TypeOK'
  <2>1. ControlOK'
    BY <1>16, LeaveTyped, GotoTyped DEF TurnWrite, Raise, Label, HoldsBody
  <2>2. PostgresOK'
    <3>1. CASE work.deleted
      BY <1>16, <3>1, UndoTyped DEF TurnWrite, Raise
    <3>2. CASE ~work.deleted
      <4>1. work \in Row /\ loc[p].op \in Turn
        BY <1>16, LocalFields DEF TurnWrite, PostgresOK
      <4>2. work.versions \in Seq(Version) /\ "draft" \in Status /\ "archived" \in Status
        BY <4>1, RowFields DEF Status
      <4>3. Turned(work, loc[p].op) \in Row
        BY <4>1, <4>2, StatusUpdate, DeleteUpdate DEF Turned, Turn
      <4> QED BY <1>16, <3>2, <4>3 DEF TurnWrite, PostgresOK
    <3> QED BY <3>1, <3>2
  <2>3. RedisOK'
    BY <1>16 DEF TurnWrite, RedisOK, redis
  <2>4. BoundsOK'
    BY <1>16 DEF TurnWrite, BoundsOK, bounds
  <2> QED BY <2>1, <2>2, <2>3, <2>4
<1>17. ASSUME NEW p \in Proc, RestoreWrite(p) PROVE TypeOK'
  <2>1. ControlOK'
    BY <1>17, GotoTyped DEF RestoreWrite, Label, HoldsBody
  <2>2. PostgresOK'
    <3>1. work \in Row /\ loc[p].body \in Body /\ loc[p].status \in Status
      BY <1>17, LocalFields DEF RestoreWrite, PostgresOK, HoldsBody
    <3>2. Append(work.versions, Ver(loc[p].body, loc[p].status, FALSE, TRUE)) \in Seq(Version)
      BY <3>1, RowFields, VersionTyped
    <3>3. work' \in Row
      BY <1>17, <3>1, <3>2, BodyUpdate DEF RestoreWrite
    <3> QED BY <1>17, <3>3 DEF RestoreWrite, PostgresOK
  <2>3. RedisOK'
    BY <1>17 DEF RestoreWrite, RedisOK, redis
  <2>4. BoundsOK'
    BY <1>17 DEF RestoreWrite, BoundsOK, bounds
  <2> QED BY <2>1, <2>2, <2>3, <2>4
<1>18. ASSUME NEW p \in Proc, Crash(p) PROVE TypeOK'
  <2>1. ControlOK'
    BY <1>18, LeaveTyped DEF Crash, Raise
  <2>2. PostgresOK'
    BY <1>18, UndoTyped DEF Crash, Raise
  <2>3. RedisOK'
    BY <1>18 DEF Crash, RedisOK, redis
  <2>4. BoundsOK'
    BY <1>18 DEF Crash, Fault, BoundsOK, ConstAssumption
  <2> QED BY <2>1, <2>2, <2>3, <2>4
<1>19. ASSUME NEW p \in Proc, Abort(p) PROVE TypeOK'
  <2>1. ControlOK'
    BY <1>19, LeaveTyped DEF Abort, Raise
  <2>2. PostgresOK'
    BY <1>19, UndoTyped DEF Abort, Raise
  <2>3. RedisOK'
    BY <1>19 DEF Abort, RedisOK
  <2>4. BoundsOK'
    BY <1>19 DEF Abort, Fault, BoundsOK, ConstAssumption
  <2> QED BY <2>1, <2>2, <2>3, <2>4
<1>20. ASSUME NEW p \in Proc, Start(p) PROVE TypeOK'
  <2>1. CASE \E b \in Body : AutosaveCheck(p, b)
    BY <2>1, RequestTyped DEF AutosaveCheck, Kind, Label, Turn
  <2>2. CASE \E b \in Body : AutosaveNoop(p, b)
    BY <2>2 DEF AutosaveNoop, RedisOK, PostgresOK, ControlOK, BoundsOK, redis, postgres,
                ConstAssumption
  <2>3. CASE \E b \in Body : PatchStart(p, b)
    BY <2>3, RequestTyped DEF PatchStart, Kind, Label, HoldsBody
  <2>4. CASE PublishStart(p)
    BY <2>4, RequestTyped DEF PublishStart, Kind, Label, HoldsBody
  <2>5. CASE \E k \in Turn : TurnStart(p, k)
    BY <2>5, RequestTyped DEF TurnStart, Kind, Turn, Label, HoldsBody
  <2>6. CASE \E i \in DOMAIN db.versions : RestoreStart(p, i)
    <3>1. PICK i \in DOMAIN db.versions : RestoreStart(p, i)
      BY <2>6
    <3>2. db.versions[i].body \in Body
      <4>1. db.versions \in Seq(Version)
        BY RowFields DEF PostgresOK
      <4>2. db.versions[i] \in Version
        BY <4>1
      <4> QED BY <4>2 DEF Version
    <3> QED BY <3>1, <3>2, RequestTyped DEF RestoreStart, Kind, Label
  <2> QED BY <1>20, <2>1, <2>2, <2>3, <2>4, <2>5, <2>6 DEF Start
<1>21. ASSUME OrphanLockExpires \/ LockOutlived \/ SnapshotExpires PROVE TypeOK'
  BY <1>21 DEF OrphanLockExpires, LockOutlived, SnapshotExpires, Fault, NoSnapshot, Snapshot,
               RedisOK, PostgresOK, ControlOK, BoundsOK, postgres, bounds, ConstAssumption
<1>22. ASSUME NEW p \in Proc, RedisFails(p) PROVE TypeOK'
  <2>1. ControlOK'
    BY <1>22, LeaveTyped, GotoTyped DEF RedisFails, NothingFlushed, ControlOK, Label, HoldsBody
  <2>2. PostgresOK'
    BY <1>22 DEF RedisFails, PostgresOK, postgres
  <2>3. RedisOK'
    BY <1>22 DEF RedisFails, RedisOK
  <2>4. BoundsOK'
    BY <1>22 DEF RedisFails, Fault, BoundsOK, ConstAssumption
  <2> QED BY <2>1, <2>2, <2>3, <2>4
<1>23. ASSUME UNCHANGED vars PROVE TypeOK'
  BY <1>23 DEF vars, RedisOK, PostgresOK, ControlOK, BoundsOK
<1> QED
  BY <1>1, <1>2, <1>3, <1>4, <1>5, <1>6, <1>7, <1>8, <1>9, <1>10, <1>11,
     <1>12, <1>13, <1>14, <1>15, <1>16, <1>17, <1>18, <1>19, <1>20, <1>21,
     <1>23, <1>22 DEF Next, Step, FlushStep, Environment, Idle

\* Every state of every instance is well typed (TypeOK).
THEOREM TypeCorrect == Spec => []TypeOK
<1>1. Init => TypeOK BY InitType, ConstAssumption
<1>2. TypeOK /\ [Next]_vars => TypeOK' BY NextType, ConstAssumption
<1> QED BY <1>1, <1>2, PTL DEF Spec

----------------------------------------------------------------------------
(* The flush lock and the dirty index.                                     *)

(* Four actions change the lock; every other one leaves it alone.          *)

LEMMA LockFrame ==
    ASSUME [Next]_vars
    PROVE  \/ UNCHANGED lock
           \/ \E p \in Proc : \/ AcquireFlushLock(p) \/ UnlockFlush(p)
                            \/ Abort(p) \/ RedisFails(p)
           \/ OrphanLockExpires \/ LockOutlived
<1>1. ASSUME NEW p \in Proc, Start(p) PROVE UNCHANGED lock
  BY <1>1 DEF Start, AutosaveCheck, AutosaveNoop, PatchStart, PublishStart, TurnStart,
              RestoreStart, Request, redis
<1>2. ASSUME NEW p \in Proc, SweepPick(p) PROVE UNCHANGED lock
  BY <1>2 DEF SweepPick, redis
<1>3. ASSUME NEW p \in Proc, Step(p), ~AcquireFlushLock(p), ~UnlockFlush(p)
      PROVE  UNCHANGED lock
  BY <1>3 DEF Step, FlushStep, GetSnapshot, LoadPost, WriteFlush, MarkFlushed, Reload, Commit,
              AutosaveSave, FindPost, PublishWrite, PatchWrite, DiscardHash, DiscardIndex,
              TurnWrite, RestoreWrite, redis
<1>4. ASSUME NEW p \in Proc, Crash(p) PROVE UNCHANGED lock
  BY <1>4 DEF Crash, redis
<1>5. ASSUME SnapshotExpires \/ UNCHANGED vars PROVE UNCHANGED lock
  BY <1>5 DEF SnapshotExpires, vars
<1> QED BY <1>1, <1>2, <1>3, <1>4, <1>5 DEF Next, Environment, Idle

LEMMA LockStep ==
    ASSUME TypeOK, [Next]_vars, NEW p \in Proc, lock = p, InFlushLock(p), lock' # p
    PROVE  pc'[p] # pc[p] \/ (lock' = None /\ faults' # faults)
<1>1. ASSUME NEW q \in Proc, AcquireFlushLock(q) PROVE FALSE
  BY <1>1, ConstAssumption DEF AcquireFlushLock
<1>2. ASSUME NEW q \in Proc, UnlockFlush(q) PROVE pc'[p] # pc[p]
  BY <1>2 DEF UnlockFlush, Goto, TypeOK, ControlOK
<1>3. ASSUME NEW q \in Proc, Abort(q) PROVE pc'[p] # pc[p]
  BY <1>3 DEF Abort, Raise, Leave, Goto, TypeOK, ControlOK
<1>4. ASSUME OrphanLockExpires PROVE FALSE
  BY <1>4 DEF OrphanLockExpires
<1>5. ASSUME LockOutlived PROVE lock' = None /\ faults' # faults
  BY <1>5 DEF LockOutlived, Fault, TypeOK, BoundsOK
<1>6. ASSUME NEW q \in Proc, RedisFails(q) PROVE FALSE
  BY <1>6, ConstAssumption DEF RedisFails
<1> QED BY <1>1, <1>2, <1>3, <1>4, <1>5, <1>6, LockFrame

\* A live flusher's lock goes by its own step or by the TTL: the compare-and-delete
\* never frees a lock somebody else took after an expiry (LockRemovedOnlyByOwner).
THEOREM LockSafety == Spec => LockRemovedOnlyByOwner
<1>1. TypeOK /\ [Next]_vars =>
        [\A p \in Proc : lock = p /\ InFlushLock(p) /\ lock' # p
            => pc'[p] # pc[p] \/ (lock' = None /\ faults' # faults)]_vars
  BY LockStep
<1> QED BY <1>1, TypeCorrect, PTL DEF Spec, LockRemovedOnlyByOwner

----------------------------------------------------------------------------
(* Mutual exclusion, when no flush outlives the TTL.                       *)

\* FlushMutex is not inductive: what excludes the second flusher is that the
\* first still holds the key.
HolderHasLock == \A p \in Proc : InFlushLock(p) => lock = p

LEMMA EnterFlushLock ==
    ASSUME TypeOK, [Next]_vars, NEW p \in Proc, ~InFlushLock(p), InFlushLock(p)'
    PROVE  lock' = p
<1> USE DEF InFlushLock, Goto, TypeOK, ControlOK
<1>1. ASSUME NEW q \in Proc, Start(q) PROVE FALSE
  BY <1>1 DEF Start, AutosaveCheck, AutosaveNoop, PatchStart, PublishStart, TurnStart,
              RestoreStart, Request
<1>2. ASSUME NEW q \in Proc, SweepPick(q) PROVE FALSE
  BY <1>2 DEF SweepPick
<1>3. ASSUME NEW q \in Proc, AcquireFlushLock(q) PROVE lock' = p
  BY <1>3 DEF AcquireFlushLock, NothingFlushed, Leave
<1>4. ASSUME NEW q \in Proc, WriteFlush(q) PROVE FALSE
  BY <1>4 DEF WriteFlush
<1>5. ASSUME NEW q \in Proc, Step(q), ~AcquireFlushLock(q), ~WriteFlush(q) PROVE FALSE
  BY <1>5 DEF Step, FlushStep, GetSnapshot, LoadPost, UnlockFlush, MarkFlushed, Reload, Commit,
              AutosaveSave, FindPost, PublishWrite, PatchWrite, DiscardHash, DiscardIndex,
              TurnWrite, RestoreWrite, NothingFlushed, Raise, Leave
<1>6. ASSUME NEW q \in Proc, Crash(q) \/ Abort(q) \/ RedisFails(q) PROVE FALSE
  BY <1>6 DEF Crash, Abort, RedisFails, NothingFlushed, Raise, Leave
<1>7. ASSUME OrphanLockExpires \/ LockOutlived \/ SnapshotExpires \/ UNCHANGED vars PROVE FALSE
  BY <1>7 DEF OrphanLockExpires, LockOutlived, SnapshotExpires, vars
<1> QED BY <1>1, <1>2, <1>3, <1>4, <1>5, <1>6, <1>7 DEF Next, Environment, Idle

LEMMA HolderHasLockStep ==
    ASSUME "lockttl" \notin Faults, TypeOK, HolderHasLock, [Next]_vars
    PROVE  HolderHasLock'
<1> SUFFICES ASSUME NEW p \in Proc, InFlushLock(p)' PROVE lock' = p
  BY DEF HolderHasLock
<1>1. CASE ~InFlushLock(p)
  BY <1>1, EnterFlushLock
<1>2. CASE InFlushLock(p)
  <2>1. lock = p
    BY <1>2 DEF HolderHasLock
  <2>2. ASSUME NEW q \in Proc, AcquireFlushLock(q) PROVE lock' = p
    BY <2>1, <2>2, ConstAssumption DEF AcquireFlushLock
  <2>3. ASSUME NEW q \in Proc, UnlockFlush(q) PROVE lock' = p
    BY <2>1, <2>3 DEF UnlockFlush, Goto, InFlushLock, TypeOK, ControlOK
  <2>4. ASSUME NEW q \in Proc, Abort(q) PROVE lock' = p
    BY <2>1, <2>4 DEF Abort, Raise, Leave, Goto, InFlushLock, TypeOK, ControlOK
  <2>5. ASSUME NEW q \in Proc, RedisFails(q) PROVE lock' = p
    BY <2>1, <2>5, ConstAssumption DEF RedisFails
  <2>6. ~OrphanLockExpires /\ ~LockOutlived
    BY <1>2, <2>1 DEF OrphanLockExpires, LockOutlived, Fault
  <2> QED BY <2>1, <2>2, <2>3, <2>4, <2>5, <2>6, LockFrame
<1> QED BY <1>1, <1>2

\* At most one flush of the post is between its lock and its unlock, when the lock
\* TTL is longer than a flush (FlushMutex).
THEOREM FlushMutexHolds == ASSUME "lockttl" \notin Faults PROVE Spec => []FlushMutex
<1>1. Init => HolderHasLock
  BY DEF Init, HolderHasLock, InFlushLock
<1>2. TypeOK /\ HolderHasLock /\ [Next]_vars => HolderHasLock'
  BY HolderHasLockStep
<1>3. HolderHasLock => FlushMutex
  BY DEF HolderHasLock, FlushMutex
<1> QED BY <1>1, <1>2, <1>3, TypeCorrect, PTL DEF Spec

----------------------------------------------------------------------------
(* The dirty index, when nobody PATCHes the post.                          *)

PatchPC == {"patchwrite", "dischash", "discindex"}
NoPatchRunning == \A p \in Proc : pc[p] \notin PatchPC

LEMMA NoPatchStep ==
    ASSUME \A p \in Proc : "patch" \notin Does[p], TypeOK, NoPatchRunning, [Next]_vars
    PROVE  NoPatchRunning'
<1> USE DEF NoPatchRunning, PatchPC, Goto, TypeOK, ControlOK
<1>1. ASSUME NEW q \in Proc, Start(q) PROVE NoPatchRunning'
  BY <1>1 DEF Start, AutosaveCheck, AutosaveNoop, PatchStart, PublishStart, TurnStart,
              RestoreStart, Request
<1>2. ASSUME NEW q \in Proc, SweepPick(q) PROVE NoPatchRunning'
  BY <1>2 DEF SweepPick
<1>3. ASSUME NEW q \in Proc, Step(q) PROVE NoPatchRunning'
  BY <1>3 DEF Step, FlushStep, GetSnapshot, LoadPost, AcquireFlushLock, WriteFlush, UnlockFlush,
              MarkFlushed, Reload, Commit, AutosaveSave, FindPost, PublishWrite, PatchWrite,
              DiscardHash, DiscardIndex, TurnWrite, RestoreWrite, NothingFlushed, Raise, Leave
<1>4. ASSUME NEW q \in Proc, Crash(q) \/ Abort(q) \/ RedisFails(q) PROVE NoPatchRunning'
  BY <1>4 DEF Crash, Abort, RedisFails, NothingFlushed, PatchPC, Raise, Leave
<1>5. ASSUME OrphanLockExpires \/ LockOutlived \/ SnapshotExpires \/ UNCHANGED vars
      PROVE  NoPatchRunning'
  BY <1>5 DEF OrphanLockExpires, LockOutlived, SnapshotExpires, vars
<1> QED BY <1>1, <1>2, <1>3, <1>4, <1>5 DEF Next, Environment, Idle

\* save indexes what it makes dirty; mark_flushed unindexes only what its
\* compare-and-set has just made clean.
LEMMA IndexStep ==
    ASSUME TypeOK, NoPatchRunning, DirtyIndexed, [Next]_vars
    PROVE  DirtyIndexed'
<1> USE DEF DirtyIndexed, Dirty
<1>1. ASSUME NEW q \in Proc, Start(q) PROVE UNCHANGED <<snap, dirtySet>>
  BY <1>1 DEF Start, AutosaveCheck, AutosaveNoop, PatchStart, PublishStart, TurnStart,
              RestoreStart, Request, redis
<1>2. ASSUME NEW q \in Proc, SweepPick(q) PROVE UNCHANGED <<snap, dirtySet>>
  BY <1>2 DEF SweepPick, redis
<1>3. ASSUME NEW q \in Proc, AutosaveSave(q) PROVE DirtyIndexed'
  BY <1>3 DEF AutosaveSave
<1>4. ASSUME NEW q \in Proc, MarkFlushed(q) PROVE DirtyIndexed'
  BY <1>4 DEF MarkFlushed, TypeOK, RedisOK
<1>5. ASSUME NEW q \in Proc, DiscardHash(q) \/ DiscardIndex(q) PROVE FALSE
  BY <1>5 DEF DiscardHash, DiscardIndex, NoPatchRunning, PatchPC
<1>6. ASSUME NEW q \in Proc, Step(q), ~AutosaveSave(q), ~MarkFlushed(q), ~DiscardHash(q),
             ~DiscardIndex(q)
      PROVE  UNCHANGED <<snap, dirtySet>>
  BY <1>6 DEF Step, FlushStep, GetSnapshot, LoadPost, AcquireFlushLock, WriteFlush, UnlockFlush,
              Reload, Commit, FindPost, PublishWrite, PatchWrite, TurnWrite, RestoreWrite, redis
<1>7. ASSUME NEW q \in Proc, Crash(q) \/ Abort(q) \/ RedisFails(q)
      PROVE  UNCHANGED <<snap, dirtySet>>
  BY <1>7 DEF Crash, Abort, RedisFails, redis
<1>8. ASSUME OrphanLockExpires \/ LockOutlived \/ UNCHANGED vars PROVE UNCHANGED <<snap, dirtySet>>
  BY <1>8 DEF OrphanLockExpires, LockOutlived, vars
<1>9. ASSUME SnapshotExpires PROVE DirtyIndexed'
  BY <1>9 DEF SnapshotExpires, NoSnapshot, Snapshot
<1> QED BY <1>1, <1>2, <1>3, <1>4, <1>5, <1>6, <1>7, <1>8, <1>9 DEF Next, Environment, Idle

\* While nobody PATCHes the post, a dirty snapshot is always in the set the sweeper
\* scans, under every fault (DirtyIndexed).
THEOREM DirtyIsIndexed ==
    ASSUME \A p \in Proc : "patch" \notin Does[p]
    PROVE  Spec => []DirtyIndexed
<1>1. Init => NoPatchRunning /\ DirtyIndexed
  BY DEF Init, NoPatchRunning, PatchPC, DirtyIndexed, Dirty, NoSnapshot, Snapshot
<1>2. TypeOK /\ NoPatchRunning /\ [Next]_vars => NoPatchRunning'
  BY NoPatchStep
<1>3. TypeOK /\ NoPatchRunning /\ DirtyIndexed /\ [Next]_vars => DirtyIndexed'
  BY IndexStep
<1> QED BY <1>1, <1>2, <1>3, TypeCorrect, PTL DEF Spec

----------------------------------------------------------------------------
(* What is committed to Postgres: deleted posts stay as they were, and the  *)
(* version history has no repeated flush.                                  *)

(* Which steps touch Postgres.                                             *)

Writer(p) == WriteFlush(p) \/ PublishWrite(p) \/ PatchWrite(p) \/ TurnWrite(p) \/ RestoreWrite(p)

LEMMA PostgresFrame ==
    ASSUME [Next]_vars
    PROVE  \/ UNCHANGED postgres
           \/ \E p \in Proc : Undo(p) \/ Commit(p) \/ (Writer(p) /\ UNCHANGED db)
<1>1. ASSUME NEW p \in Proc, Start(p) PROVE UNCHANGED postgres
  BY <1>1 DEF Start, AutosaveCheck, AutosaveNoop, PatchStart, PublishStart, TurnStart,
              RestoreStart, Request, postgres
<1>2. ASSUME NEW p \in Proc, SweepPick(p) PROVE UNCHANGED postgres
  BY <1>2 DEF SweepPick, postgres
<1>3. ASSUME NEW p \in Proc, Step(p)
      PROVE  UNCHANGED postgres \/ Undo(p) \/ Commit(p) \/ (Writer(p) /\ UNCHANGED db)
  <2>1. ASSUME Writer(p) PROVE Undo(p) \/ UNCHANGED db
    BY <2>1 DEF Writer, WriteFlush, PublishWrite, PatchWrite, TurnWrite, RestoreWrite, Raise
  <2>2. ASSUME ~Writer(p), ~Commit(p) PROVE UNCHANGED postgres \/ Undo(p)
    BY <1>3, <2>2 DEF Step, FlushStep, Writer, GetSnapshot, LoadPost, AcquireFlushLock,
              UnlockFlush, MarkFlushed, Reload, AutosaveSave, FindPost, DiscardHash,
              DiscardIndex, Raise, postgres
  <2> QED BY <2>1, <2>2
<1>4. ASSUME NEW p \in Proc, Crash(p) \/ Abort(p) PROVE Undo(p)
  BY <1>4 DEF Crash, Abort, Raise
<1>5. ASSUME NEW p \in Proc, RedisFails(p) PROVE UNCHANGED postgres
  BY <1>5 DEF RedisFails
<1>6. ASSUME OrphanLockExpires \/ LockOutlived \/ SnapshotExpires \/ UNCHANGED vars
      PROVE  UNCHANGED postgres
  BY <1>6 DEF OrphanLockExpires, LockOutlived, SnapshotExpires, vars, postgres
<1> QED BY <1>1, <1>2, <1>3, <1>4, <1>6, <1>5 DEF Next, Environment, Idle

\* What a writing step makes of the versions.
VersionsAfter(p) ==
    {WithFlushVersion(work.versions, loc[p].body, loc[p].status),
     Append(work.versions, Ver(loc[p].body, "published", TRUE, FALSE)),
     Append(work.versions, Ver(loc[p].body, loc[p].status, FALSE, TRUE))}

LEMMA WriterVersions ==
    ASSUME TypeOK, NEW p \in Proc, Writer(p), ~Undo(p)
    PROVE  \/ work'.versions = work.versions
           \/ loc[p].body \in Body /\ work'.versions \in VersionsAfter(p)
<1> work \in Row /\ loc[p].status \in Status /\ "published" \in Status
  BY LocalFields DEF TypeOK, PostgresOK, Status
<1>1. ASSUME WriteFlush(p)
      PROVE  work'.versions = WithFlushVersion(work.versions, loc[p].body, loc[p].status)
  BY <1>1 DEF WriteFlush, Row
<1>2. ASSUME PublishWrite(p)
      PROVE  work'.versions = Append(work.versions, Ver(loc[p].body, "published", TRUE, FALSE))
  BY <1>2 DEF PublishWrite, Raise, Row
<1>3. ASSUME PatchWrite(p) PROVE work'.versions = work.versions
  BY <1>3 DEF PatchWrite, Raise, Row
<1>4. ASSUME TurnWrite(p) PROVE work'.versions = work.versions
  <2>1. loc[p].op \in Turn
    BY <1>4, LocalFields DEF TurnWrite, TypeOK
  <2> QED BY <1>4, <2>1 DEF TurnWrite, Turned, Turn, Raise, Row
<1>5. ASSUME RestoreWrite(p)
      PROVE  work'.versions = Append(work.versions, Ver(loc[p].body, loc[p].status, FALSE, TRUE))
  BY <1>5 DEF RestoreWrite, Row
<1>6. WriteFlush(p) \/ PublishWrite(p) \/ RestoreWrite(p) => loc[p].body \in Body
  BY LocalFields DEF WriteFlush, PublishWrite, RestoreWrite, HoldsBody, TypeOK
<1> QED BY <1>1, <1>2, <1>3, <1>4, <1>5, <1>6 DEF Writer, VersionsAfter

----------------------------------------------------------------------------
(* No two versions in a row from flushes of the same body.                 *)

NoRepeat(vs) ==
    \A i \in 2..Len(vs) : vs[i].pub \/ vs[i].restored \/ vs[i].body # vs[i - 1].body

LEMMA AppendNoRepeat ==
    ASSUME NEW vs \in Seq(Version), NoRepeat(vs), NEW v \in Version,
           v.pub \/ v.restored \/ v.body # LastOf(vs).body
    PROVE  NoRepeat(Append(vs, v))
<1> DEFINE ws == Append(vs, v)
<1> SUFFICES ASSUME NEW i \in 2..Len(ws)
             PROVE  ws[i].pub \/ ws[i].restored \/ ws[i].body # ws[i - 1].body
  BY DEF NoRepeat
<1>1. Len(ws) = Len(vs) + 1 /\ Len(vs) \in Nat
  OBVIOUS
<1>2. CASE i \in 2..Len(vs)
  <2>1. ws[i] = vs[i] /\ ws[i - 1] = vs[i - 1]
    BY <1>2
  <2> QED BY <1>2, <2>1 DEF NoRepeat
<1>3. CASE i = Len(vs) + 1
  <2>1. ws[i] = v /\ ws[i - 1] = vs[Len(vs)]
    BY <1>3, <1>1
  <2> QED BY <2>1 DEF LastOf
<1> QED BY <1>1, <1>2, <1>3

LEMMA FlushNoRepeat ==
    ASSUME NEW vs \in Seq(Version), NoRepeat(vs), NEW b \in Body, NEW s \in Status
    PROVE  NoRepeat(WithFlushVersion(vs, b, s))
<1>1. CASE LastOf(vs).body = b
  BY <1>1 DEF WithFlushVersion
<1>2. CASE LastOf(vs).body # b
  <2> DEFINE v == Ver(b, s, IsPublishTransition(s, LastOf(vs)), FALSE)
  <2>1. v \in Version /\ v.body # LastOf(vs).body
    BY <1>2 DEF Ver, Version, IsPublishTransition
  <2>2. NoRepeat(Append(vs, v))
    BY <2>1, AppendNoRepeat
  <2> QED BY <1>2, <2>2 DEF WithFlushVersion
<1> QED BY <1>1, <1>2

\* FlushAddsNoDuplicate speaks of what is committed; a commit takes the versions
\* the row lock's holder has prepared, so they need the same property.
NoRepeatInv == NoRepeat(db.versions) /\ NoRepeat(work.versions)

LEMMA NoRepeatStep ==
    ASSUME TypeOK, NoRepeatInv, [Next]_vars
    PROVE  NoRepeatInv'
<1>1. CASE UNCHANGED postgres
  BY <1>1 DEF NoRepeatInv, postgres
<1>2. ASSUME NEW p \in Proc, Undo(p) PROVE NoRepeatInv'
  BY <1>2 DEF Undo, NoRepeatInv
<1>3. ASSUME NEW p \in Proc, Commit(p) PROVE NoRepeatInv'
  BY <1>3 DEF Commit, View, NoRepeatInv
<1>4. ASSUME NEW p \in Proc, Writer(p), UNCHANGED db, ~Undo(p) PROVE NoRepeatInv'
  <2>1. work.versions \in Seq(Version) /\ loc[p].status \in Status
    BY RowFields, LocalFields DEF TypeOK, PostgresOK
  <2>2. ASSUME NEW s \in Status, loc[p].body \in Body
        PROVE  /\ NoRepeat(Append(work.versions, Ver(loc[p].body, s, TRUE, FALSE)))
               /\ NoRepeat(Append(work.versions, Ver(loc[p].body, s, FALSE, TRUE)))
    <3>1. /\ Ver(loc[p].body, s, TRUE, FALSE) \in Version
          /\ Ver(loc[p].body, s, TRUE, FALSE).pub
          /\ Ver(loc[p].body, s, FALSE, TRUE) \in Version
          /\ Ver(loc[p].body, s, FALSE, TRUE).restored
      BY <2>2 DEF Ver, Version
    <3> QED BY <2>1, <3>1, AppendNoRepeat DEF NoRepeatInv
  <2>3. NoRepeat(work'.versions)
    <3>1. "published" \in Status
      BY DEF Status
    <3> QED BY <1>4, <2>1, <2>2, <3>1, WriterVersions, FlushNoRepeat DEF NoRepeatInv, VersionsAfter
  <2> QED BY <1>4, <2>3 DEF NoRepeatInv
<1> QED BY <1>1, <1>2, <1>3, <1>4, PostgresFrame

\* However flushes, restores, publications, PATCHes and failures interleave, a flush
\* never commits a version with the body of the version before it
\* (FlushAddsNoDuplicate).
THEOREM NoDuplicateVersions == Spec => []FlushAddsNoDuplicate
<1>1. Init => NoRepeatInv
  BY DEF Init, NoRepeatInv, NoRepeat
<1>2. TypeOK /\ NoRepeatInv /\ [Next]_vars => NoRepeatInv'
  BY NoRepeatStep
<1>3. NoRepeatInv => FlushAddsNoDuplicate
  BY DEF NoRepeatInv, NoRepeat, FlushAddsNoDuplicate
<1> QED BY <1>1, <1>2, <1>3, TypeCorrect, PTL DEF Spec

----------------------------------------------------------------------------
(* A soft-deleted post.                                                    *)

\* A coroutine keeps the row lock only up to its commit; the row it prepares is
\* the committed one until it writes; and if the post was deleted before it wrote,
\* it is a flush that has not looked again yet, or a restore, which never does.
RowLockInv ==
    /\ rowLock = None => work = db
    /\ \A p \in Proc :
         /\ rowLock = p /\ db.deleted =>
              /\ work.deleted /\ work.status = db.status
              /\ \/ pc[p] \in {"unlock", "mark", "reload"}
                 \/ pc[p] = "commit" /\ loc[p].op = "restore"
         /\ pc[p] = "restorewrite" => loc[p].op = "restore"

LEMMA RowLockUndo ==
    ASSUME TypeOK, RowLockInv, NEW p \in Proc, Undo(p), Leave(p)
    PROVE  RowLockInv'
BY ConstAssumption DEF RowLockInv, Undo, Leave, Goto, Blank, TypeOK, ControlOK, PostgresOK

LEMMA RowLockStep ==
    ASSUME TypeOK, RowLockInv, [Next]_vars
    PROVE  RowLockInv'
<1> USE DEF Goto
<1> pc \in [Proc -> Label] /\ loc \in [Proc -> Local] /\ work \in Row /\ db \in Row
  BY DEF TypeOK, ControlOK, PostgresOK
<1> None \notin Proc
  BY ConstAssumption
<1>1. ASSUME NEW p \in Proc, Start(p) PROVE RowLockInv'
  BY <1>1 DEF Start, AutosaveCheck, AutosaveNoop, PatchStart, PublishStart, TurnStart,
              RestoreStart, Request, RowLockInv, postgres
<1>2. ASSUME NEW p \in Proc, SweepPick(p) PROVE RowLockInv'
  BY <1>2 DEF SweepPick, RowLockInv, postgres
<1>3. ASSUME NEW p \in Proc, AutosaveSave(p) \/ GetSnapshot(p) \/ AcquireFlushLock(p)
                             \/ DiscardHash(p) \/ DiscardIndex(p)
      PROVE RowLockInv'
  BY <1>3 DEF AutosaveSave, GetSnapshot, AcquireFlushLock, DiscardHash, DiscardIndex,
              NothingFlushed, Leave, RowLockInv, postgres
<1>4. ASSUME NEW p \in Proc, UnlockFlush(p) \/ MarkFlushed(p) PROVE RowLockInv'
  BY <1>4 DEF UnlockFlush, MarkFlushed, RowLockInv, postgres
<1>5. ASSUME NEW p \in Proc, LoadPost(p) PROVE RowLockInv'
  <2>1. CASE db.deleted
    BY <1>5, <2>1, RowLockUndo DEF LoadPost, Raise
  <2>2. CASE ~db.deleted
    BY <1>5, <2>2 DEF LoadPost, RowLockInv, postgres
  <2> QED BY <2>1, <2>2
<1>6. ASSUME NEW p \in Proc, Reload(p) PROVE RowLockInv'
  <2>1. CASE work.deleted
    BY <1>6, <2>1, RowLockUndo DEF Reload, Raise
  <2>2. CASE ~work.deleted
    BY <1>6, <2>2 DEF Reload, RowLockInv, postgres
  <2> QED BY <2>1, <2>2
<1>7. ASSUME NEW p \in Proc, FindPost(p) PROVE RowLockInv'
  <2>1. CASE UNCHANGED postgres
    BY <1>7, <2>1 DEF FindPost, Raise, Leave, RowLockInv, postgres
  <2>2. CASE ~UNCHANGED postgres
    BY <1>7, <2>2, RowLockUndo DEF FindPost, Raise
  <2> QED BY <2>1, <2>2
<1>8. ASSUME NEW p \in Proc, Commit(p) PROVE RowLockInv'
  BY <1>8 DEF Commit, View, Leave, RowLockInv
<1>9. ASSUME NEW p \in Proc, WriteFlush(p) PROVE RowLockInv'
  BY <1>9 DEF WriteFlush, CanWrite, RowLockInv, Row
<1>10. ASSUME NEW p \in Proc, PublishWrite(p) PROVE RowLockInv'
  <2>1. CASE work.deleted
    BY <1>10, <2>1, RowLockUndo DEF PublishWrite, Raise
  <2>2. CASE ~work.deleted
    BY <1>10, <2>2 DEF PublishWrite, CanWrite, RowLockInv, Row
  <2> QED BY <2>1, <2>2
<1>11. ASSUME NEW p \in Proc, PatchWrite(p) PROVE RowLockInv'
  <2>1. CASE View(p).deleted
    BY <1>11, <2>1, RowLockUndo DEF PatchWrite, Raise
  <2>2. CASE ~View(p).deleted
    BY <1>11, <2>2 DEF PatchWrite, CanWrite, View, RowLockInv, Row
  <2> QED BY <2>1, <2>2
<1>12. ASSUME NEW p \in Proc, TurnWrite(p) PROVE RowLockInv'
  <2>1. CASE work.deleted
    BY <1>12, <2>1, RowLockUndo DEF TurnWrite, Raise
  <2>2. CASE ~work.deleted
    BY <1>12, <2>2 DEF TurnWrite, CanWrite, RowLockInv
  <2> QED BY <2>1, <2>2
<1>13. ASSUME NEW p \in Proc, RestoreWrite(p) PROVE RowLockInv'
  BY <1>13 DEF RestoreWrite, CanWrite, RowLockInv, Row
<1>14. ASSUME NEW p \in Proc, Crash(p) \/ Abort(p) PROVE RowLockInv'
  BY <1>14, RowLockUndo DEF Crash, Abort, Raise
<1>15. ASSUME NEW p \in Proc, RedisFails(p) PROVE RowLockInv'
  BY <1>15 DEF RedisFails, NothingFlushed, Leave, RowLockInv, postgres
<1>16. ASSUME OrphanLockExpires \/ LockOutlived \/ SnapshotExpires \/ UNCHANGED vars
       PROVE  RowLockInv'
  BY <1>16 DEF OrphanLockExpires, LockOutlived, SnapshotExpires, vars, postgres, RowLockInv
<1> QED
  BY <1>1, <1>2, <1>3, <1>4, <1>5, <1>6, <1>7, <1>8, <1>9, <1>10, <1>11, <1>12, <1>13, <1>14,
     <1>16, <1>15 DEF Next, Step, FlushStep, Environment, Idle

\* What one step may do to a deleted post.
Final == db.deleted => /\ db'.deleted /\ db'.status = db.status
                       /\ db' # db => \E p \in Proc : /\ pc[p] = "commit"
                                                      /\ loc[p].op = "restore"

LEMMA FinalStep == ASSUME RowLockInv, [Next]_vars PROVE Final
<1>1. CASE UNCHANGED postgres
  BY <1>1 DEF Final, postgres
<1>2. ASSUME NEW p \in Proc, Undo(p) PROVE Final
  BY <1>2 DEF Undo, Final
<1>3. ASSUME NEW p \in Proc, Commit(p) PROVE Final
  BY <1>3 DEF Commit, View, RowLockInv, Final
<1>4. ASSUME UNCHANGED db PROVE Final
  BY <1>4 DEF Final
<1> QED BY <1>1, <1>2, <1>3, <1>4, PostgresFrame

\* A request or a flush that loaded the post before its deletion never changes it
\* afterwards; only a restore may append its version (DeletedIsFinal).
THEOREM DeletedStays == Spec => DeletedIsFinal
<1>1. Init => RowLockInv
  BY ConstAssumption DEF Init, RowLockInv
<1>2. TypeOK /\ RowLockInv /\ [Next]_vars => RowLockInv'
  BY RowLockStep
<1>3. RowLockInv /\ [Next]_vars => [Final]_vars
  BY FinalStep
<1> QED BY <1>1, <1>2, <1>3, TypeCorrect, PTL DEF Spec, DeletedIsFinal, Final

----------------------------------------------------------------------------
(* What the version history keeps, for the operations the code keeps it    *)
(* for: no publish, and no PATCH or no failures.                           *)

FlushPC == {"get", "load", "acquire", "write", "unlock", "mark", "reload"}

NoPublishRunning ==
    \A p \in Proc : /\ pc[p] \notin {"find", "pubwrite"}
                    /\ pc[p] \in FlushPC => loc[p].op = "sweep"

LEMMA NoPublishStep ==
    ASSUME \A p \in Proc : "publish" \notin Does[p], TypeOK, NoPublishRunning, [Next]_vars
    PROVE  NoPublishRunning'
<1> USE DEF NoPublishRunning, FlushPC, Goto
<1> pc \in [Proc -> Label] /\ loc \in [Proc -> Local]
  BY DEF TypeOK, ControlOK
<1>1. ASSUME NEW q \in Proc, Start(q) PROVE NoPublishRunning'
  BY <1>1 DEF Start, AutosaveCheck, AutosaveNoop, PatchStart, PublishStart, TurnStart,
              RestoreStart, Request, Turn, Local
<1>2. ASSUME NEW q \in Proc, SweepPick(q) PROVE NoPublishRunning'
  BY <1>2 DEF SweepPick, Local
<1>3. ASSUME NEW q \in Proc, FlushStep(q) PROVE NoPublishRunning'
  <2>1. ASSUME GetSnapshot(q) PROVE NoPublishRunning'
    BY <2>1 DEF GetSnapshot, NothingFlushed, Leave, Blank, Local
  <2>2. ASSUME LoadPost(q) PROVE NoPublishRunning'
    BY <2>2 DEF LoadPost, Raise, Leave, Blank, Local
  <2>3. ASSUME AcquireFlushLock(q) PROVE NoPublishRunning'
    BY <2>3 DEF AcquireFlushLock, NothingFlushed, Leave, Blank
  <2>4. ASSUME WriteFlush(q) \/ UnlockFlush(q) \/ MarkFlushed(q) PROVE NoPublishRunning'
    BY <2>4 DEF WriteFlush, UnlockFlush, MarkFlushed
  <2>5. ASSUME Reload(q) PROVE NoPublishRunning'
    <3>1. loc[q].op = "sweep"
      BY <2>5 DEF Reload
    <3> QED BY <2>5, <3>1 DEF Reload, Raise, Leave, Blank
  <2> QED BY <1>3, <2>1, <2>2, <2>3, <2>4, <2>5 DEF FlushStep
<1>4. ASSUME NEW q \in Proc, Step(q), ~FlushStep(q) PROVE NoPublishRunning'
  BY <1>4 DEF Step, Commit, AutosaveSave, FindPost, PublishWrite, PatchWrite,
              DiscardHash, DiscardIndex, TurnWrite, RestoreWrite, Raise, Leave, Blank
<1>5. ASSUME NEW q \in Proc, Crash(q) \/ Abort(q) \/ RedisFails(q) PROVE NoPublishRunning'
  BY <1>5 DEF Crash, Abort, RedisFails, NothingFlushed, Raise, Leave, Blank
<1>6. ASSUME OrphanLockExpires \/ LockOutlived \/ SnapshotExpires \/ UNCHANGED vars
      PROVE  NoPublishRunning'
  BY <1>6 DEF OrphanLockExpires, LockOutlived, SnapshotExpires, vars
<1> QED BY <1>1, <1>2, <1>3, <1>4, <1>5, <1>6 DEF Next, Environment, Idle

----------------------------------------------------------------------------
(* The newest version is the body.                                         *)

NewestIsBody(r) == Len(r.versions) >= 1 /\ LastOf(r.versions).body = r.body

LEMMA LastAppended ==
    ASSUME NEW vs \in Seq(Version), NEW v \in Version
    PROVE  LastOf(Append(vs, v)) = v /\ Len(Append(vs, v)) >= 1
BY DEF LastOf

LEMMA FlushLast ==
    ASSUME NEW vs \in Seq(Version), Len(vs) >= 1, NEW b \in Body, NEW s \in Status
    PROVE  /\ LastOf(WithFlushVersion(vs, b, s)).body = b
           /\ Len(WithFlushVersion(vs, b, s)) >= 1
<1>1. CASE LastOf(vs).body = b
  BY <1>1 DEF WithFlushVersion
<1>2. CASE LastOf(vs).body # b
  <2> DEFINE v == Ver(b, s, IsPublishTransition(s, LastOf(vs)), FALSE)
  <2>1. v \in Version /\ v.body = b
    BY DEF Ver, Version, IsPublishTransition
  <2>2. LastOf(Append(vs, v)).body = b /\ Len(Append(vs, v)) >= 1
    BY <2>1, LastAppended
  <2> QED BY <1>2, <2>1, <2>2 DEF WithFlushVersion
<1> QED BY <1>1, <1>2

\* The commit copies the row its holder has prepared, so that row needs a head too.
HeadInv == NewestIsBody(db) /\ NewestIsBody(work)

LEMMA HeadStep ==
    ASSUME TypeOK, NoPatchRunning, NoPublishRunning, HeadInv, [Next]_vars
    PROVE  HeadInv'
<1>1. CASE UNCHANGED postgres
  BY <1>1 DEF HeadInv, NewestIsBody, postgres
<1>2. ASSUME NEW p \in Proc, Undo(p) PROVE HeadInv'
  BY <1>2 DEF Undo, HeadInv, NewestIsBody
<1>3. ASSUME NEW p \in Proc, Commit(p) PROVE HeadInv'
  BY <1>3 DEF Commit, View, HeadInv, NewestIsBody
<1>4. ASSUME NEW p \in Proc, Writer(p), UNCHANGED db, ~Undo(p) PROVE HeadInv'
  <2>1. work \in Row /\ work.versions \in Seq(Version) /\ loc[p].status \in Status
    BY RowFields, LocalFields DEF TypeOK, PostgresOK
  <2>2. ~PatchWrite(p) /\ ~PublishWrite(p)
    <3>1. pc[p] \notin PatchPC
      BY DEF NoPatchRunning
    <3>0. pc[p] \notin {"find", "pubwrite"}
      BY DEF NoPublishRunning
    <3>2. PatchWrite(p) => pc[p] = "patchwrite"
      BY DEF PatchWrite
    <3>3. PublishWrite(p) => pc[p] = "pubwrite"
      BY DEF PublishWrite
    <3> QED BY <3>1, <3>2, <3>3, <3>0 DEF PatchPC
  <2>3. ASSUME WriteFlush(p) PROVE NewestIsBody(work)'
    <3>1. loc[p].body \in Body
      BY <2>3, LocalFields DEF WriteFlush, HoldsBody, TypeOK
    <3>2. /\ work'.body = loc[p].body
          /\ work'.versions = WithFlushVersion(work.versions, loc[p].body, loc[p].status)
      BY <2>1, <2>3 DEF WriteFlush, Row
    <3> QED BY <2>1, <3>1, <3>2, FlushLast DEF HeadInv, NewestIsBody
  <2>4. ASSUME TurnWrite(p) PROVE NewestIsBody(work)'
    <3>1. loc[p].op \in Turn
      BY <2>4, LocalFields DEF TurnWrite, TypeOK
    <3>2. work'.body = work.body /\ work'.versions = work.versions
      BY <1>4, <2>1, <2>4, <3>1 DEF TurnWrite, Raise, Turned, Turn, Row
    <3> QED BY <3>2 DEF HeadInv, NewestIsBody
  <2>5. ASSUME RestoreWrite(p) PROVE NewestIsBody(work)'
    <3> DEFINE v == Ver(loc[p].body, loc[p].status, FALSE, TRUE)
    <3>1. loc[p].body \in Body
      BY <2>5, LocalFields DEF RestoreWrite, HoldsBody, TypeOK
    <3>2. v \in Version /\ v.body = loc[p].body
      BY <2>1, <3>1 DEF Ver, Version
    <3>3. work'.body = loc[p].body /\ work'.versions = Append(work.versions, v)
      BY <2>1, <2>5 DEF RestoreWrite, Row
    <3> QED BY <2>1, <3>2, <3>3, LastAppended DEF NewestIsBody
  <2> QED BY <1>4, <2>2, <2>3, <2>4, <2>5 DEF Writer, HeadInv, NewestIsBody
<1> QED BY <1>1, <1>2, <1>3, <1>4, PostgresFrame

\* When nobody PATCHes or publishes, the newest committed version is the post's body
\* at every moment and under every fault, so a flush or a restore can always be
\* undone by restoring (HistoryHead).
THEOREM HistoryHasHead ==
    ASSUME \A p \in Proc : Does[p] \cap {"patch", "publish"} = {}
    PROVE  Spec => []HistoryHead
<1>1. \A p \in Proc : "patch" \notin Does[p] /\ "publish" \notin Does[p]
  OBVIOUS
<1>2. Init => NoPatchRunning /\ NoPublishRunning /\ HeadInv
  BY DEF Init, NoPatchRunning, PatchPC, NoPublishRunning, FlushPC, HeadInv, NewestIsBody, LastOf, Ver
<1>3. TypeOK /\ NoPatchRunning /\ [Next]_vars => NoPatchRunning'
  BY <1>1, NoPatchStep
<1>4. TypeOK /\ NoPublishRunning /\ [Next]_vars => NoPublishRunning'
  BY <1>1, NoPublishStep
<1>5. TypeOK /\ NoPatchRunning /\ NoPublishRunning /\ HeadInv /\ [Next]_vars => HeadInv'
  BY HeadStep
<1>6. HeadInv => HistoryHead
  BY DEF HeadInv, NewestIsBody, HistoryHead
<1> QED BY <1>2, <1>3, <1>4, <1>5, <1>6, TypeCorrect, PTL DEF Spec

----------------------------------------------------------------------------
(* A body called flushed is stored.                                        *)

HolderPC == {"unlock", "mark", "reload", "dischash", "discindex", "commit"}

\* The row lock's holder keeps every committed body, does not delete the post
\* without committing next, and a flusher holds the row lock, with its body
\* among the versions, until it has marked that body flushed.
HolderInv ==
    /\ Len(db.versions) >= 1 /\ Len(work.versions) >= 1
    /\ Bodies(db.versions) \subseteq Bodies(work.versions)
    /\ \A p \in Proc :
        /\ rowLock = p => pc[p] \in HolderPC
        /\ rowLock = p /\ pc[p] # "commit" /\ work.deleted => db.deleted
        /\ pc[p] \in {"unlock", "mark", "reload"} => rowLock = p
        /\ pc[p] \in {"unlock", "mark"} => loc[p].body \in Bodies(work.versions)

LEMMA AppendBodies ==
    ASSUME NEW vs \in Seq(Version), NEW v \in Version
    PROVE  /\ Bodies(vs) \subseteq Bodies(Append(vs, v))
           /\ v.body \in Bodies(Append(vs, v))
           /\ Len(Append(vs, v)) >= 1
<1> DEFINE ws == Append(vs, v)
<1>1. /\ ws \in Seq(Version) /\ Len(ws) = Len(vs) + 1 /\ ws[Len(vs) + 1] = v
      /\ \A i \in 1..Len(vs) : ws[i] = vs[i]
  OBVIOUS
<1>2. DOMAIN vs = 1..Len(vs) /\ DOMAIN ws = 1..Len(ws) /\ Len(vs) \in Nat
  BY <1>1
<1>3. Bodies(vs) \subseteq Bodies(ws)
  BY <1>1, <1>2 DEF Bodies
<1>4. v.body \in Bodies(ws)
  BY <1>1, <1>2 DEF Bodies
<1> QED BY <1>1, <1>2, <1>3, <1>4

LEMMA FlushBodies ==
    ASSUME NEW vs \in Seq(Version), Len(vs) >= 1, NEW b \in Body, NEW s \in Status
    PROVE  /\ Bodies(vs) \subseteq Bodies(WithFlushVersion(vs, b, s))
           /\ b \in Bodies(WithFlushVersion(vs, b, s))
           /\ Len(WithFlushVersion(vs, b, s)) >= 1
<1>1. CASE LastOf(vs).body = b
  <2>1. Len(vs) \in DOMAIN vs
    OBVIOUS
  <2> QED BY <1>1, <2>1 DEF WithFlushVersion, LastOf, Bodies
<1>2. CASE LastOf(vs).body # b
  <2> DEFINE v == Ver(b, s, IsPublishTransition(s, LastOf(vs)), FALSE)
  <2>1. v \in Version /\ v.body = b
    BY DEF Ver, Version, IsPublishTransition
  <2> QED BY <1>2, <2>1, AppendBodies DEF WithFlushVersion
<1> QED BY <1>1, <1>2

\* A coroutine that moves among steps at which it holds no row lock.
LEMMA HolderFrame ==
    ASSUME TypeOK, HolderInv, NEW q \in Proc, UNCHANGED postgres, pc[q] \notin HolderPC,
           NEW l \in Label \ HolderPC, Goto(q, l),
           \A p \in Proc \ {q} : loc'[p] = loc[p]
    PROVE  HolderInv'
<1>1. pc \in [Proc -> Label] /\ rowLock # q
  BY DEF TypeOK, ControlOK, HolderInv
<1>2. \A p \in Proc : pc'[p] = (IF p = q THEN l ELSE pc[p])
  BY <1>1 DEF Goto
<1>3. UNCHANGED <<db, rowLock, work>>
  BY DEF postgres
<1> QED BY <1>1, <1>2, <1>3 DEF HolderInv, HolderPC

LEMMA HolderRaise ==
    ASSUME TypeOK, HolderInv, NEW q \in Proc, pc[q] \notin HolderPC, Raise(q)
    PROVE  HolderInv'
<1>1. rowLock # q
  BY DEF HolderInv
<1>2. UNCHANGED postgres
  BY <1>1 DEF Raise, Undo, postgres
<1>3. "idle" \in Label \ HolderPC
  BY DEF Label, HolderPC
<1>4. \A p \in Proc \ {q} : loc'[p] = loc[p]
  BY DEF Raise, Leave, TypeOK, ControlOK
<1> QED BY <1>2, <1>3, <1>4, HolderFrame DEF Raise, Leave

\* A coroutine that takes the row lock and prepares the next row.
LEMMA HolderTakes ==
    ASSUME TypeOK, RowLockInv, HolderInv, NEW q \in Proc, CanWrite(q), pc[q] \notin HolderPC,
           rowLock' = q, UNCHANGED <<db, loc>>,
           NEW l \in {"unlock", "dischash", "commit"}, Goto(q, l),
           Bodies(work.versions) \subseteq Bodies(work'.versions), Len(work'.versions) >= 1,
           l # "commit" => work'.deleted = work.deleted,
           l = "unlock" => loc[q].body \in Bodies(work'.versions)
    PROVE  HolderInv'
<1>1. pc \in [Proc -> Label] /\ rowLock = None /\ work = db /\ None \notin Proc
  BY ConstAssumption DEF TypeOK, ControlOK, HolderInv, RowLockInv, CanWrite
<1>2. \A p \in Proc : pc'[p] = (IF p = q THEN l ELSE pc[p])
  BY <1>1 DEF Goto
<1> QED BY <1>1, <1>2 DEF HolderInv, HolderPC

\* The assumptions of the theorem below: nobody publishes and nothing fails.
NoLoss ==
    /\ \A p \in Proc : "publish" \notin Does[p]
    /\ Faults \cap {"crash", "abort"} = {}

LEMMA HolderStep ==
    ASSUME NoLoss, TypeOK, RowLockInv, NoPublishRunning, HolderInv, [Next]_vars
    PROVE  HolderInv'
<1> USE DEF Goto
<1>0. /\ pc \in [Proc -> Label] /\ loc \in [Proc -> Local] /\ db \in Row /\ work \in Row
      /\ work.versions \in Seq(Version) /\ Len(work.versions) >= 1
  BY RowFields DEF TypeOK, ControlOK, PostgresOK, HolderInv
<1>1. ASSUME NEW q \in Proc, Start(q) PROVE HolderInv'
  <2>1. /\ UNCHANGED postgres /\ pc[q] = "idle"
        /\ \E l \in {"save", "get", "patchwrite", "turnwrite", "restorewrite", "idle"} : Goto(q, l)
        /\ \A p \in Proc \ {q} : loc'[p] = loc[p]
    BY <1>0, <1>1 DEF Start, AutosaveCheck, AutosaveNoop, PatchStart, PublishStart, TurnStart,
              RestoreStart, Request, postgres
  <2> QED BY <2>1, HolderFrame DEF Label, HolderPC
<1>2. ASSUME NEW q \in Proc, SweepPick(q) PROVE HolderInv'
  <2>1. /\ UNCHANGED postgres /\ pc[q] = "idle" /\ Goto(q, "get")
        /\ \A p \in Proc \ {q} : loc'[p] = loc[p]
    BY <1>0, <1>2 DEF SweepPick, postgres
  <2> QED BY <2>1, HolderFrame DEF Label, HolderPC
<1>3. ASSUME NEW q \in Proc, AutosaveSave(q) \/ GetSnapshot(q) \/ AcquireFlushLock(q)
      PROVE  HolderInv'
  <2>1. /\ UNCHANGED postgres /\ pc[q] \in {"save", "get", "acquire"}
        /\ \E l \in {"idle", "load", "write", "find"} : Goto(q, l)
        /\ \A p \in Proc \ {q} : loc'[p] = loc[p]
    BY <1>0, <1>3 DEF AutosaveSave, GetSnapshot, AcquireFlushLock, NothingFlushed, Leave, postgres
  <2> QED BY <2>1, HolderFrame DEF Label, HolderPC
<1>4. ASSUME NEW q \in Proc, LoadPost(q) PROVE HolderInv'
  <2>1. pc[q] \notin HolderPC
    BY <1>4 DEF LoadPost, HolderPC
  <2>2. CASE db.deleted
    BY <1>4, <2>1, <2>2, HolderRaise DEF LoadPost
  <2>3. CASE ~db.deleted
    <3>1. /\ UNCHANGED postgres /\ Goto(q, "acquire")
          /\ \A p \in Proc \ {q} : loc'[p] = loc[p]
      BY <1>0, <1>4, <2>3 DEF LoadPost, postgres
    <3> QED BY <2>1, <3>1, HolderFrame DEF Label, HolderPC
  <2> QED BY <2>2, <2>3
<1>5. ASSUME NEW q \in Proc, UnlockFlush(q) \/ MarkFlushed(q) PROVE HolderInv'
  BY <1>0, <1>5 DEF UnlockFlush, MarkFlushed, HolderInv, HolderPC, postgres
<1>6. ASSUME NEW q \in Proc, Reload(q) PROVE HolderInv'
  <2>1. rowLock = q /\ pc[q] = "reload" /\ loc[q].op = "sweep"
    BY <1>6 DEF Reload, HolderInv, NoPublishRunning, FlushPC
  <2>2. CASE work.deleted
    <3>1. db' = db /\ work' = db /\ rowLock' = None
      BY <1>6, <2>1, <2>2 DEF Reload, Raise, Undo
    <3>2. \A p \in Proc : pc'[p] = IF p = q THEN "idle" ELSE pc[p]
      BY <1>0, <1>6, <2>2 DEF Reload, Raise, Leave
    <3>3. \A p \in Proc : pc'[p] \notin {"unlock", "mark", "reload"}
      BY <2>1, <3>2 DEF HolderInv
    <3> QED BY <3>1, <3>3, ConstAssumption DEF HolderInv
  <2>3. CASE ~work.deleted
    BY <1>0, <1>6, <2>1, <2>3 DEF Reload, HolderInv, HolderPC, postgres
  <2> QED BY <2>2, <2>3
<1>7. ASSUME NEW q \in Proc, Commit(q) PROVE HolderInv'
  <2>1. \A p \in Proc : pc'[p] = IF p = q THEN "idle" ELSE pc[p]
    BY <1>0, <1>7 DEF Commit, Leave
  <2>2. \A p \in Proc \ {q} : loc'[p] = loc[p]
    BY <1>0, <1>7 DEF Commit, Leave
  <2>3. CASE rowLock = q
    BY <1>7, <2>1, <2>2, <2>3, ConstAssumption DEF Commit, View, HolderInv
  <2>4. CASE rowLock # q
    BY <1>7, <2>1, <2>2, <2>4 DEF Commit, View, HolderInv
  <2> QED BY <2>3, <2>4
<1>8. ASSUME NEW q \in Proc, WriteFlush(q) PROVE HolderInv'
  <2>1. loc[q].body \in Body /\ loc[q].status \in Status
    BY <1>8, LocalFields DEF WriteFlush, HoldsBody, TypeOK
  <2>2. /\ work'.versions = WithFlushVersion(work.versions, loc[q].body, loc[q].status)
        /\ work'.deleted = work.deleted
    BY <1>0, <1>8 DEF WriteFlush, Row
  <2>3. /\ Bodies(work.versions) \subseteq Bodies(work'.versions)
        /\ loc[q].body \in Bodies(work'.versions) /\ Len(work'.versions) >= 1
    BY <1>0, <2>1, <2>2, FlushBodies
  <2>4. pc[q] \notin HolderPC
    BY <1>8 DEF WriteFlush, HolderPC
  <2> QED BY <1>8, <2>2, <2>3, <2>4, HolderTakes DEF WriteFlush
<1>9. ASSUME NEW q \in Proc, PatchWrite(q) PROVE HolderInv'
  <2>1. pc[q] \notin HolderPC /\ rowLock # q /\ View(q) = db
    BY <1>9 DEF PatchWrite, HolderInv, HolderPC, View
  <2>2. CASE db.deleted
    BY <1>9, <2>1, <2>2, HolderRaise DEF PatchWrite
  <2>3. CASE ~db.deleted /\ loc[q].body = None
    <3>1. UNCHANGED postgres /\ Goto(q, "dischash") /\ UNCHANGED loc
      BY <1>9, <2>1, <2>3 DEF PatchWrite, postgres
    <3>2. \A p \in Proc : pc'[p] = IF p = q THEN "dischash" ELSE pc[p]
      BY <1>0, <3>1
    <3> QED BY <2>1, <3>1, <3>2 DEF HolderInv, postgres
  <2>4. CASE ~db.deleted /\ loc[q].body # None
    <3>1. /\ CanWrite(q) /\ rowLock' = q /\ UNCHANGED <<db, loc>> /\ Goto(q, "dischash")
          /\ work'.versions = work.versions /\ work'.deleted = work.deleted
      BY <1>0, <1>9, <2>1, <2>4 DEF PatchWrite, Row
    <3> QED BY <1>0, <2>1, <3>1, HolderTakes
  <2> QED BY <2>2, <2>3, <2>4
<1>10. ASSUME NEW q \in Proc, TurnWrite(q) PROVE HolderInv'
  <2>1. pc[q] \notin HolderPC /\ loc[q].op \in Turn
    BY <1>10, LocalFields DEF TurnWrite, HolderPC, TypeOK
  <2>2. CASE work.deleted
    BY <1>10, <2>1, <2>2, HolderRaise DEF TurnWrite
  <2>3. CASE ~work.deleted
    <3>1. /\ CanWrite(q) /\ rowLock' = q /\ UNCHANGED <<db, loc>> /\ Goto(q, "commit")
          /\ work'.versions = work.versions
      BY <1>0, <1>10, <2>1, <2>3 DEF TurnWrite, Turned, Turn, Row
    <3> QED BY <1>0, <2>1, <3>1, HolderTakes
  <2> QED BY <2>2, <2>3
<1>11. ASSUME NEW q \in Proc, RestoreWrite(q) PROVE HolderInv'
  <2> DEFINE v == Ver(loc[q].body, loc[q].status, FALSE, TRUE)
  <2>1. v \in Version
    BY <1>11, LocalFields DEF RestoreWrite, HoldsBody, TypeOK, Ver, Version
  <2>2. /\ CanWrite(q) /\ rowLock' = q /\ UNCHANGED <<db, loc>> /\ Goto(q, "commit")
        /\ work'.versions = Append(work.versions, v)
    BY <1>0, <1>11 DEF RestoreWrite, Row
  <2>3. pc[q] \notin HolderPC
    BY <1>11 DEF RestoreWrite, HolderPC
  <2> QED BY <1>0, <2>1, <2>2, <2>3, AppendBodies, HolderTakes
<1>12. ASSUME NEW q \in Proc, DiscardHash(q) \/ DiscardIndex(q) PROVE HolderInv'
  BY <1>0, <1>12 DEF DiscardHash, DiscardIndex, HolderInv, HolderPC, postgres
<1>13. ASSUME NEW q \in Proc PROVE ~FindPost(q) /\ ~PublishWrite(q) /\ ~Crash(q) /\ ~Abort(q)
  BY DEF FindPost, PublishWrite, NoPublishRunning, Crash, Abort, Fault, NoLoss
<1>14. ASSUME NEW q \in Proc, RedisFails(q) PROVE HolderInv'
  <2>1. CASE pc[q] \in {"get", "acquire"}
    <3>1. /\ UNCHANGED postgres /\ \E l \in {"idle", "find"} : Goto(q, l)
          /\ \A p \in Proc \ {q} : loc'[p] = loc[p]
      BY <1>0, <1>14, <2>1 DEF RedisFails, NothingFlushed, Leave, postgres
    <3> QED BY <2>1, <3>1, HolderFrame DEF Label, HolderPC
  <2>2. CASE pc[q] \in {"unlock", "dischash"}
    BY <1>0, <1>14, <2>2 DEF RedisFails, HolderInv, HolderPC, postgres
  <2> QED BY <1>14, <2>1, <2>2 DEF RedisFails
<1>15. ASSUME OrphanLockExpires \/ LockOutlived \/ SnapshotExpires \/ UNCHANGED vars
       PROVE  HolderInv'
  BY <1>15 DEF OrphanLockExpires, LockOutlived, SnapshotExpires, vars, postgres, HolderInv
<1> QED BY <1>1, <1>2, <1>3, <1>4, <1>5, <1>6, <1>7, <1>8, <1>9, <1>10, <1>11, <1>12, <1>13,
           <1>15, <1>14 DEF Next, Step, FlushStep, Environment, Idle

\* Nothing of the row being prepared is lost, unless the post is deleted.
LEMMA WorkGrows ==
    ASSUME NoLoss, TypeOK, RowLockInv, NoPublishRunning, HolderInv, [Next]_vars, ~db.deleted
    PROVE  Bodies(work.versions) \subseteq Bodies(work'.versions)
<1>1. CASE UNCHANGED work
  BY <1>1
<1>2. ASSUME NEW q \in Proc, Raise(q), pc[q] \notin HolderPC PROVE UNCHANGED work
  BY <1>2 DEF Raise, Undo, HolderInv
<1>3. ASSUME NEW q \in Proc, LoadPost(q) \/ Reload(q) PROVE UNCHANGED work
  <2>1. ~Raise(q) => UNCHANGED work
    BY <1>3 DEF LoadPost, Reload, postgres
  <2>2. LoadPost(q) => UNCHANGED work
    BY <1>2, <2>1 DEF LoadPost, HolderPC
  <2>3. Reload(q) => rowLock = q /\ pc[q] = "reload"
    BY DEF Reload, HolderInv
  <2>4. Reload(q) => ~work.deleted
    BY <2>3 DEF HolderInv
  <2>5. Reload(q) => UNCHANGED work
    BY <1>3, <2>3, <2>4, <2>1 DEF Reload, postgres
  <2> QED BY <1>3, <2>2, <2>5
<1>4. ASSUME NEW q \in Proc, Writer(q) PROVE Bodies(work.versions) \subseteq Bodies(work'.versions)
  <2>1. pc[q] \notin HolderPC
    BY <1>4 DEF Writer, WriteFlush, PublishWrite, PatchWrite, TurnWrite, RestoreWrite, HolderPC
  <2>2. CASE Undo(q)
    BY <2>1, <2>2 DEF Undo, HolderInv
  <2>3. CASE ~Undo(q)
    <3>1. work.versions \in Seq(Version) /\ Len(work.versions) >= 1
          /\ loc[q].status \in Status /\ "published" \in Status
      BY RowFields, LocalFields DEF TypeOK, PostgresOK, HolderInv, Status
    <3>2. \A b \in Body, s \in Status, m, r \in BOOLEAN : Ver(b, s, m, r) \in Version
      BY DEF Ver, Version
    <3> QED BY <1>4, <2>3, <3>1, <3>2, WriterVersions, AppendBodies, FlushBodies
            DEF VersionsAfter
  <2> QED BY <2>2, <2>3
<1>5. ASSUME NEW q \in Proc PROVE ~FindPost(q) /\ ~Crash(q) /\ ~Abort(q)
  BY DEF FindPost, NoPublishRunning, Crash, Abort, Fault, NoLoss
<1>6. ASSUME NEW q \in Proc, Start(q) \/ SweepPick(q) \/ RedisFails(q) PROVE UNCHANGED work
  BY <1>6 DEF RedisFails, Start, AutosaveCheck, AutosaveNoop, PatchStart, PublishStart, TurnStart,
              RestoreStart, Request, SweepPick, postgres
<1>7. ASSUME NEW q \in Proc, Step(q), ~Writer(q), ~LoadPost(q), ~Reload(q), ~FindPost(q)
      PROVE  UNCHANGED work
  BY <1>7 DEF Step, FlushStep, Writer, GetSnapshot, AcquireFlushLock, UnlockFlush, MarkFlushed,
              Commit, AutosaveSave, DiscardHash, DiscardIndex, postgres
<1>8. ASSUME OrphanLockExpires \/ LockOutlived \/ SnapshotExpires \/ UNCHANGED vars
      PROVE  UNCHANGED work
  BY <1>8 DEF OrphanLockExpires, LockOutlived, SnapshotExpires, vars, postgres
<1> QED BY <1>1, <1>3, <1>4, <1>5, <1>6, <1>7, <1>8 DEF Next, Environment, Idle

\* Only mark_flushed sets the flushed hash, to the body its holder prepared.
LEMMA FlushedHash ==
    ASSUME TypeOK, [Next]_vars
    PROVE  \/ snap'.flushed = snap.flushed
           \/ snap'.flushed = None
           \/ \E q \in Proc : MarkFlushed(q) /\ snap'.flushed \in {loc[q].body, snap.flushed}
<1>1. ASSUME NEW q \in Proc, Start(q) \/ SweepPick(q) PROVE UNCHANGED snap
  BY <1>1 DEF Start, AutosaveCheck, AutosaveNoop, PatchStart, PublishStart, TurnStart,
              RestoreStart, Request, SweepPick, redis
<1>2. ASSUME NEW q \in Proc, AutosaveSave(q) \/ DiscardHash(q) \/ SnapshotExpires
      PROVE  snap'.flushed \in {snap.flushed, None}
  BY <1>2 DEF AutosaveSave, DiscardHash, SnapshotExpires, Snapshot, NoSnapshot
<1>3. ASSUME NEW q \in Proc, Step(q), ~AutosaveSave(q), ~DiscardHash(q), ~MarkFlushed(q)
      PROVE  UNCHANGED snap
  BY <1>3 DEF Step, FlushStep, GetSnapshot, LoadPost, AcquireFlushLock, WriteFlush, UnlockFlush,
              Reload, Commit, FindPost, PublishWrite, PatchWrite, DiscardIndex, TurnWrite,
              RestoreWrite, redis
<1>4. ASSUME NEW q \in Proc, MarkFlushed(q) PROVE snap'.flushed \in {loc[q].body, snap.flushed}
  BY <1>4 DEF MarkFlushed, TypeOK, RedisOK
<1>5. ASSUME NEW q \in Proc, Crash(q) \/ Abort(q) \/ RedisFails(q) PROVE UNCHANGED snap
  BY <1>5 DEF RedisFails, Crash, Abort, redis
<1>6. ASSUME OrphanLockExpires \/ LockOutlived \/ UNCHANGED vars PROVE UNCHANGED snap
  BY <1>6 DEF OrphanLockExpires, LockOutlived, vars
<1>7. ASSUME SnapshotExpires PROVE snap'.flushed = None
  BY <1>7 DEF SnapshotExpires, Snapshot, NoSnapshot
<1> QED BY <1>1, <1>2, <1>3, <1>4, <1>5, <1>6, <1>7 DEF Next, Environment, Idle

LEMMA FlushedStep ==
    ASSUME NoLoss, TypeOK, RowLockInv, NoPublishRunning, HolderInv, FlushedIsStored, [Next]_vars
    PROVE  FlushedIsStored'
<1>1. db.deleted => db'.deleted
  BY FinalStep DEF Final
<1>2. ASSUME ~db.deleted, snap'.flushed # None PROVE snap'.flushed \in Bodies(work.versions)
  <2>1. Bodies(db.versions) \subseteq Bodies(work.versions)
    BY DEF HolderInv
  <2>2. \A q \in Proc : MarkFlushed(q) => loc[q].body \in Bodies(work.versions)
    BY DEF MarkFlushed, HolderInv
  <2>3. snap.flushed # None => snap.flushed \in Bodies(work.versions)
    BY <1>2, <2>1 DEF FlushedIsStored
  <2> QED BY <1>2, <2>2, <2>3, FlushedHash
<1>3. ~db.deleted => Bodies(work.versions) \subseteq Bodies(work'.versions)
  BY WorkGrows
<1> QED BY <1>1, <1>2, <1>3 DEF FlushedIsStored

\* As long as nobody publishes and no statement, commit or process fails, a body
\* the store calls flushed is committed or about to be by the row lock's holder, however
\* sweepers, PATCH, restore, unpublish, archive and delete interleave (FlushedIsStored).
THEOREM FlushedStaysStored ==
    ASSUME NoLoss PROVE Spec => []FlushedIsStored
<1>1. Init => RowLockInv /\ NoPublishRunning /\ HolderInv /\ FlushedIsStored
  BY ConstAssumption DEF Init, RowLockInv, NoPublishRunning, FlushPC, HolderInv,
     FlushedIsStored, NoSnapshot, Snapshot
<1>2. TypeOK /\ RowLockInv /\ [Next]_vars => RowLockInv'
  BY RowLockStep
<1>3. TypeOK /\ NoPublishRunning /\ [Next]_vars => NoPublishRunning'
  BY NoPublishStep DEF NoLoss
<1>4. TypeOK /\ RowLockInv /\ NoPublishRunning /\ HolderInv /\ [Next]_vars => HolderInv'
  BY HolderStep
<1>5. TypeOK /\ RowLockInv /\ NoPublishRunning /\ HolderInv /\ FlushedIsStored /\ [Next]_vars
      => FlushedIsStored'
  BY FlushedStep
<1> QED BY <1>1, <1>2, <1>3, <1>4, <1>5, TypeCorrect, PTL DEF Spec

----------------------------------------------------------------------------
(* The refinement of WriteBehind, for one flusher and an editor who alone  *)
(* writes the body.                                                        *)

OneFlusherOneWriter ==
    /\ \A p \in Proc : Does[p] \cap {"publish", "patch", "restore"} = {}
    /\ \A p, q \in Proc : "sweep" \in Does[p] \cap Does[q] => p = q

\* What one coroutine contributes: a flusher is the only one, carries the edit it has
\* read, and that edit is not older than the stored one; who holds the row lock
\* prepares that edit, or leaves the body alone.
CoroutineOK(p) ==
    /\ loc[p].op \in {"none", "autosave", "sweep"} \cup Turn
    /\ loc[p].op = "sweep" => "sweep" \in Does[p]
    /\ pc[p] \in FlushPC => loc[p].op = "sweep"
    /\ pc[p] \in {"idle", "save", "turnwrite", "commit"} \cup FlushPC
    /\ loc[p].op = "sweep" /\ pc[p] # "get" =>
         /\ readAt[p] \in 1..Len(edits) /\ storedAt <= readAt[p]
         /\ loc[p].body = edits[readAt[p]]
    /\ rowLock = p =>
         \/ /\ loc[p].op = "sweep" /\ pc[p] \in {"unlock", "mark", "reload", "commit"}
            /\ work.body = loc[p].body
         \/ loc[p].op \in Turn /\ pc[p] = "commit" /\ work.body = db.body

\* The snapshot holds the newest edit, and the stored body is the edit that was
\* committed last.
EditsOK ==
    /\ edits \in Seq(Body) /\ readAt \in [Proc -> Nat] /\ storedAt \in 0..Len(edits)
    /\ snap.content # None => Len(edits) > 0 /\ snap.content = edits[Len(edits)]
    /\ db.body = IF storedAt = 0 THEN InitBody ELSE edits[storedAt]
    /\ rowLock = None => work = db

OrderInv == EditsOK /\ \A p \in Proc : CoroutineOK(p)

\* A step of one coroutine that leaves the edits and Postgres alone.
LEMMA OrderFrame ==
    ASSUME OrderInv, NEW q \in Proc, UNCHANGED <<postgres, edits, readAt, storedAt>>,
           snap'.content \in {snap.content, None},
           \A p \in Proc \ {q} : pc'[p] = pc[p] /\ loc'[p] = loc[p],
           CoroutineOK(q)'
    PROVE  OrderInv'
<1>1. EditsOK'
  BY DEF OrderInv, EditsOK, postgres
<1>2. ASSUME NEW p \in Proc \ {q} PROVE CoroutineOK(p)'
  BY DEF OrderInv, CoroutineOK, postgres
<1> QED BY <1>1, <1>2 DEF OrderInv

\* A coroutine that does not hold the row lock ends, and nothing is rolled back.
LEMMA BlankOK ==
    ASSUME NEW q \in Proc, pc'[q] = "idle", loc'[q] = Blank, rowLock' # q
    PROVE  CoroutineOK(q)'
BY DEF CoroutineOK, Blank, FlushPC, Turn

\* An exception, whether or not the coroutine held the row lock.
LEMMA OrderRaise ==
    ASSUME TypeOK, OrderInv, NEW q \in Proc, Raise(q), UNCHANGED <<snap, edits, readAt, storedAt>>
    PROVE  OrderInv'
<1>1. /\ \A p \in Proc \ {q} : pc'[p] = pc[p] /\ loc'[p] = loc[p]
      /\ pc'[q] = "idle" /\ loc'[q] = Blank /\ rowLock' # q /\ db' = db
  BY ConstAssumption DEF Raise, Leave, Goto, Undo, TypeOK, ControlOK
<1>2. EditsOK'
  <2>1. rowLock' = None => work' = db'
    BY DEF Raise, Undo, OrderInv, EditsOK
  <2> QED BY <1>1, <2>1 DEF OrderInv, EditsOK
<1>3. ASSUME NEW p \in Proc \ {q} PROVE CoroutineOK(p)'
  <2>1. rowLock' = p => rowLock = p /\ work' = work
    BY ConstAssumption DEF Raise, Undo
  <2> QED BY <1>1, <2>1 DEF OrderInv, CoroutineOK
<1>4. CoroutineOK(q)'
  BY <1>1, BlankOK
<1> QED BY <1>2, <1>3, <1>4 DEF OrderInv

\* A coroutine takes the row lock and prepares a row.
LEMMA OrderTakes ==
    ASSUME TypeOK, OrderInv, NEW q \in Proc, CanWrite(q), pc[q] \in {"write", "turnwrite"},
           rowLock' = q, UNCHANGED <<db, loc, snap, edits, readAt, storedAt>>,
           NEW l, Goto(q, l),
           \/ l = "unlock" /\ pc[q] = "write" /\ work'.body = loc[q].body
           \/ l = "commit" /\ pc[q] = "turnwrite" /\ loc[q].op \in Turn /\ work'.body = db.body
    PROVE  OrderInv'
<1>1. pc'[q] = l /\ \A p \in Proc \ {q} : pc'[p] = pc[p] /\ rowLock' # p
  BY DEF Goto, TypeOK, ControlOK
<1>2. EditsOK'
  BY ConstAssumption DEF OrderInv, EditsOK
<1>3. ASSUME NEW p \in Proc \ {q} PROVE CoroutineOK(p)'
  BY <1>1 DEF OrderInv, CoroutineOK
<1>4. CoroutineOK(q)'
  BY <1>1 DEF OrderInv, CoroutineOK, FlushPC, Turn
<1> QED BY <1>2, <1>3, <1>4 DEF OrderInv

\* Which edit the stored body is, before and after a commit.
LEMMA OrderCommit ==
    ASSUME TypeOK, OrderInv, OneFlusherOneWriter, NEW q \in Proc, ObserveCommit(q)
    PROVE  /\ OrderInv'
           /\ ~Wrote(q) => db'.body = db.body /\ storedAt' = storedAt
           /\ Wrote(q) => /\ storedAt' = readAt[q] /\ storedAt < readAt[q]
                          /\ readAt[q] \in 1..Len(edits) /\ db'.body = edits[readAt[q]]
<1>1. /\ \A p \in Proc \ {q} : pc'[p] = pc[p] /\ loc'[p] = loc[p]
      /\ pc'[q] = "idle" /\ loc'[q] = Blank /\ rowLock' # q
      /\ UNCHANGED <<snap, work, edits, readAt>>
  BY ConstAssumption DEF ObserveCommit, Commit, Leave, Goto, TypeOK, ControlOK, redis
<1>2. ASSUME ~Wrote(q) PROVE db'.body = db.body /\ storedAt' = storedAt
  <2>1. rowLock = q => db' = work /\ work.body = db.body
    BY <1>2 DEF OrderInv, CoroutineOK, ObserveCommit, Commit, View, Wrote
  <2> QED BY <1>2, <2>1 DEF ObserveCommit, Commit, View
<1>3. ASSUME Wrote(q) PROVE /\ storedAt' = readAt[q] /\ storedAt < readAt[q]
                            /\ readAt[q] \in 1..Len(edits) /\ db'.body = edits[readAt[q]]
                            /\ "sweep" \in Does[q] /\ db' = work
  <2>1. pc[q] = "commit" /\ rowLock = q /\ loc[q].op = "sweep" /\ work.body = loc[q].body
    BY <1>3 DEF Wrote, ObserveCommit, Commit, OrderInv, CoroutineOK, Turn
  <2>2. /\ readAt[q] \in 1..Len(edits) /\ storedAt <= readAt[q]
        /\ loc[q].body = edits[readAt[q]] /\ "sweep" \in Does[q]
    BY <2>1 DEF OrderInv, CoroutineOK
  <2>3. db' = work /\ storedAt' = readAt[q]
    BY <1>3, <2>1 DEF ObserveCommit, Commit, View
  <2>4. storedAt # readAt[q]
    BY <1>3, <2>1, <2>2 DEF Wrote, OrderInv, EditsOK
  <2>5. storedAt \in Nat /\ readAt[q] \in Nat
    BY DEF OrderInv, EditsOK
  <2> QED BY <2>1, <2>2, <2>3, <2>4, <2>5
<1>4. rowLock' = None => work' = db'
  BY <1>1 DEF ObserveCommit, Commit, View, OrderInv, EditsOK
<1>5. EditsOK'
  <2>1. CASE Wrote(q)
    <3>1. storedAt' \in 0..Len(edits') /\ storedAt' # 0 /\ db'.body = edits'[storedAt']
      BY <1>1, <1>3, <2>1
    <3> QED BY <1>1, <1>4, <3>1 DEF OrderInv, EditsOK
  <2>2. CASE ~Wrote(q)
    BY <1>1, <1>2, <1>4, <2>2 DEF OrderInv, EditsOK
  <2> QED BY <2>1, <2>2
<1>6. ASSUME NEW p \in Proc \ {q} PROVE CoroutineOK(p)'
  <2>1. rowLock' = p => rowLock = p /\ rowLock # q
    BY ConstAssumption DEF ObserveCommit, Commit
  <2>2. rowLock = p => ~Wrote(q) /\ db'.body = db.body
    BY <1>2 DEF Wrote
  <2>3. loc[p].op = "sweep" => ~Wrote(q)
    BY <1>3 DEF OneFlusherOneWriter, OrderInv, CoroutineOK
  <2>4. loc[p].op = "sweep" => storedAt' = storedAt
    BY <1>2, <2>3
  <2> QED BY <1>1, <2>1, <2>2, <2>4 DEF OrderInv, CoroutineOK
<1>7. CoroutineOK(q)'
  BY <1>1, BlankOK
<1> QED BY <1>2, <1>3, <1>5, <1>6, <1>7 DEF OrderInv

LEMMA OrderSave ==
    ASSUME TypeOK, OrderInv, NEW q \in Proc, ObserveSave(q)
    PROVE  OrderInv'
<1> DEFINE b == loc[q].body
<1>1. b \in Body /\ edits \in Seq(Body) /\ storedAt \in 0..Len(edits)
  BY LocalFields DEF ObserveSave, AutosaveSave, HoldsBody, TypeOK, OrderInv, EditsOK
<1>2. /\ edits' \in Seq(Body) /\ Len(edits') = Len(edits) + 1 /\ edits'[Len(edits')] = b
      /\ \A i \in 1..Len(edits) : edits'[i] = edits[i]
  BY <1>1, AppendProperties DEF ObserveSave
<1>3. /\ \A p \in Proc \ {q} : pc'[p] = pc[p] /\ loc'[p] = loc[p]
      /\ pc'[q] = "idle" /\ loc'[q] = Blank /\ pc[q] = "save"
      /\ snap'.content = b /\ UNCHANGED <<db, rowLock, work, readAt, storedAt>>
  BY DEF ObserveSave, AutosaveSave, Leave, Goto, TypeOK, ControlOK, Snapshot, postgres
<1>4. rowLock # q
  BY <1>3 DEF OrderInv, CoroutineOK
<1>5. EditsOK'
  <2>1. storedAt' \in 0..Len(edits') /\ Len(edits') > 0
    BY <1>1, <1>2, <1>3, LenProperties
  <2>2. db'.body = IF storedAt' = 0 THEN InitBody ELSE edits'[storedAt']
    BY <1>1, <1>2, <1>3 DEF OrderInv, EditsOK
  <2> QED BY <1>2, <1>3, <2>1, <2>2 DEF OrderInv, EditsOK
<1>6. ASSUME NEW p \in Proc \ {q} PROVE CoroutineOK(p)'
  <2>1. readAt[p] \in 1..Len(edits) => readAt[p] \in 1..Len(edits') /\ edits'[readAt[p]] = edits[readAt[p]]
    BY <1>1, <1>2, LenProperties
  <2> QED BY <1>3, <2>1 DEF OrderInv, CoroutineOK
<1>7. CoroutineOK(q)'
  BY <1>3, <1>4, BlankOK
<1> QED BY <1>5, <1>6, <1>7 DEF OrderInv

LEMMA OrderRead ==
    ASSUME TypeOK, OrderInv, NEW q \in Proc, ObserveRead(q)
    PROVE  OrderInv'
<1>1. GetSnapshot(q) /\ pc[q] = "get" /\ loc[q].op = "sweep" /\ rowLock # q
  BY DEF ObserveRead, GetSnapshot, DiscardHash, OrderInv, CoroutineOK, FlushPC
<1>2. /\ \A p \in Proc \ {q} : pc'[p] = pc[p] /\ loc'[p] = loc[p] /\ readAt'[p] = readAt[p]
      /\ readAt'[q] = Len(edits) /\ Len(edits) \in Nat
      /\ UNCHANGED <<snap, db, rowLock, work, edits, storedAt>>
  BY <1>1, LenProperties DEF ObserveRead, GetSnapshot, NothingFlushed, Leave, Goto, TypeOK,
     ControlOK, redis, postgres, OrderInv, EditsOK
<1>3. EditsOK'
  <2>1. readAt' \in [Proc -> Nat]
    BY <1>2 DEF ObserveRead, OrderInv, EditsOK
  <2> QED BY <1>2, <2>1 DEF OrderInv, EditsOK
<1>4. ASSUME NEW p \in Proc \ {q} PROVE CoroutineOK(p)'
  BY <1>2 DEF OrderInv, CoroutineOK
<1>5. CoroutineOK(q)'
  <2>1. CASE Dirty
    <3>1. pc'[q] = "load" /\ loc'[q] = [loc[q] EXCEPT !.body = snap.content]
      BY <1>1, <2>1 DEF GetSnapshot, Goto, TypeOK, ControlOK
    <3>2. loc'[q].op = "sweep" /\ loc'[q].body = snap.content
      BY <1>1, <3>1 DEF TypeOK, ControlOK, Local
    <3>3. Len(edits) > 0 /\ snap.content = edits[Len(edits)] /\ storedAt \in 0..Len(edits)
      BY <2>1 DEF Dirty, OrderInv, EditsOK
    <3>4. "sweep" \in Does[q]
      BY <1>1 DEF OrderInv, CoroutineOK
    <3> QED BY <1>1, <1>2, <3>1, <3>2, <3>3, <3>4 DEF CoroutineOK, FlushPC
  <2>2. CASE ~Dirty
    <3>1. pc'[q] = "idle" /\ loc'[q] = Blank
      BY <1>1, <2>2 DEF GetSnapshot, NothingFlushed, Leave, Goto, TypeOK, ControlOK
    <3> QED BY <1>1, <1>2, <3>1, BlankOK
  <2> QED BY <2>1, <2>2
<1> QED BY <1>3, <1>4, <1>5 DEF OrderInv

LEMMA OrderStep ==
    ASSUME TypeOK, OrderInv, OneFlusherOneWriter, [HNext]_hvars
    PROVE  OrderInv'
<1> USE DEF Goto
<1>0. pc \in [Proc -> Label] /\ loc \in [Proc -> Local]
  BY DEF TypeOK, ControlOK
<1>1. ASSUME NEW q \in Proc, Start(q), UNCHANGED history PROVE OrderInv'
  <2>1. /\ UNCHANGED <<postgres, edits, readAt, storedAt, snap>> /\ pc[q] = "idle"
        /\ \A p \in Proc \ {q} : pc'[p] = pc[p] /\ loc'[p] = loc[p]
        /\ \/ pc'[q] = pc[q] /\ loc'[q] = loc[q]
           \/ pc'[q] = "save" /\ loc'[q].op = "autosave"
           \/ pc'[q] = "turnwrite" /\ loc'[q].op \in Turn
    BY <1>0, <1>1 DEF Start, AutosaveCheck, AutosaveNoop, PatchStart, PublishStart, TurnStart,
       RestoreStart, Request, redis, history, OneFlusherOneWriter
  <2>2. rowLock # q
    BY <2>1 DEF OrderInv, CoroutineOK
  <2>3. CoroutineOK(q)'
    BY <2>1, <2>2 DEF OrderInv, CoroutineOK, FlushPC, Turn, postgres
  <2> QED BY <2>1, <2>3, OrderFrame
<1>2. ASSUME NEW q \in Proc, SweepPick(q), UNCHANGED history PROVE OrderInv'
  <2>1. /\ UNCHANGED <<postgres, edits, readAt, storedAt, snap>> /\ pc[q] = "idle"
        /\ \A p \in Proc \ {q} : pc'[p] = pc[p] /\ loc'[p] = loc[p]
        /\ pc'[q] = "get" /\ loc'[q].op = "sweep" /\ "sweep" \in Does[q]
    BY <1>0, <1>2 DEF SweepPick, redis, history, Local
  <2>2. rowLock # q
    BY <2>1 DEF OrderInv, CoroutineOK
  <2>3. CoroutineOK(q)'
    BY <2>1, <2>2 DEF CoroutineOK, FlushPC, postgres
  <2> QED BY <2>1, <2>3, OrderFrame
<1>3. ASSUME NEW q \in Proc, LoadPost(q), UNCHANGED history PROVE OrderInv'
  <2>1. CASE db.deleted
    BY <1>3, <2>1, OrderRaise DEF LoadPost, redis, history
  <2>2. CASE ~db.deleted
    <3>1. /\ UNCHANGED <<postgres, edits, readAt, storedAt, snap>> /\ pc[q] = "load"
          /\ \A p \in Proc \ {q} : pc'[p] = pc[p] /\ loc'[p] = loc[p]
          /\ pc'[q] = "acquire" /\ loc'[q].op = loc[q].op /\ loc'[q].body = loc[q].body
      BY <1>0, <1>3, <2>2 DEF LoadPost, redis, history, Local
    <3>2. CoroutineOK(q)'
      BY <3>1 DEF OrderInv, CoroutineOK, FlushPC, postgres
    <3> QED BY <3>1, <3>2, OrderFrame
  <2> QED BY <2>1, <2>2
<1>4. ASSUME NEW q \in Proc, AcquireFlushLock(q) \/ RedisFails(q), UNCHANGED history
      PROVE  OrderInv'
  <2>1. pc[q] # "dischash"
    BY DEF OrderInv, CoroutineOK, FlushPC
  <2>2. /\ UNCHANGED <<postgres, edits, readAt, storedAt, snap>>
        /\ \A p \in Proc \ {q} : pc'[p] = pc[p] /\ loc'[p] = loc[p]
        /\ \/ pc[q] = "acquire" /\ pc'[q] = "write" /\ loc'[q] = loc[q]
           \/ pc[q] = "unlock" /\ pc'[q] = "mark" /\ loc'[q] = loc[q]
           \/ pc[q] \in {"get", "acquire"} /\ NothingFlushed(q)
    BY <1>0, <1>4, <2>1 DEF AcquireFlushLock, RedisFails, NothingFlushed, Leave, postgres, history
  <2>3. ASSUME pc[q] \in {"get", "acquire"}, NothingFlushed(q) PROVE CoroutineOK(q)'
    <3>1. loc[q].op = "sweep" /\ rowLock # q
      BY <2>3 DEF OrderInv, CoroutineOK, FlushPC
    <3>2. pc'[q] = "idle" /\ loc'[q] = Blank /\ rowLock' # q
      BY <1>0, <2>2, <2>3, <3>1 DEF NothingFlushed, Leave, postgres
    <3> QED BY <3>2, BlankOK
  <2>4. CoroutineOK(q)'
    BY <2>2, <2>3 DEF OrderInv, CoroutineOK, FlushPC, postgres
  <2> QED BY <2>2, <2>4, OrderFrame
<1>5. ASSUME NEW q \in Proc, UnlockFlush(q) \/ MarkFlushed(q), UNCHANGED history PROVE OrderInv'
  <2>1. /\ UNCHANGED <<postgres, edits, readAt, storedAt>> /\ snap'.content = snap.content
        /\ \A p \in Proc \ {q} : pc'[p] = pc[p] /\ loc'[p] = loc[p]
        /\ pc[q] \in {"unlock", "mark"} /\ pc'[q] \in {"mark", "reload"} /\ loc'[q] = loc[q]
    BY <1>0, <1>5 DEF UnlockFlush, MarkFlushed, postgres, history, TypeOK, RedisOK
  <2>2. CoroutineOK(q)'
    BY <2>1 DEF OrderInv, CoroutineOK, FlushPC, postgres
  <2> QED BY <2>1, <2>2, OrderFrame
<1>6. ASSUME NEW q \in Proc, Reload(q), UNCHANGED history PROVE OrderInv'
  <2>1. CASE work.deleted
    BY <1>6, <2>1, OrderRaise DEF Reload, redis, history
  <2>2. CASE ~work.deleted
    <3>1. pc[q] = "reload" /\ loc[q].op = "sweep"
      BY <1>6 DEF Reload, OrderInv, CoroutineOK, FlushPC
    <3>2. /\ UNCHANGED <<postgres, edits, readAt, storedAt, snap>>
          /\ \A p \in Proc \ {q} : pc'[p] = pc[p] /\ loc'[p] = loc[p]
          /\ pc'[q] = "commit" /\ loc'[q] = loc[q]
      BY <1>0, <1>6, <2>2, <3>1 DEF Reload, redis, history
    <3>3. CoroutineOK(q)'
      BY <3>1, <3>2 DEF OrderInv, CoroutineOK, FlushPC, postgres
    <3> QED BY <3>2, <3>3, OrderFrame
  <2> QED BY <2>1, <2>2
<1>7. ASSUME NEW q \in Proc, WriteFlush(q), UNCHANGED history PROVE OrderInv'
  <2>1. work'.body = loc[q].body
    BY <1>7 DEF WriteFlush, TypeOK, PostgresOK, Row
  <2> QED BY <1>7, <2>1, OrderTakes DEF WriteFlush, redis, history
<1>8. ASSUME NEW q \in Proc, TurnWrite(q), UNCHANGED history PROVE OrderInv'
  <2>1. CASE work.deleted
    BY <1>8, <2>1, OrderRaise DEF TurnWrite, redis, history
  <2>2. CASE ~work.deleted
    <3>1. loc[q].op \in Turn /\ pc[q] = "turnwrite" /\ CanWrite(q)
      BY <1>8, LocalFields DEF TurnWrite, TypeOK
    <3>2. work = db
      BY <3>1 DEF CanWrite, OrderInv, EditsOK, CoroutineOK
    <3>3. work'.body = db.body
      BY <1>8, <2>2, <3>1, <3>2 DEF TurnWrite, Turned, Turn, TypeOK, PostgresOK, Row
    <3> QED BY <1>8, <2>2, <3>1, <3>3, OrderTakes DEF TurnWrite, redis, history
  <2> QED BY <2>1, <2>2
<1>9. ASSUME NEW q \in Proc PROVE /\ ~FindPost(q) /\ ~PublishWrite(q) /\ ~PatchWrite(q)
                                   /\ ~DiscardIndex(q) /\ ~RestoreWrite(q)
  BY DEF FindPost, PublishWrite, PatchWrite, DiscardIndex, RestoreWrite, OrderInv, CoroutineOK,
     FlushPC
<1>10. ASSUME NEW q \in Proc, Crash(q) \/ Abort(q), UNCHANGED history PROVE OrderInv'
  BY <1>10, OrderRaise DEF Crash, Abort, redis, history
<1>11. ASSUME OrphanLockExpires \/ LockOutlived \/ SnapshotExpires, UNCHANGED history
       PROVE  OrderInv'
  BY <1>11 DEF OrphanLockExpires, LockOutlived, SnapshotExpires, NoSnapshot, Snapshot, postgres,
     history, OrderInv, EditsOK, CoroutineOK
<1>12. ASSUME UNCHANGED hvars PROVE OrderInv'
  BY <1>12 DEF hvars, vars, history, OrderInv, EditsOK, CoroutineOK
<1>13. ASSUME NEW q \in Proc, ObserveSave(q) \/ ObserveRead(q) \/ ObserveCommit(q) PROVE OrderInv'
  BY <1>13, OrderSave, OrderRead, OrderCommit
<1> QED BY <1>1, <1>2, <1>3, <1>4, <1>5, <1>6, <1>7, <1>8, <1>9, <1>10, <1>11, <1>12, <1>13
        DEF HNext, OtherStep, Environment, Idle, hvars

----------------------------------------------------------------------------
(* Every step is one of the buffer, or none.                               *)

Pending(es, n) == SubSeq(es, n + 1, Len(es))

LEMMA PendingFacts ==
    ASSUME NEW es \in Seq(Body), NEW n \in 0..Len(es)
    PROVE  /\ Pending(es, n) \in Seq(Body) /\ Len(Pending(es, n)) = Len(es) - n
           /\ \A i \in 1..(Len(es) - n) : Pending(es, n)[i] = es[n + i]
<1>1. Len(es) \in Nat /\ \A i \in (n + 1)..Len(es) : es[i] \in Body
  BY LenProperties, ElementOfSeq
<1>2. /\ Pending(es, n) \in Seq(Body)
      /\ Len(Pending(es, n)) = IF n + 1 <= Len(es) THEN Len(es) - (n + 1) + 1 ELSE 0
      /\ \A i \in 1..(Len(es) - (n + 1) + 1) : Pending(es, n)[i] = es[(n + 1) + i - 1]
  BY <1>1, SubSeqProperties DEF Pending
<1>3. Len(Pending(es, n)) = Len(es) - n
  BY <1>1, <1>2
<1>4. ASSUME NEW i \in 1..(Len(es) - n) PROVE Pending(es, n)[i] = es[n + i]
  <2>1. i \in 1..(Len(es) - (n + 1) + 1) /\ (n + 1) + i - 1 = n + i
    BY <1>1
  <2> QED BY <1>2, <2>1
<1> QED BY <1>2, <1>3, <1>4

\* An edit accepted joins the end of what is pending.
LEMMA PendingAppend ==
    ASSUME NEW es \in Seq(Body), NEW n \in 0..Len(es), NEW b \in Body
    PROVE  Pending(Append(es, b), n) = Append(Pending(es, n), b)
<1> DEFINE fs == Append(es, b)
           s == Pending(fs, n)
           t == Append(Pending(es, n), b)
<1>1. /\ fs \in Seq(Body) /\ Len(fs) = Len(es) + 1 /\ Len(es) \in Nat
      /\ fs[Len(es) + 1] = b /\ \A i \in 1..Len(es) : fs[i] = es[i]
  BY AppendProperties, LenProperties
<1>2. s \in Seq(Body) /\ Len(s) = Len(es) + 1 - n /\ \A i \in 1..(Len(es) + 1 - n) : s[i] = fs[n + i]
  <2>1. n \in 0..Len(fs)
    BY <1>1
  <2> HIDE DEF fs
  <2>2. /\ s \in Seq(Body) /\ Len(s) = Len(fs) - n
        /\ \A i \in 1..(Len(fs) - n) : s[i] = fs[n + i]
    BY <1>1, <2>1, PendingFacts
  <2> HIDE DEF s
  <2> QED BY <1>1, <2>2
<1>3. /\ Pending(es, n) \in Seq(Body) /\ Len(Pending(es, n)) = Len(es) - n
      /\ \A i \in 1..(Len(es) - n) : Pending(es, n)[i] = es[n + i]
  BY PendingFacts
<1>4. /\ t \in Seq(Body) /\ Len(t) = Len(es) - n + 1 /\ t[Len(es) - n + 1] = b
      /\ \A i \in 1..(Len(es) - n) : t[i] = es[n + i]
  BY <1>3, AppendProperties
<1> HIDE DEF fs, s, t
<1>5. \A i \in 1..Len(s) : s[i] = t[i]
  BY <1>1, <1>2, <1>4
<1>6. Len(s) = Len(t)
  BY <1>1, <1>2, <1>4
<1>7. s = t
  BY <1>2, <1>4, <1>5, <1>6, SeqEqual
<1> QED BY <1>7 DEF s, t, fs

\* Storing the edit number m drops the ones up to it.
LEMMA PendingDrop ==
    ASSUME NEW es \in Seq(Body), NEW n \in 0..Len(es), NEW m \in 1..Len(es), n < m
    PROVE  /\ m - n \in 1..Len(Pending(es, n)) /\ Pending(es, n)[m - n] = es[m]
           /\ Pending(es, m) = SubSeq(Pending(es, n), (m - n) + 1, Len(Pending(es, n)))
<1> DEFINE p == Pending(es, n)
           s == Pending(es, m)
           t == SubSeq(p, (m - n) + 1, Len(p))
<1>1. /\ p \in Seq(Body) /\ Len(p) = Len(es) - n /\ Len(es) \in Nat
      /\ \A i \in 1..(Len(es) - n) : p[i] = es[n + i]
  BY PendingFacts, LenProperties
<1>2. s \in Seq(Body) /\ Len(s) = Len(es) - m /\ \A i \in 1..(Len(es) - m) : s[i] = es[m + i]
  <2>1. m \in 0..Len(es)
    BY <1>1
  <2> QED BY <2>1, PendingFacts
<1>3. m - n \in 0..Len(p) /\ m - n \in 1..Len(p)
  BY <1>1
<1>4. t \in Seq(Body) /\ Len(t) = Len(p) - (m - n) /\ \A i \in 1..(Len(p) - (m - n)) : t[i] = p[(m - n) + i]
  <2> HIDE DEF p
  <2> QED BY <1>1, <1>3, PendingFacts DEF Pending
<1> HIDE DEF p, s, t
<1>5. Len(s) = Len(t) /\ p[m - n] = es[m]
  BY <1>1, <1>2, <1>3, <1>4
<1>6. ASSUME NEW i \in 1..Len(s) PROVE s[i] = t[i]
  <2>1. /\ i \in 1..(Len(es) - m) /\ i \in 1..(Len(p) - (m - n))
        /\ (m - n) + i \in 1..(Len(es) - n) /\ n + ((m - n) + i) = m + i
    BY <1>1, <1>2
  <2> QED BY <1>1, <1>2, <1>4, <2>1
<1>7. s = t
  BY <1>2, <1>4, <1>5, <1>6, SeqEqual
<1> QED BY <1>3, <1>5, <1>7 DEF s, t, p

Mapped == <<db.body, Pending(edits, storedAt)>>

LEMMA BufferStep ==
    ASSUME TypeOK, OrderInv, OneFlusherOneWriter, [HNext]_hvars
    PROVE  Buffer!Next \/ UNCHANGED Mapped
<1>0. edits \in Seq(Body) /\ storedAt \in 0..Len(edits) /\ storedAt \in Nat
  BY LenProperties DEF OrderInv, EditsOK
<1>1. ASSUME NEW q \in Proc, ObserveSave(q) PROVE Buffer!Next
  <2>1. loc[q].body \in Body /\ edits' = Append(edits, loc[q].body) /\ UNCHANGED <<db, storedAt>>
    BY <1>1, LocalFields DEF ObserveSave, AutosaveSave, HoldsBody, TypeOK, postgres
  <2>2. Pending(edits', storedAt') = Append(Pending(edits, storedAt), loc[q].body)
    BY <1>0, <2>1, PendingAppend
  <2>3. Buffer!Accept(loc[q].body)
    BY <2>1, <2>2 DEF Buffer!Accept, Pending
  <2> QED BY <2>1, <2>3 DEF Buffer!Next
<1>2. ASSUME NEW q \in Proc, ObserveCommit(q) PROVE Buffer!Next \/ UNCHANGED Mapped
  <2>1. edits' = edits
    BY <1>2 DEF ObserveCommit
  <2>2. CASE ~Wrote(q)
    BY <1>2, <2>1, <2>2, OrderCommit DEF Mapped
  <2>3. CASE Wrote(q)
    <3> DEFINE n == readAt[q] - storedAt
    <3>1. /\ storedAt' = readAt[q] /\ storedAt < readAt[q] /\ readAt[q] \in 1..Len(edits)
          /\ db'.body = edits[readAt[q]]
      BY <1>2, <2>3, OrderCommit
    <3>2. /\ n \in 1..Len(Pending(edits, storedAt))
          /\ Pending(edits, storedAt)[n] = edits[readAt[q]]
          /\ Pending(edits, readAt[q])
               = SubSeq(Pending(edits, storedAt), n + 1, Len(Pending(edits, storedAt)))
      BY <1>0, <3>1, PendingDrop
    <3>3. /\ db'.body = Pending(edits, storedAt)[n]
          /\ Pending(edits', storedAt')
               = SubSeq(Pending(edits, storedAt), n + 1, Len(Pending(edits, storedAt)))
      BY <2>1, <3>1, <3>2
    <3> HIDE DEF n
    <3>4. Buffer!Coalesce
      BY <3>2, <3>3 DEF Buffer!Coalesce, Pending
    <3> QED BY <3>4 DEF Buffer!Next
  <2> QED BY <2>2, <2>3
<1>3. ASSUME NEW q \in Proc, ObserveRead(q) PROVE UNCHANGED Mapped
  BY <1>3 DEF ObserveRead, GetSnapshot, DiscardHash, postgres, Mapped
<1>4. ASSUME NEW q \in Proc, OtherStep(q), UNCHANGED history PROVE UNCHANGED Mapped
  BY <1>4 DEF OtherStep, Start, AutosaveCheck, AutosaveNoop, PatchStart, PublishStart, TurnStart,
     RestoreStart, Request, SweepPick, LoadPost, AcquireFlushLock, WriteFlush, UnlockFlush,
     MarkFlushed, Reload, FindPost, PublishWrite, PatchWrite, DiscardIndex, TurnWrite,
     RestoreWrite, Raise, Undo, postgres, history, Mapped
<1>5. ASSUME Environment, UNCHANGED history PROVE UNCHANGED Mapped
  BY <1>5 DEF Environment, Crash, Abort, RedisFails, OrphanLockExpires, LockOutlived,
     SnapshotExpires, Raise, Undo, postgres, history, Mapped
<1>6. ASSUME UNCHANGED hvars PROVE UNCHANGED Mapped
  BY <1>6 DEF hvars, vars, history, Mapped
<1> QED BY <1>1, <1>2, <1>3, <1>4, <1>5, <1>6 DEF HNext, Idle, hvars

\* store.py 3-8, with one flusher, and nobody writing the body but the editor: the path
\* from keystroke to commit is an ordered, coalescing buffer, under every fault: it
\* stores the edits in the order they were typed, and one that was passed over
\* never comes back (ImplementsWriteBehind).
THEOREM StoresInOrder ==
    ASSUME OneFlusherOneWriter PROVE HSpec => ImplementsWriteBehind
<1>1. HInit => Init /\ OrderInv /\ Buffer!Init
  <2> SUFFICES ASSUME HInit PROVE Init /\ OrderInv /\ Buffer!Init OBVIOUS
  <2>1. edits = <<>> /\ Len(edits) = 0 /\ edits \in Seq(Body) /\ storedAt = 0
    BY EmptySeq DEF HInit
  <2>2. EditsOK
    BY <2>1 DEF HInit, Init, EditsOK, NoSnapshot, Snapshot
  <2>3. \A p \in Proc : CoroutineOK(p)
    BY ConstAssumption DEF HInit, Init, CoroutineOK, Blank, FlushPC
  <2>4. SubSeq(edits, storedAt + 1, Len(edits)) = <<>>
    BY <2>1, SubSeqEmpty
  <2> QED BY <2>2, <2>3, <2>4 DEF HInit, Init, OrderInv, Buffer!Init
<1>2. [HNext]_hvars => [Next]_vars
  BY DEF HNext, hvars, ObserveSave, ObserveRead, ObserveCommit, OtherStep, Next, Step, FlushStep
<1>3. Init => TypeOK
  BY InitType, ConstAssumption
<1>4. TypeOK /\ [Next]_vars => TypeOK'
  BY NextType, ConstAssumption
<1>5. TypeOK /\ OrderInv /\ [HNext]_hvars => OrderInv'
  BY OrderStep
<1>6. TypeOK /\ OrderInv /\ [HNext]_hvars
        => [Buffer!Next]_<<db.body, SubSeq(edits, storedAt + 1, Len(edits))>>
  BY BufferStep DEF Mapped, Pending
<1> QED BY <1>1, <1>2, <1>3, <1>4, <1>5, <1>6, PTL DEF HSpec, ImplementsWriteBehind, Buffer!Spec
=============================================================================
