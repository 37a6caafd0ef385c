---------------------- MODULE AutosaveSweepers_proofs ----------------------
(* Theorems about the lease of the autosave sweepers: for any fleet, any posts *)
(* and any bounds.                                                           *)
EXTENDS AutosaveSweepers, TLAPS

\* The lease is held by whoever acts on it, until it lapses under a live holder:
\* a task that was told it leads, that sweeps, that drains or gives the lease up.
ActsOnLease(w) == ~Gone(w) /\ (isLeader[w] \/ pc[w] \in {"won", "scan", "flush", "release"})
Holder == slow = 0 => \A w \in Worker : ActsOnLease(w) => leader = w

----------------------------------------------------------------------------
LEMMA TypeInit == Init => TypeOK
BY ConstAssumption DEF ConstAssumption, Init, TypeOK

LEMMA BeginSweepType ==
    ASSUME TypeOK, NEW w \in Worker, BeginSweep(w)
    PROVE  /\ pc' = [pc EXCEPT ![w] = "scan"]
           /\ todo' \in [Worker -> SUBSET Post] /\ seen' \in [Worker -> Nat]
           /\ flushing' = [flushing EXCEPT ![w] = None]
<1>1. dirtySet \in SUBSET Post
  BY DEF TypeOK
<1> QED
  BY <1>1 DEF BeginSweep, Goto, TypeOK

LEMMA TypeNext == TypeOK /\ [Next]_vars => TypeOK'
<1> SUFFICES ASSUME TypeOK, [Next]_vars PROVE TypeOK'
    OBVIOUS
<1> USE ConstAssumption DEF ConstAssumption, TypeOK
<1> USE DEF redis, task, bounds, Goto, LeaveTo, Fault
<1>1. ASSUME NEW w \in Worker, Step(w) PROVE TypeOK'
  <2>1. CASE Ask(w)
    BY <2>1 DEF Ask
  <2>2. CASE Answer(w)
    <3>1. CASE pc[w] = "won"
      <4>1. BeginSweep(w)
        BY <2>2, <3>1 DEF Answer
      <4> QED
        BY <2>2, <3>1, <4>1, BeginSweepType DEF Answer
    <3>2. CASE pc[w] = "lost"
      BY <2>2, <3>2 DEF Answer
    <3> QED
      BY <2>2, <3>1, <3>2 DEF Answer
  <2>3. CASE ScanEnds(w)
    BY <2>3 DEF ScanEnds, EndSweep
  <2>4. CASE ReleaseLeadership(w)
    BY <2>4 DEF ReleaseLeadership
  <2>5. CASE FlushOK(w)
    BY <2>5 DEF FlushOK, AfterFlush, EndSweep
  <2>6. CASE FlushRefused(w)
    BY <2>6 DEF FlushRefused, AfterFlush, EndSweep
  <2>7. CASE \E p \in Post : Visit(w, p)
    BY <2>7 DEF Visit
  <2> QED
    BY <1>1, <2>1, <2>2, <2>3, <2>4, <2>5, <2>6, <2>7 DEF Step
<1>2. ASSUME NEW w \in Worker, FlushFails(w) PROVE TypeOK'
  BY <1>2 DEF FlushFails, AfterFlush, EndSweep
<1>3. ASSUME NEW w \in Worker, RedisFails(w) PROVE TypeOK'
  BY <1>3 DEF RedisFails
<1>4. ASSUME NEW w \in Worker, Cancel(w) PROVE TypeOK'
  <2>1. CASE isLeader[w]
    <3>1. BeginSweep(w)
      BY <1>4, <2>1 DEF Cancel
    <3>2. /\ UNCHANGED <<leader, dirtySet, dirty, deleted, isLeader, edits, bad, slow>>
          /\ faults < MaxFaults /\ faults' = faults + 1
          /\ draining' = [draining EXCEPT ![w] = TRUE]
      BY <1>4, <2>1 DEF Cancel
    <3>3. faults' \in 0..MaxFaults /\ draining' \in [Worker -> BOOLEAN]
      BY <3>2
    <3> QED
      BY <3>1, <3>2, <3>3, BeginSweepType
  <2>2. CASE ~isLeader[w]
    BY <1>4, <2>2 DEF Cancel
  <2> QED
    BY <2>1, <2>2
<1>5. ASSUME NEW w \in Worker, Crash(w) PROVE TypeOK'
  BY <1>5 DEF Crash
<1>6. ASSUME NEW p \in Post, Edit(p) \/ SoftDelete(p) \/ SnapshotExpires(p) PROVE TypeOK'
  BY <1>6 DEF Edit, SoftDelete, SnapshotExpires
<1>7. CASE LeaseExpires \/ LeaseOutlived
  BY <1>7 DEF LeaseExpires, LeaseOutlived
<1>8. CASE UNCHANGED vars
  BY <1>8 DEF vars
<1> QED
  BY <1>1, <1>2, <1>3, <1>4, <1>5, <1>6, <1>7, <1>8 DEF Next

\* The type invariant of the sweepers, with the dirty set holding every dirty post.
THEOREM TypeCorrect == Spec => []TypeOK
BY TypeInit, TypeNext, PTL DEF Spec

----------------------------------------------------------------------------
LEMMA HolderNext == TypeOK /\ Holder /\ [Next]_vars => Holder'
<1> SUFFICES ASSUME TypeOK, Holder, [Next]_vars PROVE Holder'
    OBVIOUS
<1> USE ConstAssumption DEF ConstAssumption, TypeOK, Holder, ActsOnLease, Gone
<1> USE DEF redis, task, bounds, Goto, LeaveTo, Fault
<1>1. ASSUME NEW w \in Worker, Step(w) PROVE Holder'
  \* Only a task that finds the lease free, or its own, is told that it leads.
  <2>1. CASE Ask(w)
    BY <2>1 DEF Ask
  <2>2. CASE Answer(w)
    BY <2>2 DEF Answer, BeginSweep
  <2>3. CASE ScanEnds(w)
    BY <2>3 DEF ScanEnds, EndSweep
  \* The task that gives the lease up is gone with it.
  <2>4. CASE ReleaseLeadership(w)
    BY <2>4 DEF ReleaseLeadership
  <2>5. CASE FlushOK(w)
    BY <2>5 DEF FlushOK, AfterFlush, EndSweep
  <2>6. CASE FlushRefused(w)
    BY <2>6 DEF FlushRefused, AfterFlush, EndSweep
  <2>7. CASE \E p \in Post : Visit(w, p)
    BY <2>7 DEF Visit
  <2> QED
    BY <1>1, <2>1, <2>2, <2>3, <2>4, <2>5, <2>6, <2>7 DEF Step
<1>2. ASSUME NEW w \in Worker, FlushFails(w) PROVE Holder'
  BY <1>2 DEF FlushFails, AfterFlush, EndSweep
<1>3. ASSUME NEW w \in Worker, RedisFails(w) PROVE Holder'
  BY <1>3 DEF RedisFails
<1>4. ASSUME NEW w \in Worker, Cancel(w) PROVE Holder'
  BY <1>4 DEF Cancel, BeginSweep
<1>5. ASSUME NEW w \in Worker, Crash(w) PROVE Holder'
  BY <1>5 DEF Crash
<1>6. ASSUME NEW p \in Post, Edit(p) \/ SoftDelete(p) \/ SnapshotExpires(p) PROVE Holder'
  BY <1>6 DEF Edit, SoftDelete, SnapshotExpires
\* A lease that lapses after its holder is gone belongs to nobody; one that lapses
\* under a live holder is counted by slow.
<1>7. CASE LeaseExpires \/ LeaseOutlived
  BY <1>7 DEF LeaseExpires, LeaseOutlived
<1>8. CASE UNCHANGED vars
  BY <1>8 DEF vars
<1> QED
  BY <1>1, <1>2, <1>3, <1>4, <1>5, <1>6, <1>7, <1>8 DEF Next

\* At most one task of the fleet sweeps, as long as no lease lapses under a live
\* holder: the election of autosave_sweeper, its drain and its shutdown together.
THEOREM OneTaskSweeps == Spec => []OneSweeper
<1>1. Init => Holder
  BY DEF Init, Holder, ActsOnLease
<1>2. Holder => OneSweeper
  BY DEF Holder, ActsOnLease, OneSweeper, Sweeping, Gone
<1> QED
  BY <1>1, <1>2, TypeInit, TypeNext, HolderNext, PTL DEF Spec

----------------------------------------------------------------------------
\* A task that lost the lease, or that wants it, never ends the hold of another:
\* compare-and-delete in the release, and one script to acquire or to renew.
THEOREM LeaseIsRespected == Spec => LeaseEndsByHolder
<1> DEFINE Ends == leader # None /\ leader' # leader =>
                     \/ Gone(leader)
                     \/ pc[leader] = "release" /\ pc'[leader] = "stopped"
                     \/ slow' > slow
<1>1. TypeOK /\ [Next]_vars => [Ends]_vars
  <2> SUFFICES ASSUME TypeOK, Next, leader # None, leader' # leader PROVE Ends
      OBVIOUS
  <2> USE ConstAssumption DEF ConstAssumption, TypeOK, redis, Goto, LeaveTo
  <2>1. ASSUME NEW w \in Worker, Step(w) PROVE Ends
    BY <2>1 DEF Step, Ask, Answer, ScanEnds, ReleaseLeadership, FlushOK, FlushRefused, Visit
  <2>2. ASSUME NEW w \in Worker, FlushFails(w) \/ RedisFails(w) \/ Cancel(w) \/ Crash(w) PROVE Ends
    BY <2>2 DEF FlushFails, RedisFails, Cancel, Crash
  <2>3. ASSUME NEW p \in Post, Edit(p) \/ SoftDelete(p) \/ SnapshotExpires(p) PROVE Ends
    BY <2>3 DEF Edit, SoftDelete, SnapshotExpires
  <2>4. CASE LeaseExpires \/ LeaseOutlived
    BY <2>4 DEF LeaseExpires, LeaseOutlived
  <2> QED
    BY <2>1, <2>2, <2>3, <2>4 DEF Next
<1> QED
  BY <1>1, TypeInit, TypeNext, PTL DEF Spec, LeaseEndsByHolder
=============================================================================
