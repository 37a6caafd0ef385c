-------------------------- MODULE AutosaveSweepers --------------------------
(***************************************************************************)
(* The autosave sweepers of a fleet (apps/blog/sweepers/_autosave.py):     *)
(* every worker runs one, a Redis lease elects the one that sweeps, and a  *)
(* sweep flushes at most Batch of the posts in the dirty set.              *)
(*                                                                         *)
(* Here a flush either stores the snapshot or fails; what happens inside   *)
(* one, and between two of the same post, is AutosaveFlush.                *)
(***************************************************************************)
EXTENDS Naturals, FiniteSets

CONSTANTS
    Worker,      \* sweeper tasks, each with a token of its own
    Post,
    None,        \* nobody, no post
    Batch,       \* AUTOSAVE_SWEEP_BATCH
    MaxEdits,    \* bound on saves
    MaxBad,      \* bound on posts deleted, or whose snapshot expires, while dirty
    MaxSlow,     \* bound on leases that lapse while their holder is alive
    MaxFaults    \* bound on cancellations, crashes, failed flushes and Redis errors

ASSUME ConstAssumption ==
    /\ None \notin Worker /\ None \notin Post
    /\ Batch \in Nat \ {0}
    /\ MaxEdits \in Nat /\ MaxBad \in Nat
    /\ MaxSlow \in Nat /\ MaxFaults \in Nat

VARIABLES
    leader,     \* the Redis key blog:autosave:sweeper:leader
    dirtySet,   \* the Redis SET blog:autosave:dirty
    dirty,      \* the posts whose snapshot is dirty
    deleted,    \* the posts that are soft-deleted
    pc,         \* where each task is
    isLeader,   \* its local is_leader
    draining,   \* is it in the sweep that follows its cancellation
    todo,       \* the members of the dirty set its scan has not yielded yet
    seen,       \* how many it has yielded
    flushing,   \* the post it is flushing
    edits, bad, slow, faults

redis == <<leader, dirtySet, dirty>>
task == <<pc, isLeader, draining, todo, seen, flushing>>
bounds == <<edits, bad, slow, faults>>
vars == <<redis, deleted, task, bounds>>

Init ==
    /\ leader = None
    /\ dirtySet = {} /\ dirty = {} /\ deleted = {}
    /\ pc = [w \in Worker |-> "sleep"]
    /\ isLeader = [w \in Worker |-> FALSE]
    /\ draining = [w \in Worker |-> FALSE]
    /\ todo = [w \in Worker |-> {}]
    /\ seen = [w \in Worker |-> 0]
    /\ flushing = [w \in Worker |-> None]
    /\ edits = 0 /\ bad = 0 /\ slow = 0 /\ faults = 0

Goto(w, l) == pc' = [pc EXCEPT ![w] = l]
Gone(w) == pc[w] \in {"stopped", "crashed", "died"}
Sweeping(w) == pc[w] \in {"scan", "flush"}

\* The task goes on, or ends, outside a sweep: the locals of sweep_once are gone.
LeaveTo(w, l) ==
    /\ Goto(w, l)
    /\ todo' = [todo EXCEPT ![w] = {}]
    /\ seen' = [seen EXCEPT ![w] = 0]
    /\ flushing' = [flushing EXCEPT ![w] = None]

----------------------------------------------------------------------------
(* One iteration of autosave_sweeper.                                      *)

\* Faulty variant: whoever asks becomes the leader.
AskTakesOver(w) ==
    /\ pc[w] = "sleep"
    /\ leader' = w
    /\ Goto(w, "won")
    /\ UNCHANGED <<dirtySet, dirty, deleted, isLeader, draining, todo, seen, flushing, bounds>>

\* acquire_or_renew_sweeper_leadership, as Redis runs it.
Ask(w) ==
    /\ pc[w] = "sleep"
    /\ leader' = IF leader = None THEN w ELSE leader
    /\ Goto(w, IF leader' = w THEN "won" ELSE "lost")
    /\ UNCHANGED <<dirtySet, dirty, deleted, isLeader, draining, todo, seen, flushing, bounds>>

BeginSweep(w) ==
    /\ todo' = [todo EXCEPT ![w] = dirtySet]
    /\ seen' = [seen EXCEPT ![w] = 0]
    /\ flushing' = [flushing EXCEPT ![w] = None]
    /\ Goto(w, "scan")

\* The answer reaches the task.
Answer(w) ==
    /\ \/ pc[w] = "won" /\ isLeader' = [isLeader EXCEPT ![w] = TRUE] /\ BeginSweep(w)
       \/ /\ pc[w] = "lost" /\ isLeader' = [isLeader EXCEPT ![w] = FALSE]
          /\ Goto(w, "sleep") /\ UNCHANGED <<todo, seen, flushing>>
    /\ UNCHANGED <<redis, deleted, draining, bounds>>

EndSweep(w) == LeaveTo(w, IF draining[w] THEN "release" ELSE "sleep")

\* The scan yields its members in any order; a member with nothing to flush is
\* passed over without looking at the batch limit.
Visit(w, p) ==
    /\ pc[w] = "scan" /\ p \in todo[w]
    /\ todo' = [todo EXCEPT ![w] = @ \ {p}]
    /\ seen' = [seen EXCEPT ![w] = @ + 1]
    /\ IF p \in dirty
       THEN flushing' = [flushing EXCEPT ![w] = p] /\ Goto(w, "flush")
       ELSE UNCHANGED <<flushing, pc>>
    /\ UNCHANGED <<redis, deleted, isLeader, draining, bounds>>

ScanEnds(w) ==
    /\ pc[w] = "scan" /\ todo[w] = {}
    /\ EndSweep(w)
    /\ UNCHANGED <<redis, deleted, isLeader, draining, bounds>>

\* Faulty variant: one post less than the batch.
AfterFlushOffByOne(w) ==
    IF seen[w] + 1 >= Batch
    THEN EndSweep(w)
    ELSE Goto(w, "scan") /\ flushing' = [flushing EXCEPT ![w] = None] /\ UNCHANGED <<todo, seen>>

AfterFlush(w) ==
    IF seen[w] >= Batch
    THEN EndSweep(w)
    ELSE Goto(w, "scan") /\ flushing' = [flushing EXCEPT ![w] = None] /\ UNCHANGED <<todo, seen>>

\* Faulty variant: out of the dirty set before the snapshot is marked flushed.
FlushUnindexesOnly(w) ==
    /\ pc[w] = "flush" /\ flushing[w] \notin deleted
    /\ dirtySet' = dirtySet \ {flushing[w]} /\ UNCHANGED dirty
    /\ AfterFlush(w)
    /\ UNCHANGED <<leader, deleted, isLeader, draining, bounds>>

\* A snapshot that is no longer dirty is not flushed again (flush_one's None).
FlushOK(w) ==
    /\ pc[w] = "flush" /\ flushing[w] \notin deleted
    /\ IF flushing[w] \in dirty
       THEN dirty' = dirty \ {flushing[w]} /\ dirtySet' = dirtySet \ {flushing[w]}
       ELSE UNCHANGED <<dirty, dirtySet>>
    /\ AfterFlush(w)
    /\ UNCHANGED <<leader, deleted, isLeader, draining, bounds>>

Fault == faults < MaxFaults /\ faults' = faults + 1 /\ UNCHANGED <<edits, bad, slow>>

\* flush_one does not find a soft-deleted post and raises; the sweep goes on.
FlushRefused(w) ==
    /\ pc[w] = "flush" /\ flushing[w] \in deleted
    /\ AfterFlush(w)
    /\ UNCHANGED <<redis, deleted, isLeader, draining, bounds>>

\* The flush of a live post comes to nothing: its lock is busy, a newer save has
\* come, or Postgres fails.
FlushFails(w) ==
    /\ pc[w] = "flush" /\ flushing[w] \notin deleted /\ Fault
    /\ AfterFlush(w)
    /\ UNCHANGED <<redis, deleted, isLeader, draining>>

\* Redis is out of reach beyond the client's retries. The raw eval and sscan raise,
\* which nothing in the loop catches but the drain; the wrapped get answers that
\* there is no snapshot; the release is left to the TTL. A lost answer may hide a
\* lease that was taken.
RedisFails(w) ==
    /\ Fault
    /\ \/ /\ pc[w] = "sleep" /\ LeaveTo(w, "died")
          /\ leader' \in {leader, IF leader = None THEN w ELSE leader}
       \/ /\ pc[w] = "scan" /\ LeaveTo(w, IF draining[w] THEN "release" ELSE "died")
          /\ UNCHANGED leader
       \/ /\ pc[w] = "scan" /\ UNCHANGED <<leader, pc, flushing>>
          /\ \E p \in todo[w] : todo' = [todo EXCEPT ![w] = @ \ {p}]
          /\ seen' = [seen EXCEPT ![w] = @ + 1]
       \/ /\ pc[w] = "release" /\ LeaveTo(w, "stopped")
          /\ UNCHANGED leader
    /\ UNCHANGED <<dirtySet, dirty, deleted, isLeader, draining>>

----------------------------------------------------------------------------
(* Shutdown: cancelled at any await, a leader drains and gives the lease up. *)

Cancel(w) ==
    /\ ~Gone(w) /\ pc[w] # "release" /\ ~draining[w] /\ Fault
    /\ IF isLeader[w]
       THEN BeginSweep(w) /\ draining' = [draining EXCEPT ![w] = TRUE]
       ELSE LeaveTo(w, "stopped") /\ UNCHANGED draining
    /\ UNCHANGED <<redis, deleted, isLeader>>

\* Faulty variant: DEL instead of compare-and-delete.
ReleaseWithoutToken(w) ==
    /\ pc[w] = "release"
    /\ leader' = None
    /\ Goto(w, "stopped")
    /\ UNCHANGED <<dirtySet, dirty, deleted, isLeader, draining, todo, seen, flushing, bounds>>

ReleaseLeadership(w) ==
    /\ pc[w] = "release"
    /\ leader' = IF leader = w THEN None ELSE leader
    /\ Goto(w, "stopped")
    /\ UNCHANGED <<dirtySet, dirty, deleted, isLeader, draining, todo, seen, flushing, bounds>>

Crash(w) ==
    /\ ~Gone(w) /\ Fault
    /\ LeaveTo(w, "crashed")
    /\ UNCHANGED <<redis, deleted, isLeader, draining>>

----------------------------------------------------------------------------
(* The environment.                                                        *)

Edit(p) ==
    /\ edits < MaxEdits /\ p \notin deleted
    /\ edits' = edits + 1
    /\ dirty' = dirty \cup {p} /\ dirtySet' = dirtySet \cup {p}
    /\ UNCHANGED <<leader, deleted, task, bad, slow, faults>>

\* soft_delete leaves the snapshot and the dirty set as they are.
SoftDelete(p) ==
    /\ p \in dirty \ deleted /\ bad < MaxBad
    /\ bad' = bad + 1
    /\ deleted' = deleted \cup {p}
    /\ UNCHANGED <<redis, task, edits, slow, faults>>

\* The TTL of seven days leaves the member in the dirty set.
SnapshotExpires(p) ==
    /\ p \in dirty /\ bad < MaxBad
    /\ bad' = bad + 1
    /\ dirty' = dirty \ {p}
    /\ UNCHANGED <<leader, dirtySet, deleted, task, edits, slow, faults>>

\* Five seconds after the last renewal of a task that is gone.
LeaseExpires ==
    /\ leader # None /\ Gone(leader)
    /\ leader' = None
    /\ UNCHANGED <<dirtySet, dirty, deleted, task, bounds>>

\* The same, while its holder is still at a sweep longer than the TTL.
LeaseOutlived ==
    /\ leader # None /\ ~Gone(leader) /\ slow < MaxSlow
    /\ slow' = slow + 1
    /\ leader' = None
    /\ UNCHANGED <<dirtySet, dirty, deleted, task, edits, bad, faults>>

----------------------------------------------------------------------------
Step(w) ==
    \/ Ask(w) \/ Answer(w) \/ ScanEnds(w) \/ ReleaseLeadership(w)
    \/ FlushOK(w) \/ FlushRefused(w)
    \/ \E p \in Post : Visit(w, p)

Next ==
    \/ \E w \in Worker : Step(w) \/ FlushFails(w) \/ RedisFails(w) \/ Cancel(w) \/ Crash(w)
    \/ \E p \in Post : Edit(p) \/ SoftDelete(p) \/ SnapshotExpires(p)
    \/ LeaseExpires \/ LeaseOutlived

Spec == Init /\ [][Next]_vars

\* The event loop runs every task that can go on, and Redis expires its keys.
Fairness == (\A w \in Worker : WF_vars(Step(w))) /\ WF_vars(LeaseExpires)

FairSpec == Spec /\ Fairness

----------------------------------------------------------------------------
(* Properties.                                                             *)

TypeOK ==
    /\ leader \in Worker \cup {None}
    /\ dirtySet \subseteq Post /\ dirty \subseteq dirtySet /\ deleted \subseteq Post
    /\ pc \in [Worker -> {"sleep", "won", "lost", "scan", "flush", "release",
                          "stopped", "crashed", "died"}]
    /\ isLeader \in [Worker -> BOOLEAN] /\ draining \in [Worker -> BOOLEAN]
    /\ todo \in [Worker -> SUBSET Post] /\ seen \in [Worker -> Nat]
    /\ flushing \in [Worker -> Post \cup {None}]
    /\ \A w \in Worker : pc[w] = "flush" => flushing[w] \in Post
    /\ edits \in 0..MaxEdits /\ bad \in 0..MaxBad /\ slow \in 0..MaxSlow /\ faults \in 0..MaxFaults

\* Only one task across the fleet sweeps at a time, as long as no lease lapses
\* under a live holder: through failed renewals, cancellations in the middle of a
\* sweep, drains and crashes (autosave_sweeper).
OneSweeper ==
    slow = 0 => \A v, w \in Worker : Sweeping(v) /\ Sweeping(w) => v = w

\* The lease of a task that is still there ends by its own release or by the TTL,
\* never by the release of a task that lost it, or by a task that wants it.
LeaseEndsByHolder ==
    [][leader # None /\ leader' # leader =>
         Gone(leader) \/ (pc[leader] = "release" /\ pc'[leader] = "stopped") \/ slow' > slow]_vars

\* With fewer posts than Batch that are deleted or have lost their snapshot, every
\* dirty post is flushed in the end unless the whole fleet is gone: those posts
\* stay in the dirty set and use up part of every sweep, but never all of it.
DirtyIsSwept ==
    \A p \in Post :
        p \in dirty \ deleted
            ~> (p \notin dirty \/ p \in deleted \/ \A w \in Worker : Gone(w))

\* The loop only ends when it is cancelled (sweepers/_autosave.py:14), so a dirty
\* post is flushed as long as some task was neither cancelled nor killed.
SweptUnlessCancelled ==
    \A p \in Post :
        p \in dirty \ deleted
            ~> (p \notin dirty \/ p \in deleted
                \/ \A w \in Worker : pc[w] \in {"stopped", "crashed"})
=============================================================================
