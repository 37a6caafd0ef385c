--------------------------- MODULE AutosaveFlush ---------------------------
(***************************************************************************)
(* One blog post whose body is edited through the Redis write-behind       *)
(* buffer (apps/blog/store.py) while sweepers and HTTP requests            *)
(* (apps/blog/services) move it to Postgres.                               *)
(*                                                                         *)
(* A process is a coroutine of some worker: it runs one request, or one    *)
(* sweeper flush, at a time.  Every await on Redis or Postgres ends a step.*)
(* A body and its SHA-256 hash are the same value: the code always derives *)
(* the second from the first.  posts.content_hash and post_contents are    *)
(* written by the same transactions, in the same order, so one field       *)
(* stands for both and one row lock for both row locks.                    *)
(***************************************************************************)
EXTENDS Naturals, Sequences, FiniteSets

CONSTANTS
    Proc,       \* coroutines
    Body,       \* bodies an editor may type
    Ready,      \* the bodies long enough to be published
    InitBody,   \* the body the post was created with
    None,       \* absence: no key, no field, no holder
    Does,       \* [Proc -> SUBSET Kind], what each coroutine may be asked to do
    Faults,     \* the faults of the environment that may happen
    MaxOps,     \* bound on user requests
    MaxFaults   \* bound on faults

Kind == {"autosave", "sweep", "publish", "patch",
         "unpublish", "archive", "delete", "restore"}
Turn == {"unpublish", "archive", "delete"}
FaultKind == {"crash", "abort", "redis", "lockttl", "snapttl"}

ASSUME ConstAssumption ==
    /\ Ready \subseteq Body
    /\ InitBody \in Body
    /\ None \notin Body
    /\ None \notin Proc
    /\ Does \in [Proc -> SUBSET Kind]
    /\ Faults \subseteq FaultKind
    /\ MaxOps \in Nat
    /\ MaxFaults \in Nat

VARIABLES
    snap,      \* Redis HASH blog:autosave:post:<id>
    dirtySet,  \* is the post in the Redis SET blog:autosave:dirty
    lock,      \* Redis key blog:autosave:lock:<id>, its token named by its taker
    db,        \* what Postgres has committed
    rowLock,   \* holder of the row locks of posts and post_contents
    work,      \* the uncommitted state of the row lock's holder; db if none
    pc,        \* where each coroutine is suspended
    loc,       \* its local variables
    ops,       \* user requests so far
    faults     \* faults so far

vars == <<snap, dirtySet, lock, db, rowLock, work, pc, loc, ops, faults>>
redis == <<snap, dirtySet, lock>>
postgres == <<db, rowLock, work>>
bounds == <<ops, faults>>

----------------------------------------------------------------------------
Status == {"draft", "published", "archived"}
Version == [body : Body, status : Status, pub : BOOLEAN, restored : BOOLEAN]
Row == [body : Body, status : Status, deleted : BOOLEAN, versions : Seq(Version)]
Label == {"idle", "save", "get", "load", "acquire", "write", "unlock", "mark",
          "reload", "find", "pubwrite", "patchwrite", "dischash", "discindex",
          "turnwrite", "restorewrite", "commit"}
Local == [op : Kind \cup {"none"}, body : Body \cup {None}, status : Status]

Snapshot(c, f) == [content |-> c, flushed |-> f]
NoSnapshot == Snapshot(None, None)
Ver(b, s, p, r) == [body |-> b, status |-> s, pub |-> p, restored |-> r]
Blank == [op |-> "none", body |-> None, status |-> "draft"]

Dirty == snap.content # None /\ snap.content # snap.flushed
Bodies(vs) == {vs[i].body : i \in DOMAIN vs}
LastOf(vs) == vs[Len(vs)]

\* A transaction sees its own writes, and otherwise what is committed.
View(p) == IF rowLock = p THEN work ELSE db
CanWrite(p) == rowLock \in {None, p}

Init ==
    /\ snap = NoSnapshot
    /\ dirtySet = FALSE
    /\ lock = None
    /\ db = [body |-> InitBody, status |-> "draft", deleted |-> FALSE,
             versions |-> <<Ver(InitBody, "draft", FALSE, FALSE)>>]
    /\ rowLock = None
    /\ work = db
    /\ pc = [p \in Proc |-> "idle"]
    /\ loc = [p \in Proc |-> Blank]
    /\ ops = 0
    /\ faults = 0

Goto(p, l) == pc' = [pc EXCEPT ![p] = l]
Leave(p) == Goto(p, "idle") /\ loc' = [loc EXCEPT ![p] = Blank]

Undo(p) == /\ rowLock' = IF rowLock = p THEN None ELSE rowLock
           /\ work' = IF rowLock = p THEN db ELSE work
           /\ db' = db

\* An exception leaves @transactional or the session dependency: ROLLBACK.
Raise(p) == Leave(p) /\ Undo(p)

Request(p, k, b, l) ==
    /\ pc[p] = "idle" /\ k \in Does[p] /\ ops < MaxOps
    /\ ops' = ops + 1
    /\ loc' = [loc EXCEPT ![p] = [op |-> k, body |-> b, status |-> db.status]]
    /\ Goto(p, l)
    /\ UNCHANGED <<redis, postgres, faults>>

----------------------------------------------------------------------------
(* Autosave: the editor sends a body, which goes to Redis only.            *)

AutosaveCheck(p, b) ==
    /\ ~db.deleted /\ db.status = "draft" /\ b # db.body
    /\ Request(p, "autosave", b, "save")

\* Faulty variant: an unflushed snapshot is not rewritten.
SaveKeepsUnflushed(p) ==
    /\ pc[p] = "save"
    /\ snap' = IF Dirty THEN snap ELSE Snapshot(loc[p].body, snap.flushed)
    /\ dirtySet' = TRUE
    /\ Leave(p)
    /\ UNCHANGED <<lock, postgres, bounds>>

AutosaveSave(p) ==
    /\ pc[p] = "save"
    /\ snap' = Snapshot(loc[p].body, snap.flushed)
    /\ dirtySet' = TRUE
    /\ Leave(p)
    /\ UNCHANGED <<lock, postgres, bounds>>

\* The editor is told "persisted": the body it sent is already in Postgres.
AutosaveNoop(p, b) ==
    /\ ~db.deleted /\ db.status = "draft" /\ b = db.body
    /\ pc[p] = "idle" /\ "autosave" \in Does[p] /\ ops < MaxOps
    /\ ops' = ops + 1
    /\ UNCHANGED <<redis, postgres, pc, loc, faults>>

----------------------------------------------------------------------------
(* flush_one, run by a sweeper or at the start of publish.                 *)

SweepPick(p) ==
    /\ pc[p] = "idle" /\ "sweep" \in Does[p]
    /\ dirtySet /\ Dirty
    /\ loc' = [loc EXCEPT ![p].op = "sweep"]
    /\ Goto(p, "get")
    /\ UNCHANGED <<redis, postgres, bounds>>

PublishStart(p) == Request(p, "publish", None, "get")

\* Faulty variant: publish goes on without reading the post again.
NothingFlushedNoReread(p) ==
    IF loc[p].op = "sweep" THEN Leave(p) ELSE Goto(p, "pubwrite") /\ UNCHANGED loc

\* Faulty variant: a busy lock is taken for a finished flush.
BusyCountsAsFlushed(p) == Goto(p, "mark") /\ UNCHANGED loc

\* flush_one returns None: a sweeper is done, publish goes on without it.
NothingFlushed(p) ==
    IF loc[p].op = "sweep" THEN Leave(p) ELSE Goto(p, "find") /\ UNCHANGED loc

GetSnapshot(p) ==
    /\ pc[p] = "get"
    /\ IF Dirty
       THEN Goto(p, "load") /\ loc' = [loc EXCEPT ![p].body = snap.content]
       ELSE NothingFlushed(p)
    /\ UNCHANGED <<redis, postgres, bounds>>

LoadPost(p) ==
    /\ pc[p] = "load"
    /\ IF db.deleted
       THEN Raise(p)
       ELSE /\ Goto(p, "acquire")
            /\ loc' = [loc EXCEPT ![p].status = db.status]
            /\ UNCHANGED postgres
    /\ UNCHANGED <<redis, bounds>>

\* Faulty variant: SET without NX.
AcquireWithoutNX(p) ==
    /\ pc[p] = "acquire"
    /\ lock' = p /\ Goto(p, "write")
    /\ UNCHANGED <<loc, snap, dirtySet, postgres, bounds>>

AcquireFlushLock(p) ==
    /\ pc[p] = "acquire"
    /\ IF lock = None
       THEN lock' = p /\ Goto(p, "write") /\ UNCHANGED loc
       ELSE NothingFlushed(p) /\ UNCHANGED lock
    /\ UNCHANGED <<snap, dirtySet, postgres, bounds>>

IsPublishTransition(status, prev) == status = "published" /\ prev.status # "published"

\* Faulty variant: the "latest" version is the first one (ascending order).
WithFlushVersionAscending(vs, b, status) ==
    IF vs[1].body = b THEN vs
    ELSE Append(vs, Ver(b, status, IsPublishTransition(status, vs[1]), FALSE))

\* Faulty variant: no row for a body that any version already has.
WithFlushVersionOfNewBody(vs, b, status) ==
    IF b \in Bodies(vs) THEN vs
    ELSE Append(vs, Ver(b, status, IsPublishTransition(status, LastOf(vs)), FALSE))

\* A version row unless the latest one already has this body.
WithFlushVersion(vs, b, status) ==
    IF LastOf(vs).body = b THEN vs
    ELSE Append(vs, Ver(b, status, IsPublishTransition(status, LastOf(vs)), FALSE))

WriteFlush(p) ==
    /\ pc[p] = "write" /\ CanWrite(p)
    /\ rowLock' = p
    /\ work' = [work EXCEPT
         !.body = loc[p].body,
         !.versions = WithFlushVersion(work.versions, loc[p].body, loc[p].status)]
    /\ Goto(p, "unlock")
    /\ UNCHANGED <<redis, db, loc, bounds>>

\* Faulty variant: DEL instead of compare-and-delete.
UnlockWithoutToken(p) ==
    /\ pc[p] = "unlock"
    /\ lock' = None
    /\ Goto(p, "mark")
    /\ UNCHANGED <<snap, dirtySet, postgres, loc, bounds>>

UnlockFlush(p) ==
    /\ pc[p] = "unlock"
    /\ lock' = IF lock = p THEN None ELSE lock
    /\ Goto(p, "mark")
    /\ UNCHANGED <<snap, dirtySet, postgres, loc, bounds>>

\* Faulty variant: marks and unindexes without comparing the content hash.
MarkWithoutCAS(p) ==
    /\ pc[p] = "mark"
    /\ IF snap.content # None
       THEN snap' = [snap EXCEPT !.flushed = loc[p].body] /\ dirtySet' = FALSE
       ELSE UNCHANGED <<snap, dirtySet>>
    /\ Goto(p, "reload")
    /\ UNCHANGED <<lock, postgres, loc, bounds>>

\* Faulty variant: takes the post out of the index first, whatever its hash.
MarkUnindexesAlways(p) ==
    /\ pc[p] = "mark"
    /\ snap' = [snap EXCEPT !.flushed = IF snap.content = loc[p].body THEN loc[p].body ELSE @]
    /\ dirtySet' = FALSE
    /\ Goto(p, "reload")
    /\ UNCHANGED <<lock, postgres, loc, bounds>>

MarkFlushed(p) ==
    /\ pc[p] = "mark"
    /\ IF snap.content = loc[p].body
       THEN snap' = [snap EXCEPT !.flushed = loc[p].body] /\ dirtySet' = FALSE
       ELSE UNCHANGED <<snap, dirtySet>>
    /\ Goto(p, "reload")
    /\ UNCHANGED <<lock, postgres, loc, bounds>>

Reload(p) ==
    /\ pc[p] = "reload"
    /\ IF work.deleted
       THEN Raise(p)
       ELSE /\ Goto(p, IF loc[p].op = "sweep" THEN "commit" ELSE "find")
            /\ UNCHANGED <<loc, postgres>>
    /\ UNCHANGED <<redis, bounds>>

\* The transaction commits: at the end of the sweeper's session.begin(), or
\* in the session dependency after the route has returned.
Commit(p) ==
    /\ pc[p] = "commit"
    /\ db' = View(p)
    /\ rowLock' = IF rowLock = p THEN None ELSE rowLock
    /\ Leave(p)
    /\ UNCHANGED <<redis, work, bounds>>

----------------------------------------------------------------------------
(* publish after its flush_one.                                            *)

FindPost(p) ==
    /\ pc[p] = "find"
    /\ LET post == View(p) IN
       IF post.deleted \/ post.status = "published" \/ post.body \notin Ready
       THEN Raise(p)
       ELSE /\ Goto(p, "pubwrite")
            /\ loc' = [loc EXCEPT ![p].body = post.body]
            /\ UNCHANGED postgres
    /\ UNCHANGED <<redis, bounds>>

\* Faulty variant: the UPDATE also matches soft-deleted rows.
PublishDeleted(p) ==
    /\ pc[p] = "pubwrite" /\ CanWrite(p)
    /\ rowLock' = p
    /\ work' = [work EXCEPT
         !.status = "published",
         !.versions = Append(@, Ver(loc[p].body, "published", TRUE, FALSE))]
    /\ Goto(p, "commit")
    /\ UNCHANGED <<redis, db, loc, bounds>>

\* UPDATE on a row somebody deleted matches nothing; the reload raises.
PublishWrite(p) ==
    /\ pc[p] = "pubwrite" /\ CanWrite(p)
    /\ IF work.deleted
       THEN Raise(p)
       ELSE /\ rowLock' = p
            /\ work' = [work EXCEPT
                 !.status = "published",
                 !.versions = Append(@, Ver(loc[p].body, "published", TRUE, FALSE))]
            /\ Goto(p, "commit")
            /\ UNCHANGED <<db, loc>>
    /\ UNCHANGED <<redis, bounds>>

----------------------------------------------------------------------------
(* PATCH: the authoritative save.  loc.body = None stands for a body equal *)
(* to the one loaded, which is not rewritten.                              *)

PatchStart(p, b) ==
    /\ ~db.deleted
    /\ Request(p, "patch", IF b = db.body THEN None ELSE b, "patchwrite")

PatchWrite(p) ==
    /\ pc[p] = "patchwrite"
    /\ loc[p].body # None => CanWrite(p)
    /\ IF View(p).deleted
       THEN Raise(p)
       ELSE /\ IF loc[p].body = None
               THEN UNCHANGED <<rowLock, work>>
               ELSE rowLock' = p /\ work' = [work EXCEPT !.body = loc[p].body]
            /\ Goto(p, "dischash")
            /\ UNCHANGED <<db, loc>>
    /\ UNCHANGED <<redis, bounds>>

DiscardHash(p) ==
    /\ pc[p] = "dischash"
    /\ snap' = NoSnapshot
    /\ Goto(p, "discindex")
    /\ UNCHANGED <<dirtySet, lock, postgres, loc, bounds>>

DiscardIndex(p) ==
    /\ pc[p] = "discindex"
    /\ dirtySet' = FALSE
    /\ Goto(p, "commit")
    /\ UNCHANGED <<snap, lock, postgres, loc, bounds>>

----------------------------------------------------------------------------
(* unpublish, archive, soft_delete: the status is checked on a plain read. *)

TurnStart(p, k) ==
    /\ ~db.deleted
    /\ k = "unpublish" => db.status = "published"
    /\ k = "archive" => db.status # "archived"
    /\ Request(p, k, None, "turnwrite")

Turned(row, k) ==
    CASE k = "unpublish" -> [row EXCEPT !.status = "draft"]
      [] k = "archive"   -> [row EXCEPT !.status = "archived"]
      [] k = "delete"    -> [row EXCEPT !.deleted = TRUE]

TurnWrite(p) ==
    /\ pc[p] = "turnwrite" /\ CanWrite(p)
    /\ IF work.deleted
       THEN Raise(p)
       ELSE /\ rowLock' = p
            /\ work' = Turned(work, loc[p].op)
            /\ Goto(p, "commit")
            /\ UNCHANGED <<db, loc>>
    /\ UNCHANGED <<redis, bounds>>

----------------------------------------------------------------------------
(* restore: an old version becomes the body again; Redis is not told.  On a *)
(* post deleted meanwhile only post_contents and post_versions change.     *)

RestoreStart(p, i) ==
    /\ ~db.deleted
    /\ Request(p, "restore", db.versions[i].body, "restorewrite")

RestoreWrite(p) ==
    /\ pc[p] = "restorewrite" /\ CanWrite(p)
    /\ rowLock' = p
    /\ work' = [work EXCEPT
         !.body = loc[p].body,
         !.versions = Append(@, Ver(loc[p].body, loc[p].status, FALSE, TRUE))]
    /\ Goto(p, "commit")
    /\ UNCHANGED <<redis, db, loc, bounds>>

----------------------------------------------------------------------------
(* The environment.                                                        *)

Fault(f) == f \in Faults /\ faults < MaxFaults /\ faults' = faults + 1 /\ UNCHANGED ops

\* The worker dies: Postgres rolls back, its Redis lock stays.
Crash(p) ==
    /\ pc[p] # "idle" /\ Fault("crash")
    /\ Raise(p)
    /\ UNCHANGED redis

InFlushLock(p) == pc[p] \in {"write", "unlock"}

\* A statement, the commit or the client's connection fails: the exception
\* unwinds the lock's context manager and the transaction.
Abort(p) ==
    /\ pc[p] # "idle" /\ Fault("abort")
    /\ lock' = IF InFlushLock(p) /\ lock = p THEN None ELSE lock
    /\ Raise(p)
    /\ UNCHANGED <<snap, dirtySet>>

\* Redis does not answer, twice, and the client returns its fallback: no snapshot,
\* no lock (whether or not SET NX was applied), nothing deleted.  The release of
\* the lock logs the failure; the other scripts raise, which is Abort.
RedisFails(p) ==
    /\ Fault("redis")
    /\ \/ pc[p] = "get" /\ NothingFlushed(p) /\ UNCHANGED lock
       \/ /\ pc[p] = "acquire" /\ NothingFlushed(p)
          /\ lock' \in {lock, IF lock = None THEN p ELSE lock}
       \/ pc[p] = "unlock" /\ Goto(p, "mark") /\ UNCHANGED <<loc, lock>>
       \/ pc[p] = "dischash" /\ Goto(p, "discindex") /\ UNCHANGED <<loc, lock>>
    /\ UNCHANGED <<snap, dirtySet, postgres>>

\* The TTL of the lock of a dead process, or of one whose answer was lost.
OrphanLockExpires ==
    /\ lock # None /\ ~InFlushLock(lock)
    /\ lock' = None
    /\ UNCHANGED <<snap, dirtySet, postgres, pc, loc, bounds>>

\* The TTL of the lock of a process slower than 30 seconds.
LockOutlived ==
    /\ lock # None /\ InFlushLock(lock) /\ Fault("lockttl")
    /\ lock' = None
    /\ UNCHANGED <<snap, dirtySet, postgres, pc, loc>>

SnapshotExpires ==
    /\ snap # NoSnapshot /\ Fault("snapttl")
    /\ snap' = NoSnapshot
    /\ UNCHANGED <<dirtySet, lock, postgres, pc, loc>>

Quiet == \A p \in Proc : pc[p] = "idle"
Idle == Quiet /\ UNCHANGED vars

----------------------------------------------------------------------------
FlushStep(p) ==
    \/ GetSnapshot(p) \/ LoadPost(p) \/ AcquireFlushLock(p) \/ WriteFlush(p)
    \/ UnlockFlush(p) \/ MarkFlushed(p) \/ Reload(p)

\* What a coroutine does once it has started.
Step(p) ==
    \/ FlushStep(p) \/ Commit(p) \/ AutosaveSave(p)
    \/ FindPost(p) \/ PublishWrite(p)
    \/ PatchWrite(p) \/ DiscardHash(p) \/ DiscardIndex(p)
    \/ TurnWrite(p) \/ RestoreWrite(p)

Start(p) ==
    \/ \E b \in Body : AutosaveCheck(p, b) \/ AutosaveNoop(p, b) \/ PatchStart(p, b)
    \/ PublishStart(p)
    \/ \E k \in Turn : TurnStart(p, k)
    \/ \E i \in DOMAIN db.versions : RestoreStart(p, i)

Environment ==
    \/ \E p \in Proc : Crash(p) \/ Abort(p) \/ RedisFails(p)
    \/ OrphanLockExpires \/ LockOutlived \/ SnapshotExpires

Next ==
    \/ \E p \in Proc : Start(p) \/ SweepPick(p) \/ Step(p)
    \/ Environment
    \/ Idle

Spec == Init /\ [][Next]_vars

\* A started coroutine is scheduled again, a sweeper ticks, a TTL ends.
Fairness ==
    /\ \A p \in Proc : WF_vars(Step(p)) /\ WF_vars(SweepPick(p))
    /\ WF_vars(OrphanLockExpires)

FairSpec == Spec /\ Fairness
----------------------------------------------------------------------------
RedisOK ==
    /\ snap \in [content : Body \cup {None}, flushed : Body \cup {None}]
    /\ dirtySet \in BOOLEAN
    /\ lock \in Proc \cup {None}

PostgresOK ==
    /\ db \in Row
    /\ work \in Row
    /\ rowLock \in Proc \cup {None}

\* What a coroutine's next statement needs, it holds.
HoldsBody == {"save", "load", "acquire", "write", "unlock", "mark", "reload",
              "pubwrite", "restorewrite"}

ControlOK ==
    /\ pc \in [Proc -> Label]
    /\ loc \in [Proc -> Local]
    /\ \A p \in Proc : /\ pc[p] \in HoldsBody => loc[p].body \in Body
                       /\ pc[p] = "turnwrite" => loc[p].op \in Turn

BoundsOK == ops \in 0..MaxOps /\ faults \in 0..MaxFaults

\* Every variable has its type, and a suspended coroutine has assigned the locals
\* it will use.
TypeOK == RedisOK /\ PostgresOK /\ ControlOK /\ BoundsOK

\* store.py 306-308: a flusher whose lock has timed out never frees the lock
\* somebody else took since.  A live holder loses its lock by a step of its
\* own or by the TTL, and by nothing else.
LockRemovedOnlyByOwner ==
    [][\A p \in Proc : lock = p /\ InFlushLock(p) /\ lock' # p
            => pc'[p] # pc[p] \/ (lock' = None /\ faults' # faults)]_vars

\* Two flushes of a post never write at once, as long as none of them outlives
\* the lock's TTL (store.py 18-19).
FlushMutex == \A p, q \in Proc : InFlushLock(p) /\ InFlushLock(q) => p = q

\* _autosave_service.py 290-291: a flush adds no version equal to the one before
\* it, however flushes, restores and publications interleave.
FlushAddsNoDuplicate ==
    \A i \in 2..Len(db.versions) :
        \/ db.versions[i].pub \/ db.versions[i].restored
        \/ db.versions[i].body # db.versions[i - 1].body

\* A request that loaded the post before it was soft-deleted does not change it
\* afterwards.  restore is the exception: it does not look again, and appends
\* its version to the deleted post.
DeletedIsFinal ==
    [][db.deleted => /\ db'.deleted /\ db'.status = db.status
                     /\ db' # db => \E p \in Proc : /\ pc[p] = "commit"
                                                    /\ loc[p].op = "restore"]_vars

\* Without PATCH, a dirty snapshot is in the index the sweeper scans
\* (store.py 17): otherwise no sweep would ever find it.
DirtyIndexed == Dirty => dirtySet

\* Without PATCH and publish, the newest version is the post's body: the body can
\* be restored whatever happens next (FR-001, _autosave_service.py 290).
HistoryHead == LastOf(db.versions).body = db.body

\* Without publish, crashes and failed statements, a body the store calls flushed
\* is a committed version or one the row lock's holder is about to commit.
FlushedIsStored ==
    snap.flushed # None =>
        snap.flushed \in Bodies(db.versions) \cup Bodies(work.versions) \/ db.deleted

\* Without PATCH, whatever is dirty is some day flushed or expires, or its post is
\* deleted: neither a busy lock nor a second sweeper keeps it for ever
\* (_autosave.py 1-11).
DirtyDrains == Dirty /\ ~db.deleted ~> ~Dirty \/ db.deleted
=============================================================================
