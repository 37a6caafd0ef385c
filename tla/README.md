# A verification model of fastapi-base

TLA+ specifications, TLC runs and TLAPS proofs for the parts of this service
where order, failure and concurrency decide whether it is right. The code is an
async FastAPI application on Postgres (SQLAlchemy) and Redis, run by several
uvicorn workers; every `await` is a point where another coroutine, or another
worker, may run.

- [Inventory](#inventory): the parts of the system, their state, what is hard
- [Modules](#modules): which module models what, and how it maps to the code
- [Runs](#runs): what TLC checks, the bounds, why they are enough
- [Proofs](#proofs): what holds for every instance
- [Divergences](#divergences): where the code and its own words disagree
- [Fairness](#fairness), [Abstractions](#abstractions), [Not modelled](#not-modelled), [Plan](#plan)

## Inventory

Paths are below `src/apps/`.

| Component | State | Operations | What is hard |
|---|---|---|---|
| **Autosave buffer** `blog/store.py`, `blog/services/_autosave_service.py` | Redis: a HASH per post (`content_hash`, `flushed_hash`, body), a SET of dirty posts, a lock per post; Postgres: `posts`, `post_contents`, `post_versions` | `autosave`, `flush_one`, `discard`, the Lua scripts | two stores without a common transaction: the mark precedes the commit; TTLs; several flushers; Redis errors with silent fallbacks |
| **Post service** `blog/services/_posts.py`, `_content_writer.py` | the row of the post | create, PATCH, publish, unpublish, archive, soft_delete | checks on unlocked reads; commit after the route's Redis effects |
| **Autosave sweepers** `blog/sweepers/_autosave.py` | a lease in Redis, `is_leader` of each worker | elect, renew, sweep a batch, drain on cancellation | leader gone or slow, cancellation at any await, a dirty set full of posts no flush can clean |
| **Versions and retention** `blog/repositories/_post_version.py`, `blog/services/_versions.py`, `blog/sweepers/_post_version.py` | `post_versions` | append with `MAX+1`, restore, trim | SELECT then DELETE beside concurrent appends |
| **Post cache** `blog/services/_cache.py`, `core/redis/cache.py` | generation counter and detail entries in Redis | read-through, invalidate | invalidation before commit; generation read twice; fallbacks |
| **Engagement** `blog/services/_likes.py`, `_comments/`, `_comment_moderation.py`, `blog/sweepers/_comment_moderation.py` | comments, likes, trigger-maintained counters | like, comment, reply, edit, delete, moderate, reconcile, purge stale | check-then-update; a decision between tombstone and cascade; counters overwritten |
| **Auth** `auth/` | refresh tokens, one-time codes, TOTP secret and counter, user cache | register, resend, verify, sign in, refresh, log out, set up, enable and disable 2FA | effects rolled back by the error that follows; cached users; replay |
| **RBAC** `rbac/` | relational grants, stored Casbin rules, a copy of them per worker | assign, grant, revoke, seed, compensate, reload | two writes without a common transaction, in either order; lost notifications |
| **Workspaces** `workspace/` | workspaces, memberships | create, configure, delete, add, change role, remove | counted invariants under write skew |
| **Products** `product/` | products, categories, images | create, update, delete | updates that lock nothing; replacing images |
| **Users** `user/` | the users row | register, link, delete | unique columns that count deleted rows |
| **Taxonomy** `blog/services/_categories.py`, `_tags.py` | categories, tags | CRUD | pages in the cache that show them |
| **Session and repositories** `core/database/` | transaction per request | commit at teardown, rollback on an exception | `@transactional` joins a transaction that is already open |
| **Redis client** `core/redis/client.py` | pool | one retry, then a fallback value; raw commands raise | the caller cannot tell "no" from "unknown" |
| Tiptap, storage, email, middleware, settings | none of their own | pure functions, adapters | - |

How they interact. An editor's keystrokes arrive at `PUT .../autosave` and go to
Redis only. Sweepers (one task per worker, one leader), and `publish` before it
changes the status, call `flush_one`, which moves the snapshot into Postgres in
one transaction and marks it flushed in Redis. PATCH writes Postgres and discards
the snapshot. `restore` writes an old version back without telling Redis. Every
write appends to `post_versions` or not, and the retention sweeper deletes from
it. In a request the transaction is already open when the service is called (the
workspace dependency has run a SELECT), so `@transactional` joins it and
`session_factory` commits after the route has returned: **all effects on Redis
come before the commit**.

What makes each part right:

- *Buffer*: edits reach Postgres in the order they were typed; what Redis calls
  clean is stored; what is dirty is indexed and drains; one flush of a post at a
  time; a lock is freed by its owner only.
- *Posts*: deletion is final; a PATCH is not overwritten by what it superseded.
- *Versions*: the newest version is the body; no repeated row; numbers unique;
  published snapshots for ever; the cap kept from both sides.
- *Sweepers*: one at a time; a lease ends by its holder or by its TTL; nothing
  dirty is starved.
- *Cache*: an answer was true at some moment of the request; no page that was
  never public; after the last write the cache comes to agree with the database.
- *Engagement*: counters equal the rows; what was hidden stays hidden; what was
  approved goes only with its author; the moderation queue empties.
- *Auth*: a login has one live token; a code counts once and is superseded by a
  fresh one; 2FA is on only for a secret that was proven.
- *RBAC*: stored rules have rows behind them, rows have rules, workers converge.
- *Workspaces*: there is an owner, and no more members than the limit.
- *Products*: images of one request; a deletion is final.

The full list of hazards, each at its line, is in `PROJECT.json`.

## Modules

**`AutosaveFlush`** is the core: one post, any number of coroutines. A coroutine
is idle or suspended in a request or in a sweeper's flush; `pc` says before which
await, `loc` holds its locals.

| Variable | Code |
|---|---|
| `snap` | HASH `blog:autosave:post:<id>`: content and `flushed_hash` |
| `dirtySet` | membership of the post in `blog:autosave:dirty` |
| `lock` | `blog:autosave:lock:<id>`; the token is the name of its taker |
| `db`, `work`, `rowLock` | committed row, uncommitted row, holder of the row lock |
| `ops`, `faults` | bounds only |

`GetSnapshot`, `LoadPost`, `AcquireFlushLock`, `WriteFlush`, `UnlockFlush`,
`MarkFlushed`, `Reload`, `Commit` are the awaits of `flush_one`, in order;
`FindPost` and `PublishWrite` the rest of `publish`; `PatchWrite`, `DiscardHash`,
`DiscardIndex` those of PATCH (`discard` is DEL, then SREM); `TurnWrite` those of
unpublish, archive and soft_delete; `RestoreWrite` that of restore. An `...Start`
action is the read and the checks a request begins with. Faults: `Crash`
(the Redis lock stays), `Abort` (an exception: the lock's context manager and the
transaction unwind), `RedisFails` (the client's fallbacks), `LockOutlived`,
`SnapshotExpires`.

**`WriteBehind`** states what the buffer promises: an ordered, coalescing buffer.
**`AutosaveHistory`** adds to `AutosaveFlush` variables that only observe (the
edits accepted, which of them a flusher has read, which is stored) and maps
`durable` to `db.body` and `buffer` to the edits after the stored one.

**`PostVersions`**: the version rows of one post. A writer takes the row lock by
updating `posts`, computes `MAX(version) + 1`, inserts and commits; the sweeper
discovers, lists what to keep, deletes, commits. It keeps version numbers, which
`AutosaveFlush` does not, and forgets bodies.

**`AutosaveSweepers`**: the tasks of a fleet, the lease, the dirty set of several
posts. A flush is one step here, which stores or fails. `draining` is the sweep in
the `except CancelledError` branch.

How they fit: `AutosaveSweepers` chooses who sweeps and which posts;
`AutosaveFlush` is one flush, and allows several flushers at once, because a lease
can lapse under its holder; `PostVersions` refines the table that `WriteFlush`,
`PublishWrite` and `RestoreWrite` append to.

**`PostCache`**: what a page shows (`row`), the generation and the entries in
Redis, writers and visitors. A writer checks (`Start`), updates and holds the row
(`Update`), bumps the generation (`InvalidateWorkspace`) and commits (`Commit`):
the bump is before the commit, because `session_factory` commits after the route.
A visitor's awaits are `DetailKey`, `GetDetail`, `Load`, `DetailKeyAgain`,
`PutDetail`. `restore`, and what renames a category or tag or moves a counter,
changes the page and announces nothing. It refines no body: `text` is a number
that every change of the page increments; `AutosaveFlush` is where the body goes.

**`Engagement`**: one post, its likes and comments, the callers' requests, the
moderators', `reconcile_counters` and the purge. A request is a check and, later,
a write with its commit: the write's row lock is held until the commit, so no
other write comes between the two. `Count` is the trigger. `purge` is what the
sweeper's subquery has chosen. `Grows` is the clock: past the edit window, and
past the TTL of a pending comment.

**`Accounts`**: one user. Registration, Google sign-in, `resend`, `verify`,
login, refresh, logout, deletion. `CreateUser` and `GetOrCreateOAuthUser` commit
on their own, since those requests have no transaction open; a code is generated
and mailed (`IssueAndSend`) before the commit that makes it usable (`CommitCode`).
What an exception rolls back is `Fails`: a wrong code's attempt, and the
revocation that follows a used refresh token, leave nothing behind.
**`TwoFactor`**: the second factor of one user, the clock in slices of 30 s, and
the user cache, from which `setup`, `enable` and `disable` take their user, and
`rotate_secret_storage` (`RotateSelect`, `RotateUpdate`), which the runbook runs
beside the application, before the workers get the new key (`Roll`). The two share
no column, so **`MCAuthentication`** explores one while the other rests.

**`Rbac`**: rows, the stored rules, each worker's memory. A request is `ambient`
when its session is in a transaction already: rules first, row last. Otherwise it
commits its row and writes the rules then (`services/__init__.py` 41-55).
`AddToMemory` / `StoreRules` are casbin's two halves: memory, then table, and the
table only if the memory changed (`NotWritten`: Casbin answers False, nobody looks,
and what stays undone is noted in `refused`).
`LoadBegins` / `LoadEnds` are a heartbeat's or a watcher's `load_policy`, with the
table read at the beginning.

**`Workspace`**: a request passes the gate (`OwnerRequest`), checks, and writes one
row. **`Catalog`**: products, categories, images; an update is the steps of
`ProductService.update`, each statement with its own snapshot. **`MCServices`**
explores one while the other rests: they share no row.

Observers. Several of these modules carry a variable that only records that
requests overlapped in the way the code does not guard against, and the property
names it as its exception: `overtaken`, `drift` and `crossed` (Engagement), `race`
(PostCache), `shared` (Accounts), `crossed` (TwoFactor, Rbac, Workspace), `failed`
(Rbac: what a fault was about, which the code logs or raises; its `crossed` also has the
member a page missed), `refused` (Rbac: the rules that a request did not store or
remove because Casbin answered False; this one needs no overlap), `mixed` and `late`
(Catalog). Each has its meaning in a comment where it is declared;
without it, TLC finds a counterexample, and those that contradict the repository's
words are listed under [Divergences](#divergences).

`MC*` modules name model values and choose what each coroutine does. A `Faulty
variant` operator is a plausible bug; replacing the definition after it by the
variant must break a property (`mutants` in `PROJECT.json`).

## Runs

| Run | Instance | Shows |
|---|---|---|
| `flush_faults` | 3 coroutines, every operation, 2 bodies, 4 requests, 1 fault of any kind | `TypeOK`, `FlushAddsNoDuplicate`, `LockRemovedOnlyByOwner`, `DeletedIsFinal` |
| `two_flushers` | an editor (autosave, restore, archive, delete) and 2 sweepers, 2 bodies, 4 requests, 1 Redis error or expired snapshot; fair | `FlushMutex`, `DirtyIndexed`, `HistoryHead`, `FlushedIsStored`, `DirtyDrains` |
| `write_behind` | 2 editor tabs, 1 flusher, 3 bodies, 4 requests, 1 Redis error; fair | `ImplementsWriteBehind`, `EditorConverges` |
| `versions` | 2 writers, 1 sweeper, cap 2, slack 1, 6 rows; fair | `TypeOK`, `NumberIsFree`, `PublishedKept`, `RetentionFloor`, `OverCapIsTrimmed` |
| `sweepers` | 2 tasks, 3 posts, batch 2, 3 edits, 1 post that cannot be flushed, 1 lapsed lease, 1 other fault; fair | `TypeOK`, `OneSweeper`, `LeaseEndsByHolder`, `DirtyIsSwept` |
| `engagement` | 2 users, both moderators, one the author of the post; anonymous visitors; 2 comments; batch 1; 4 requests; fair purge | `TypeOK` (with the CHECK constraints), `CountersMatch`, `HiddenStaysHidden`, `ApprovedIsKept`, `StalePendingGoes` |
| `post_cache` | 1 post, 2 slugs, 2 writers, 1 visitor, 2 writes, 2 visits, 1 Redis command that falls back; fair | `AnswersAreCurrent`, `DraftsStayPrivate`, `CacheConverges` |
| `authentication` | 3 clients, 3 codes, 3 tokens, 2 attempts, 5 requests; 2 sessions, 2 secrets, 3 slices, 4 requests, 1 rotation of the key | `AuthenticationTypeOK`, `OneActivePerLogin`, `OnlyFreshCodeConfirms`, `CodeAcceptedOnce`, `EnabledIsProven` |
| `rbac` | 2 administrators on 2 workers, 2 users, 2 roles, pages of 1, a group with one member and one role, a role that the other user has of its own, 2 requests, 1 fault; fair | `GrantsAreBacked`, `RowsAreEnforced`, `EnforcersConverge` |
| `services` | 3 users, 2 workspaces, 2 slugs, limit 2, 5 requests; 2 administrators, 2 products, 1 category, 3 requests | `ServicesTypeOK`, `OwnersStay`, `ImagesOfOneRequest`, `DeletedStays` |

Why the bounds are enough to mean something. A flush races at most with one other
flush and one writer, so three coroutines; a third body is only needed to see a
text overtaken twice. Four requests let an edit arrive before, during and after a
flush and still leave room for a restore or a deletion. One fault suffices for
every single-failure argument of the code (nothing in it is built to survive two).
Batch 2 of 3 posts is the smallest sweep that is cut off; one unflushable post is
the largest number below the batch. Six rows pass cap and slack twice.
In `engagement`, four requests are a comment, a reply and two that collide over
them (or a like and a reconcile around it); batch 1 makes two stale comments two
purges. In `post_cache`, two writes and two visits are a page cached, changed and
asked for again, or two writes around one visit. In `authentication` two codes are
superseded by a third, and five requests are a registration, a confirmation, a
login and two refreshes. In `rbac`, a page of one member makes the fan-out take two
pages; the group starts with a member and a role so that two requests suffice to add
another of each, and to fail in one while the other pages; user 1 starts with role 1 of
its own, so that two requests (the group gets role 1, user 1 joins) make Casbin refuse a
batch of which one rule is new. In `services`, two of three users as the limit is
where additions meet, and three writes are an update between two others.

`Sweepers.cfg` and `SweeperDies.cfg` switch the deadlock check off: a fleet that
was shut down, or has died, stops. So do `Engagement`, `PostCache`,
`Authentication`, `Rbac` and `Services.cfg`, because requests are bounded and the
system then rests. The type invariants of `PostCache`
and `Rbac` are proved; the runs spend their properties elsewhere.

Runs that must fail, each against a sentence of the repository:

| Run | The code |
|---|---|
| `patch_overwritten` | A sweeper reads the snapshot, PATCH commits and discards, the sweeper writes the older text (`_posts.py:357-358`). |
| `sweeper_dies` | A Redis error in `eval` or `sscan` leaves the loop; the worker has no sweeper until it restarts (`sweepers/_autosave.py:14`). The RBAC heartbeat (`rbac/enforcer.py:284`) catches what this loop does not. |

Some properties hold only without certain operations, and say so. `DirtyIndexed`
excludes PATCH, whose `discard` is two commands; `HistoryHead` excludes PATCH,
which appends no version, and publish, whose snapshot is read before the row
lock; `FlushedIsStored` excludes publish and failures, because the mark precedes
the commit ([Divergences](#divergences)). `OneSweeper` speaks of runs in which no lease lapses under a
live holder: the TTL is 5 s and a batch of 50 flushes may take longer. That is
why `two_flushers` has two flushers.

## Divergences

Besides the two runs that must fail, these disagreements between the code and the
repository's words came up while modelling. Each is in the model, and the property
next to it names it as an exception.

- *Clean, not stored.* `store.py:142` says of `is_dirty` "True iff the in-Redis
  content has not been flushed to Postgres". `flush_one` marks before the commit;
  a `publish` that then fails its readiness check rolls the flush back, and the
  snapshot is clean (`FlushedIsStored`).
- *A refused mark.* `store.py:109-113` says that a save that landed during a flush
  leaves the post dirty. A save that goes back to the text flushed before does not:
  `save` keeps `flushed_hash` (`EditorConverges`).
- *The newest version purged.* `models.py:290-292` says that the sweeper deletes
  what is outside the cap. A version committed between the SELECT and the DELETE of
  `trim_post` is not in the list to keep, and is deleted (`RetentionFloor` speaks
  of the number only).
- *Hidden at once.* `services/_posts.py:212-214` says that unpublishing a post hides
  it immediately. A reader between the bump and the commit, or one that read before
  and stores after, puts the old page under the new generation, where it stays for
  the TTL (`AnswersAreCurrent`, `CacheConverges`).
- *Replies of a tombstone.* `repositories/_post_comment.py:193-195` says that approved
  replies remain readable when their parent is a tombstone. The list of replies asks
  for a parent that is not deleted, so they are not (`RepliesList`).
- *Approved after rejected.* `enums.py:34-36` calls a rejection terminal. Two
  moderators who both found the comment pending decide one after the other, and an
  approval that comes last stands (`HiddenStaysHidden`).
- *Revoked tokens.* `_tokens.py:109-113` says that a used refresh token revokes its
  family. The exception two lines further down rolls the UPDATE back in the same
  session; so it does with the attempt a wrong code has counted
  (`_email_verification.py:78`).
- *One code, twice.* `_two_factor.py:105-107` says that a slice counts once. The
  counter comes from an unlocked read or from a cached user; nothing calls
  `invalidate_user_cache` (`CodeAcceptedOnce`).
- *Rotation with no downtime.* `docs/runbooks/auth-totp-rotation.md` 3.3 lets
  `rotate_secret_storage` run while the application serves. Its UPDATE writes back
  what its SELECT had read: of a user who sets up and enables another secret in
  between, the old one returns, enabled and never proven (`EnabledIsProven`). And a
  worker fails on the rows from the script's commit on, not only while workers are
  rolled (`Readable`).
- *The last owner.* `workspace/services.py:8-9` says that every workspace keeps an
  owner. Two owners who demote each other both count two (`OwnersStay`).
- *Roles inherited through a group.* `services/__init__.py:23-25` says that a rule is "also
  written for every role the user inherits via group membership". `add_user_to_group` and
  `assign_role_to_group` hand all their rules to Casbin in one call and ignore the answer
  (`_group.py:110-112`, `140-142`). A batch with one rule that the worker knows already is
  refused whole: who holds one of a group's roles does not get the others, and a role given
  to a group that one member holds already reaches none of its members. This takes one
  sequential request, no fault, and leaves no log (`RowsAreEnforced` excepts it by
  `refused`, for inherited roles and object grants only; without the exception TLC shows
  it: the group gets role 1, which user 1 has, user 1 joins, and role 2 is lost).
- *Revoked on another worker.* `_metrics.py:3-7` says that drift between the rows and the
  rules is counted and logged, and `services/__init__.py:53-55` that commit-then-policy-sync
  closes the silent-privilege-escalation hole. A revocation on a worker that does not know
  the rule yet (a message lost, or on its way) deletes the row and leaves the rule, without
  a log, and every worker comes to enforce it (`GrantsAreBacked`
  excepts it by `refused`). The reverse: a grant on a worker that still remembers a revoked rule
  commits its row and stores no rule (`RowsAreEnforced` excepts it likewise).
- *Members and roles of a group* added at the same time do not see each other's rows,
  and the user does not get the role's rule (`RowsAreEnforced`; `services/__init__.py:23-25`
  says every inherited role is written).
- *A member between two pages.* The same sentence fails when a role is added to a group
  of several pages: `_db_assign_role_to_group` pages with OFFSET, one statement per page, and a
  membership that a failed request takes back in between moves the next page past a
  member (`Missed`, `_group.py:228-243`).
- *Images.* `product/schemas.py:115-116` says that the image set is replaced entirely.
  Two updates with nothing but images lock no common row and leave both sets
  (`ImagesOfOneRequest`).
- *A deleted category.* `product/services.py:129` says that products lose the key. The
  deletion writes `deleted_at` only, and they keep it (`SoftDelete`).

## Fairness

`AutosaveFlush`: weak fairness of every started coroutine (the event loop and the
databases answer), of a sweeper's tick while the post is dirty and indexed, and of
the expiry of an orphaned lock. Requests, saves and faults are not fair. Weak
fairness is enough for a waiting row lock, since its holder is fair too.
`PostVersions`: weak fairness of transactions and of the sweeper's tick; strong
fairness of its later steps, because the trim of a post that failed is caught and tried
again on a later tick, and is not assumed to fail for ever. That holds for the trim of one
post only: the election and the discovery (`sweepers/_post_version.py:79`, `153-159`) are not
guarded, and an exception there ends the task for good, as in `sweeper_dies`. The liveness of
`PostVersions` and of `AutosaveFlush` is therefore that of a loop that lives. `AutosaveSweepers`: weak fairness of each
task that is not gone, and of Redis expiring the lease of one that is.
`Engagement`: weak fairness of the purge's selection (the sweeper ticks every hour
on whichever worker leads, and again takes for granted that the loop there lives) and
strong fairness of its DELETE: a purge that fails is caught and retried on the next tick. `PostCache`: weak fairness of a writer that goes on or fails, of a
visitor's steps, and of the expiry of entries that have a TTL; requests are not
fair. `Rbac`: weak fairness of a request that was begun and of both halves of each
worker's heartbeat, which catches every exception but the cancellation.
`Accounts`, `TwoFactor`, `Workspace` and `Catalog` state safety only: nothing in
those services promises that something happens without a request.

## Proofs

Checked by TLAPS for every value of the constants (any number of coroutines, bodies,
workers, users, pages, requests and faults), from the assumptions on the constants
that the modules name. Every invariant and every action property of a passing run
is a theorem, and so is the refinement; what is left is liveness.

| Theorem | Property | Extra assumption |
|---|---|---|
| `AutosaveFlush_proofs!TypeCorrect` | `TypeOK` | |
| `AutosaveFlush_proofs!LockSafety` | `LockRemovedOnlyByOwner` | |
| `AutosaveFlush_proofs!FlushMutexHolds` | `FlushMutex` | no flush outlives the lock's TTL |
| `AutosaveFlush_proofs!DirtyIsIndexed` | `DirtyIndexed` | nobody PATCHes |
| `AutosaveFlush_proofs!NoDuplicateVersions` | `FlushAddsNoDuplicate` | |
| `AutosaveFlush_proofs!DeletedStays` | `DeletedIsFinal` | |
| `AutosaveFlush_proofs!HistoryHasHead` | `HistoryHead` | nobody PATCHes or publishes |
| `AutosaveFlush_proofs!FlushedStaysStored` | `FlushedIsStored` | nobody publishes, no crash, no failed statement |
| `AutosaveFlush_proofs!StoresInOrder` | `ImplementsWriteBehind` | one flusher; nobody publishes, PATCHes or restores |
| `PostVersions_proofs!TypeCorrect`, `NumbersAreFree`, `PublishedStays` | `TypeOK`, `NumberIsFree`, `PublishedKept` | |
| `PostVersions_proofs!FloorIsKept` | `RetentionFloor` | one sweeper |
| `AutosaveSweepers_proofs!TypeCorrect`, `OneTaskSweeps`, `LeaseIsRespected` | `TypeOK`, `OneSweeper`, `LeaseEndsByHolder` | |
| `Engagement_proofs!TypeCorrect`, `CountersAreRight`, `DeletedStaysHidden`, `ApprovedStays` | `TypeOK`, `CountersMatch`, `HiddenStaysHidden`, `ApprovedIsKept` | |
| `PostCache_proofs!ReadThrough`, `NothingPrivate` | `AnswersAreCurrent`, `DraftsStayPrivate` | |
| `Authentication_proofs!TypesCorrect`, `OneActiveToken`, `FreshCodeConfirms`, `NoCodeTwice`, `OnlyProvenSecrets` | `AuthenticationTypeOK`, `OneActivePerLogin`, `OnlyFreshCodeConfirms`, `CodeAcceptedOnce`, `EnabledIsProven` | |
| `Services_proofs!TypesCorrect`, `WorkspacesAreOwned`, `OneImageSet`, `DeletedRowsStay` | `ServicesTypeOK`, `OwnersStay`, `ImagesOfOneRequest`, `DeletedStays` | |
| `Rbac_proofs!TypesCorrect`, `StoredIsBacked`, `RowsEnforced` | `TypeOK`, `GrantsAreBacked`, `RowsAreEnforced` | |

The assumptions in the last column are those under which the run that checks the
property is made; without them TLC finds a counterexample. Assumptions on the
constants that a proof brought to light are stated where the constant is declared:
that `None` is no row, user or slug (`Workspace`, `Catalog`, `PostCache`), that the
seeded rows of `Catalog` have different slugs.

The arguments. `TypeOK`, or the invariant named, is the inductive strengthening;
TLC has checked each of them on the instance of its run before it was proved.

- *Mutex*: a coroutine inside the critical section is the holder of `lock`; only
  `LockOutlived` removes a lock from a live holder, and the assumption excludes it.
- *No duplicates*: the invariant speaks of `work` as well as of `db`, and of who
  holds the row lock (`work = db` when nobody does), because the latest row is
  read under the row lock and the comparison is worth nothing without it.
- *Deletion*: a row lock's holder that has seen the post deleted has changed
  nothing but what `restore` may; so its commit keeps status and deletion.
- *Flushed is stored*: the body a flusher carries after its write is in `work`,
  and stays there until its own commit, since it keeps the row lock; whoever
  marks is such a flusher. One failed statement breaks exactly this step.
- *Order* (`OrderInv`): the snapshot holds the newest edit; a flusher carries the
  edit it has read, which is not older than the stored one, because no other flusher
  stores; the row lock's holder prepares that edit or leaves the body alone. So a save
  is `Accept`, a commit that changes the body is `Coalesce` with the number of edits
  between the stored one and the one read, and every other step, of any request or
  fault, is a stutter. That dropping a prefix of what is pending leaves what comes after
  the new stored edit is `PendingDrop`.
- *Numbers*: a number computed under the row lock exceeds every committed one, and
  purges only remove rows. `add_with_retry` therefore never retries, which matters
  because its `rollback()` would drop the caller's UPDATEs.
- *Floor* (`FloorInv`): what a sweeper has decided to leave only grows while it is at
  work, since the others only append; and of the drafts with fewer than `Limit` newer ones there are `Limit`
  (`LimitAreKept`: the oldest of the others has that many newer ones, all of them kept).
- *One sweeper*: as long as no lease lapsed under a live holder, whoever was told
  that it leads, sweeps, drains or releases is the holder of the lease. `isLeader`
  belongs to the invariant: cancellation drains on the strength of it alone.
- *Engagement*: what a request's check found is still so when it writes, or its comment
  is `crossed`; the parent of a reply is a top-level comment that was approved once.
  Counters are cardinalities, so each trigger is a lemma on the set it adds to or
  takes from, and a reconcile writes the cardinality it read unless it is `overtaken`.
- *Page cache*: the keys in use are of generations there have been, and under the
  current generation only an entry that raced with a writer may be out of date. The
  generation never passes the number of writes (each open write may still bump it once),
  which is why a reused generation is the Redis fallback and nothing else. For
  `DraftsStayPrivate`: whatever is in an entry or on its way to a visitor was shown.
- *Tokens and codes*: the tokens of a login are a chain by `next`, of which only the
  last may be active; a request that holds a token with a successor is `shared`. A live
  code is one no resend has replaced, and nobody has tried it.
- *Second factor*: for a secret that was not `crossed`, the row's counter covers every
  slice whose code was accepted, and a copy of the user that disagrees with the row is
  one that makes the secret crossed when it is written back.
- *Workspaces*: a request that is not `overtaken` counted what is still true: another
  owner besides the one it demotes or removes, room below the limit for the one it adds.
- *Catalog*: who holds a row is alone with it, the row is not deleted and the slug to
  come is nobody else's; a replacement nobody mixed with knows every image there is.
- *RBAC*: each request answers for rules it has stored without a row, and for rows it
  has not stored yet; requests that overlap have both put the rules they share into
  `crossed`, so a request that finds neither `crossed` nor `failed` is alone with its
  rules. A compensation removes only `failed` rules. A second invariant (`DInv`) is about what
  a worker knows: a rule in its memory is stored, on its way to be stored, one that a fault
  was about, or the rule of an object, which a revocation may have removed. So when Casbin refuses the single rule of a user's
  own role, or of a permission (neither is ever revoked), the rule is stored already, and only
  a batch, or a rule that can be revoked, is lost to a refusal. For pages, users are counted by rank:
  the members listed so far are those of rank up to the offset, and a page that is not full
  is the last (`PageIsFull`), so paging ends with every member listed, except one that
  `Missed` names.

Only model-checked: everything under fairness (`DirtyDrains`, `EditorConverges`,
`OverCapIsTrimmed`, `DirtyIsSwept`, `StalePendingGoes`, `CacheConverges`,
`EnforcersConverge`); liveness and ENABLED are out of the prover's reach. The two runs
that must fail are TLC's by nature.

## Abstractions

- A body and its hash are one value. `posts.content_hash` and `post_contents` are
  written by the same transactions in the same order: one field, one row lock.
- The title is left out: it takes part in the comparison of versions, and only
  PATCH and restore change it.
- Reads that are next to each other with nothing in between that could matter are
  one step. `publish` reads the post afresh after `flush_one`: the object of the
  flush is no longer referenced, and the session's identity map is weak.
- Postgres is READ COMMITTED: a statement sees what is committed and its own
  transaction's writes. Replica lag is left out: reads go to the writer here.
- Workspace mismatch, Redis disabled and validation errors of a request end it
  before it changes anything and are not modelled.
- In `PostVersions` the retry branch of `add_with_retry` is left out;
  `NumberIsFree` shows that it is never taken.
- In `AutosaveSweepers` a scan yields each member that was in the set when it
  began once, in any order. SSCAN may repeat members or include later ones.
- In `AutosaveSweepers` a failed flush leaves the post dirty; the failure after
  the mark is `AutosaveFlush`'s subject.
- The three sweepers share one election scheme; it is modelled once.

- *Write and commit in one step* (`Engagement`, `Accounts`, `TwoFactor`, `Workspace`):
  the request's only write, or its first, takes the row lock and keeps it until the
  commit; another writer of the row waits, and a reader sees what is committed. A
  failed commit is the action `Fails`. A DELETE of several rows is taken to lock them
  at once; a deadlock's victim is `Fails`, too.
- Reader and writer use one URI in the settings, so there is no replica lag.
- `Catalog` leaves out the share locks that foreign keys take: they delay, and
  refuse nothing here.
- `PostCache` does not evict: Redis may drop an entry before its TTL, which is a
  miss. The generation key has no TTL; if Redis loses it, `gen` falls back to 0 for
  good, which the model allows for one command at a time only.
- `Rbac` takes casbin's `AsyncEnforcer` and its SQLAlchemy adapter as the library
  documents them (`Stored`, `StoreRules`, `Loaded` are external in the map): adding
  rules is all or nothing, changes the memory first, and a load replaces it. A
  watcher's message is a load that comes early; one that is lost is a load that does
  not. The rules that migration d25e seeds are left out. There is one group, one
  type and one object: rules of different ones do not meet.
- `Accounts` has one user: unique columns between users are `Catalog`'s and
  `Workspace`'s subject. Passwords, signatures and Google's answers are right or wrong.
- Bounds on requests, writes, codes, tokens and time are guards, and named.

## Not modelled

- The Tiptap pipeline: pure functions over documents of any depth; unit tests fit.
- Storage, email, middleware, rate limits, observability, settings, health: adapters
  and wiring without state of their own. A mail that was sent is not taken back when
  its transaction fails, which `IssueAndSend` shows.
- Listings, paging, filters, comparison of versions: reads of one statement.
- Creation of groups, roles, permissions and tags, profile updates: one INSERT or
  UPDATE each, with a unique index where `Catalog` and `Workspace` have one.

## Plan

1. **Publish against restore and PATCH** over `AutosaveFlush`: published snapshot
   and live body, as a run and, where it holds, a theorem.
2. **The refinement with more writers**: `ImplementsWriteBehind` speaks of one flusher
   and no other writer of the body; which weaker order remains with a publish, whose flush
   is a second flusher, is a question for TLC first.
3. **PostCache over AutosaveFlush**: the flush's commit as one of its writers.
4. **The floor with several sweepers**: `RetentionFloor` without the assumption of one
   sweeper does not hold; how far two purges at once go below the cap is not stated.

The passing runs come first; a run that must fail is kept for a disagreement with
the repository's own words only.
