---------------------------- MODULE PostVersions ----------------------------
(***************************************************************************)
(* The version rows of one post: transactions that append a row (every     *)
(* flush, publish and restore), and the retention sweeper that deletes the *)
(* oldest drafts in a transaction of its own, without the post's row lock. *)
(***************************************************************************)
EXTENDS Naturals, FiniteSets

CONSTANTS
    Writer,      \* transactions that append a version
    Sweeper,     \* sweepers that believe they lead
    None,        \* no holder
    Limit,       \* retention_limit: drafts kept per post
    Slack,       \* _VERSION_RETENTION_SLACK
    MaxInserts   \* bound on the rows appended

ASSUME ConstAssumption ==
    /\ None \notin Writer
    /\ Limit \in Nat \ {0} /\ Slack \in Nat /\ MaxInserts \in Nat

VARIABLES
    rows,       \* the committed rows
    rowLock,    \* who has updated the posts row and not committed yet
    wpc,        \* where each writer is
    row,        \* the row each writer is about to insert
    spc,        \* where each sweeper is
    keep,       \* the version numbers each sweeper has decided to keep
    doomed,     \* the rows each sweeper's DELETE has matched
    inserts     \* rows appended so far

vars == <<rows, rowLock, wpc, row, spc, keep, doomed, inserts>>
writing == <<rowLock, wpc, row, inserts>>
sweeping == <<spc, keep, doomed>>

Row == [ver : Nat, pub : BOOLEAN]
NoRow == [ver |-> 0, pub |-> FALSE]
Versions(rs) == {r.ver : r \in rs}
Drafts == {r \in rows : ~r.pub}
Newer(r) == {q \in Drafts : q.ver > r.ver}

\* A post is created with its first version.
Init ==
    /\ rows = {[ver |-> 1, pub |-> FALSE]}
    /\ rowLock = None
    /\ wpc = [w \in Writer |-> "idle"]
    /\ row = [w \in Writer |-> NoRow]
    /\ spc = [s \in Sweeper |-> "idle"]
    /\ keep = [s \in Sweeper |-> {}]
    /\ doomed = [s \in Sweeper |-> {}]
    /\ inserts = 0

----------------------------------------------------------------------------
(* Appending a version.                                                    *)

\* Faulty variant: the version is appended before posts is updated.
UpdateWithoutLock(w) ==
    /\ wpc[w] = "idle" /\ inserts < MaxInserts
    /\ rowLock' = w
    /\ inserts' = inserts + 1
    /\ wpc' = [wpc EXCEPT ![w] = "number"]
    /\ UNCHANGED <<rows, row, sweeping>>

\* Every caller updates posts first, which serialises the appends.  (On a deleted
\* post the UPDATE matches nothing; then only restore can commit.)
UpdatePost(w) ==
    /\ wpc[w] = "idle" /\ rowLock = None /\ inserts < MaxInserts
    /\ rowLock' = w
    /\ inserts' = inserts + 1
    /\ wpc' = [wpc EXCEPT ![w] = "number"]
    /\ UNCHANGED <<rows, row, sweeping>>

\* MAX(version) + 1, or 1; at most MaxInserts + 1.
IsNext(n) ==
    /\ n \in {v + 1 : v \in Versions(rows) \cup {0}}
    /\ \A v \in Versions(rows) : v < n

NextVersion(w, pub) ==
    /\ wpc[w] = "number"
    /\ \E n \in 1..(MaxInserts + 1) : IsNext(n) /\ row' = [row EXCEPT ![w] = [ver |-> n, pub |-> pub]]
    /\ wpc' = [wpc EXCEPT ![w] = "insert"]
    /\ UNCHANGED <<rows, rowLock, inserts, sweeping>>

Release(w) ==
    /\ rowLock' = None
    /\ wpc' = [wpc EXCEPT ![w] = "idle"]
    /\ row' = [row EXCEPT ![w] = NoRow]
    /\ UNCHANGED <<inserts, sweeping>>

\* INSERT and commit.  The retry after a unique violation is never needed
\* (NumberIsFree), so it is not here.
InsertVersion(w) ==
    /\ wpc[w] = "insert"
    /\ rows' = rows \cup {row[w]}
    /\ Release(w)

Rollback(w) ==
    /\ wpc[w] \in {"number", "insert"}
    /\ Release(w)
    /\ UNCHANGED rows

----------------------------------------------------------------------------
(* The retention sweeper.                                                  *)

\* Faulty variant: the threshold is two slacks over the cap.
DiscoverLate(s) ==
    /\ spc[s] = "idle"
    /\ Cardinality(Drafts) > Limit + 2 * Slack
    /\ spc' = [spc EXCEPT ![s] = "list"]
    /\ UNCHANGED <<rows, writing, keep, doomed>>

\* The election and this SELECT run outside the try of one post (sweepers/_post_version.py
\* 79, 153-159): an exception here ends the task for good, which is the subject of
\* SweptUnlessCancelled in AutosaveSweepers.  This module has a sweeper that lives.
Discover(s) ==
    /\ spc[s] = "idle"
    /\ Cardinality(Drafts) > Limit + Slack
    /\ spc' = [spc EXCEPT ![s] = "list"]
    /\ UNCHANGED <<rows, writing, keep, doomed>>

\* Faulty variant: keeps one draft too few.
ListOneLess(s) ==
    /\ spc[s] = "list"
    /\ keep' = [keep EXCEPT ![s] =
         {r.ver : r \in {q \in Drafts : Cardinality(Newer(q)) < Limit - 1}}]
    /\ spc' = [spc EXCEPT ![s] = "delete"]
    /\ UNCHANGED <<rows, writing, doomed>>

ListNonPublished(s) ==
    /\ spc[s] = "list"
    /\ keep' = [keep EXCEPT ![s] = {r.ver : r \in {q \in Drafts : Cardinality(Newer(q)) < Limit}}]
    /\ spc' = [spc EXCEPT ![s] = "delete"]
    /\ UNCHANGED <<rows, writing, doomed>>

\* Faulty variant: published snapshots are purged like drafts.
PurgePublishedToo(s) ==
    /\ spc[s] = "delete"
    /\ doomed' = [doomed EXCEPT ![s] = {r \in rows : r.ver \notin keep[s]}]
    /\ spc' = [spc EXCEPT ![s] = "commit"]
    /\ UNCHANGED <<rows, writing, keep>>

\* The DELETE sees what is committed now, not what the SELECT saw.
PurgeEligible(s) ==
    /\ spc[s] = "delete"
    /\ doomed' = [doomed EXCEPT ![s] = {r \in Drafts : r.ver \notin keep[s]}]
    /\ spc' = [spc EXCEPT ![s] = "commit"]
    /\ UNCHANGED <<rows, writing, keep>>

Finish(s) ==
    /\ spc' = [spc EXCEPT ![s] = "idle"]
    /\ keep' = [keep EXCEPT ![s] = {}]
    /\ doomed' = [doomed EXCEPT ![s] = {}]
    /\ UNCHANGED writing

CommitPurge(s) ==
    /\ spc[s] = "commit"
    /\ rows' = rows \ doomed[s]
    /\ Finish(s)

\* The sweep fails, or its worker dies.
SweepFails(s) ==
    /\ spc[s] # "idle"
    /\ Finish(s)
    /\ UNCHANGED rows

----------------------------------------------------------------------------
Write(w) == (\E pub \in BOOLEAN : NextVersion(w, pub)) \/ InsertVersion(w)
Sweep(s) == Discover(s) \/ ListNonPublished(s) \/ PurgeEligible(s) \/ CommitPurge(s)

Idle ==
    /\ inserts = MaxInserts
    /\ \A w \in Writer : wpc[w] = "idle"
    /\ UNCHANGED vars

Next ==
    \/ \E w \in Writer : UpdatePost(w) \/ Write(w) \/ Rollback(w)
    \/ \E s \in Sweeper : Sweep(s) \/ SweepFails(s)
    \/ Idle

Spec == Init /\ [][Next]_vars

\* A transaction ends; the sweeper ticks, and a sweep does not fail for ever.
Fairness ==
    /\ \A w \in Writer : WF_vars(Write(w))
    /\ \A s \in Sweeper : /\ WF_vars(Discover(s)) /\ SF_vars(ListNonPublished(s))
                          /\ SF_vars(PurgeEligible(s)) /\ SF_vars(CommitPurge(s))

FairSpec == Spec /\ Fairness
----------------------------------------------------------------------------
\* Every variable has its type; who holds the row lock is between its UPDATE and
\* its commit.
TypeOK ==
    /\ rows \subseteq Row
    /\ rowLock \in Writer \cup {None}
    /\ wpc \in [Writer -> {"idle", "number", "insert"}]
    /\ row \in [Writer -> Row]
    /\ spc \in [Sweeper -> {"idle", "list", "delete", "commit"}]
    /\ keep \in [Sweeper -> SUBSET Nat]
    /\ doomed \in [Sweeper -> SUBSET Row]
    /\ inserts \in 0..MaxInserts
    /\ \A w \in Writer : wpc[w] # "idle" => rowLock = w

\* _post_version.py 121-146: the number an append has computed is still free when
\* it inserts, whatever the sweeper has deleted since.  The rollback of the retry,
\* which would silently drop the caller's UPDATE of the post, is never taken.
NumberIsFree == \A w \in Writer : wpc[w] = "insert" => row[w].ver \notin Versions(rows)

\* FR-016 (_posts.py 468-472): a published snapshot stays for ever.
PublishedKept == [][\A r \in rows : r.pub => r \in rows']_vars

\* sweepers/_post_version.py 118: with one sweeper, a purge that races with appends
\* never leaves fewer than Limit drafts.
RetentionFloor == [][Cardinality(Drafts') >= Limit \/ Cardinality(Drafts') >= Cardinality(Drafts)]_vars

\* sweepers/_post_version.py 36-40: a post over the cap and its slack is trimmed.
OverCapIsTrimmed == Cardinality(Drafts) > Limit + Slack ~> Cardinality(Drafts) <= Limit + Slack
=============================================================================
