----------------------------- MODULE Engagement -----------------------------
(***************************************************************************)
(* Likes and comments of one post: the public and the moderators' requests *)
(* (apps/blog/services/_likes.py, _comments/, _comment_moderation.py), the *)
(* sweeper that purges stale pending comments, and the triggers that keep  *)
(* posts.like_count and posts.comment_count.                               *)
(*                                                                         *)
(* A request first reads and checks, then writes one row.  The row lock    *)
(* taken by that write is held until the commit, so the write and its      *)
(* commit are one step; between the check and that step anything may       *)
(* happen.                                                                 *)
(***************************************************************************)
EXTENDS Naturals, FiniteSets

CONSTANTS
    Comment,      \* identifiers of comments
    User,         \* signed-in callers, one request at a time each
    Moderator,    \* those with the permission blog:moderate_comments
    PostAuthor,   \* the author of the post
    Anon,         \* anonymous visitors
    None,         \* no comment
    Batch,        \* POST_COMMENT_MODERATION_SWEEP_BATCH
    MaxRequests   \* bound on requests

ASSUME ConstAssumption ==
    /\ Anon \notin User /\ None \notin Comment
    /\ Moderator \subseteq User /\ PostAuthor \in User
    /\ IsFiniteSet(Comment) /\ IsFiniteSet(User)
    /\ Batch \in Nat \ {0} /\ MaxRequests \in Nat

VARIABLES
    post,          \* open, archived or (soft-)deleted
    fresh,         \* identifiers no comment has yet
    ids, row,      \* post_comments: which rows there are, and the rows
    likes,         \* post_likes: the users of its rows
    likeCount, commentCount,   \* the cached counters of the posts row
    req,           \* what each caller is doing
    purge,         \* the rows the sweeper's subquery has selected
    requests,      \* how many requests there have been
    overtaken,     \* observer: reconcilers whose counts are no longer current
    drift,         \* observer: the last reconcile wrote such counts
    crossed        \* observer: comments written under another one's request

tables == <<ids, row, likes, likeCount, commentCount>>
observers == <<overtaken, drift, crossed>>
vars == <<post, fresh, tables, req, purge, requests, observers>>

Caller == User \cup {Anon}
State == {"pending", "approved", "rejected"}

\* parent: the comment it replies to; by: its author; text: it still has the author's
\* text; vetted: a moderator has decided on it; old: past the edit window and the TTL.
Row == [parent : Comment \cup {None}, by : Caller, state : State,
        deleted : BOOLEAN, tomb : BOOLEAN, text : BOOLEAN, vetted : BOOLEAN, old : BOOLEAN]

\* The table's CHECK constraints, as far as they are about these columns.
Constraint(r) == r.tomb => r.deleted /\ r.parent = None

NewRow(c, a) ==
    [parent |-> c, by |-> a, state |-> IF a = Anon THEN "pending" ELSE "approved",
     deleted |-> FALSE, tomb |-> FALSE, text |-> TRUE, vetted |-> FALSE, old |-> FALSE]

Blank == NewRow(None, Anon)

Reconciling == {"like_counted", "counted"}
Kind == {"none", "like", "unlike", "comment", "reply", "edit", "erase", "tombstone",
         "approve", "reject", "moderator_delete"} \cup Reconciling

Request == [kind : Kind, on : Comment \cup {None}, likes : Nat, comments : Nat]
NoRequest == [kind |-> "none", on |-> None, likes |-> 0, comments |-> 0]

Init ==
    /\ post = "open"
    /\ fresh = Comment /\ ids = {} /\ row = [c \in Comment |-> Blank]
    /\ likes = {} /\ likeCount = 0 /\ commentCount = 0
    /\ req = [a \in Caller |-> NoRequest]
    /\ purge = {} /\ requests = 0
    /\ overtaken = {} /\ drift = FALSE /\ crossed = {}

----------------------------------------------------------------------------
(* What the public and the moderators see.                                 *)

Contributes(r) == r.state = "approved" /\ ~r.deleted
Live == {c \in ids : Contributes(row[c])}
Replies(c) == {d \in ids : row[d].parent = c}

ApprovedTopLevel == {c \in Live : row[c].parent = None}
ApprovedReplies(c) == Live \cap Replies(c)

TopLevelList == IF post = "deleted" THEN {} ELSE ApprovedTopLevel

\* Replies of a comment that is not itself public are "not found".
RepliesList(c) == IF c \in TopLevelList THEN ApprovedReplies(c) ELSE {}

Public == TopLevelList \cup UNION {RepliesList(c) : c \in ids}

Likers == {a \in User : a \in likes}

PendingQueue == {c \in ids : row[c].state = "pending" /\ ~row[c].deleted}

----------------------------------------------------------------------------
(* The counters' triggers.                                                 *)

Less(n, k) == IF n > k THEN n - k ELSE 0

\* Faulty variant: an approved row counts as new whatever it was before.
CountWithoutOld(n, was, is) == IF is THEN n + 1 ELSE IF was THEN Less(n, 1) ELSE n

\* trg_post_comments_count_fn on one row; GREATEST(..., 0).
Count(n, was, is) ==
    IF is /\ ~was THEN n + 1 ELSE IF was /\ ~is THEN Less(n, 1) ELSE n

----------------------------------------------------------------------------
(* Bookkeeping of requests.                                                *)

Begins(a, k, c) ==
    /\ req[a].kind = "none" /\ requests < MaxRequests
    /\ req' = [req EXCEPT ![a] = [NoRequest EXCEPT !.kind = k, !.on = c]]
    /\ requests' = requests + 1
    /\ UNCHANGED <<post, fresh, tables, purge, observers>>

Ends(a) == req' = [req EXCEPT ![a] = NoRequest]

\* The comments whose state a request has looked at.
Touched(a) == IF req[a].on = None THEN {} ELSE {req[a].on, row[req[a].on].parent} \cap Comment

Crossing(a) ==
    crossed' = crossed \cup (Touched(a) \cap (purge \cup UNION {Touched(b) : b \in Caller \ {a}}))

\* A commit that moves a true count overtakes the reconcilers that have read it.
LikesMove == overtaken' = overtaken \cup {a \in Caller : req[a].kind \in Reconciling}
CommentsMove == overtaken' = overtaken \cup {a \in Caller : req[a].kind = "counted"}

----------------------------------------------------------------------------
(* Likes.                                                                  *)

\* _load_open_post: drafts pass, archived and deleted posts do not.
PostIsOpen == post = "open"

LikeCheck(a, k) ==
    /\ a \in User /\ k \in {"like", "unlike"} /\ PostIsOpen
    /\ Begins(a, k, None)

Likes(a) == a \in likes

\* INSERT ... ON CONFLICT DO NOTHING; the trigger fires for an inserted row.
AddLike(a) ==
    /\ req[a].kind = "like" /\ Ends(a)
    /\ likes' = likes \cup {a}
    /\ likeCount' = IF Likes(a) THEN likeCount ELSE likeCount + 1
    /\ IF Likes(a) THEN UNCHANGED overtaken ELSE LikesMove
    /\ UNCHANGED <<post, fresh, ids, row, commentCount, purge, requests, drift, crossed>>

RemoveLike(a) ==
    /\ req[a].kind = "unlike" /\ Ends(a)
    /\ likes' = likes \ {a}
    /\ likeCount' = IF Likes(a) THEN Less(likeCount, 1) ELSE likeCount
    /\ IF Likes(a) THEN LikesMove ELSE UNCHANGED overtaken
    /\ UNCHANGED <<post, fresh, ids, row, commentCount, purge, requests, drift, crossed>>

----------------------------------------------------------------------------
(* The author's side of comments.                                          *)

CommentCheck(a) == PostIsOpen /\ Begins(a, "comment", None)

\* Only to a public top-level comment.
ReplyCheck(a, c) ==
    /\ c \in Live /\ row[c].parent = None
    /\ PostIsOpen
    /\ Begins(a, "reply", c)

\* The foreign key refuses a reply to a comment that is gone.
Insert(a) ==
    /\ req[a].kind \in {"comment", "reply"}
    /\ req[a].kind = "reply" => req[a].on \in ids
    /\ \E c \in fresh :
         LET r == NewRow(req[a].on, a) IN
         /\ fresh' = fresh \ {c}
         /\ ids' = ids \cup {c}
         /\ row' = [row EXCEPT ![c] = r]
         /\ commentCount' = Count(commentCount, FALSE, Contributes(r))
         /\ IF Contributes(r) THEN CommentsMove ELSE UNCHANGED overtaken
    /\ Crossing(a) /\ Ends(a)
    /\ UNCHANGED <<post, likes, likeCount, purge, requests, drift>>

\* Edits and deletions are for the signed-in author of a row that is not deleted.
IsOwn(a, c) == a \in User /\ c \in ids /\ row[c].by = a /\ ~row[c].deleted

EditCheck(a, c) == IsOwn(a, c) /\ ~row[c].old /\ Begins(a, "edit", c)

HasApprovedReplies(c) == ApprovedReplies(c) # {}

\* Faulty variant: the thread under the comment is not looked at.
DeleteCheckAlone(a, c) == IsOwn(a, c) /\ Begins(a, "erase", c)

\* delete_own decides here between a tombstone and a DELETE.
DeleteCheck(a, c) ==
    /\ IsOwn(a, c)
    /\ Begins(a, IF row[c].parent = None /\ HasApprovedReplies(c) THEN "tombstone" ELSE "erase", c)

\* An UPDATE of the row a request is about, with the trigger on state and deleted_at.
UpdateRow(a, r) ==
    LET c == req[a].on IN
    /\ c \in ids
    /\ row' = [row EXCEPT ![c] = r]
    /\ commentCount' = Count(commentCount, Contributes(row[c]), Contributes(r))
    /\ IF Contributes(row[c]) # Contributes(r) THEN CommentsMove ELSE UNCHANGED overtaken
    /\ Crossing(a) /\ Ends(a)
    /\ UNCHANGED <<post, fresh, ids, likes, likeCount, purge, requests, drift>>

Edit(a) == req[a].kind = "edit" /\ UpdateRow(a, [row[req[a].on] EXCEPT !.text = TRUE])

\* Faulty variant: the row is marked a tombstone without a deletion time.
TombstoneUnstamped(a) ==
    /\ req[a].kind = "tombstone"
    /\ UpdateRow(a, [row[req[a].on] EXCEPT !.tomb = TRUE, !.text = FALSE])

Tombstone(a) ==
    /\ req[a].kind = "tombstone"
    /\ UpdateRow(a, [row[req[a].on] EXCEPT !.deleted = TRUE, !.tomb = TRUE, !.text = FALSE])

\* A DELETE takes the replies with it; the trigger fires for each row.
Delete(victims) ==
    LET gone == victims \cup UNION {Replies(c) : c \in victims} IN
    /\ ids' = ids \ gone
    /\ row' = [c \in Comment |-> IF c \in gone THEN Blank ELSE row[c]]
    /\ commentCount' = Less(commentCount, Cardinality(gone \cap Live))
    /\ IF gone \cap Live = {} THEN UNCHANGED overtaken ELSE CommentsMove

HardDelete(a) ==
    /\ req[a].kind = "erase"
    /\ Delete({req[a].on} \cap ids)
    /\ Crossing(a) /\ Ends(a)
    /\ UNCHANGED <<post, fresh, likes, likeCount, purge, requests, drift>>

----------------------------------------------------------------------------
(* Moderation.                                                             *)

ApproveCheck(a, c) ==
    /\ a \in Moderator /\ c \in ids /\ row[c].state = "pending"
    /\ Begins(a, "approve", c)

RejectCheck(a, c) ==
    /\ a \in Moderator /\ c \in ids /\ row[c].state # "rejected"
    /\ Begins(a, "reject", c)

\* With the permission, or as the author of the post.
ModeratorDeleteCheck(a, c) ==
    /\ c \in ids /\ (a \in Moderator \/ a = PostAuthor)
    /\ Begins(a, "moderator_delete", c)

\* Faulty variant: a decision brings a deleted comment back.
TransitionRevives(a) ==
    /\ req[a].kind \in {"approve", "reject"}
    /\ UpdateRow(a, [row[req[a].on] EXCEPT
         !.state = IF req[a].kind = "approve" THEN "approved" ELSE "rejected",
         !.vetted = TRUE, !.deleted = FALSE])

\* The UPDATE has no condition on the state it starts from.
TransitionState(a) ==
    /\ req[a].kind \in {"approve", "reject"}
    /\ UpdateRow(a, [row[req[a].on] EXCEPT
         !.state = IF req[a].kind = "approve" THEN "approved" ELSE "rejected", !.vetted = TRUE])

MarkModeratorDeleted(a) ==
    /\ req[a].kind = "moderator_delete"
    /\ UpdateRow(a, [row[req[a].on] EXCEPT !.deleted = TRUE, !.vetted = TRUE])

\* UPDATE ... RETURNING of a row that is gone, an INSERT under a comment that is gone,
\* or any other failure: rolled back.
Fails(a) ==
    /\ req[a].kind # "none"
    /\ Ends(a)
    /\ overtaken' = overtaken \ {a}
    /\ UNCHANGED <<post, fresh, tables, purge, requests, drift, crossed>>

----------------------------------------------------------------------------
(* reconcile_counters: two counts, then one UPDATE of the posts row.       *)

CountLikes(a) ==
    /\ a \in Moderator /\ req[a].kind = "none" /\ requests < MaxRequests
    /\ req' = [req EXCEPT ![a] = [NoRequest EXCEPT !.kind = "like_counted",
                                                   !.likes = Cardinality(likes)]]
    /\ requests' = requests + 1
    /\ UNCHANGED <<post, fresh, tables, purge, observers>>

CountComments(a) ==
    /\ req[a].kind = "like_counted"
    /\ req' = [req EXCEPT ![a].kind = "counted", ![a].comments = Cardinality(Live)]
    /\ UNCHANGED <<post, fresh, tables, purge, requests, observers>>

UpdateCounters(a) ==
    /\ req[a].kind = "counted" /\ Ends(a)
    /\ likeCount' = req[a].likes /\ commentCount' = req[a].comments
    /\ drift' = (a \in overtaken) /\ overtaken' = overtaken \ {a}
    /\ UNCHANGED <<post, fresh, ids, row, likes, purge, requests, crossed>>

----------------------------------------------------------------------------
(* The retention sweeper of the moderation queue.                          *)

Stale == {c \in ids : row[c].state = "pending" /\ row[c].old}

\* Faulty variant: what a moderator has deleted is not purged.
PurgeSelectLive ==
    /\ purge = {}
    /\ purge' \in SUBSET (Stale \cap PendingQueue) \ {{}} /\ Cardinality(purge') <= Batch
    /\ UNCHANGED <<post, fresh, tables, req, requests, observers>>

\* The subquery of the DELETE, in the statement's snapshot: up to Batch rows.
PurgeSelect ==
    /\ purge = {}
    /\ purge' \in SUBSET Stale \ {{}} /\ Cardinality(purge') <= Batch
    /\ UNCHANGED <<post, fresh, tables, req, requests, observers>>

\* The DELETE waits for a row that is locked and, since the identifier still
\* matches, takes it whatever its state has become.
PurgeDelete ==
    /\ purge # {} /\ purge' = {}
    /\ Delete(purge \cap ids)
    /\ UNCHANGED <<post, fresh, likes, likeCount, req, requests, drift, crossed>>

PurgeFails ==
    /\ purge # {} /\ purge' = {}
    /\ UNCHANGED <<post, fresh, tables, req, requests, observers>>

----------------------------------------------------------------------------
(* The post and the time.                                                  *)

ClosePost(s) ==
    /\ <<post, s>> \in {<<"open", "archived">>, <<"open", "deleted">>, <<"archived", "deleted">>}
    /\ post' = s
    /\ UNCHANGED <<fresh, tables, req, purge, requests, observers>>

Grows(c) ==
    /\ c \in ids /\ ~row[c].old
    /\ row' = [row EXCEPT ![c].old = TRUE]
    /\ UNCHANGED <<post, fresh, ids, likes, likeCount, commentCount, req, purge, requests, observers>>

----------------------------------------------------------------------------
Check(a) ==
    \/ \E k \in {"like", "unlike"} : LikeCheck(a, k)
    \/ CommentCheck(a)
    \/ \E c \in ids : \/ ReplyCheck(a, c) \/ EditCheck(a, c) \/ DeleteCheck(a, c)
                      \/ ApproveCheck(a, c) \/ RejectCheck(a, c) \/ ModeratorDeleteCheck(a, c)

Write(a) ==
    \/ AddLike(a) \/ RemoveLike(a) \/ Insert(a) \/ Edit(a) \/ Tombstone(a) \/ HardDelete(a)
    \/ TransitionState(a) \/ MarkModeratorDeleted(a)

Reconcile(a) == CountLikes(a) \/ CountComments(a) \/ UpdateCounters(a)

Next ==
    \/ \E a \in Caller : Check(a) \/ Write(a) \/ Reconcile(a) \/ Fails(a)
    \/ PurgeSelect \/ PurgeDelete \/ PurgeFails
    \/ \E s \in {"archived", "deleted"} : ClosePost(s)
    \/ \E c \in Comment : Grows(c)

Spec == Init /\ [][Next]_vars

\* The sweeper ticks every hour, on some worker; a purge does not fail for ever.
FairSpec == Spec /\ WF_vars(PurgeSelect) /\ SF_vars(PurgeDelete)

----------------------------------------------------------------------------
(* Properties.                                                             *)

\* Every variable has its type, and the rows pass the CHECK constraints: a tombstone
\* is deleted, and only a top-level comment becomes one.
TypeOK ==
    /\ post \in {"open", "archived", "deleted"}
    /\ fresh \subseteq Comment /\ ids \subseteq Comment /\ fresh \cap ids = {}
    /\ row \in [Comment -> Row]
    /\ likes \subseteq User /\ likeCount \in Nat /\ commentCount \in Nat
    /\ req \in [Caller -> Request]
    /\ purge \subseteq Comment /\ requests \in 0..MaxRequests
    /\ overtaken \subseteq Caller /\ drift \in BOOLEAN /\ crossed \subseteq Comment
    /\ \A c \in ids : Constraint(row[c])

\* FR-026 (_post.py 244-252): the cached counters are the numbers of likes and of
\* approved live comments, through double decisions, cascades and purges, unless a
\* reconcile wrote counts that a commit had overtaken; a reconcile that was not
\* overtaken puts them right again.
CountersMatch == ~drift => likeCount = Cardinality(Likers) /\ commentCount = Cardinality(Live)

\* FR-020 and the sweeper's promise: an approved comment goes away only because its
\* own author deletes it.  Neither the purge nor the deletion of its parent takes it,
\* unless their requests crossed with a reply or an approval.
ApprovedIsKept ==
    [][\A c \in Live \ ids' :
         \/ row[c].by \in User /\ req[row[c].by].kind = "erase" /\ req[row[c].by].on = c
         \/ {c, row[c].parent} \cap crossed' # {}]_vars

\* enums.py 34-36: what was deleted never becomes public again, whatever is
\* decided about it later, nor what was rejected, unless two moderators' requests crossed.
HiddenStaysHidden ==
    [][\A c \in ids :
         row[c].deleted \/ (row[c].state = "rejected" /\ c \notin crossed') => c \notin Public']_vars

\* FR-010e: a stale pending comment leaves the queue, also when it was deleted in it.
StalePendingGoes == \A c \in Comment : c \in Stale ~> c \notin Stale
=============================================================================
