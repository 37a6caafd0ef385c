-------------------------- MODULE Engagement_proofs --------------------------
(***************************************************************************)
(* Theorems about Engagement, for every set of comments and users, every   *)
(* batch size and every number of requests: types, the cached counters,    *)
(* and what may never happen to a comment.                                 *)
(***************************************************************************)
EXTENDS Engagement, TLAPS, FiniteSetTheorems

----------------------------------------------------------------------------
(* The inductive invariant.                                                *)

\* What a request that is under way may still rely on: the identifier it holds was not
\* given to another comment, and what its check found is so, or was changed by a request
\* or a purge that it crossed with.
RequestOK(a) ==
    LET c == req[a].on IN
    /\ c \notin fresh
    /\ req[a].kind \in {"like", "unlike", "comment"} \cup Reconciling => c = None
    /\ req[a].kind \in {"reply", "edit", "erase", "tombstone", "approve", "reject", "moderator_delete"}
          => c \in Comment
    /\ req[a].kind \in {"like", "unlike"} => a \in User
    /\ req[a].kind = "reply" /\ c \in ids => row[c].parent = None /\ row[c].state # "pending"
    /\ req[a].kind = "tombstone" /\ c \in ids => row[c].parent = None
    /\ req[a].kind = "erase" /\ c \in ids =>
          /\ a \in User /\ row[c].by = a
          /\ ApprovedReplies(c) = {} \/ c \in crossed
    /\ req[a].kind = "approve" /\ c \in ids => row[c].state = "pending" \/ c \in crossed

RequestsOK == \A a \in Caller : RequestOK(a)

\* A reply is to a top-level comment that is there and was approved once.
ThreadsOK ==
    \A d \in ids : row[d].parent # None =>
        /\ row[d].parent \in ids
        /\ row[row[d].parent].parent = None /\ row[row[d].parent].state # "pending"

\* What the sweeper has selected is pending still, or crossed with a decision.
PurgeOK ==
    /\ purge \cap fresh = {}
    /\ \A c \in purge \cap ids : row[c].state = "pending" \/ c \in crossed

\* The counters, and what the reconcilers that were not overtaken have read.
CountsOK ==
    /\ ~drift => likeCount = Cardinality(likes) /\ commentCount = Cardinality(Live)
    /\ \A a \in Caller \ overtaken :
         /\ req[a].kind \in Reconciling => req[a].likes = Cardinality(likes)
         /\ req[a].kind = "counted" => req[a].comments = Cardinality(Live)

IInv == TypeOK /\ RequestsOK /\ ThreadsOK /\ PurgeOK /\ CountsOK

----------------------------------------------------------------------------
(* What the actions have in common.                                        *)

LEMMA Finite ==
    ASSUME TypeOK
    PROVE  /\ IsFiniteSet(likes) /\ Cardinality(likes) \in Nat
           /\ IsFiniteSet(Live) /\ Cardinality(Live) \in Nat
<1>1. IsFiniteSet(likes) BY ConstAssumption, FS_Subset DEF TypeOK
<1>2. Live \in SUBSET Comment BY DEF TypeOK, Live
<1>3. IsFiniteSet(Live) BY <1>2, ConstAssumption, FS_Subset
<1> QED BY <1>1, <1>3, FS_CardinalityType

\* A request begins, and its check found what RequestOK asks of it.
AsksFor(a, k, c) ==
    /\ Begins(a, k, c)
    /\ k \in Kind \ (Reconciling \cup {"none"})
    /\ IF k \in {"like", "unlike", "comment"} THEN c = None ELSE c \in ids
    /\ k \in {"like", "unlike"} => a \in User
    /\ k = "reply" => row[c].parent = None /\ row[c].state # "pending"
    /\ k = "tombstone" => row[c].parent = None
    /\ k = "erase" => a \in User /\ row[c].by = a
                       /\ (row[c].parent = None => ApprovedReplies(c) = {})
    /\ k = "approve" => row[c].state = "pending"

LEMMA ChecksAsk ==
    ASSUME TypeOK, NEW a \in Caller, Check(a)
    PROVE  \E k \in Kind, c \in Comment \cup {None} : AsksFor(a, k, c)
<1>1. ASSUME NEW k \in {"like", "unlike"}, LikeCheck(a, k) PROVE AsksFor(a, k, None)
  BY <1>1 DEF LikeCheck, AsksFor, Kind, Reconciling
<1>2. CASE CommentCheck(a)
  <2>1. AsksFor(a, "comment", None) BY <1>2 DEF CommentCheck, AsksFor, Kind, Reconciling
  <2> QED BY <2>1 DEF Kind
<1>3. ASSUME NEW c \in ids, ReplyCheck(a, c) PROVE AsksFor(a, "reply", c)
  BY <1>3 DEF ReplyCheck, AsksFor, Kind, Reconciling, Live, Contributes
<1>4. ASSUME NEW c \in ids, EditCheck(a, c) PROVE AsksFor(a, "edit", c)
  BY <1>4 DEF EditCheck, AsksFor, Kind, Reconciling
<1>5. ASSUME NEW c \in ids, DeleteCheck(a, c)
      PROVE  AsksFor(a, "tombstone", c) \/ AsksFor(a, "erase", c)
  BY <1>5 DEF DeleteCheck, IsOwn, HasApprovedReplies, AsksFor, Kind, Reconciling
<1>6. ASSUME NEW c \in ids, ApproveCheck(a, c) PROVE AsksFor(a, "approve", c)
  BY <1>6 DEF ApproveCheck, AsksFor, Kind, Reconciling
<1>7. ASSUME NEW c \in ids, RejectCheck(a, c) PROVE AsksFor(a, "reject", c)
  BY <1>7 DEF RejectCheck, AsksFor, Kind, Reconciling
<1>8. ASSUME NEW c \in ids, ModeratorDeleteCheck(a, c) PROVE AsksFor(a, "moderator_delete", c)
  BY <1>8 DEF ModeratorDeleteCheck, AsksFor, Kind, Reconciling
<1>9. ids \subseteq Comment BY DEF TypeOK
<1> QED BY <1>1, <1>2, <1>3, <1>4, <1>5, <1>6, <1>7, <1>8, <1>9 DEF Check, Kind

\* A row is rewritten: the thread it is in and its author stay, a deletion is not taken
\* back, and only an approval makes it approved.
Revises(a, r) ==
    LET was == row[req[a].on] IN
    /\ UpdateRow(a, r)
    /\ r \in Row /\ Constraint(r)
    /\ r.parent = was.parent /\ r.by = was.by
    /\ was.deleted => r.deleted
    /\ was.state # "pending" => r.state # "pending"
    /\ r.state = "approved" => was.state = "approved" \/ req[a].kind = "approve"
    /\ req[a].kind \in {"edit", "tombstone", "approve", "reject", "moderator_delete"}

Rewrite(a) == Edit(a) \/ Tombstone(a) \/ TransitionState(a) \/ MarkModeratorDeleted(a)

LEMMA RewriteRevises ==
    ASSUME TypeOK, RequestsOK, NEW a \in Caller, Rewrite(a)
    PROVE  \E r \in Row : Revises(a, r)
<1> DEFINE was == row[req[a].on]
<1>1. req[a].on \in ids BY DEF Rewrite, Edit, Tombstone, TransitionState, MarkModeratorDeleted, UpdateRow
<1>2. was \in Row /\ Constraint(was) BY <1>1 DEF TypeOK
<1>3. CASE Edit(a)
  <2>1. [was EXCEPT !.text = TRUE] \in Row BY <1>2 DEF Row
  <2>2. Revises(a, [was EXCEPT !.text = TRUE]) BY <1>2, <1>3, <2>1 DEF Edit, Revises, Constraint, Row
  <2> QED BY <2>1, <2>2
<1>4. CASE Tombstone(a)
  <2>1. was.parent = None BY <1>1, <1>4 DEF Tombstone, RequestsOK, RequestOK
  <2>2. [was EXCEPT !.deleted = TRUE, !.tomb = TRUE, !.text = FALSE] \in Row BY <1>2 DEF Row
  <2>3. Revises(a, [was EXCEPT !.deleted = TRUE, !.tomb = TRUE, !.text = FALSE])
    BY <1>2, <1>4, <2>1, <2>2 DEF Tombstone, Revises, Constraint, Row
  <2> QED BY <2>2, <2>3
<1>5. CASE TransitionState(a)
  <2> DEFINE s == IF req[a].kind = "approve" THEN "approved" ELSE "rejected"
             is == [was EXCEPT !.state = s, !.vetted = TRUE]
  <2>1. is \in Row BY <1>2 DEF Row, State
  <2>2. is.parent = was.parent /\ is.by = was.by /\ is.deleted = was.deleted /\ is.tomb = was.tomb
        /\ is.state = s
    BY <1>2 DEF Row
  <2>3. Revises(a, is) BY <1>2, <1>5, <2>1, <2>2 DEF TransitionState, Revises, Constraint
  <2> QED BY <2>1, <2>3
<1>6. CASE MarkModeratorDeleted(a)
  <2>1. [was EXCEPT !.deleted = TRUE, !.vetted = TRUE] \in Row BY <1>2 DEF Row
  <2>2. Revises(a, [was EXCEPT !.deleted = TRUE, !.vetted = TRUE])
    BY <1>2, <1>6, <2>1 DEF MarkModeratorDeleted, Revises, Constraint, Row
  <2> QED BY <2>1, <2>2
<1> QED BY <1>3, <1>4, <1>5, <1>6 DEF Rewrite

\* Every step, with the requests' checks and rewrites as one alternative each.
CallerStep(a) ==
    \/ \E k \in Kind, c \in Comment \cup {None} : AsksFor(a, k, c)
    \/ AddLike(a) \/ RemoveLike(a) \/ Insert(a) \/ HardDelete(a)
    \/ \E r \in Row : Revises(a, r)
    \/ CountLikes(a) \/ CountComments(a) \/ UpdateCounters(a) \/ Fails(a)

OtherStep ==
    \/ PurgeSelect \/ PurgeDelete \/ PurgeFails
    \/ \E s \in {"archived", "deleted"} : ClosePost(s)
    \/ \E c \in Comment : Grows(c)
    \/ UNCHANGED vars

LEMMA StepCases ==
    ASSUME TypeOK, RequestsOK, [Next]_vars
    PROVE  (\E a \in Caller : CallerStep(a)) \/ OtherStep
<1>1. ASSUME NEW a \in Caller, Check(a) \/ Write(a) \/ Reconcile(a) \/ Fails(a)
      PROVE  CallerStep(a)
  <2>1. CASE Check(a) BY <2>1, ChecksAsk DEF CallerStep
  <2>2. CASE Rewrite(a) BY <2>2, RewriteRevises DEF CallerStep
  <2> QED BY <1>1, <2>1, <2>2 DEF Write, Rewrite, Reconcile, CallerStep
<1> QED BY <1>1 DEF Next, OtherStep

\* What a DELETE takes: the rows and their replies, as the rows stand.
Gone(victims) == victims \cup {d \in ids : row[d].parent \in victims}

LEMMA DeleteRows ==
    ASSUME TypeOK, NEW victims \in SUBSET ids, Delete(victims)
    PROVE  /\ ids' = ids \ Gone(victims) /\ Gone(victims) \subseteq ids
           /\ row' \in [Comment -> Row]
           /\ \A c \in ids' : row'[c] = row[c]
           /\ Live' = Live \ Gone(victims)
           /\ commentCount' = Less(commentCount, Cardinality(Live \cap Gone(victims)))
           /\ IF Live' = Live THEN UNCHANGED overtaken ELSE CommentsMove
<1> DEFINE gone == victims \cup UNION {Replies(c) : c \in victims}
<1>1. gone = Gone(victims) BY DEF Gone, Replies
<1>2. ids' = ids \ gone /\ row' = [c \in Comment |-> IF c \in gone THEN Blank ELSE row[c]]
      /\ commentCount' = Less(commentCount, Cardinality(gone \cap Live))
      /\ IF gone \cap Live = {} THEN UNCHANGED overtaken ELSE CommentsMove
  BY DEF Delete
<1>3. Blank \in Row BY DEF Blank, NewRow, Row, State, Caller
<1>4. Gone(victims) \subseteq ids BY DEF Gone
<1>5. row' \in [Comment -> Row] BY <1>2, <1>3 DEF TypeOK
<1>6. \A c \in ids' : row'[c] = row[c] BY <1>2 DEF TypeOK
<1>7. Live' = Live \ Gone(victims) BY <1>1, <1>2, <1>6 DEF Live
<1>8. gone \cap Live = Live \cap Gone(victims) BY <1>1
<1> HIDE DEF gone
<1>9. commentCount' = Less(commentCount, Cardinality(Live \cap Gone(victims))) BY <1>2, <1>8
<1>10. IF Live' = Live THEN UNCHANGED overtaken ELSE CommentsMove BY <1>2, <1>7, <1>8
<1> QED BY <1>1, <1>2, <1>4, <1>5, <1>6, <1>7, <1>9, <1>10

\* The DELETEs of a request and of the sweeper.
LEMMA DeleteSteps ==
    /\ \A a \in Caller : HardDelete(a) => Delete({req[a].on} \cap ids)
    /\ PurgeDelete => Delete(purge \cap ids)
BY DEF HardDelete, PurgeDelete

\* A row of a new comment.
LEMMA NewRowType ==
    ASSUME NEW c \in Comment \cup {None}, NEW a \in Caller
    PROVE  NewRow(c, a) \in Row /\ Constraint(NewRow(c, a))
BY DEF NewRow, Row, State, Constraint

----------------------------------------------------------------------------
(* Types.                                                                  *)

LEMMA InitType == Init => TypeOK
<1> SUFFICES ASSUME Init PROVE TypeOK
  OBVIOUS
<1>1. row \in [Comment -> Row] BY DEF Init, Blank, NewRow, Row, State, Caller
<1>2. req \in [Caller -> Request] BY DEF Init, NoRequest, Request, Kind
<1>3. 0 \in 0..MaxRequests BY ConstAssumption
<1> QED BY <1>1, <1>2, <1>3 DEF Init, TypeOK

LEMMA TypeNext == ASSUME TypeOK, RequestsOK, [Next]_vars PROVE TypeOK'
<1> USE ConstAssumption
<1>1. ASSUME NEW a \in Caller, CallerStep(a) PROVE TypeOK'
  <2> DEFINE r == req[a]
  <2>0. r \in Request BY DEF TypeOK
  <2>1. [req EXCEPT ![a] = NoRequest] \in [Caller -> Request]
    BY DEF TypeOK, NoRequest, Request, Kind
  <2>2. overtaken \cup {b \in Caller : req[b].kind \in Reconciling} \subseteq Caller
        /\ overtaken \cup {b \in Caller : req[b].kind = "counted"} \subseteq Caller
    BY DEF TypeOK
  <2>3. Crossing(a) => crossed' \subseteq Comment
    BY DEF Crossing, Touched, TypeOK
  <2>4. \A m, n \in Nat : Less(m, n) \in Nat BY DEF Less
  <2>5. \A n \in Nat, was, is \in BOOLEAN : Count(n, was, is) \in Nat BY <2>4 DEF Count
  <2>6. CASE \E k \in Kind, c \in Comment \cup {None} : AsksFor(a, k, c)
    <3> PICK k \in Kind, c \in Comment \cup {None} : AsksFor(a, k, c) BY <2>6
    <3>1. [NoRequest EXCEPT !.kind = k, !.on = c] \in Request BY DEF NoRequest, Request
    <3>2. req' \in [Caller -> Request] BY <3>1 DEF AsksFor, Begins, TypeOK
    <3>3. requests' \in 0..MaxRequests BY DEF AsksFor, Begins, TypeOK
    <3> QED BY <3>2, <3>3 DEF AsksFor, Begins, tables, observers, TypeOK
  <2>7. CASE AddLike(a)
    <3>1. a \in User BY <2>7 DEF AddLike, RequestsOK, RequestOK
    <3> QED BY <2>1, <2>2, <2>7, <3>1 DEF AddLike, Ends, LikesMove, TypeOK
  <2>8. CASE RemoveLike(a)
    BY <2>1, <2>2, <2>4, <2>8 DEF RemoveLike, Ends, LikesMove, TypeOK
  <2>9. CASE Insert(a)
    <3> PICK c \in fresh :
            LET n == NewRow(r.on, a) IN
            /\ fresh' = fresh \ {c} /\ ids' = ids \cup {c} /\ row' = [row EXCEPT ![c] = n]
            /\ commentCount' = Count(commentCount, FALSE, Contributes(n))
            /\ IF Contributes(n) THEN CommentsMove ELSE UNCHANGED overtaken
      BY <2>9 DEF Insert
    <3>1. NewRow(r.on, a) \in Row /\ Constraint(NewRow(r.on, a)) BY <2>0, NewRowType DEF Request
    <3>2. row' \in [Comment -> Row] /\ \A d \in ids' : Constraint(row'[d]) BY <3>1 DEF TypeOK
    <3>3. commentCount' \in Nat BY <2>5 DEF TypeOK, Contributes
    <3>4. overtaken' \subseteq Caller BY <2>2 DEF CommentsMove, TypeOK
    <3>5. Crossing(a) /\ Ends(a) /\ UNCHANGED <<post, likes, likeCount, purge, requests, drift>>
      BY <2>9 DEF Insert
    <3> QED BY <2>1, <2>3, <3>2, <3>3, <3>4, <3>5 DEF Ends, TypeOK
  <2>10. CASE HardDelete(a)
    <3>1. Delete({r.on} \cap ids) BY <2>10, DeleteSteps
    <3>2. row' \in [Comment -> Row] /\ ids' \subseteq ids /\ (\A c \in ids' : row'[c] = row[c])
          /\ commentCount' = Less(commentCount, Cardinality(Live \cap Gone({r.on} \cap ids)))
          /\ (overtaken' = overtaken \/ CommentsMove)
      BY <3>1, DeleteRows
    <3>3. Cardinality(Live \cap Gone({r.on} \cap ids)) \in Nat
      BY Finite, FS_Intersection, FS_CardinalityType
    <3>4. commentCount' \in Nat BY <2>4, <3>2, <3>3 DEF TypeOK
    <3>5. overtaken' \subseteq Caller BY <2>2, <3>2 DEF CommentsMove, TypeOK
    <3> QED BY <2>1, <2>3, <2>10, <3>2, <3>4, <3>5 DEF HardDelete, Ends, TypeOK
  <2>11. CASE \E s \in Row : Revises(a, s)
    <3> PICK s \in Row : Revises(a, s) BY <2>11
    <3>1. row' \in [Comment -> Row] /\ \A d \in ids' : Constraint(row'[d])
      BY DEF Revises, UpdateRow, TypeOK
    <3>2. commentCount' \in Nat BY <2>5 DEF Revises, UpdateRow, TypeOK, Contributes
    <3>3. overtaken' \subseteq Caller BY <2>2 DEF Revises, UpdateRow, CommentsMove, TypeOK
    <3> QED BY <2>1, <2>3, <3>1, <3>2, <3>3 DEF Revises, UpdateRow, Ends, TypeOK
  <2>12. CASE CountLikes(a)
    <3>1. [NoRequest EXCEPT !.kind = "like_counted", !.likes = Cardinality(likes)] \in Request
      BY Finite DEF NoRequest, Request, Kind, Reconciling
    <3>2. req' \in [Caller -> Request] BY <2>12, <3>1 DEF CountLikes, TypeOK
    <3>3. requests' \in 0..MaxRequests BY <2>12 DEF CountLikes, TypeOK
    <3> QED BY <2>12, <3>2, <3>3 DEF CountLikes, tables, observers, TypeOK
  <2>13. CASE CountComments(a)
    <3>1. req' \in [Caller -> Request]
      BY <2>0, <2>13, Finite DEF CountComments, Request, Kind, Reconciling, TypeOK
    <3> QED BY <2>13, <3>1 DEF CountComments, tables, observers, TypeOK
  <2>14. CASE UpdateCounters(a)
    BY <2>0, <2>1, <2>14 DEF UpdateCounters, Ends, Request, TypeOK
  <2>15. CASE Fails(a)
    BY <2>1, <2>15 DEF Fails, Ends, tables, TypeOK
  <2> QED BY <1>1, <2>6, <2>7, <2>8, <2>9, <2>10, <2>11, <2>12, <2>13, <2>14, <2>15 DEF CallerStep
<1>2. CASE OtherStep
  <2>1. CASE PurgeSelect BY <2>1 DEF PurgeSelect, Stale, tables, observers, TypeOK
  <2>2. CASE PurgeDelete
    <3>1. row' \in [Comment -> Row] /\ ids' \subseteq ids /\ (\A c \in ids' : row'[c] = row[c])
          /\ commentCount' = Less(commentCount, Cardinality(Live \cap Gone(purge \cap ids)))
          /\ (overtaken' = overtaken \/ CommentsMove)
      BY <2>2, DeleteSteps, DeleteRows
    <3>2. Cardinality(Live \cap Gone(purge \cap ids)) \in Nat
      BY Finite, FS_Intersection, FS_CardinalityType
    <3>3. commentCount' \in Nat BY <3>1, <3>2 DEF Less, TypeOK
    <3>4. overtaken' \subseteq Caller BY <3>1 DEF CommentsMove, TypeOK
    <3> QED BY <2>2, <3>1, <3>3, <3>4 DEF PurgeDelete, TypeOK
  <2>3. CASE PurgeFails BY <2>3 DEF PurgeFails, tables, observers, TypeOK
  <2>4. CASE \E s \in {"archived", "deleted"} : ClosePost(s)
    BY <2>4 DEF ClosePost, tables, observers, TypeOK
  <2>5. ASSUME NEW c \in Comment, Grows(c) PROVE TypeOK'
    <3> DEFINE is == [row[c] EXCEPT !.old = TRUE]
    <3>0. row[c] \in Row BY DEF TypeOK
    <3>1. is \in Row /\ is.deleted = row[c].deleted /\ is.tomb = row[c].tomb /\ is.parent = row[c].parent
      BY <3>0 DEF Row
    <3>2. row' = [row EXCEPT ![c] = is] BY <2>5 DEF Grows, TypeOK
    <3>3. row' \in [Comment -> Row] /\ \A d \in ids : Constraint(row'[d])
      BY <3>1, <3>2 DEF Constraint, TypeOK
    <3> QED BY <2>5, <3>3 DEF Grows, observers, TypeOK
  <2>6. CASE UNCHANGED vars BY <2>6 DEF vars, tables, observers, TypeOK
  <2> QED BY <1>2, <2>1, <2>2, <2>3, <2>4, <2>5, <2>6 DEF OtherStep
<1> QED BY <1>1, <1>2, StepCases

----------------------------------------------------------------------------
(* Requests, threads and the purge.                                        *)

\* Two requests that look at the same comment, or a request and the purge, cross at the
\* first one's write.
LEMMA Crosses ==
    ASSUME NEW a \in Caller, Crossing(a)
    PROVE  /\ crossed \subseteq crossed'
           /\ \A b \in Caller \ {a}, c \in Comment :
                 c \in Touched(a) /\ (c \in Touched(b) \/ c \in purge) => c \in crossed'
BY DEF Crossing

LEMMA TouchesOwn ==
    ASSUME NEW b \in Caller, req[b].on \in Comment
    PROVE  /\ req[b].on \in Touched(b)
           /\ row[req[b].on].parent \in Comment => row[req[b].on].parent \in Touched(b)
BY ConstAssumption DEF Touched

LEMMA RequestOver ==
    ASSUME TypeOK', NEW b \in Caller, req'[b] = NoRequest
    PROVE  RequestOK(b)'
BY ConstAssumption DEF RequestOK, NoRequest, TypeOK, Reconciling

\* A request that goes on may rely on what it did before.
LEMMA RequestKept ==
    ASSUME NEW b \in Caller, RequestOK(b), req'[b] = req[b],
           fresh' \subseteq fresh, crossed \subseteq crossed',
           req[b].on \in ids' =>
             /\ req[b].on \in ids
             /\ row'[req[b].on].parent = row[req[b].on].parent
             /\ row'[req[b].on].by = row[req[b].on].by
             /\ row[req[b].on].state # "pending" => row'[req[b].on].state # "pending"
             /\ row'[req[b].on].state = row[req[b].on].state \/ req[b].on \in crossed'
             /\ ApprovedReplies(req[b].on)' \subseteq ApprovedReplies(req[b].on)
                \/ req[b].on \in crossed'
    PROVE  RequestOK(b)'
<1> DEFINE c == req[b].on
<1>1. CASE c \in ids'
  <2>1. \/ ApprovedReplies(req[b].on)' = {} \/ c \in crossed'
        \/ ApprovedReplies(c) # {} /\ c \notin crossed
    BY <1>1
  <2> QED BY <1>1, <2>1 DEF RequestOK
<1>2. CASE c \notin ids' BY <1>2 DEF RequestOK
<1> QED BY <1>1, <1>2

LEMMA RequestNext ==
    ASSUME TypeOK, TypeOK', RequestsOK, ThreadsOK, [Next]_vars
    PROVE  RequestsOK'
<1> USE ConstAssumption
<1>1. ASSUME NEW a \in Caller, CallerStep(a), NEW b \in Caller
      PROVE  RequestOK(b)'
  <2>0. RequestOK(a) /\ RequestOK(b) BY DEF RequestsOK
  <2>1. CASE \E k \in Kind, c \in Comment \cup {None} : AsksFor(a, k, c)
    <3> PICK k \in Kind, c \in Comment \cup {None} : AsksFor(a, k, c) BY <2>1
    <3>1. UNCHANGED <<fresh, ids, row, crossed>> BY DEF AsksFor, Begins, tables, observers
    <3>2. CASE b = a
      <4>1. req'[a].kind = k /\ req'[a].on = c
        BY DEF AsksFor, Begins, NoRequest, TypeOK
      <4>2. k = "erase" => ApprovedReplies(c) = {}
        BY DEF AsksFor, ThreadsOK, ApprovedReplies, Replies, TypeOK
      <4>3. ApprovedReplies(req[a].on)' = ApprovedReplies(c)
        BY <3>1, <4>1 DEF ApprovedReplies, Live, Replies
      <4>4. c \notin fresh BY DEF AsksFor, TypeOK
      <4> QED BY <3>1, <3>2, <4>1, <4>2, <4>3, <4>4 DEF RequestOK, AsksFor, TypeOK
    <3>3. CASE b # a
      <4>1. req'[b] = req[b] BY <3>3 DEF AsksFor, Begins, TypeOK
      <4>2. ApprovedReplies(req[b].on)' = ApprovedReplies(req[b].on)
        BY <3>1, <4>1 DEF ApprovedReplies, Live, Replies
      <4> QED BY <2>0, <3>1, <4>1, <4>2, RequestKept
    <3> QED BY <3>2, <3>3
  <2>2. CASE AddLike(a) \/ RemoveLike(a) \/ UpdateCounters(a) \/ Fails(a)
    <3>1. UNCHANGED <<fresh, ids, row, crossed>>
      BY <2>2 DEF AddLike, RemoveLike, UpdateCounters, Fails, tables
    <3>2. req'[b] = IF b = a THEN NoRequest ELSE req[b]
      BY <2>2 DEF AddLike, RemoveLike, UpdateCounters, Fails, Ends, TypeOK
    <3>3. b # a => ApprovedReplies(req[b].on)' = ApprovedReplies(req[b].on)
      BY <3>1, <3>2 DEF ApprovedReplies, Live, Replies
    <3> QED BY <2>0, <3>1, <3>2, <3>3, RequestKept, RequestOver
  <2>3. CASE Insert(a)
    <3> PICK c \in fresh :
            /\ fresh' = fresh \ {c} /\ ids' = ids \cup {c}
            /\ row' = [row EXCEPT ![c] = NewRow(req[a].on, a)]
      BY <2>3 DEF Insert
    <3>1. Crossing(a) /\ req' = [req EXCEPT ![a] = NoRequest] BY <2>3 DEF Insert, Ends
    <3>2. CASE b = a BY <3>1, <3>2, RequestOver DEF TypeOK
    <3>3. CASE b # a
      <4>1. req'[b] = req[b] BY <3>1, <3>3 DEF TypeOK
      <4>2. req[b].on # c BY <2>0 DEF RequestOK
      <4>3. \A d \in ids : d # c BY DEF TypeOK
      <4>4. \A d \in ids : row'[d] = row[d] BY <4>3 DEF TypeOK
      <4>5. row'[c].parent = req[a].on BY DEF NewRow, TypeOK
      <4>6. CASE req[b].on \in ids
        <5>1. req[b].on \in Comment BY <4>6 DEF TypeOK
        <5>2. ApprovedReplies(req[b].on)' \subseteq ApprovedReplies(req[b].on)
              \/ req[a].on = req[b].on
          BY <4>1, <4>4, <4>5 DEF ApprovedReplies, Live, Replies
        <5>3. req[a].on = req[b].on => req[b].on \in crossed'
          BY <3>1, <3>3, <5>1, Crosses, TouchesOwn
        <5> QED BY <2>0, <3>1, <4>1, <4>4, <4>6, <5>2, <5>3, Crosses, RequestKept
      <4>7. CASE req[b].on \notin ids
        BY <2>0, <3>1, <4>1, <4>2, <4>7, Crosses, RequestKept
      <4> QED BY <4>6, <4>7
    <3> QED BY <3>2, <3>3
  <2>4. CASE \E r \in Row : Revises(a, r)
    <3> PICK r \in Row : Revises(a, r) BY <2>4
    <3> DEFINE c == req[a].on
    <3>1. /\ Crossing(a) /\ req' = [req EXCEPT ![a] = NoRequest]
          /\ c \in ids /\ row' = [row EXCEPT ![c] = r] /\ UNCHANGED <<fresh, ids>>
      BY DEF Revises, UpdateRow, Ends
    <3>2. CASE b = a BY <3>1, <3>2, RequestOver DEF TypeOK
    <3>3. CASE b # a
      <4> DEFINE d == req[b].on
      <4>1. req'[b] = req[b] BY <3>1, <3>3 DEF TypeOK
      <4>2. CASE d \in ids
        <5>1. d \in Comment /\ c \in Comment BY <3>1, <4>2 DEF TypeOK
        <5>2. d = c => d \in crossed' BY <3>1, <3>3, <5>1, Crosses, TouchesOwn
        <5>3. row[c].parent = d => d \in crossed' BY <3>1, <3>3, <5>1, Crosses, TouchesOwn
        <5>4. row'[c] = r /\ \A x \in ids \ {c} : row'[x] = row[x] BY <3>1, <5>1 DEF TypeOK
        <5>5. r.parent = row[c].parent /\ r.by = row[c].by
              /\ (row[c].state # "pending" => r.state # "pending")
          BY DEF Revises
        <5>6. ApprovedReplies(d)' \subseteq ApprovedReplies(d) \/ row[c].parent = d
          BY <3>1, <4>1, <5>4, <5>5 DEF ApprovedReplies, Live, Replies
        <5> HIDE DEF c
        <5> QED BY <2>0, <3>1, <4>1, <4>2, <5>2, <5>3, <5>4, <5>5, <5>6, Crosses, RequestKept
      <4>3. CASE d \notin ids BY <2>0, <3>1, <4>1, <4>3, Crosses, RequestKept
      <4> QED BY <4>2, <4>3
    <3> QED BY <3>2, <3>3
  <2>5. CASE HardDelete(a)
    <3>1. Crossing(a) /\ req' = [req EXCEPT ![a] = NoRequest] /\ UNCHANGED fresh
      BY <2>5 DEF HardDelete, Ends
    <3>2. ids' \subseteq ids /\ Live' \subseteq Live /\ \A c \in ids' : row'[c] = row[c]
      BY <2>5, DeleteSteps, DeleteRows
    <3>3. req'[b] = NoRequest \/ req'[b] = req[b] BY <3>1 DEF TypeOK
    <3>4. req'[b] = req[b] => ApprovedReplies(req[b].on)' \subseteq ApprovedReplies(req[b].on)
      BY <3>2 DEF ApprovedReplies, Replies
    <3> QED BY <2>0, <3>1, <3>2, <3>3, <3>4, Crosses, RequestKept, RequestOver
  <2>6. CASE CountLikes(a) \/ CountComments(a)
    <3>1. UNCHANGED <<fresh, ids, row, crossed>>
      BY <2>6 DEF CountLikes, CountComments, tables, observers
    <3>2. CASE b = a
      <4>1. CountLikes(a) => req'[a].on = None /\ req'[a].kind \in Reconciling
        BY DEF CountLikes, NoRequest, Reconciling, TypeOK
      <4>2. CountComments(a) => req'[a].on = req[a].on /\ req'[a].kind \in Reconciling
        BY DEF CountComments, Reconciling, TypeOK, Request
      <4>3. CountComments(a) => req[a].on = None
        BY <2>0, <3>2 DEF CountComments, RequestOK, Reconciling
      <4> QED BY <2>6, <3>2, <4>1, <4>2, <4>3 DEF RequestOK, Reconciling, TypeOK
    <3>3. CASE b # a
      <4>1. req'[b] = req[b] BY <2>6, <3>3 DEF CountLikes, CountComments, TypeOK
      <4>2. ApprovedReplies(req[b].on)' = ApprovedReplies(req[b].on)
        BY <3>1, <4>1 DEF ApprovedReplies, Live, Replies
      <4> QED BY <2>0, <3>1, <4>1, <4>2, RequestKept
    <3> QED BY <3>2, <3>3
  <2> QED BY <1>1, <2>1, <2>2, <2>3, <2>4, <2>5, <2>6 DEF CallerStep
<1>2. ASSUME OtherStep, NEW b \in Caller PROVE RequestOK(b)'
  <2>0. RequestOK(b) BY DEF RequestsOK
  <2>1. UNCHANGED <<req, fresh, crossed>>
    BY <1>2 DEF OtherStep, PurgeSelect, PurgeDelete, PurgeFails, ClosePost, Grows, vars, observers
  <2>2. CASE UNCHANGED <<ids, row>>
    <3>1. ApprovedReplies(req[b].on)' = ApprovedReplies(req[b].on)
      BY <2>1, <2>2 DEF ApprovedReplies, Live, Replies
    <3> QED BY <2>0, <2>1, <2>2, <3>1, RequestKept
  <2>3. CASE PurgeDelete
    <3>1. ids' \subseteq ids /\ Live' \subseteq Live /\ \A c \in ids' : row'[c] = row[c]
      BY <2>3, DeleteSteps, DeleteRows
    <3>2. ApprovedReplies(req[b].on)' \subseteq ApprovedReplies(req[b].on)
      BY <2>1, <3>1 DEF ApprovedReplies, Replies
    <3> QED BY <2>0, <2>1, <3>1, <3>2, RequestKept
  <2>4. CASE \E c \in Comment : Grows(c)
    <3>1. ids' = ids /\ \A d \in ids : /\ row'[d].parent = row[d].parent /\ row'[d].by = row[d].by
                                     /\ row'[d].state = row[d].state
                                     /\ row'[d].deleted = row[d].deleted
      BY <2>4 DEF Grows, TypeOK, Row
    <3>2. ApprovedReplies(req[b].on)' = ApprovedReplies(req[b].on)
      BY <2>1, <3>1 DEF ApprovedReplies, Live, Replies, Contributes
    <3> QED BY <2>0, <2>1, <3>1, <3>2, RequestKept
  <2> QED BY <1>2, <2>2, <2>3, <2>4 DEF OtherStep, PurgeSelect, PurgeFails, ClosePost, vars, tables
<1> QED BY <1>1, <1>2, StepCases DEF RequestsOK

\* What a step does to the threads: nothing, a new row, a rewritten one, or a DELETE.
LEMMA RowSteps ==
    ASSUME TypeOK, RequestsOK, [Next]_vars
    PROVE  \/ UNCHANGED ids /\ \A d \in ids : /\ row'[d].parent = row[d].parent
                                             /\ row'[d].state = row[d].state
                                             /\ row'[d].by = row[d].by
                                             /\ row'[d].deleted = row[d].deleted
           \/ \E a \in Caller : Insert(a) \/ \E r \in Row : Revises(a, r)
           \/ \E victims \in SUBSET ids : Delete(victims)
<1>1. ASSUME NEW a \in Caller, CallerStep(a), ~Insert(a), ~\E r \in Row : Revises(a, r), ~HardDelete(a)
      PROVE  UNCHANGED <<ids, row>>
  BY <1>1 DEF CallerStep, AsksFor, Begins, AddLike, RemoveLike, CountLikes, CountComments,
              UpdateCounters, Fails, tables
<1>2. ASSUME NEW a \in Caller, HardDelete(a) PROVE \E victims \in SUBSET ids : Delete(victims)
  BY <1>2, DeleteSteps
<1>3. PurgeDelete => \E victims \in SUBSET ids : Delete(victims)
  BY DeleteSteps
<1>4. ASSUME NEW c \in Comment, Grows(c)
      PROVE  UNCHANGED ids /\ \A d \in ids : /\ row'[d].parent = row[d].parent
                                             /\ row'[d].state = row[d].state
                                             /\ row'[d].by = row[d].by
                                             /\ row'[d].deleted = row[d].deleted
  BY <1>4 DEF Grows, TypeOK, Row
<1>5. OtherStep /\ ~PurgeDelete /\ ~(\E c \in Comment : Grows(c)) => UNCHANGED <<ids, row>>
  BY DEF OtherStep, PurgeSelect, PurgeFails, ClosePost, vars, tables
<1> QED BY <1>1, <1>2, <1>3, <1>4, <1>5, StepCases

LEMMA ThreadsNext ==
    ASSUME TypeOK, TypeOK', RequestsOK, ThreadsOK, [Next]_vars
    PROVE  ThreadsOK'
<1> USE ConstAssumption
<1> SUFFICES ASSUME NEW d \in ids', row'[d].parent # None
             PROVE  /\ row'[d].parent \in ids'
                    /\ row'[row'[d].parent].parent = None /\ row'[row'[d].parent].state # "pending"
  BY DEF ThreadsOK
<1>1. CASE UNCHANGED ids /\ \A e \in ids : row'[e].parent = row[e].parent /\ row'[e].state = row[e].state
  BY <1>1 DEF ThreadsOK
<1>2. ASSUME NEW a \in Caller, Insert(a)
      PROVE  /\ row'[d].parent \in ids'
             /\ row'[row'[d].parent].parent = None /\ row'[row'[d].parent].state # "pending"
  <2> PICK c \in fresh :
          /\ ids' = ids \cup {c} /\ row' = [row EXCEPT ![c] = NewRow(req[a].on, a)]
    BY <1>2 DEF Insert
  <2>1. \A e \in ids : e # c /\ row'[e] = row[e] BY DEF TypeOK
  <2>2. CASE d = c
    <3>1. row'[d].parent = req[a].on BY <2>2 DEF NewRow, TypeOK
    <3>2. req[a].kind = "reply" /\ req[a].on \in ids
      BY <1>2, <3>1 DEF Insert, RequestsOK, RequestOK
    <3> QED BY <2>1, <3>1, <3>2 DEF RequestsOK, RequestOK
  <2>3. CASE d # c BY <2>1, <2>3 DEF ThreadsOK
  <2> QED BY <2>2, <2>3
<1>3. ASSUME NEW a \in Caller, NEW r \in Row, Revises(a, r)
      PROVE  /\ row'[d].parent \in ids'
             /\ row'[row'[d].parent].parent = None /\ row'[row'[d].parent].state # "pending"
  <2>1. \A e \in ids : /\ row'[e].parent = row[e].parent
                       /\ row[e].state # "pending" => row'[e].state # "pending"
    BY <1>3 DEF Revises, UpdateRow, TypeOK
  <2> QED BY <1>3, <2>1 DEF ThreadsOK, Revises, UpdateRow
<1>4. ASSUME NEW victims \in SUBSET ids, Delete(victims)
      PROVE  /\ row'[d].parent \in ids'
             /\ row'[row'[d].parent].parent = None /\ row'[row'[d].parent].state # "pending"
  <2>1. ids' = ids \ Gone(victims) /\ \A c \in ids' : row'[c] = row[c] BY <1>4, DeleteRows
  <2> DEFINE p == row[d].parent
  <2>2. d \in ids /\ p # None /\ d \notin Gone(victims) BY <2>1
  <2>3. p \in ids /\ row[p].parent = None BY <2>2 DEF ThreadsOK
  <2>4. p \notin victims BY <2>2 DEF Gone
  <2>5. p \notin Gone(victims) BY <2>3, <2>4 DEF Gone, TypeOK
  <2> QED BY <2>1, <2>2, <2>3, <2>5 DEF ThreadsOK
<1> QED BY <1>1, <1>2, <1>3, <1>4, RowSteps

LEMMA PurgeNext ==
    ASSUME TypeOK, TypeOK', RequestsOK, PurgeOK, [Next]_vars
    PROVE  PurgeOK'
<1> USE ConstAssumption
<1>1. CASE PurgeSelect
  BY <1>1 DEF PurgeSelect, Stale, PurgeOK, TypeOK, tables, observers
<1>2. CASE PurgeDelete \/ PurgeFails BY <1>2 DEF PurgeDelete, PurgeFails, PurgeOK
<1>3. ASSUME NEW a \in Caller, Insert(a) PROVE PurgeOK'
  <2> PICK c \in fresh :
          /\ fresh' = fresh \ {c} /\ ids' = ids \cup {c}
          /\ row' = [row EXCEPT ![c] = NewRow(req[a].on, a)]
    BY <1>3 DEF Insert
  <2>1. \A e \in ids : row'[e] = row[e] BY DEF TypeOK
  <2>2. purge' = purge /\ crossed \subseteq crossed' BY <1>3, Crosses DEF Insert
  <2> QED BY <2>1, <2>2 DEF PurgeOK
<1>4. ASSUME NEW a \in Caller, NEW r \in Row, Revises(a, r) PROVE PurgeOK'
  <2> DEFINE c == req[a].on
  <2>1. /\ Crossing(a) /\ c \in ids /\ row' = [row EXCEPT ![c] = r]
        /\ UNCHANGED <<fresh, ids, purge>>
    BY <1>4 DEF Revises, UpdateRow
  <2>2. \A e \in ids \ {c} : row'[e] = row[e] BY <2>1 DEF TypeOK
  <2>3. c \in purge => c \in crossed'
    BY <2>1 DEF Crossing, Touched, TypeOK
  <2> HIDE DEF c
  <2> QED BY <2>1, <2>2, <2>3, Crosses DEF PurgeOK
<1>5. ASSUME NEW a \in Caller, HardDelete(a) PROVE PurgeOK'
  <2>1. ids' \subseteq ids /\ \A c \in ids' : row'[c] = row[c] BY <1>5, DeleteSteps, DeleteRows
  <2> QED BY <1>5, <2>1, Crosses DEF PurgeOK, HardDelete
<1>6. ASSUME NEW c \in Comment, Grows(c) PROVE PurgeOK'
  <2>1. \A d \in ids : row'[d].state = row[d].state BY <1>6 DEF Grows, TypeOK, Row
  <2> QED BY <1>6, <2>1 DEF PurgeOK, Grows, observers
<1>7. CASE UNCHANGED <<fresh, ids, row, purge, crossed>> BY <1>7 DEF PurgeOK
<1>8. ASSUME NEW a \in Caller, CallerStep(a), ~Insert(a), ~\E r \in Row : Revises(a, r), ~HardDelete(a)
      PROVE  UNCHANGED <<fresh, ids, row, purge, crossed>>
  BY <1>8 DEF CallerStep, AsksFor, Begins, AddLike, RemoveLike, CountLikes, CountComments,
              UpdateCounters, Fails, tables, observers
<1>9. ASSUME OtherStep, ~PurgeSelect, ~PurgeDelete, ~PurgeFails, ~\E c \in Comment : Grows(c)
      PROVE  UNCHANGED <<fresh, ids, row, purge, crossed>>
  BY <1>9 DEF OtherStep, ClosePost, vars, tables, observers
<1> QED BY <1>1, <1>2, <1>3, <1>4, <1>5, <1>6, <1>7, <1>8, <1>9, StepCases

----------------------------------------------------------------------------
(* The counters.                                                           *)

\* A request that ends has read nothing.
EndsOnly == \A b \in Caller : req'[b] = req[b] \/ req'[b] = NoRequest

\* When the counter follows its rows, and the reconcilers that have read them are
\* overtaken, the counts stay right.
LEMMA LikesFollow ==
    ASSUME CountsOK, EndsOnly, UNCHANGED <<Live, commentCount, drift>>,
           likeCount = Cardinality(likes) => likeCount' = Cardinality(likes'),
           IF likes' = likes THEN UNCHANGED overtaken ELSE LikesMove
    PROVE  CountsOK'
<1>1. \A b \in Caller \ overtaken' : req'[b].kind \in Reconciling =>
         b \notin overtaken /\ req'[b] = req[b] /\ likes' = likes
  BY DEF EndsOnly, LikesMove, NoRequest, Reconciling
<1>2. \A b \in Caller : req'[b].kind = "counted" => req'[b].kind \in Reconciling BY DEF Reconciling
<1> QED BY <1>1, <1>2 DEF CountsOK

LEMMA CommentsFollow ==
    ASSUME CountsOK, EndsOnly, UNCHANGED <<likes, likeCount, drift>>,
           commentCount = Cardinality(Live) => commentCount' = Cardinality(Live'),
           IF Live' = Live THEN UNCHANGED overtaken ELSE CommentsMove
    PROVE  CountsOK'
<1>1. \A b \in Caller \ overtaken' : req'[b].kind \in Reconciling =>
         b \notin overtaken /\ req'[b] = req[b] /\ (req'[b].kind = "counted" => Live' = Live)
  BY DEF EndsOnly, CommentsMove, NoRequest, Reconciling
<1>2. \A b \in Caller : req'[b].kind = "counted" => req'[b].kind \in Reconciling BY DEF Reconciling
<1> QED BY <1>1, <1>2 DEF CountsOK

\* One row enters or leaves the comments that count.
LEMMA CountsOne ==
    ASSUME TypeOK, NEW c \in Comment, NEW is \in BOOLEAN,
           Live' = IF is THEN Live \cup {c} ELSE Live \ {c},
           commentCount' = Count(commentCount, c \in Live, is)
    PROVE  commentCount = Cardinality(Live) => commentCount' = Cardinality(Live')
<1>1. CASE is BY <1>1, Finite, FS_AddElement DEF Count
<1>2. CASE ~is
  <2>1. CASE c \in Live
    <3>1. Cardinality(Live) \in Nat \ {0} BY <2>1, Finite, FS_EmptySet
    <3>2. Cardinality(Live') = Cardinality(Live) - 1 BY <1>2, <2>1, Finite, FS_RemoveElement
    <3>3. commentCount' = Less(commentCount, 1) BY <1>2, <2>1 DEF Count
    <3> QED BY <3>1, <3>2, <3>3 DEF Less
  <2>2. CASE c \notin Live
    <3>1. Live' = Live BY <1>2, <2>2
    <3> QED BY <1>2, <2>2, <3>1 DEF Count
  <2> QED BY <2>1, <2>2
<1> QED BY <1>1, <1>2

LEMMA CountsDeleted ==
    ASSUME TypeOK, NEW victims \in SUBSET ids, Delete(victims)
    PROVE  /\ commentCount = Cardinality(Live) => commentCount' = Cardinality(Live')
           /\ IF Live' = Live THEN UNCHANGED overtaken ELSE CommentsMove
<1> DEFINE lost == Live \cap Gone(victims)
<1>1. Cardinality(lost) \in Nat /\ Cardinality(lost) <= Cardinality(Live)
  BY Finite, FS_Intersection, FS_CardinalityType
<1>2. Cardinality(Live \ Gone(victims)) = Cardinality(Live) - Cardinality(lost)
  BY Finite, FS_Difference
<1> HIDE DEF lost
<1>3. Live' = Live \ Gone(victims) /\ commentCount' = Less(commentCount, Cardinality(lost))
  BY DeleteRows DEF lost
<1>4. commentCount = Cardinality(Live) => commentCount' = Cardinality(Live) - Cardinality(lost)
  BY <1>1, <1>3, Finite DEF Less
<1> QED BY <1>2, <1>3, <1>4, DeleteRows

LEMMA CountsNext ==
    ASSUME TypeOK, TypeOK', RequestsOK, CountsOK, [Next]_vars
    PROVE  CountsOK'
<1>1. ASSUME NEW a \in Caller, CallerStep(a) PROVE CountsOK'
  <2>1. CASE \E k \in Kind, c \in Comment \cup {None} : AsksFor(a, k, c)
    <3>1. UNCHANGED <<Live, likes, likeCount, commentCount, overtaken, drift>>
      BY <2>1 DEF AsksFor, Begins, tables, observers, Live
    <3>2. \A b \in Caller : req'[b] = req[b] \/ req'[b].kind \notin Reconciling
      BY <2>1 DEF AsksFor, Begins, NoRequest, TypeOK
    <3> QED BY <3>1, <3>2 DEF CountsOK, Reconciling
  <2>2. CASE AddLike(a)
    <3>1. EndsOnly BY <2>2 DEF AddLike, Ends, EndsOnly, TypeOK
    <3>2. likeCount = Cardinality(likes) => likeCount' = Cardinality(likes')
      BY <2>2, Finite, FS_AddElement DEF AddLike, Likes
    <3>3. UNCHANGED <<Live, commentCount, drift>> BY <2>2 DEF AddLike, Live
    <3>4. IF likes' = likes THEN UNCHANGED overtaken ELSE LikesMove BY <2>2 DEF AddLike, Likes
    <3> QED BY <3>1, <3>2, <3>3, <3>4, LikesFollow
  <2>3. CASE RemoveLike(a)
    <3>1. EndsOnly BY <2>3 DEF RemoveLike, Ends, EndsOnly, TypeOK
    <3>2. likeCount = Cardinality(likes) => likeCount' = Cardinality(likes')
      <4>1. CASE a \in likes
        <5>1. Cardinality(likes) \in Nat \ {0} BY <4>1, Finite, FS_EmptySet
        <5>2. Cardinality(likes') = Cardinality(likes) - 1
          BY <2>3, <4>1, Finite, FS_RemoveElement DEF RemoveLike
        <5>3. likeCount' = Less(likeCount, 1) BY <2>3, <4>1 DEF RemoveLike, Likes
        <5> QED BY <5>1, <5>2, <5>3 DEF Less
      <4>2. CASE a \notin likes
        <5>1. likes' = likes /\ likeCount' = likeCount BY <2>3, <4>2 DEF RemoveLike, Likes
        <5> QED BY <5>1
      <4> QED BY <4>1, <4>2
    <3>3. UNCHANGED <<Live, commentCount, drift>> BY <2>3 DEF RemoveLike, Live
    <3>4. IF likes' = likes THEN UNCHANGED overtaken ELSE LikesMove BY <2>3 DEF RemoveLike, Likes
    <3> QED BY <3>1, <3>2, <3>3, <3>4, LikesFollow
  <2>4. CASE Insert(a)
    <3> DEFINE n == NewRow(req[a].on, a)
    <3> PICK c \in fresh :
            /\ ids' = ids \cup {c} /\ row' = [row EXCEPT ![c] = n]
            /\ commentCount' = Count(commentCount, FALSE, Contributes(n))
            /\ IF Contributes(n) THEN CommentsMove ELSE UNCHANGED overtaken
      BY <2>4 DEF Insert
    <3>1. EndsOnly BY <2>4 DEF Insert, Ends, EndsOnly, TypeOK
    <3>2. c \in Comment /\ c \notin Live BY DEF TypeOK, Live
    <3>3. row'[c] = n /\ \A d \in ids : row'[d] = row[d] BY DEF TypeOK
    <3> HIDE DEF n
    <3>4. Live' = IF Contributes(n) THEN Live \cup {c} ELSE Live \ {c} BY <3>2, <3>3 DEF Live
    <3>5. Contributes(n) \in BOOLEAN BY DEF Contributes
    <3>6. commentCount = Cardinality(Live) => commentCount' = Cardinality(Live')
      <4>1. (c \in Live) = FALSE BY <3>2
      <4>2. commentCount' = Count(commentCount, c \in Live, Contributes(n)) BY <4>1 DEF n
      <4> QED BY <3>2, <3>4, <3>5, <4>2, CountsOne
    <3>7. UNCHANGED <<likes, likeCount, drift>> BY <2>4 DEF Insert
    <3>8. IF Live' = Live THEN UNCHANGED overtaken ELSE CommentsMove BY <3>2, <3>4
    <3> QED BY <3>1, <3>6, <3>7, <3>8, CommentsFollow
  <2>5. CASE HardDelete(a)
    <3>1. EndsOnly /\ UNCHANGED <<likes, likeCount, drift>>
      BY <2>5 DEF HardDelete, Ends, EndsOnly, TypeOK
    <3> QED BY <2>5, <3>1, DeleteSteps, CountsDeleted, CommentsFollow
  <2>6. CASE \E r \in Row : Revises(a, r)
    <3> PICK r \in Row : Revises(a, r) BY <2>6
    <3> DEFINE c == req[a].on
    <3>1. /\ c \in ids /\ row' = [row EXCEPT ![c] = r] /\ UNCHANGED <<ids, likes, likeCount, drift>>
          /\ commentCount' = Count(commentCount, Contributes(row[c]), Contributes(r))
          /\ IF Contributes(row[c]) # Contributes(r) THEN CommentsMove ELSE UNCHANGED overtaken
      BY DEF Revises, UpdateRow
    <3>2. EndsOnly BY DEF Revises, UpdateRow, Ends, EndsOnly, TypeOK
    <3> HIDE DEF c
    <3>3. c \in Comment /\ row'[c] = r /\ \A d \in ids \ {c} : row'[d] = row[d]
      BY <3>1 DEF TypeOK
    <3>4. (c \in Live) = Contributes(row[c]) BY <3>1 DEF Live, Contributes
    <3>5. Live' = IF Contributes(r) THEN Live \cup {c} ELSE Live \ {c} BY <3>1, <3>3 DEF Live
    <3>6. Contributes(r) \in BOOLEAN BY DEF Contributes
    <3>7. commentCount = Cardinality(Live) => commentCount' = Cardinality(Live')
      BY <3>1, <3>3, <3>4, <3>5, <3>6, CountsOne
    <3>8. IF Live' = Live THEN UNCHANGED overtaken ELSE CommentsMove BY <3>1, <3>4, <3>5, <3>6
    <3> QED BY <3>1, <3>2, <3>7, <3>8, CommentsFollow
  <2>7. CASE CountLikes(a)
    <3>1. UNCHANGED <<Live, likes, likeCount, commentCount, overtaken, drift>>
      BY <2>7 DEF CountLikes, tables, observers, Live
    <3>2. \A b \in Caller :
             \/ req'[b] = req[b]
             \/ req'[b].kind = "like_counted" /\ req'[b].likes = Cardinality(likes)
      BY <2>7 DEF CountLikes, NoRequest, TypeOK
    <3> QED BY <3>1, <3>2 DEF CountsOK, Reconciling
  <2>8. CASE CountComments(a)
    <3>1. UNCHANGED <<Live, likes, likeCount, commentCount, overtaken, drift>>
      BY <2>8 DEF CountComments, tables, observers, Live
    <3>2. \A b \in Caller :
             \/ req'[b] = req[b]
             \/ /\ req[b].kind = "like_counted" /\ req'[b].kind = "counted"
                /\ req'[b].likes = req[b].likes /\ req'[b].comments = Cardinality(Live)
      BY <2>8 DEF CountComments, TypeOK, Request
    <3> QED BY <3>1, <3>2 DEF CountsOK, Reconciling
  <2>9. CASE UpdateCounters(a)
    <3>1. UNCHANGED <<Live, likes>> BY <2>9 DEF UpdateCounters, Live
    <3>2. \A b \in Caller : b # a => req'[b] = req[b] BY <2>9 DEF UpdateCounters, Ends, TypeOK
    <3>3. req'[a].kind \notin Reconciling /\ req'[a].kind # "counted"
      BY <2>9 DEF UpdateCounters, Ends, NoRequest, Reconciling, TypeOK
    <3>4. ~drift' => likeCount' = Cardinality(likes) /\ commentCount' = Cardinality(Live)
      BY <2>9 DEF UpdateCounters, CountsOK, Reconciling
    <3> QED BY <2>9, <3>1, <3>2, <3>3, <3>4 DEF CountsOK, UpdateCounters
  <2>10. CASE Fails(a)
    <3>1. UNCHANGED <<Live, likes, likeCount, commentCount, drift>> BY <2>10 DEF Fails, Live, tables
    <3>2. \A b \in Caller : b # a => req'[b] = req[b] BY <2>10 DEF Fails, Ends, TypeOK
    <3>3. req'[a].kind \notin Reconciling /\ req'[a].kind # "counted"
      BY <2>10 DEF Fails, Ends, NoRequest, Reconciling, TypeOK
    <3> QED BY <2>10, <3>1, <3>2, <3>3 DEF CountsOK, Fails
  <2> QED BY <1>1, <2>1, <2>2, <2>3, <2>4, <2>5, <2>6, <2>7, <2>8, <2>9, <2>10 DEF CallerStep
<1>2. CASE OtherStep
  <2>1. UNCHANGED <<req, likes, likeCount, drift>>
    BY <1>2 DEF OtherStep, PurgeSelect, PurgeDelete, PurgeFails, ClosePost, Grows, vars, tables, observers
  <2>2. CASE PurgeDelete
    <3>1. EndsOnly BY <2>1 DEF EndsOnly
    <3> QED BY <2>1, <2>2, <3>1, DeleteSteps, CountsDeleted, CommentsFollow
  <2>3. CASE ~PurgeDelete
    <3>1. UNCHANGED <<commentCount, overtaken, ids>>
      BY <1>2, <2>3 DEF OtherStep, PurgeSelect, PurgeFails, ClosePost, Grows, vars, tables, observers
    <3>2. \A d \in ids : row'[d].state = row[d].state /\ row'[d].deleted = row[d].deleted
      BY <1>2, <2>3 DEF OtherStep, PurgeSelect, PurgeFails, ClosePost, Grows, vars, tables, TypeOK, Row
    <3>3. Live' = Live BY <3>1, <3>2 DEF Live, Contributes
    <3> QED BY <2>1, <3>1, <3>3 DEF CountsOK
  <2> QED BY <2>2, <2>3
<1> QED BY <1>1, <1>2, StepCases

----------------------------------------------------------------------------
(* The theorems.                                                           *)

LEMMA Inductive == Spec => []IInv
<1>1. Init => IInv
  <2> SUFFICES ASSUME Init PROVE IInv
    OBVIOUS
  <2>1. TypeOK BY InitType
  <2>2. \A a \in Caller : req[a] = NoRequest BY DEF Init
  <2>3. RequestsOK /\ ThreadsOK /\ PurgeOK
    BY <2>2, ConstAssumption DEF Init, RequestsOK, RequestOK, ThreadsOK, PurgeOK, NoRequest, Reconciling
  <2>4. Live = {} /\ likes = {} BY DEF Init, Live
  <2>5. CountsOK BY <2>2, <2>4, FS_EmptySet DEF Init, CountsOK, NoRequest, Reconciling
  <2> QED BY <2>1, <2>3, <2>5 DEF IInv
<1>2. IInv /\ [Next]_vars => IInv'
  BY TypeNext, RequestNext, ThreadsNext, PurgeNext, CountsNext DEF IInv
<1> QED BY <1>1, <1>2, PTL DEF Spec

\* In every reachable state the variables have their types and the rows pass the table's
\* CHECK constraints.
THEOREM TypeCorrect == Spec => []TypeOK
<1>1. IInv => TypeOK BY DEF IInv
<1> QED BY <1>1, Inductive, PTL

\* The cached counters are the numbers of likes and of public comments, unless the last
\* reconcile wrote counts that a commit had overtaken.
THEOREM CountersAreRight == Spec => []CountersMatch
<1>1. IInv => CountersMatch
  <2> SUFFICES ASSUME IInv PROVE CountersMatch
    OBVIOUS
  <2>1. Likers = likes BY DEF IInv, TypeOK, Likers
  <2> QED BY <2>1 DEF IInv, CountsOK, CountersMatch
<1> QED BY <1>1, Inductive, PTL

----------------------------------------------------------------------------
(* What may never happen to a comment.                                     *)

HiddenNow ==
    \A c \in ids :
        row[c].deleted \/ (row[c].state = "rejected" /\ c \notin crossed') => c \notin Public'

LEMMA HiddenStep == ASSUME IInv, IInv', [Next]_vars PROVE HiddenNow
<1> USE DEF IInv
<1> SUFFICES ASSUME NEW c \in ids, c \in Live',
                    row[c].deleted \/ (row[c].state = "rejected" /\ c \notin crossed')
             PROVE  FALSE
  <2>1. Public' \subseteq Live'
    BY DEF Public, TopLevelList, RepliesList, ApprovedTopLevel, ApprovedReplies
  <2> QED BY <2>1 DEF HiddenNow
<1>0. c \in ids' /\ row'[c].state = "approved" /\ ~row'[c].deleted BY DEF Live, Contributes
<1>1. CASE row'[c].state = row[c].state /\ row'[c].deleted = row[c].deleted BY <1>0, <1>1
<1>2. ASSUME NEW a \in Caller, Insert(a) PROVE row'[c] = row[c] BY <1>2 DEF Insert, TypeOK
<1>3. ASSUME NEW a \in Caller, NEW r \in Row, Revises(a, r) PROVE FALSE
  <2>1. CASE c = req[a].on
    <3>1. row'[c] = r BY <1>3, <2>1 DEF Revises, UpdateRow, TypeOK
    <3>2. ~row[c].deleted /\ row[c].state = "rejected" /\ c \notin crossed'
      BY <1>0, <1>3, <2>1, <3>1 DEF Revises
    <3>3. req[a].kind = "approve" BY <1>0, <1>3, <2>1, <3>1, <3>2 DEF Revises
    <3>4. c \in crossed BY <2>1, <3>2, <3>3 DEF RequestsOK, RequestOK
    <3>5. crossed \subseteq crossed' BY <1>3, Crosses DEF Revises, UpdateRow
    <3> QED BY <3>2, <3>4, <3>5
  <2>2. CASE c # req[a].on
    <3>1. row'[c] = row[c] BY <1>3, <2>2 DEF Revises, UpdateRow, TypeOK
    <3> QED BY <1>1, <3>1
  <2> QED BY <2>1, <2>2
<1>4. ASSUME NEW victims \in SUBSET ids, Delete(victims) PROVE row'[c] = row[c]
  BY <1>0, <1>4, DeleteRows
<1> QED BY <1>1, <1>2, <1>3, <1>4, RowSteps

\* What was deleted, or was rejected by a moderator whose request no other crossed, never
\* becomes public again.
THEOREM DeletedStaysHidden == Spec => HiddenStaysHidden
<1>1. IInv /\ IInv' /\ [Next]_vars => [HiddenNow]_vars BY HiddenStep
<1> QED BY <1>1, Inductive, PTL DEF Spec, HiddenStaysHidden, HiddenNow

KeptNow ==
    \A c \in Live \ ids' :
        \/ row[c].by \in User /\ req[row[c].by].kind = "erase" /\ req[row[c].by].on = c
        \/ {c, row[c].parent} \cap crossed' # {}

LEMMA KeptStep == ASSUME IInv, [Next]_vars PROVE KeptNow
<1> USE ConstAssumption DEF IInv
<1> SUFFICES ASSUME NEW c \in Live \ ids'
             PROVE  \/ row[c].by \in User /\ req[row[c].by].kind = "erase" /\ req[row[c].by].on = c
                    \/ {c, row[c].parent} \cap crossed' # {}
  BY DEF KeptNow
<1>0. c \in ids /\ row[c].state = "approved" BY DEF Live, Contributes
<1>1. ASSUME NEW a \in Caller, HardDelete(a)
      PROVE  \/ row[c].by \in User /\ req[row[c].by].kind = "erase" /\ req[row[c].by].on = c
             \/ {c, row[c].parent} \cap crossed' # {}
  <2>1. req[a].kind = "erase" /\ crossed \subseteq crossed' BY <1>1, Crosses DEF HardDelete
  <2>2. c \in Gone({req[a].on} \cap ids) BY <1>0, <1>1, DeleteSteps, DeleteRows
  <2>3. CASE c = req[a].on BY <1>0, <2>1, <2>3 DEF RequestsOK, RequestOK
  <2>4. CASE row[c].parent = req[a].on /\ req[a].on \in ids
    <3>1. c \in ApprovedReplies(req[a].on) BY <1>0, <2>4 DEF ApprovedReplies, Replies
    <3> QED BY <2>1, <2>4, <3>1 DEF RequestsOK, RequestOK
  <2> QED BY <2>2, <2>3, <2>4 DEF Gone
<1>2. CASE PurgeDelete
  <2>1. crossed' = crossed BY <1>2 DEF PurgeDelete
  <2>2. c \in Gone(purge \cap ids) BY <1>0, <1>2, DeleteSteps, DeleteRows
  <2>3. CASE c \in purge BY <1>0, <2>1, <2>3 DEF PurgeOK
  <2>4. CASE row[c].parent \in purge \cap ids
    <3>1. row[c].parent # None BY <2>4 DEF TypeOK
    <3>2. row[row[c].parent].state # "pending" BY <1>0, <3>1 DEF ThreadsOK
    <3> QED BY <2>1, <2>4, <3>2 DEF PurgeOK
  <2> QED BY <2>2, <2>3, <2>4 DEF Gone
<1>3. ASSUME NEW a \in Caller, CallerStep(a), ~HardDelete(a) PROVE ids \subseteq ids'
  BY <1>3 DEF CallerStep, AsksFor, Begins, AddLike, RemoveLike, Insert, Revises, UpdateRow,
              CountLikes, CountComments, UpdateCounters, Fails, tables
<1>4. OtherStep /\ ~PurgeDelete => ids \subseteq ids'
  BY DEF OtherStep, PurgeSelect, PurgeFails, ClosePost, Grows, vars, tables
<1> QED BY <1>0, <1>1, <1>2, <1>3, <1>4, StepCases

\* An approved comment goes away only because its author deletes it, unless a reply or an
\* approval crossed with the deletion of its parent or with the purge.
THEOREM ApprovedStays == Spec => ApprovedIsKept
<1>1. IInv /\ [Next]_vars => [KeptNow]_vars BY KeptStep
<1> QED BY <1>1, Inductive, PTL DEF Spec, ApprovedIsKept, KeptNow
=============================================================================
