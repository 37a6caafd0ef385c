------------------------ MODULE PostVersions_proofs ------------------------
(* Theorems about PostVersions. *)
EXTENDS PostVersions, TLAPS, FiniteSetTheorems, WellFoundedInduction

----------------------------------------------------------------------------
(* Types.                                                                  *)

LEMMA InitType == Init => TypeOK
BY ConstAssumption DEF Init, TypeOK, Row, NoRow

LEMMA NextType ==
    ASSUME TypeOK, [Next]_vars PROVE TypeOK'
<1> USE DEF TypeOK, writing, sweeping
<1>1. ASSUME NEW w \in Writer, UpdatePost(w) PROVE TypeOK'
  BY <1>1, ConstAssumption DEF UpdatePost
<1>2. ASSUME NEW w \in Writer, NEW pub \in BOOLEAN, NextVersion(w, pub) PROVE TypeOK'
  BY <1>2 DEF NextVersion, Row
<1>3. ASSUME NEW w \in Writer, InsertVersion(w) PROVE TypeOK'
  BY <1>3, ConstAssumption DEF InsertVersion, Release, NoRow, Row
<1>4. ASSUME NEW w \in Writer, Rollback(w) PROVE TypeOK'
  BY <1>4, ConstAssumption DEF Rollback, Release, NoRow, Row
<1>5. ASSUME NEW s \in Sweeper, Discover(s) PROVE TypeOK'
  BY <1>5 DEF Discover
<1>6. ASSUME NEW s \in Sweeper, ListNonPublished(s) PROVE TypeOK'
  BY <1>6 DEF ListNonPublished, Drafts, Row
<1>7. ASSUME NEW s \in Sweeper, PurgeEligible(s) PROVE TypeOK'
  BY <1>7 DEF PurgeEligible, Drafts
<1>8. ASSUME NEW s \in Sweeper, CommitPurge(s) \/ SweepFails(s) PROVE TypeOK'
  BY <1>8 DEF CommitPurge, SweepFails, Finish
<1>9. ASSUME UNCHANGED vars PROVE TypeOK'
  BY <1>9 DEF vars
<1> QED BY <1>1, <1>2, <1>3, <1>4, <1>5, <1>6, <1>7, <1>8, <1>9 DEF Next, Write, Sweep, Idle

\* Every state of every instance is well typed, and a writer that has begun holds
\* the post's row lock (TypeOK).
THEOREM TypeCorrect == Spec => []TypeOK
<1>1. Init => TypeOK
  BY InitType
<1>2. TypeOK /\ [Next]_vars => TypeOK'
  BY NextType
<1> QED BY <1>1, <1>2, PTL DEF Spec

----------------------------------------------------------------------------
(* The number an append has computed is free.                              *)

LEMMA FreeStep ==
    ASSUME TypeOK, NumberIsFree, [Next]_vars PROVE NumberIsFree'
<1> USE DEF NumberIsFree, Versions
<1>0. wpc \in [Writer -> {"idle", "number", "insert"}] /\ row \in [Writer -> Row]
  BY DEF TypeOK
<1>1. ASSUME NEW w \in Writer, UpdatePost(w) PROVE NumberIsFree'
  BY <1>0, <1>1 DEF UpdatePost
<1>2. ASSUME NEW w \in Writer, NEW pub \in BOOLEAN, NextVersion(w, pub) PROVE NumberIsFree'
  <2>1. PICK n \in 1..(MaxInserts + 1) :
          IsNext(n) /\ row' = [row EXCEPT ![w] = [ver |-> n, pub |-> pub]]
    BY <1>2 DEF NextVersion
  <2>2. n \notin Versions(rows)
    BY <2>1 DEF IsNext
  <2> QED BY <1>0, <1>2, <2>1, <2>2 DEF NextVersion
<1>3. ASSUME NEW w \in Writer, InsertVersion(w) PROVE NumberIsFree'
  <2>1. \A v \in Writer : wpc'[v] # "insert"
    BY <1>0, <1>3 DEF InsertVersion, Release, TypeOK
  <2> QED BY <2>1
<1>4. ASSUME NEW w \in Writer, Rollback(w) PROVE NumberIsFree'
  BY <1>0, <1>4 DEF Rollback, Release
<1>5. ASSUME NEW s \in Sweeper, Sweep(s) \/ SweepFails(s) PROVE NumberIsFree'
  <2>1. rows' \subseteq rows /\ UNCHANGED <<wpc, row>>
    BY <1>5 DEF Sweep, Discover, ListNonPublished, PurgeEligible, CommitPurge, SweepFails, Finish,
              writing
  <2> QED BY <2>1
<1>6. ASSUME UNCHANGED vars PROVE NumberIsFree'
  BY <1>6 DEF vars
<1> QED BY <1>1, <1>2, <1>3, <1>4, <1>5, <1>6 DEF Next, Write, Idle

\* However many appends and purges interleave, MAX(version) + 1 is still free when
\* its row is inserted: the retry of add_with_retry, whose rollback would drop the
\* caller's other writes, is never taken (NumberIsFree).
THEOREM NumbersAreFree == Spec => []NumberIsFree
<1>1. Init => NumberIsFree
  BY DEF Init, NumberIsFree
<1>2. TypeOK /\ NumberIsFree /\ [Next]_vars => NumberIsFree'
  BY FreeStep
<1> QED BY <1>1, <1>2, TypeCorrect, PTL DEF Spec

----------------------------------------------------------------------------
(* Published snapshots stay.                                               *)

DoomedAreDrafts == \A s \in Sweeper : \A r \in doomed[s] : ~r.pub

LEMMA DoomedStep ==
    ASSUME TypeOK, DoomedAreDrafts, [Next]_vars PROVE DoomedAreDrafts'
<1> USE DEF DoomedAreDrafts
<1>1. ASSUME NEW s \in Sweeper, PurgeEligible(s) PROVE DoomedAreDrafts'
  BY <1>1 DEF PurgeEligible, Drafts, TypeOK
<1>2. ASSUME NEW s \in Sweeper, CommitPurge(s) \/ SweepFails(s) PROVE DoomedAreDrafts'
  BY <1>2 DEF CommitPurge, SweepFails, Finish, TypeOK
<1>3. CASE UNCHANGED doomed
  BY <1>3
<1> QED BY <1>1, <1>2, <1>3 DEF Next, Write, Sweep, UpdatePost, NextVersion, InsertVersion,
                            Rollback, Release, Discover, ListNonPublished, Idle, sweeping, vars

LEMMA KeptStep ==
    ASSUME DoomedAreDrafts, [Next]_vars, NEW r \in rows, r.pub PROVE r \in rows'
BY DEF DoomedAreDrafts, Next, Write, Sweep, UpdatePost, NextVersion, InsertVersion, Rollback,
       Discover, ListNonPublished, PurgeEligible, CommitPurge, SweepFails, Idle, vars

\* No purge ever deletes a published snapshot, whatever it raced with
\* (PublishedKept).
THEOREM PublishedStays == Spec => PublishedKept
<1>1. Init => DoomedAreDrafts
  BY DEF Init, DoomedAreDrafts
<1>2. TypeOK /\ DoomedAreDrafts /\ [Next]_vars => DoomedAreDrafts'
  BY DoomedStep
<1>3. DoomedAreDrafts /\ [Next]_vars => [\A r \in rows : r.pub => r \in rows']_vars
  BY KeptStep
<1> QED BY <1>1, <1>2, <1>3, TypeCorrect, PTL DEF Spec, PublishedKept

----------------------------------------------------------------------------
(* With one sweeper, a purge leaves Limit drafts.                          *)

LEMMA HasLeast ==
    ASSUME NEW S \in SUBSET Nat, S # {}
    PROVE  \E m \in S : \A n \in S : m <= n
<1> DEFINE R == OpToRel(<, Nat)
<1>1. IsWellFoundedOn(R, Nat) BY NatLessThanWellFounded
<1>2. \A m, n \in Nat : m < n => <<m, n>> \in R BY DEF OpToRel
<1> HIDE DEF R
<1>3. PICK m \in S : \A n \in S : ~(<<n, m>> \in R) BY <1>1, WFMin
<1>4. ASSUME NEW n \in S PROVE m <= n
  <2>1. m \in Nat /\ n \in Nat /\ ~(n < m) BY <1>2, <1>3
  <2> QED BY <2>1
<1> QED BY <1>4

\* Of the drafts with fewer than Limit newer ones there are Limit, if there are as many at all:
\* the newest that is not among them has Limit newer ones, which are.
LEMMA LimitAreKept ==
    ASSUME rows \subseteq Row, IsFiniteSet(rows), Cardinality(Drafts) >= Limit
    PROVE  Cardinality({q \in Drafts : Cardinality(Newer(q)) < Limit}) >= Limit
<1> DEFINE Late == {q \in Drafts : Cardinality(Newer(q)) < Limit}
           Early == {q \in Drafts : ~(Cardinality(Newer(q)) < Limit)}
<1>1. Limit \in Nat BY ConstAssumption
<1>2. IsFiniteSet(Drafts) /\ Drafts \subseteq Row BY FS_Subset DEF Drafts
<1>3. \A q \in Drafts : Newer(q) \in SUBSET Drafts BY DEF Newer
<1>4. \A q \in Drafts : IsFiniteSet(Newer(q)) /\ Cardinality(Newer(q)) \in Nat
  BY <1>2, <1>3, FS_Subset, FS_CardinalityType
<1>5. Late \in SUBSET Drafts OBVIOUS
<1>6. IsFiniteSet(Late) /\ Cardinality(Late) \in Nat BY <1>2, <1>5, FS_Subset, FS_CardinalityType
<1>7. CASE Early = {}
  <2>1. Late = Drafts BY <1>7
  <2> QED BY <2>1
<1>8. CASE Early # {}
  <2> DEFINE T == {Cardinality(Newer(q)) : q \in Early}
  <2>1. T \in SUBSET Nat /\ T # {} BY <1>4, <1>8
  <2>2. PICK t \in T : \A n \in T : t <= n BY <2>1, HasLeast
  <2>3. PICK q \in Early : t = Cardinality(Newer(q)) OBVIOUS
  <2>4. Newer(q) \in SUBSET Late
    <3>1. ASSUME NEW r \in Newer(q) PROVE r \in Late
      <4>1. r \in Drafts /\ r \in Row /\ q \in Row /\ r.ver > q.ver BY <1>2, <3>1 DEF Newer
      <4>2. Newer(r) \in SUBSET Newer(q) /\ r \notin Newer(r)
        BY <1>2, <4>1 DEF Newer, Row
      <4> DEFINE M == Newer(r)
                 N == Newer(q)
      <4>3. M \in SUBSET N /\ M # N /\ IsFiniteSet(N) BY <1>4, <3>1, <4>2
      <4> HIDE DEF M, N
      <4>4. Cardinality(M) <= Cardinality(N) /\ Cardinality(M) # Cardinality(N) BY <4>3, FS_Subset
      <4>5. Cardinality(Newer(r)) < t
        BY <1>4, <2>3, <4>1, <4>4 DEF M, N
      <4>6. r \notin Early
        <5>1. r \in Early => Cardinality(Newer(r)) \in T OBVIOUS
        <5>2. t \in Nat /\ Cardinality(Newer(r)) \in Nat BY <1>4, <2>3, <4>1
        <5> QED BY <2>2, <4>5, <5>1, <5>2
      <4> QED BY <4>1, <4>6
    <3> QED BY <3>1
  <2>5. Cardinality(Newer(q)) >= Limit /\ Cardinality(Newer(q)) \in Nat BY <1>1, <1>4
  <2> HIDE DEF Late
  <2>6. Cardinality(Newer(q)) <= Cardinality(Late) BY <1>6, <2>4, FS_Subset
  <2> QED BY <1>1, <1>6, <2>5, <2>6 DEF Late
<1> QED BY <1>7, <1>8

\* What a sweeper has decided to leave: the drafts it will keep, once it has listed them,
\* and those its DELETE has not matched.  Appends only add to it.
Left(s) ==
    CASE spc[s] = "list" -> Drafts
      [] spc[s] = "delete" -> {r \in Drafts : r.ver \in keep[s]}
      [] spc[s] = "commit" -> Drafts \ doomed[s]

FloorInv ==
    /\ TypeOK /\ IsFiniteSet(rows)
    /\ \A s \in Sweeper : spc[s] # "idle" => Cardinality(Left(s)) >= Limit

LEMMA LeftGrows ==
    ASSUME FloorInv, TypeOK', IsFiniteSet(rows'), rows \subseteq rows', UNCHANGED sweeping
    PROVE  FloorInv'
<1> SUFFICES ASSUME NEW s \in Sweeper, spc'[s] # "idle" PROVE Cardinality(Left(s)') >= Limit
  BY DEF FloorInv
<1>1. spc[s] \in {"list", "delete", "commit"} /\ spc'[s] = spc[s]
  BY DEF FloorInv, TypeOK, sweeping
<1>2. Left(s) \in SUBSET (Left(s)') BY <1>1 DEF Left, Drafts, sweeping
<1>3. Left(s)' \in SUBSET (rows') BY <1>1 DEF Left, Drafts
<1>4. Cardinality(Left(s)) >= Limit BY <1>1 DEF FloorInv
<1>5. PICK L, M : L = Left(s) /\ M = Left(s)' OBVIOUS
<1>6. IsFiniteSet(M) BY <1>3, <1>5, FS_Subset
<1>7. IsFiniteSet(L) /\ Cardinality(L) <= Cardinality(M) BY <1>2, <1>5, <1>6, FS_Subset
<1>8. Cardinality(L) \in Nat /\ Cardinality(M) \in Nat BY <1>6, <1>7, FS_CardinalityType
<1> QED BY <1>4, <1>5, <1>7, <1>8, ConstAssumption

\* A step of the only sweeper.
LEMMA SweepFloor ==
    ASSUME FloorInv, TypeOK', NEW s \in Sweeper, \A t \in Sweeper : t = s, Sweep(s) \/ SweepFails(s)
    PROVE  FloorInv' /\ (rows' # rows => Cardinality(Drafts') >= Limit)
<1> USE DEF FloorInv
<1>1. /\ spc \in [Sweeper -> {"idle", "list", "delete", "commit"}] /\ rows \subseteq Row
      /\ keep \in [Sweeper -> SUBSET Nat] /\ doomed \in [Sweeper -> SUBSET Row]
      /\ Limit \in Nat /\ Slack \in Nat
  BY ConstAssumption DEF TypeOK
<1>2. IsFiniteSet(Drafts) /\ Cardinality(Drafts) \in Nat BY FS_Subset, FS_CardinalityType DEF Drafts
<1>3. CASE Discover(s)
  <2>1. /\ rows' = rows /\ spc'[s] = "list" /\ Cardinality(Drafts) > Limit + Slack
    BY <1>1, <1>3 DEF Discover, writing
  <2>2. Left(s)' = Drafts BY <2>1 DEF Left, Drafts
  <2> QED BY <1>1, <1>2, <2>1, <2>2
<1>4. CASE ListNonPublished(s)
  <2> DEFINE Late == {q \in Drafts : Cardinality(Newer(q)) < Limit}
  <2>1. /\ rows' = rows /\ spc[s] = "list" /\ spc'[s] = "delete"
        /\ keep'[s] = {r.ver : r \in Late}
    BY <1>1, <1>4 DEF ListNonPublished, writing
  <2>2. Cardinality(Drafts) >= Limit BY <2>1 DEF Left
  <2>3. Cardinality(Late) >= Limit BY <1>1, <2>2, LimitAreKept
  <2>4. Left(s)' = {r \in Drafts : r.ver \in keep'[s]} BY <2>1 DEF Left, Drafts
  <2>5. Late \in SUBSET (Left(s)') BY <2>1, <2>4
  <2>6. PICK M : M = Left(s)' OBVIOUS
  <2>7. IsFiniteSet(M) BY <1>2, <2>4, <2>6, FS_Subset
  <2> HIDE DEF Late
  <2>8. IsFiniteSet(Late) /\ Cardinality(Late) <= Cardinality(M) BY <2>5, <2>6, <2>7, FS_Subset
  <2>9. Cardinality(M) \in Nat /\ Cardinality(Late) \in Nat BY <2>7, <2>8, FS_CardinalityType
  <2> QED BY <1>1, <2>1, <2>3, <2>6, <2>8, <2>9
<1>5. CASE PurgeEligible(s)
  <2>1. /\ rows' = rows /\ spc[s] = "delete" /\ spc'[s] = "commit"
        /\ doomed'[s] = {r \in Drafts : r.ver \notin keep[s]}
    BY <1>1, <1>5 DEF PurgeEligible, writing
  <2>2. Left(s)' = Drafts \ doomed'[s] BY <2>1 DEF Left, Drafts
  <2>3. Left(s)' = Left(s) BY <2>1, <2>2 DEF Left
  <2> QED BY <2>1, <2>3
<1>6. CASE CommitPurge(s)
  <2>1. spc[s] = "commit" /\ rows' = rows \ doomed[s] /\ spc'[s] = "idle"
    BY <1>1, <1>6 DEF CommitPurge, Finish
  <2>2. Drafts' = Left(s) BY <2>1 DEF Left, Drafts
  <2>3. IsFiniteSet(rows') BY <2>1, FS_Subset
  <2> QED BY <2>1, <2>2, <2>3
<1>7. CASE SweepFails(s)
  <2>1. rows' = rows /\ spc'[s] = "idle" BY <1>1, <1>7 DEF SweepFails, Finish
  <2> QED BY <2>1
<1> QED BY <1>3, <1>4, <1>5, <1>6, <1>7 DEF Sweep

LEMMA FloorStep ==
    ASSUME \A s, t \in Sweeper : s = t, FloorInv, [Next]_vars
    PROVE  FloorInv' /\ ((rows \subseteq rows' /\ IsFiniteSet(rows')) \/ Cardinality(Drafts') >= Limit)
<1>1. TypeOK' BY NextType DEF FloorInv
<1>2. ASSUME NEW s \in Sweeper, Sweep(s) \/ SweepFails(s)
      PROVE  FloorInv' /\ ((rows \subseteq rows' /\ IsFiniteSet(rows')) \/ Cardinality(Drafts') >= Limit)
  <2>1. FloorInv' /\ (rows' # rows => Cardinality(Drafts') >= Limit) BY <1>1, <1>2, SweepFloor
  <2> QED BY <2>1 DEF FloorInv
<1>3. ASSUME rows' = rows \/ (\E r : rows' = rows \cup {r}), UNCHANGED sweeping
      PROVE  FloorInv' /\ rows \subseteq rows' /\ IsFiniteSet(rows')
  <2>1. rows \subseteq rows' BY <1>3
  <2>2. IsFiniteSet(rows') BY <1>3, FS_AddElement DEF FloorInv
  <2> QED BY <1>1, <1>3, <2>1, <2>2, LeftGrows
<1>4. ASSUME NEW w \in Writer, UpdatePost(w) \/ Write(w) \/ Rollback(w)
      PROVE  (rows' = rows \/ (\E r : rows' = rows \cup {r})) /\ UNCHANGED sweeping
  BY <1>4 DEF UpdatePost, Write, NextVersion, InsertVersion, Rollback, Release
<1>5. CASE UNCHANGED vars
  BY <1>3, <1>5 DEF vars, sweeping
<1> QED BY <1>2, <1>3, <1>4, <1>5 DEF Next, Idle

\* With one sweeper, however appends race with a purge, it leaves Limit drafts
\* (RetentionFloor): not always the newest, since a version that is appended between the
\* SELECT and the DELETE is not in the list to keep.
THEOREM FloorIsKept ==
    ASSUME \A s, t \in Sweeper : s = t
    PROVE  Spec => RetentionFloor
<1>1. Init => FloorInv
  <2>1. \A x : IsFiniteSet({x}) BY FS_Singleton
  <2>2. Init => \E x : rows = {x} BY DEF Init
  <2>3. Init => IsFiniteSet(rows) BY <2>1, <2>2
  <2> QED BY <2>3, InitType DEF FloorInv, Init
<1>2. FloorInv /\ [Next]_vars => FloorInv' BY FloorStep
<1>3. FloorInv /\ [Next]_vars
        => [Cardinality(Drafts') >= Limit \/ Cardinality(Drafts') >= Cardinality(Drafts)]_vars
  <2> SUFFICES ASSUME FloorInv, [Next]_vars
               PROVE  Cardinality(Drafts') >= Limit \/ Cardinality(Drafts') >= Cardinality(Drafts)
    OBVIOUS
  <2>1. CASE Cardinality(Drafts') >= Limit BY <2>1
  <2>2. CASE rows \subseteq rows' /\ IsFiniteSet(rows')
    <3>1. Drafts \in SUBSET (Drafts') /\ Drafts' \in SUBSET (rows') BY <2>2 DEF Drafts
    <3>2. PICK D, E : D = Drafts /\ E = Drafts' OBVIOUS
    <3>3. IsFiniteSet(E) BY <2>2, <3>1, <3>2, FS_Subset
    <3>4. IsFiniteSet(D) /\ Cardinality(D) <= Cardinality(E) BY <3>1, <3>2, <3>3, FS_Subset
    <3>5. Cardinality(D) \in Nat /\ Cardinality(E) \in Nat BY <3>3, <3>4, FS_CardinalityType
    <3> QED BY <3>2, <3>4, <3>5
  <2> QED BY <2>1, <2>2, FloorStep
<1> QED BY <1>1, <1>2, <1>3, PTL DEF Spec, RetentionFloor
=============================================================================
