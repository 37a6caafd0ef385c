--------------------------- MODULE PostCache_proofs ---------------------------
(***************************************************************************)
(* Theorems about PostCache, for every set of posts, slugs, writers and    *)
(* visitors and every number of writes, visits and faults: types, and what *)
(* an answer of the public detail page may be.                             *)
(***************************************************************************)
EXTENDS PostCache, TLAPS, FiniteSetTheorems

----------------------------------------------------------------------------
(* The inductive invariant.                                                *)

\* Every write may bump the generation once.
Unannounced == {w \in Writer : tx[w].at \in {"checked", "locked"}}

GenerationOK ==
    /\ IsFiniteSet(Unannounced)
    /\ gen + Cardinality(Unannounced) <= writes

\* Keys are of generations there have been.
KeysOK ==
    /\ \A r \in Reader : visit[r].key <= gen
    /\ \A g \in 0..MaxWrites, s \in Slug : g > gen => entry[g][s] = Empty

\* A slug belongs to one post, also once the transactions that are open have committed.
SlugsOK ==
    /\ \A p, q \in Post : row[p].slug = row[q].slug => p = q
    /\ \A w \in Writer : Locked(w) /\ tx[w].kind = "patch" =>
          /\ \A q \in Post \ {tx[w].post} : row[q].slug # tx[w].slug
          /\ \A v \in Writer \ {w} : Locked(v) /\ tx[v].kind = "patch" => tx[v].slug # tx[w].slug

\* Under the current generation only what raced may be out of date, and while a write is
\* announced everything there raced with it.
EntriesOK ==
    \A s \in Slug : entry[gen][s] # Empty /\ ~entry[gen][s].race =>
        /\ entry[gen][s].page = PageOf(s)
        /\ \A w \in Writer : tx[w].at # "announced"

\* What a visit has seen covers what it would answer.
Active(r) == visit[r].at \notin {"idle", "done"}

VisitOK(r) ==
    LET v == visit[r] IN
    /\ Active(r) => v.slug \in Slug /\ PageOf(v.slug) \in v.seen
    /\ v.at = "keyed" /\ ~v.race =>
          LET e == entry[v.key][v.slug] IN e # Empty /\ ~e.race => e.page \in v.seen
    /\ v.at \in {"loaded", "rekeyed"} => v.got \in v.seen
    /\ v.at = "done" => v.got \in v.seen \/ v.race

VisitsOK == \A r \in Reader : VisitOK(r)

\* Nothing that was not public is on its way to a visitor.
PublicOK ==
    /\ \A s \in Slug : PagesIn(row, s) \subseteq shown
    /\ \A g \in 0..MaxWrites, s \in Slug : entry[g][s].page \in shown \cup {NoPage}
    /\ \A r \in Reader : visit[r].got \in shown \cup {NoPage}

IInv ==
    TypeOK /\ GenerationOK /\ KeysOK /\ SlugsOK /\ EntriesOK /\ VisitsOK /\ PublicOK

----------------------------------------------------------------------------
(* Pages.                                                                  *)

LEMMA PageTyped ==
    ASSUME NEW rows \in [Post -> Row], NEW s \in Slug
    PROVE  /\ PagesIn(rows, s) \subseteq Page
           /\ PageIn(rows, s) \in PagesIn(rows, s) \cup {NoPage}
<1>1. PagesIn(rows, s) \subseteq Page BY DEF PagesIn, Page, Row
<1>2. PagesIn(rows, s) # {} => PageIn(rows, s) \in PagesIn(rows, s) BY DEF PageIn
<1>3. PagesIn(rows, s) = {} => PageIn(rows, s) = NoPage BY DEF PageIn
<1> QED BY <1>1, <1>2, <1>3

\* A new text on one page changes no other one, if slugs are unique.
LEMMA OnePageChanges ==
    ASSUME NEW rows \in [Post -> Row], NEW p \in Post, NEW r \in Row, NEW s \in Slug,
           \A q1, q2 \in Post : rows[q1].slug = rows[q2].slug => q1 = q2,
           r.slug = rows[p].slug, r.status = rows[p].status, r.gone = rows[p].gone
    PROVE  LET new == [rows EXCEPT ![p] = r]
           IN  PageIn(new, s) = PageIn(rows, s) \/ PageIn(rows, s).post = p
<1> DEFINE new == [rows EXCEPT ![p] = r]
           Public(f) == {q \in Post : f[q].slug = s /\ f[q].status = "published" /\ ~f[q].gone}
<1>1. \A q \in Post \ {p} : new[q] = rows[q] OBVIOUS
<1>2. new[p] = r OBVIOUS
<1>3. Public(new) = Public(rows) BY <1>1, <1>2
<1>4. PagesIn(rows, s) = {[post |-> q, text |-> rows[q].text] : q \in Public(rows)}
      /\ PagesIn(new, s) = {[post |-> q, text |-> new[q].text] : q \in Public(new)}
  BY DEF PagesIn
<1>5. CASE p \notin Public(rows)
  <2>1. \A q \in Public(rows) : new[q] = rows[q] BY <1>1, <1>5
  <2> HIDE DEF new, Public
  <2>2. PagesIn(new, s) = PagesIn(rows, s) BY <1>3, <1>4, <2>1
  <2>3. PageIn(new, s) = PageIn(rows, s) BY <2>2 DEF PageIn
  <2> QED BY <2>3 DEF new
<1>6. CASE p \in Public(rows)
  <2>1. Public(rows) = {p} BY <1>6
  <2> HIDE DEF Public
  <2>2. PagesIn(rows, s) = {[post |-> p, text |-> rows[p].text]} BY <1>4, <2>1
  <2>3. PageIn(rows, s) = [post |-> p, text |-> rows[p].text] BY <2>2 DEF PageIn
  <2> QED BY <2>3
<1> QED BY <1>5, <1>6

----------------------------------------------------------------------------
(* What the actions have in common.                                        *)

\* A commit, or a change that nobody announces, of one post.
Changes(p, r) ==
    LET rows == [row EXCEPT ![p] = r] IN
    /\ row' = rows /\ Observe(rows)
    /\ UNCHANGED <<gen, reads, faults>>

\* The text of a post changes, and the entries that show it count as overtaken.
Overtakes(p, r) ==
    /\ Changes(p, r) /\ Overtake(p)
    /\ r.slug = row[p].slug /\ r.status = row[p].status /\ r.gone = row[p].gone

LEMMA ChangedType ==
    ASSUME TypeOK, NEW w \in Writer, tx[w] # NoTx
    PROVE  /\ tx[w].post \in Post /\ tx[w].kind \in Kind /\ tx[w].slug \in Slug
           /\ tx[w].at \in {"checked", "locked", "announced"}
           /\ Changed(tx[w], row[tx[w].post]) \in Row
<1>1. /\ tx[w].post \in Post /\ tx[w].kind \in Kind /\ tx[w].slug \in Slug
      /\ tx[w].at \in {"checked", "locked", "announced"}
  BY DEF TypeOK, Tx
<1>2. row[tx[w].post] \in Row BY <1>1 DEF TypeOK
<1>3. \A r \in Row, st \in Status, g \in BOOLEAN, sl \in Slug, n \in Nat :
         [r EXCEPT !.status = st, !.gone = g, !.slug = sl, !.text = n] \in Row
  BY DEF Row
<1> DEFINE r == row[tx[w].post]
           st == CASE tx[w].kind = "publish" -> "published"
                   [] tx[w].kind = "unpublish" -> "draft"
                   [] tx[w].kind = "archive" -> "archived"
                   [] OTHER -> r.status
           gn == r.gone \/ tx[w].kind = "delete"
           sl == IF tx[w].kind = "patch" THEN tx[w].slug ELSE r.slug
           te == IF tx[w].kind \in {"patch", "flush", "publish", "restore"} THEN r.text + 1 ELSE r.text
<1>4. st \in Status BY <1>2 DEF Status, Row
<1>5. gn \in BOOLEAN OBVIOUS
<1>6. sl \in Slug BY <1>1, <1>2 DEF Row
<1>7. te \in Nat BY <1>2 DEF Row
<1>8. Changed(tx[w], r) = [r EXCEPT !.status = st, !.gone = gn, !.slug = sl, !.text = te]
  BY <1>2 DEF Changed, Row
<1>9. r \in Row BY <1>2
<1> HIDE DEF st, gn, sl, te, r
<1>10. [r EXCEPT !.status = st, !.gone = gn, !.slug = sl, !.text = te] \in Row
  BY <1>3, <1>4, <1>5, <1>6, <1>7, <1>9
<1> QED BY <1>1, <1>8, <1>10 DEF r

LEMMA CommitChanges ==
    ASSUME TypeOK, NEW w \in Writer, Commit(w)
    PROVE  LET p == tx[w].post  r == Changed(tx[w], row[p]) IN
           /\ p \in Post /\ r \in Row /\ Changes(p, r)
           /\ tx' = [tx EXCEPT ![w] = NoTx] /\ UNCHANGED writes
           /\ \/ tx[w].at = "announced" /\ UNCHANGED entry
              \/ tx[w].at = "locked" /\ tx[w].kind = "restore" /\ Overtakes(p, r)
<1>1. tx[w] # NoTx BY DEF Commit, NoTx
<1>2. tx[w].post \in Post /\ Changed(tx[w], row[tx[w].post]) \in Row BY <1>1, ChangedType
<1>3. Changes(tx[w].post, Changed(tx[w], row[tx[w].post])) BY DEF Commit, Changes
<1>4. ASSUME tx[w].kind = "restore"
      PROVE  LET r == row[tx[w].post]  s == Changed(tx[w], r)
             IN  s.slug = r.slug /\ s.status = r.status /\ s.gone = r.gone
  <2>1. row[tx[w].post] \in Row BY <1>2 DEF TypeOK
  <2> QED BY <1>4, <2>1 DEF Changed, Row
<1> QED BY <1>2, <1>3, <1>4 DEF Commit, Overtakes

LEMMA RelabelChanges ==
    ASSUME TypeOK, NEW p \in Post, Relabel(p)
    PROVE  /\ \E r \in Row : Overtakes(p, r)
           /\ UNCHANGED tx /\ writes' = writes + 1 /\ writes < MaxWrites
<1> DEFINE r == [row[p] EXCEPT !.text = @ + 1]
<1>1. row[p] \in Row BY DEF TypeOK
<1>2. r \in Row /\ r.slug = row[p].slug /\ r.status = row[p].status /\ r.gone = row[p].gone
  BY <1>1 DEF Row
<1>3. [row EXCEPT ![p].text = @ + 1] = [row EXCEPT ![p] = r] BY DEF TypeOK
<1>4. Overtakes(p, r) BY <1>2, <1>3 DEF Relabel, Overtakes, Changes
<1> QED BY <1>2, <1>4 DEF Relabel

\* Steps of a writer that nobody else sees.
Prepares(w) ==
    \/ \E k \in Kind, p \in Post, s \in Slug : Start(w, k, p, s)
    \/ Update(w) \/ Abort(w)

ReadStep(r) == Read(r) \/ \E s \in Slug : Ask(r, s)

LEMMA StepCases ==
    ASSUME [Next]_vars
    PROVE  \/ \E w \in Writer : Prepares(w) \/ InvalidateWorkspace(w) \/ Commit(w)
           \/ \E p \in Post : Relabel(p)
           \/ \E r \in Reader : ReadStep(r)
           \/ \E g \in DOMAIN entry, s \in Slug : Expire(g, s)
           \/ UNCHANGED vars
BY DEF Next, Write, Prepares, ReadStep, ChangeCategory, ChangeTag, CountReaction

----------------------------------------------------------------------------
(* The transactions and the generation.                                    *)

NoTxFact == NoTx \in Tx /\ NoTx.at = "idle" /\ NoTx.kind = "none"

LEMMA NoTxIsIdle == NoTxFact BY DEF NoTxFact, NoTx, Tx

LEMMA PrepareChanges ==
    ASSUME TypeOK, NEW w \in Writer, Prepares(w)
    PROVE  /\ UNCHANGED <<row, gen, entry, visit, reads, faults, shown>>
           /\ \E t \in Tx : tx' = [tx EXCEPT ![w] = t] /\ t.at # "announced"
           /\ \/ writes' = writes + 1 /\ writes < MaxWrites /\ tx[w] = NoTx
              \/ writes' = writes /\ tx'[w].at \in {"idle", "locked"}
                                  /\ (tx[w].at = "checked" \/ tx'[w].at = "idle")
<1>1. ASSUME NEW k \in Kind, NEW p \in Post, NEW s \in Slug, Start(w, k, p, s)
      PROVE  /\ \E t \in Tx : tx' = [tx EXCEPT ![w] = t] /\ t.at # "announced"
             /\ writes' = writes + 1 /\ writes < MaxWrites /\ tx[w] = NoTx
  <2> DEFINE t == [kind |-> k, post |-> p, slug |-> s, at |-> "checked"]
  <2>1. t \in Tx /\ t.at # "announced" BY DEF Tx
  <2> QED BY <1>1, <2>1 DEF Start
<1>2. CASE Update(w)
  <2> DEFINE t == [tx[w] EXCEPT !.at = "locked"]
  <2>1. tx[w] # NoTx BY <1>2, NoTxIsIdle DEF Update, NoTxFact
  <2>2. tx[w] \in [kind : Kind, post : Post, slug : Slug, at : {"checked", "locked", "announced"}]
    BY <2>1 DEF TypeOK, Tx
  <2>3. t \in Tx /\ t.at = "locked" BY <2>2 DEF Tx
  <2>4. tx' = [tx EXCEPT ![w] = t] /\ tx'[w].at = "locked" BY <1>2, <2>3 DEF Update, TypeOK
  <2> QED BY <1>2, <2>3, <2>4 DEF Update, redis
<1>3. CASE Abort(w)
  <2>1. tx'[w].at = "idle" BY <1>3, NoTxIsIdle DEF Abort, TypeOK, NoTxFact
  <2> QED BY <1>3, <2>1, NoTxIsIdle DEF Abort, redis, NoTxFact
<1> QED
  <2>1. UNCHANGED <<row, gen, entry, visit, reads, faults, shown>>
    BY DEF Prepares, Start, Update, Abort, redis
  <2> QED BY <1>1, <1>2, <1>3, <2>1 DEF Prepares

LEMMA ReadChanges ==
    ASSUME NEW r \in Reader, ReadStep(r)
    PROVE  UNCHANGED <<row, tx, gen, writes, shown>>
BY DEF ReadStep, Read, DetailKey, DetailKeyAgain, CurrentGeneration, GetDetail, Load,
       PutDetail, Ask, redis

\* A write that has not bumped the generation, and still may, keeps room for it.
LEMMA GenerationNext ==
    ASSUME IInv, [Next]_vars
    PROVE  /\ GenerationOK'
           /\ gen' \in 0..MaxWrites /\ writes' \in 0..MaxWrites /\ gen <= gen'
           /\ gen' = gen \/ (gen' = gen + 1 /\ \E w \in Writer : InvalidateWorkspace(w))
<1> DEFINE U == {w \in Writer : tx[w].at \in {"checked", "locked"}}
           V == {w \in Writer : tx'[w].at \in {"checked", "locked"}}
<1> USE ConstAssumption DEF IInv, GenerationOK, Unannounced, TypeOK
<1>1. IsFiniteSet(U) /\ Cardinality(U) \in Nat BY FS_CardinalityType
<1>2. gen \in Nat /\ writes \in Nat /\ MaxWrites \in Nat OBVIOUS
<1>3. V \subseteq U => IsFiniteSet(V) /\ Cardinality(V) \in Nat /\ Cardinality(V) <= Cardinality(U)
  BY <1>1, FS_Subset, FS_CardinalityType
<1>4. ASSUME V \subseteq U, gen' = gen, writes' = writes \/ writes' = writes + 1, writes' <= MaxWrites
      PROVE  /\ GenerationOK' /\ gen' \in 0..MaxWrites /\ writes' \in 0..MaxWrites /\ gen <= gen'
             /\ gen' = gen
  BY <1>1, <1>2, <1>3, <1>4
<1>5. ASSUME NEW w \in Writer, Prepares(w)
      PROVE  GenerationOK' /\ gen' \in 0..MaxWrites /\ writes' \in 0..MaxWrites /\ gen' = gen
  <2>1. /\ gen' = gen
        /\ \A v \in Writer \ {w} : tx'[v] = tx[v]
    BY <1>5, PrepareChanges
  <2>2. CASE writes' = writes + 1 /\ writes < MaxWrites /\ tx[w] = NoTx
    <3>1. w \notin U BY <2>2, NoTxIsIdle DEF NoTxFact
    <3>2. /\ IsFiniteSet(U \cup {w}) /\ Cardinality(U \cup {w}) = Cardinality(U) + 1
      BY <1>1, <3>1, FS_AddElement
    <3>3. V \subseteq U \cup {w} BY <2>1
    <3>4. IsFiniteSet(V) /\ Cardinality(V) \in Nat /\ Cardinality(V) <= Cardinality(U) + 1
      BY <3>2, <3>3, FS_Subset, FS_CardinalityType
    <3> QED BY <1>1, <1>2, <2>1, <2>2, <3>4
  <2>3. CASE writes' = writes /\ tx'[w].at \in {"idle", "locked"}
                              /\ (tx[w].at = "checked" \/ tx'[w].at = "idle")
    <3>1. V \subseteq U BY <2>1, <2>3
    <3> QED BY <1>2, <1>4, <2>1, <2>3, <3>1
  <2> QED BY <1>5, <2>2, <2>3, PrepareChanges
<1>6. ASSUME NEW w \in Writer, InvalidateWorkspace(w)
      PROVE  GenerationOK' /\ gen' \in 0..MaxWrites /\ writes' \in 0..MaxWrites /\ gen' = gen + 1
  <2>1. tx'[w].at = "announced" /\ tx[w].at = "locked" BY <1>6 DEF InvalidateWorkspace
  <2>2. \A v \in Writer \ {w} : tx'[v] = tx[v] BY <1>6 DEF InvalidateWorkspace
  <2>3. w \in U /\ V = U \ {w} BY <2>1, <2>2
  <2> HIDE DEF U, V
  <2>4. IsFiniteSet(V) /\ Cardinality(V) = Cardinality(U) - 1
    BY <1>1, <2>3, FS_RemoveElement
  <2>5. Cardinality(V) \in Nat BY <2>4, FS_CardinalityType
  <2>6. gen' = gen + 1 /\ writes' = writes BY <1>6 DEF InvalidateWorkspace
  <2> QED BY <1>1, <1>2, <2>4, <2>5, <2>6 DEF U, V
<1>7. ASSUME NEW w \in Writer, Commit(w)
      PROVE  GenerationOK' /\ gen' \in 0..MaxWrites /\ writes' \in 0..MaxWrites /\ gen' = gen
  <2>1. tx' = [tx EXCEPT ![w] = NoTx] /\ writes' = writes /\ gen' = gen
    BY <1>7 DEF Commit
  <2>2. V \subseteq U BY <2>1, NoTxIsIdle DEF NoTxFact
  <2> QED BY <1>2, <1>4, <2>1, <2>2
<1>8. ASSUME NEW p \in Post, Relabel(p)
      PROVE  GenerationOK' /\ gen' \in 0..MaxWrites /\ writes' \in 0..MaxWrites /\ gen' = gen
  <2>1. tx' = tx /\ writes' = writes + 1 /\ writes < MaxWrites /\ gen' = gen
    BY <1>8 DEF Relabel
  <2> QED BY <1>2, <1>4, <2>1
<1>9. ASSUME NEW r \in Reader, ReadStep(r)
      PROVE  GenerationOK' /\ gen' \in 0..MaxWrites /\ writes' \in 0..MaxWrites /\ gen' = gen
  BY <1>2, <1>4, <1>9, ReadChanges
<1>10. ASSUME NEW g \in DOMAIN entry, NEW s \in Slug, Expire(g, s)
       PROVE  GenerationOK' /\ gen' \in 0..MaxWrites /\ writes' \in 0..MaxWrites /\ gen' = gen
  <2>1. tx' = tx /\ gen' = gen /\ writes' = writes BY <1>10 DEF Expire
  <2> QED BY <1>2, <1>4, <2>1
<1>11. CASE UNCHANGED vars
  <2>1. tx' = tx /\ gen' = gen /\ writes' = writes BY <1>11 DEF vars, redis
  <2> QED BY <1>2, <1>4, <2>1
<1> HIDE DEF IInv, GenerationOK, Unannounced, TypeOK
<1>12. \A n : (n = gen \/ n = gen + 1) => gen <= n BY <1>2
<1> QED BY <1>5, <1>6, <1>7, <1>8, <1>9, <1>10, <1>11, <1>12, StepCases

----------------------------------------------------------------------------
(* What a change of the page does to the visitors and to the cache.        *)

LEMMA ObserveChanges ==
    ASSUME IInv, NEW p \in Post, NEW r \in Row, Changes(p, r)
    PROVE  /\ row' \in [Post -> Row] /\ row' = [row EXCEPT ![p] = r]
           /\ shown \subseteq shown' /\ shown' \subseteq Page
           /\ \A s \in Slug : PagesIn(row', s) \subseteq shown'
           /\ visit' \in [Reader -> Visit]
           /\ \A q \in Reader :
                /\ visit'[q].at = visit[q].at /\ visit'[q].slug = visit[q].slug
                /\ visit'[q].key = visit[q].key /\ visit'[q].got = visit[q].got
                /\ visit'[q].race = visit[q].race /\ visit[q].seen \subseteq visit'[q].seen
                /\ Active(q) => PageIn(row', visit[q].slug) \in visit'[q].seen
<1> DEFINE rows == [row EXCEPT ![p] = r]
<1>1. row \in [Post -> Row] /\ visit \in [Reader -> Visit] /\ shown \subseteq Page
  BY DEF IInv, TypeOK
<1>2. rows \in [Post -> Row] /\ row' = rows BY <1>1 DEF Changes
<1>3. shown' = shown \cup UNION {PagesIn(rows, s) : s \in Slug}
  BY DEF Changes, Observe
<1>4. visit' = [q \in Reader |->
                  IF visit[q].at \in {"idle", "done"} THEN visit[q]
                  ELSE [visit[q] EXCEPT !.seen = @ \cup {PageIn(rows, visit[q].slug)}]]
  BY DEF Changes, Observe
<1> HIDE DEF rows
<1>5. \A s \in Slug : PagesIn(rows, s) \subseteq Page BY <1>2, PageTyped
<1>6. /\ shown \subseteq shown' /\ shown' \subseteq Page
      /\ \A s \in Slug : PagesIn(row', s) \subseteq shown'
  BY <1>1, <1>2, <1>3, <1>5
<1>7. ASSUME NEW q \in Reader
      PROVE  /\ visit'[q] \in Visit
             /\ visit'[q].at = visit[q].at /\ visit'[q].slug = visit[q].slug
             /\ visit'[q].key = visit[q].key /\ visit'[q].got = visit[q].got
             /\ visit'[q].race = visit[q].race /\ visit[q].seen \subseteq visit'[q].seen
             /\ Active(q) => PageIn(row', visit[q].slug) \in visit'[q].seen
  <2>1. visit[q] \in Visit BY <1>1
  <2>2. CASE ~Active(q)
    <3>1. visit'[q] = visit[q] BY <1>4, <2>2 DEF Active
    <3> QED BY <2>1, <2>2, <3>1
  <2>3. CASE Active(q)
    <3> DEFINE new == PageIn(rows, visit[q].slug)
    <3>1. visit[q].slug \in Slug BY <2>3 DEF IInv, VisitsOK, VisitOK
    <3>2. new \in Page \cup {NoPage} BY <1>2, <3>1, PageTyped
    <3>3. visit'[q] = [visit[q] EXCEPT !.seen = @ \cup {new}] BY <1>4, <2>3 DEF Active
    <3> HIDE DEF new
    <3>4. visit'[q] \in Visit BY <2>1, <3>2, <3>3 DEF Visit
    <3>5. visit'[q].seen = visit[q].seen \cup {new} BY <2>1, <3>3 DEF Visit
    <3> QED BY <1>2, <2>1, <3>3, <3>4, <3>5 DEF Visit, new
  <2> QED BY <2>2, <2>3
<1>8. visit' \in [Reader -> Visit] BY <1>4, <1>7
<1> QED BY <1>2, <1>6, <1>7, <1>8 DEF rows

LEMMA OvertakeMarks ==
    ASSUME TypeOK, NEW p \in Post, Overtake(p)
    PROVE  /\ entry' \in [0..MaxWrites -> [Slug -> Entry]]
           /\ \A g \in 0..MaxWrites, s \in Slug :
                /\ entry'[g][s].page = entry[g][s].page /\ entry'[g][s].ttl = entry[g][s].ttl
                /\ entry[g][s] = Empty => entry'[g][s] = Empty
                /\ entry[g][s].race \/ entry[g][s].page.post = p => entry'[g][s].race
<1>1. /\ DOMAIN entry = 0..MaxWrites
      /\ entry' = [g \in 0..MaxWrites |-> [s \in Slug |->
                     [entry[g][s] EXCEPT !.race = @ \/ entry[g][s].page.post = p]]]
  BY DEF TypeOK, Overtake
<1>2. ASSUME NEW g \in 0..MaxWrites, NEW s \in Slug
      PROVE  /\ entry'[g][s] \in Entry
             /\ entry'[g][s].page = entry[g][s].page /\ entry'[g][s].ttl = entry[g][s].ttl
             /\ entry[g][s] = Empty => entry'[g][s] = Empty
             /\ entry[g][s].race \/ entry[g][s].page.post = p => entry'[g][s].race
  <2> DEFINE e == entry[g][s]
             b == e.race \/ e.page.post = p
  <2>1. e \in Entry BY DEF TypeOK
  <2>2. entry'[g][s] = [e EXCEPT !.race = b] BY <1>1, <2>1 DEF Entry
  <2>3. b \in BOOLEAN OBVIOUS
  <2>4. e = Empty => ~b BY ConstAssumption DEF Empty, NoPage
  <2> HIDE DEF b, e
  <2>5. [e EXCEPT !.race = b] \in Entry BY <2>1, <2>3 DEF Entry
  <2>6. e = Empty => [e EXCEPT !.race = b] = Empty
    <3>1. CASE b BY <2>4, <3>1
    <3>2. CASE b = FALSE
      <4>1. Empty.race = FALSE /\ Empty \in [page : {NoPage}, ttl : {FALSE}, race : {FALSE}] BY DEF Empty
      <4>2. \A x \in [page : {NoPage}, ttl : {FALSE}, race : {FALSE}] : [x EXCEPT !.race = FALSE] = x
        OBVIOUS
      <4> QED BY <3>2, <4>1, <4>2
    <3> QED BY <2>3, <3>1, <3>2
  <2>7. [e EXCEPT !.race = b].page = e.page /\ [e EXCEPT !.race = b].ttl = e.ttl
        /\ [e EXCEPT !.race = b].race = b
    BY <2>1 DEF Entry
  <2> QED BY <2>2, <2>5, <2>6, <2>7 DEF b, e
<1>3. entry' \in [0..MaxWrites -> [Slug -> Entry]] BY <1>1, <1>2
<1> QED BY <1>2, <1>3

----------------------------------------------------------------------------
(* What a step of a visitor leaves.                                        *)

\* A new state of the visit, with a key of a generation there has been, a page that was
\* public, and what VisitOK asks of it.
Visits(r) ==
    /\ visit'[r] \in Visit /\ visit' = [visit EXCEPT ![r] = visit'[r]]
    /\ visit'[r].key \in 0..MaxWrites /\ visit'[r].key <= gen
    /\ visit'[r].got \in shown \cup {NoPage}
    /\ reads' \in 0..MaxReads /\ faults' \in 0..MaxFaults

\* A page is put: under the key of a generation there has been, with an expiry.
Puts(r) ==
    LET e == entry'[visit[r].key][visit[r].slug] IN
    /\ e \in Entry /\ e.ttl /\ visit[r].slug \in Slug
    /\ entry' = [entry EXCEPT ![visit[r].key][visit[r].slug] = e]
    /\ e.page \in shown \cup {NoPage}
    /\ ~e.race => e.page = PageOf(visit[r].slug) /\ \A w \in Writer : tx[w].at # "announced"

LEMMA NoVisitTyped == NoVisit \in Visit /\ NoVisit.key = 0 /\ NoVisit.got = NoPage
BY DEF NoVisit, Visit

LEMMA AnswerVisits ==
    ASSUME IInv, NEW r \in Reader, NEW page \in Page \cup {NoPage}, NEW race \in BOOLEAN,
           page \in shown \cup {NoPage}, Answer(r, page, race),
           UNCHANGED reads, faults' \in 0..MaxFaults
    PROVE  /\ Visits(r) /\ visit'[r].at = "done"
           /\ visit'[r].got = page /\ visit'[r].seen = visit[r].seen /\ visit'[r].race = race
<1> DEFINE v == [NoVisit EXCEPT !.at = "done", !.got = page, !.seen = visit[r].seen, !.race = race]
<1>1. visit \in [Reader -> Visit] /\ visit[r].seen \subseteq Page \cup {NoPage}
  BY DEF IInv, TypeOK, Visit
<1>2. NoVisit \in Visit /\ NoVisit.key = 0 BY NoVisitTyped
<1>3. /\ v \in Visit /\ v.at = "done" /\ v.key = 0 /\ v.got = page
      /\ v.seen = visit[r].seen /\ v.race = race
  BY <1>1, <1>2 DEF Visit
<1>4. visit' = [visit EXCEPT ![r] = v] BY DEF Answer, Go
<1>5. 0 \in 0..MaxWrites /\ 0 <= gen BY ConstAssumption DEF IInv, TypeOK
<1>6. reads' \in 0..MaxReads BY DEF IInv, TypeOK
<1> HIDE DEF v
<1> QED BY <1>1, <1>3, <1>4, <1>5, <1>6 DEF Visits

LEMMA FaultsTyped ==
    ASSUME IInv, UNCHANGED faults \/ FallsBack
    PROVE  faults' \in 0..MaxFaults
BY ConstAssumption DEF IInv, TypeOK, FallsBack

\* The same for a step that goes on, from a visit that is under way.
LEMMA GoVisits ==
    ASSUME IInv, NEW r \in Reader, NEW v \in Visit, Go(r, v), v.key \in 0..gen,
           v.got \in shown \cup {NoPage}, reads' \in 0..MaxReads, faults' \in 0..MaxFaults
    PROVE  Visits(r) /\ visit'[r] = v
<1>1. visit \in [Reader -> Visit] BY DEF IInv, TypeOK
<1>2. v.key \in 0..MaxWrites /\ v.key <= gen BY ConstAssumption DEF IInv, TypeOK
<1> QED BY <1>1, <1>2 DEF Go, Visits

LEMMA AskKeeps ==
    ASSUME IInv, NEW r \in Reader, NEW s \in Slug, Ask(r, s)
    PROVE  Visits(r) /\ VisitOK(r)' /\ UNCHANGED entry
<1> DEFINE v == [NoVisit EXCEPT !.at = "asked", !.slug = s, !.seen = {PageOf(s)}]
<1>1. PageOf(s) \in Page \cup {NoPage} BY PageTyped DEF PageOf, IInv, TypeOK
<1>2. NoVisit \in Visit /\ NoVisit.key = 0 /\ NoVisit.got = NoPage BY NoVisitTyped
<1>3. /\ v \in Visit /\ v.at = "asked" /\ v.slug = s /\ v.key = 0 /\ v.got = NoPage
      /\ v.seen = {PageOf(s)}
  BY <1>1, <1>2 DEF Visit
<1>4. Go(r, v) BY DEF Ask
<1>5. reads' \in 0..MaxReads BY ConstAssumption DEF IInv, TypeOK, Ask
<1>6. faults' \in 0..MaxFaults BY FaultsTyped DEF Ask
<1>7. 0 \in 0..gen BY ConstAssumption DEF IInv, TypeOK
<1>8. row' = row /\ entry' = entry BY DEF Ask, redis
<1> HIDE DEF v
<1>9. Visits(r) /\ visit'[r] = v BY <1>3, <1>4, <1>5, <1>6, <1>7, GoVisits
<1>10. VisitOK(r)' BY <1>3, <1>8, <1>9 DEF VisitOK, Active, PageOf
<1> QED BY <1>8, <1>9, <1>10

LEMMA GenerationKeeps ==
    ASSUME IInv, NEW r \in Reader, NEW from \in {"asked", "loaded"}, NEW to \in {"keyed", "rekeyed"},
           (from = "asked" /\ to = "keyed") \/ (from = "loaded" /\ to = "rekeyed"),
           CurrentGeneration(r, from, to)
    PROVE  Visits(r) /\ VisitOK(r)' /\ UNCHANGED entry
<1>1. /\ visit[r] \in Visit /\ visit[r].at = from /\ Active(r)
      /\ visit[r].slug \in Slug /\ PageOf(visit[r].slug) \in visit[r].seen
      /\ visit[r].got \in shown \cup {NoPage}
      /\ from = "loaded" => visit[r].got \in visit[r].seen
  BY DEF CurrentGeneration, IInv, TypeOK, VisitsOK, VisitOK, Active, PublicOK
<1>2. /\ row' = row /\ entry' = entry /\ reads' \in 0..MaxReads
  BY DEF CurrentGeneration, redis, IInv, TypeOK
<1>3. faults' \in 0..MaxFaults BY FaultsTyped DEF CurrentGeneration
<1>4. gen \in 0..gen /\ 0 \in 0..gen /\ gen \in 0..MaxWrites /\ gen \in Nat
  BY ConstAssumption DEF IInv, TypeOK
<1>5. CASE Go(r, [visit[r] EXCEPT !.at = to, !.key = gen])
  <2> DEFINE v == [visit[r] EXCEPT !.at = to, !.key = gen]
  <2>1. /\ v \in Visit /\ v.at = to /\ v.key = gen /\ v.slug = visit[r].slug
        /\ v.got = visit[r].got /\ v.seen = visit[r].seen
    BY <1>1, <1>4 DEF Visit
  <2>2. Go(r, v) BY <1>5
  <2> HIDE DEF v
  <2>3. Visits(r) /\ visit'[r] = v BY <1>1, <1>2, <1>3, <1>4, <2>1, <2>2, GoVisits
  <2>4. LET e == entry[gen][v.slug] IN e # Empty /\ ~e.race => e.page \in v.seen
    BY <1>1, <2>1 DEF IInv, EntriesOK
  <2>5. VisitOK(r)' BY <1>1, <1>2, <2>1, <2>3, <2>4 DEF VisitOK, Active, PageOf
  <2> QED BY <1>2, <2>3, <2>5
<1>6. CASE Go(r, [visit[r] EXCEPT !.at = to, !.key = 0, !.race = TRUE])
  <2> DEFINE v == [visit[r] EXCEPT !.at = to, !.key = 0, !.race = TRUE]
  <2>1. /\ v \in Visit /\ v.at = to /\ v.key = 0 /\ v.slug = visit[r].slug
        /\ v.got = visit[r].got /\ v.seen = visit[r].seen /\ v.race
    BY <1>1 DEF Visit
  <2>2. Go(r, v) BY <1>6
  <2> HIDE DEF v
  <2>3. Visits(r) /\ visit'[r] = v BY <1>1, <1>2, <1>3, <1>4, <2>1, <2>2, GoVisits
  <2>4. VisitOK(r)' BY <1>1, <1>2, <2>1, <2>3 DEF VisitOK, Active, PageOf
  <2> QED BY <1>2, <2>3, <2>4
<1> QED BY <1>5, <1>6 DEF CurrentGeneration

\* What is known of a visit that is under way.
LEMMA ActiveVisit ==
    ASSUME IInv, NEW r \in Reader, Active(r)
    PROVE  /\ visit[r] \in Visit /\ visit[r].slug \in Slug
           /\ visit[r].key \in 0..MaxWrites /\ visit[r].key \in 0..gen
           /\ visit[r].got \in shown \cup {NoPage} /\ visit[r].got \in Page \cup {NoPage}
           /\ visit[r].race \in BOOLEAN
           /\ PageOf(visit[r].slug) \in visit[r].seen
           /\ PageOf(visit[r].slug) \in Page \cup {NoPage}
           /\ PageOf(visit[r].slug) \in shown \cup {NoPage}
           /\ reads \in 0..MaxReads
<1>1. /\ visit[r] \in Visit /\ visit[r].slug \in Slug
      /\ visit[r].key \in 0..MaxWrites /\ visit[r].key <= gen
      /\ visit[r].got \in shown \cup {NoPage}
      /\ PageOf(visit[r].slug) \in visit[r].seen
      /\ reads \in 0..MaxReads /\ gen \in 0..MaxWrites
  BY DEF IInv, TypeOK, KeysOK, PublicOK, VisitsOK, VisitOK
<1>2. visit[r].key \in 0..gen BY <1>1, ConstAssumption
<1>3. visit[r].got \in Page \cup {NoPage} /\ visit[r].race \in BOOLEAN BY <1>1 DEF Visit
<1>4. PageOf(visit[r].slug) \in PagesIn(row, visit[r].slug) \cup {NoPage}
      /\ PagesIn(row, visit[r].slug) \subseteq Page
  BY <1>1, PageTyped DEF PageOf, IInv, TypeOK
<1>5. PagesIn(row, visit[r].slug) \subseteq shown BY <1>1 DEF IInv, PublicOK
<1> QED BY <1>1, <1>2, <1>3, <1>4, <1>5

LEMMA GetKeeps ==
    ASSUME IInv, NEW r \in Reader, GetDetail(r)
    PROVE  Visits(r) /\ VisitOK(r)' /\ UNCHANGED entry
<1> DEFINE e == entry[visit[r].key][visit[r].slug]
<1>1. visit[r].at = "keyed" /\ Active(r) BY DEF GetDetail, Active
<1>2. row' = row /\ entry' = entry /\ UNCHANGED reads BY DEF GetDetail, redis
<1>3. faults' \in 0..MaxFaults BY FaultsTyped DEF GetDetail
<1>4. /\ e \in Entry /\ e.page \in shown \cup {NoPage}
      /\ e # Empty /\ ~e.race /\ ~visit[r].race => e.page \in visit[r].seen
  BY <1>1, ActiveVisit DEF IInv, TypeOK, PublicOK, VisitsOK, VisitOK
<1>5. e.page \in Page \cup {NoPage} /\ e.race \in BOOLEAN BY <1>4 DEF Entry
<1>6. CASE e # Empty /\ Answer(r, e.page, visit[r].race \/ e.race)
  <2> DEFINE race == visit[r].race \/ e.race
  <2>1. race \in BOOLEAN /\ (~race => e.page \in visit[r].seen) BY <1>4, <1>6
  <2>2. Answer(r, e.page, race) BY <1>6
  <2> HIDE DEF race, e
  <2>3. /\ Visits(r) /\ visit'[r].at = "done"
        /\ visit'[r].got = e.page /\ visit'[r].seen = visit[r].seen /\ visit'[r].race = race
    BY <1>2, <1>3, <1>4, <1>5, <2>1, <2>2, AnswerVisits
  <2>4. VisitOK(r)' BY <2>1, <2>3 DEF VisitOK, Active
  <2> QED BY <1>2, <2>3, <2>4
<1>7. CASE Go(r, [visit[r] EXCEPT !.at = "missed"])
  <2> DEFINE v == [visit[r] EXCEPT !.at = "missed"]
  <2>1. /\ v \in Visit /\ v.at = "missed" /\ v.key = visit[r].key /\ v.slug = visit[r].slug
        /\ v.got = visit[r].got /\ v.seen = visit[r].seen
    BY <1>1, ActiveVisit DEF Visit
  <2>2. Go(r, v) BY <1>7
  <2> HIDE DEF v
  <2>3. Visits(r) /\ visit'[r] = v BY <1>1, <1>2, <1>3, <2>1, <2>2, ActiveVisit, GoVisits
  <2>4. VisitOK(r)' BY <1>1, <1>2, <2>1, <2>3, ActiveVisit DEF VisitOK, Active, PageOf
  <2> QED BY <1>2, <2>3, <2>4
<1> QED BY <1>6, <1>7 DEF GetDetail

LEMMA LoadKeeps ==
    ASSUME IInv, NEW r \in Reader, Load(r)
    PROVE  Visits(r) /\ VisitOK(r)' /\ UNCHANGED entry
<1> DEFINE page == PageOf(visit[r].slug)
<1>1. visit[r].at = "missed" /\ Active(r) BY DEF Load, Active
<1>2. row' = row /\ entry' = entry /\ UNCHANGED reads BY DEF Load, redis
<1>3. faults' \in 0..MaxFaults BY FaultsTyped DEF Load
<1> HIDE DEF page
<1>4. /\ page \in Page \cup {NoPage} /\ page \in shown \cup {NoPage}
      /\ page \in visit[r].seen /\ visit[r].race \in BOOLEAN
  BY <1>1, ActiveVisit DEF page
<1>5. CASE Answer(r, page, visit[r].race)
  <2>1. /\ Visits(r) /\ visit'[r].at = "done"
        /\ visit'[r].got = page /\ visit'[r].seen = visit[r].seen
    BY <1>2, <1>3, <1>4, <1>5, AnswerVisits
  <2>2. VisitOK(r)' BY <1>4, <2>1 DEF VisitOK, Active
  <2> QED BY <1>2, <2>1, <2>2
<1>6. CASE Go(r, [visit[r] EXCEPT !.at = "loaded", !.got = page])
  <2> DEFINE v == [visit[r] EXCEPT !.at = "loaded", !.got = page]
  <2>1. /\ v \in Visit /\ v.at = "loaded" /\ v.key = visit[r].key /\ v.slug = visit[r].slug
        /\ v.got = page /\ v.seen = visit[r].seen
    BY <1>1, <1>4, ActiveVisit DEF Visit
  <2>2. Go(r, v) BY <1>6
  <2> HIDE DEF v
  <2>3. Visits(r) /\ visit'[r] = v BY <1>1, <1>2, <1>3, <1>4, <2>1, <2>2, ActiveVisit, GoVisits
  <2>4. VisitOK(r)' BY <1>1, <1>2, <1>4, <2>1, <2>3, ActiveVisit DEF VisitOK, Active, PageOf
  <2> QED BY <1>2, <2>3, <2>4
<1> QED BY <1>5, <1>6 DEF Load, PublishedBySlug, page

LEMMA PutKeeps ==
    ASSUME IInv, NEW r \in Reader, PutDetail(r)
    PROVE  Visits(r) /\ VisitOK(r)' /\ (UNCHANGED entry \/ Puts(r))
<1>1. visit[r].at = "rekeyed" /\ Active(r) BY DEF PutDetail, Active
<1>2. row' = row /\ UNCHANGED reads BY DEF PutDetail
<1>3. faults' \in 0..MaxFaults BY FaultsTyped DEF PutDetail
<1>4. visit[r].got \in visit[r].seen BY <1>1 DEF IInv, VisitsOK, VisitOK
<1>5. /\ Visits(r) /\ visit'[r].at = "done"
      /\ visit'[r].got = visit[r].got /\ visit'[r].seen = visit[r].seen
  BY <1>1, <1>2, <1>3, ActiveVisit, AnswerVisits DEF PutDetail
<1>6. VisitOK(r)' BY <1>4, <1>5 DEF VisitOK, Active
<1>7. ASSUME entry' = Stored(r, TRUE) PROVE Puts(r)
  <2> DEFINE e == [page |-> visit[r].got, ttl |-> TRUE, race |-> Crosses(r)]
  <2>1. Crosses(r) \in BOOLEAN BY DEF Crosses
  <2>2. ~Crosses(r) => /\ visit[r].got = PageOf(visit[r].slug)
                       /\ \A w \in Writer : tx[w].at # "announced"
    BY DEF Crosses
  <2>3. e.page = visit[r].got /\ e.ttl = TRUE /\ e.race = Crosses(r) OBVIOUS
  <2>4. e \in Entry BY <1>1, <2>1, ActiveVisit DEF Entry
  <2>5. entry' = [entry EXCEPT ![visit[r].key][visit[r].slug] = e] BY <1>7 DEF Stored
  <2> HIDE DEF e
  <2>6. visit[r].key \in 0..MaxWrites /\ visit[r].slug \in Slug BY <1>1, ActiveVisit
  <2>7. entry \in [0..MaxWrites -> [Slug -> Entry]] BY DEF IInv, TypeOK
  <2>8. entry'[visit[r].key][visit[r].slug] = e BY <2>5, <2>6, <2>7
  <2>9. visit[r].got \in shown \cup {NoPage} BY <1>1, ActiveVisit
  <2> QED BY <2>2, <2>3, <2>4, <2>5, <2>6, <2>8, <2>9 DEF Puts
<1> QED BY <1>5, <1>6, <1>7 DEF PutDetail

LEMMA ReadKeeps ==
    ASSUME IInv, NEW r \in Reader, ReadStep(r)
    PROVE  Visits(r) /\ VisitOK(r)' /\ (UNCHANGED entry \/ Puts(r))
BY AskKeeps, GenerationKeeps, GetKeeps, LoadKeeps, PutKeeps
   DEF ReadStep, Read, DetailKey, DetailKeyAgain

----------------------------------------------------------------------------
(* Each kind of step keeps the invariant.                                  *)

\* The order of the bump and the commit: with what the rows are and what is announced
\* unchanged, nothing under the generation changes its meaning.
LEMMA PrepareStep ==
    ASSUME IInv, [Next]_vars, NEW w \in Writer, Prepares(w)
    PROVE  IInv'
<1>1. UNCHANGED <<row, gen, entry, visit, reads, faults, shown>> BY PrepareChanges DEF IInv
<1>2. PICK t \in Tx : tx' = [tx EXCEPT ![w] = t] /\ t.at # "announced"
  BY PrepareChanges DEF IInv
<1>3. TypeOK'
  <2>1. tx' \in [Writer -> Tx] BY <1>2 DEF IInv, TypeOK
  <2> QED BY <1>1, <2>1, GenerationNext DEF IInv, TypeOK
<1>4. GenerationOK' BY GenerationNext
<1>5. KeysOK' BY <1>1 DEF IInv, KeysOK
<1>6. SlugsOK'
  <2>1. \A p, q \in Post : row'[p].slug = row'[q].slug => p = q BY <1>1 DEF IInv, SlugsOK
  <2>2. \A v \in Writer \ {w} : tx'[v] = tx[v] BY <1>2
  <2>3. tx \in [Writer -> Tx] BY DEF IInv, TypeOK
  <2>4. CASE Update(w)
    <3>1. /\ tx'[w].kind = tx[w].kind /\ tx'[w].post = tx[w].post /\ tx'[w].slug = tx[w].slug
      <4>1. tx[w].at = "checked" /\ tx' = [tx EXCEPT ![w].at = "locked"] BY <2>4 DEF Update
      <4>2. tx[w] \in [kind : Kind, post : Post, slug : Slug, at : {"checked", "locked", "announced"}]
        BY <2>3, <4>1, NoTxIsIdle DEF Tx, NoTxFact
      <4>3. tx'[w] = [tx[w] EXCEPT !.at = "locked"] BY <2>3, <4>1
      <4> QED BY <4>2, <4>3
    <3>2. tx[w].kind = "patch" => SlugIsFree(w) BY <2>4 DEF Update
    <3> QED BY <1>1, <2>1, <2>2, <3>1, <3>2 DEF IInv, SlugsOK, SlugIsFree, Locked
  <2>5. CASE ~Update(w)
    <3>1. ~Locked(w)'
      <4>1. CASE Abort(w) BY <2>3, <4>1, NoTxIsIdle DEF Abort, Locked, NoTxFact
      <4>2. CASE \E k \in Kind, p \in Post, s \in Slug : Start(w, k, p, s)
        <5>1. tx'[w].at = "checked" BY <2>3, <4>2 DEF Start
        <5> QED BY <5>1 DEF Locked
      <4> QED BY <2>5, <4>1, <4>2 DEF Prepares
    <3> QED BY <1>1, <2>1, <2>2, <3>1 DEF IInv, SlugsOK, Locked
  <2> QED BY <2>4, <2>5
<1>7. EntriesOK'
  <2>1. tx'[w].at # "announced" /\ \A v \in Writer \ {w} : tx'[v] = tx[v]
    BY <1>2 DEF IInv, TypeOK
  <2> QED BY <1>1, <2>1 DEF IInv, EntriesOK, PageOf
<1>8. VisitsOK' BY <1>1 DEF IInv, VisitsOK, VisitOK, Active, PageOf
<1>9. PublicOK' BY <1>1 DEF IInv, PublicOK
<1> QED BY <1>3, <1>4, <1>5, <1>6, <1>7, <1>8, <1>9 DEF IInv

\* The new generation has no entries.
LEMMA InvalidateStep ==
    ASSUME IInv, [Next]_vars, NEW w \in Writer, InvalidateWorkspace(w)
    PROVE  IInv'
<1>1. /\ UNCHANGED <<row, entry, visit, reads, faults, shown>> /\ gen' = gen + 1
      /\ tx' = [tx EXCEPT ![w].at = "announced"] /\ tx[w].at = "locked"
  BY DEF InvalidateWorkspace
<1>2. tx \in [Writer -> Tx] /\ gen \in Nat BY DEF IInv, TypeOK
<1>3. /\ tx[w] \in [kind : Kind, post : Post, slug : Slug, at : {"checked", "locked", "announced"}]
      /\ tx'[w] = [tx[w] EXCEPT !.at = "announced"]
  BY <1>1, <1>2, NoTxIsIdle DEF Tx, NoTxFact
<1>4. gen' \in 0..MaxWrites /\ writes' \in 0..MaxWrites /\ GenerationOK' BY <1>1, <1>2, GenerationNext
<1>5. TypeOK'
  <2>1. tx'[w] \in Tx BY <1>3 DEF Tx
  <2>2. tx' \in [Writer -> Tx] BY <1>1, <1>2, <1>3, <2>1
  <2> QED BY <1>1, <1>4, <2>2 DEF IInv, TypeOK
<1>6. KeysOK'
  <2>1. \A n \in Nat : n <= gen => n <= gen' BY <1>1, <1>2
  <2>2. \A n \in 0..MaxWrites : n > gen' => n > gen BY <1>1, <1>2
  <2> QED BY <1>1, <2>1, <2>2 DEF IInv, KeysOK, TypeOK
<1>7. SlugsOK'
  <2>1. /\ tx'[w].kind = tx[w].kind /\ tx'[w].post = tx[w].post /\ tx'[w].slug = tx[w].slug
        /\ Locked(w)
    BY <1>1, <1>3 DEF Locked
  <2>2. \A v \in Writer \ {w} : tx'[v] = tx[v] BY <1>1, <1>2
  <2> QED BY <1>1, <2>1, <2>2 DEF IInv, SlugsOK, Locked
<1>8. EntriesOK'
  <2>1. gen' > gen BY <1>1, <1>2
  <2>2. \A s \in Slug : entry'[gen'][s] = Empty BY <1>1, <1>4, <2>1 DEF IInv, KeysOK
  <2> QED BY <2>2 DEF EntriesOK
<1>9. VisitsOK' BY <1>1 DEF IInv, VisitsOK, VisitOK, Active, PageOf
<1>10. PublicOK' BY <1>1 DEF IInv, PublicOK
<1> QED BY <1>4, <1>5, <1>6, <1>7, <1>8, <1>9, <1>10 DEF IInv

\* What every change of a row does, announced or not, apart from slugs and entries.
LEMMA ChangeStep ==
    ASSUME IInv, [Next]_vars, NEW p \in Post, NEW r \in Row, Changes(p, r),
           tx' \in [Writer -> Tx],
           UNCHANGED entry \/ Overtake(p)
    PROVE  TypeOK' /\ GenerationOK' /\ KeysOK' /\ VisitsOK' /\ PublicOK'
<1>1. /\ gen' = gen /\ reads' = reads /\ faults' = faults BY DEF Changes
<1>2. /\ entry' \in [0..MaxWrites -> [Slug -> Entry]]
      /\ \A g \in 0..MaxWrites, s \in Slug :
            /\ entry'[g][s].page = entry[g][s].page /\ entry'[g][s].ttl = entry[g][s].ttl
            /\ entry[g][s] = Empty => entry'[g][s] = Empty
            /\ entry[g][s].race => entry'[g][s].race
  BY OvertakeMarks DEF IInv, TypeOK
<1>3. /\ row' \in [Post -> Row] /\ shown \subseteq shown' /\ shown' \subseteq Page
      /\ \A s \in Slug : PagesIn(row', s) \subseteq shown'
      /\ visit' \in [Reader -> Visit]
      /\ \A q \in Reader :
           /\ visit'[q].at = visit[q].at /\ visit'[q].slug = visit[q].slug
           /\ visit'[q].key = visit[q].key /\ visit'[q].got = visit[q].got
           /\ visit'[q].race = visit[q].race /\ visit[q].seen \subseteq visit'[q].seen
           /\ Active(q) => PageIn(row', visit[q].slug) \in visit'[q].seen
  BY ObserveChanges
<1>4. TypeOK'
  <2>1. \A g \in 0..MaxWrites, s \in Slug : entry'[g][s] # Empty => entry'[g][s].ttl
    BY <1>2 DEF IInv, TypeOK
  <2> QED BY <1>1, <1>2, <1>3, <2>1, GenerationNext DEF IInv, TypeOK
<1>5. KeysOK' BY <1>1, <1>2, <1>3 DEF IInv, KeysOK
<1>6. VisitsOK'
  <2> SUFFICES ASSUME NEW q \in Reader PROVE VisitOK(q)' BY DEF VisitsOK
  <2>1. VisitOK(q) /\ visit[q].key \in 0..MaxWrites BY DEF IInv, VisitsOK, TypeOK
  <2>2. Active(q)' <=> Active(q) BY <1>3 DEF Active
  <2>3. Active(q) => visit[q].slug \in Slug BY <2>1 DEF VisitOK
  <2>4. visit[q].at = "keyed" => Active(q) BY DEF Active
  <2> QED BY <1>2, <1>3, <2>1, <2>2, <2>3, <2>4 DEF VisitOK, PageOf
<1>7. PublicOK'
  <2>1. \A g \in 0..MaxWrites, s \in Slug : entry'[g][s].page \in shown' \cup {NoPage}
    BY <1>2, <1>3 DEF IInv, PublicOK
  <2>2. \A q \in Reader : visit'[q].got \in shown' \cup {NoPage}
    BY <1>3 DEF IInv, PublicOK
  <2> QED BY <1>3, <2>1, <2>2 DEF PublicOK
<1> QED BY <1>4, <1>5, <1>6, <1>7, GenerationNext

\* A change that is not announced leaves only overtaken entries behind.
LEMMA OvertakesEntries ==
    ASSUME IInv, NEW p \in Post, NEW r \in Row, Overtakes(p, r),
           \A w \in Writer : tx'[w].at = "announced" => tx[w].at = "announced"
    PROVE  EntriesOK'
<1>1. row' = [row EXCEPT ![p] = r] /\ gen' = gen /\ gen \in 0..MaxWrites
  BY DEF Overtakes, Changes, IInv, TypeOK
<1> SUFFICES ASSUME NEW s \in Slug, entry'[gen][s] # Empty, ~entry'[gen][s].race
             PROVE  /\ entry'[gen][s].page = PageIn(row', s)
                    /\ \A w \in Writer : tx'[w].at # "announced"
  BY <1>1 DEF EntriesOK, PageOf
<1>2. /\ entry'[gen][s].page = entry[gen][s].page /\ entry[gen][s] # Empty
      /\ ~entry[gen][s].race /\ entry[gen][s].page.post # p
  BY <1>1, OvertakeMarks DEF Overtakes, IInv
<1>3. entry[gen][s].page = PageIn(row, s) /\ \A w \in Writer : tx[w].at # "announced"
  BY <1>2 DEF IInv, EntriesOK, PageOf
<1>4. row \in [Post -> Row] /\ \A q1, q2 \in Post : row[q1].slug = row[q2].slug => q1 = q2
  BY DEF IInv, TypeOK, SlugsOK
<1>5. PageIn([row EXCEPT ![p] = r], s) = PageIn(row, s) \/ PageIn(row, s).post = p
  BY <1>4, OnePageChanges DEF Overtakes
<1> QED BY <1>1, <1>2, <1>3, <1>5

LEMMA CommitStep ==
    ASSUME IInv, [Next]_vars, NEW w \in Writer, Commit(w)
    PROVE  IInv'
<1> DEFINE p == tx[w].post
           r == Changed(tx[w], row[p])
<1>1. /\ p \in Post /\ r \in Row /\ Changes(p, r) /\ tx' = [tx EXCEPT ![w] = NoTx]
      /\ \/ tx[w].at = "announced" /\ UNCHANGED entry
         \/ tx[w].at = "locked" /\ tx[w].kind = "restore" /\ Overtakes(p, r)
  BY CommitChanges DEF IInv
<1>2. row \in [Post -> Row] /\ tx \in [Writer -> Tx] BY DEF IInv, TypeOK
<1>3. r.slug = (IF tx[w].kind = "patch" THEN tx[w].slug ELSE row[p].slug)
  BY <1>1, <1>2 DEF Changed, Row
<1> HIDE DEF r
<1>4. tx' \in [Writer -> Tx] /\ ~Locked(w)' /\ \A v \in Writer \ {w} : tx'[v] = tx[v]
  BY <1>1, <1>2, NoTxIsIdle DEF NoTxFact, Locked
<1>5. TypeOK' /\ GenerationOK' /\ KeysOK' /\ VisitsOK' /\ PublicOK'
  BY <1>1, <1>4, ChangeStep DEF Overtakes
<1>6. SlugsOK'
  <2>1. row' = [row EXCEPT ![p] = r] BY <1>1 DEF Changes
  <2>2. \A q \in Post \ {p} : row'[q] = row[q] BY <1>2, <2>1
  <2>3. row'[p].slug = (IF tx[w].kind = "patch" THEN tx[w].slug ELSE row[p].slug)
    BY <1>1, <1>2, <1>3, <2>1
  <2>4. Locked(w) BY <1>1 DEF Locked
  <2>5. \A q1, q2 \in Post : row'[q1].slug = row'[q2].slug => q1 = q2
    BY <2>2, <2>3, <2>4 DEF IInv, SlugsOK
  <2>6. ASSUME NEW v \in Writer, Locked(v)', tx'[v].kind = "patch"
        PROVE  /\ \A q \in Post \ {tx'[v].post} : row'[q].slug # tx'[v].slug
               /\ \A u \in Writer \ {v} : Locked(u)' /\ tx'[u].kind = "patch" => tx'[u].slug # tx'[v].slug
    <3>1. v # w /\ tx'[v] = tx[v] /\ Locked(v) BY <1>4, <2>6 DEF Locked
    <3>2. \A q \in Post \ {tx[v].post} : row[q].slug # tx[v].slug
      BY <2>6, <3>1 DEF IInv, SlugsOK
    <3>3. tx[w].kind = "patch" => tx[w].slug # tx[v].slug
      BY <2>4, <2>6, <3>1 DEF IInv, SlugsOK
    <3>4. \A q \in Post \ {tx'[v].post} : row'[q].slug # tx'[v].slug
      BY <2>2, <2>3, <3>1, <3>2, <3>3
    <3>5. \A u \in Writer \ {v} : Locked(u)' /\ tx'[u].kind = "patch" => tx'[u].slug # tx'[v].slug
      BY <1>4, <2>6, <3>1 DEF IInv, SlugsOK, Locked
    <3> QED BY <3>4, <3>5
  <2> QED BY <2>5, <2>6 DEF SlugsOK
<1>7. EntriesOK'
  <2>1. CASE tx[w].at = "announced" /\ UNCHANGED entry
    <3>1. \A s \in Slug : entry[gen][s] # Empty => entry[gen][s].race
      BY <2>1 DEF IInv, EntriesOK
    <3> QED BY <1>1, <2>1, <3>1 DEF EntriesOK, Changes
  <2>2. CASE Overtakes(p, r)
    <3>1. \A v \in Writer : tx'[v].at = "announced" => tx[v].at = "announced"
      BY <1>4 DEF Locked
    <3> QED BY <1>1, <2>2, <3>1, OvertakesEntries
  <2> QED BY <1>1, <2>1, <2>2
<1> QED BY <1>5, <1>6, <1>7 DEF IInv

LEMMA RelabelStep ==
    ASSUME IInv, [Next]_vars, NEW p \in Post, Relabel(p)
    PROVE  IInv'
<1>1. UNCHANGED tx /\ \E r \in Row : Overtakes(p, r) BY RelabelChanges DEF IInv
<1>2. PICK r \in Row : Overtakes(p, r) BY <1>1
<1>3. TypeOK' /\ GenerationOK' /\ KeysOK' /\ VisitsOK' /\ PublicOK'
  <2>1. tx' \in [Writer -> Tx] BY <1>1 DEF IInv, TypeOK
  <2> QED BY <1>2, <2>1, ChangeStep DEF Overtakes
<1>4. EntriesOK' BY <1>1, <1>2, OvertakesEntries
<1>5. SlugsOK'
  <2>1. \A q \in Post : row'[q].slug = row[q].slug
    BY <1>2 DEF Overtakes, Changes, IInv, TypeOK
  <2> QED BY <1>1, <2>1 DEF IInv, SlugsOK, Locked
<1> QED BY <1>3, <1>4, <1>5 DEF IInv

\* A visit puts at most what raced, or what is still so.
LEMMA VisitStep ==
    ASSUME IInv, [Next]_vars, NEW r \in Reader, ReadStep(r)
    PROVE  IInv'
<1> DEFINE k == visit[r].key
           sl == visit[r].slug
           e == entry'[k][sl]
<1>1. UNCHANGED <<row, tx, gen, writes, shown>> BY ReadChanges
<1>2. Visits(r) /\ VisitOK(r)' /\ (UNCHANGED entry \/ Puts(r)) BY ReadKeeps
<1>3. /\ visit \in [Reader -> Visit] /\ entry \in [0..MaxWrites -> [Slug -> Entry]]
      /\ k \in 0..MaxWrites /\ k <= gen /\ gen \in 0..MaxWrites /\ MaxWrites \in Nat
  BY ConstAssumption DEF IInv, TypeOK, KeysOK
<1>4. \A q \in Reader \ {r} : visit'[q] = visit[q] BY <1>2, <1>3 DEF Visits
<1> HIDE DEF k, sl
<1>5. Puts(r) =>
        /\ sl \in Slug /\ e \in Entry /\ e.ttl /\ e.page \in shown \cup {NoPage}
        /\ entry' = [entry EXCEPT ![k][sl] = e]
        /\ ~e.race => e.page = PageOf(sl) /\ \A w \in Writer : tx[w].at # "announced"
  BY DEF Puts, k, sl
<1>6. \A g \in 0..MaxWrites, s \in Slug :
         entry'[g][s] = entry[g][s] \/ (Puts(r) /\ g = k /\ s = sl)
  BY <1>2, <1>3, <1>5
<1>7. TypeOK'
  <2>1. visit' \in [Reader -> Visit] /\ \A q \in Reader : visit'[q].key \in 0..MaxWrites
    BY <1>2, <1>3, <1>4 DEF Visits, IInv, TypeOK
  <2>2. entry' \in [0..MaxWrites -> [Slug -> Entry]]
    <3>1. CASE UNCHANGED entry BY <1>3, <3>1
    <3>2. CASE Puts(r)
      <4> DEFINE d == e
      <4>1. sl \in Slug /\ d \in Entry /\ entry' = [entry EXCEPT ![k][sl] = d] BY <1>5, <3>2
      <4> HIDE DEF d
      <4>2. [entry[k] EXCEPT ![sl] = d] \in [Slug -> Entry] BY <1>3, <4>1
      <4> QED BY <1>3, <4>1, <4>2
    <3> QED BY <1>2, <3>1, <3>2
  <2>3. \A g \in 0..MaxWrites, s \in Slug : entry'[g][s] # Empty => entry'[g][s].ttl
    BY <1>5, <1>6 DEF IInv, TypeOK
  <2>4. reads' \in 0..MaxReads /\ faults' \in 0..MaxFaults BY <1>2 DEF Visits
  <2> QED BY <1>1, <2>1, <2>2, <2>3, <2>4 DEF IInv, TypeOK
<1>8. GenerationOK' BY GenerationNext
<1>9. KeysOK'
  <2>1. \A q \in Reader : visit'[q].key <= gen'
    BY <1>1, <1>2, <1>4 DEF Visits, IInv, KeysOK
  <2>2. ASSUME NEW g \in 0..MaxWrites, NEW s \in Slug, g > gen'
        PROVE  entry'[g][s] = Empty
    <3>1. g # k BY <1>1, <1>3, <2>2
    <3> QED BY <1>1, <1>6, <2>2, <3>1 DEF IInv, KeysOK
  <2> QED BY <2>1, <2>2 DEF KeysOK
<1>10. SlugsOK' BY <1>1 DEF IInv, SlugsOK, Locked
<1>11. EntriesOK' BY <1>1, <1>3, <1>5, <1>6 DEF IInv, EntriesOK, PageOf
<1>12. VisitsOK'
  <2> SUFFICES ASSUME NEW q \in Reader, q # r PROVE VisitOK(q)' BY <1>2 DEF VisitsOK
  <2>1. visit'[q] = visit[q] /\ VisitOK(q) /\ visit[q].key \in 0..MaxWrites
    BY <1>4 DEF IInv, VisitsOK, TypeOK
  <2>2. Active(q) => visit[q].slug \in Slug /\ PageOf(visit[q].slug) \in visit[q].seen
    BY <2>1 DEF VisitOK
  <2>3. visit[q].at = "keyed" => Active(q) BY DEF Active
  <2>4. ASSUME visit[q].at = "keyed", ~visit[q].race
        PROVE  LET d == entry'[visit[q].key][visit[q].slug]
               IN  d # Empty /\ ~d.race => d.page \in visit[q].seen
    <3>1. visit[q].slug \in Slug BY <2>2, <2>3, <2>4
    <3>2. CASE entry'[visit[q].key][visit[q].slug] = entry[visit[q].key][visit[q].slug]
      BY <2>1, <2>4, <3>2 DEF VisitOK
    <3>3. CASE Puts(r) /\ visit[q].key = k /\ visit[q].slug = sl
      BY <1>5, <2>2, <2>3, <2>4, <3>3
    <3> QED BY <1>6, <2>1, <3>1, <3>2, <3>3
  <2> QED BY <1>1, <2>1, <2>4 DEF VisitOK, Active, PageOf
<1>13. PublicOK'
  <2>1. \A g \in 0..MaxWrites, s \in Slug : entry'[g][s].page \in shown' \cup {NoPage}
    BY <1>1, <1>5, <1>6 DEF IInv, PublicOK
  <2>2. \A q \in Reader : visit'[q].got \in shown' \cup {NoPage}
    BY <1>1, <1>2, <1>4 DEF Visits, IInv, PublicOK
  <2> QED BY <1>1, <2>1, <2>2 DEF IInv, PublicOK
<1> QED BY <1>7, <1>8, <1>9, <1>10, <1>11, <1>12, <1>13 DEF IInv

LEMMA ExpireStep ==
    ASSUME IInv, [Next]_vars, NEW g \in DOMAIN entry, NEW s \in Slug, Expire(g, s)
    PROVE  IInv'
<1>1. /\ UNCHANGED <<row, tx, gen, visit, writes, reads, faults, shown>>
      /\ entry' = [entry EXCEPT ![g][s] = Empty]
  BY DEF Expire
<1>2. entry \in [0..MaxWrites -> [Slug -> Entry]] /\ g \in 0..MaxWrites BY DEF IInv, TypeOK
<1>3. Empty \in Entry /\ Empty.page = NoPage BY DEF Empty, Entry
<1>4. \A h \in 0..MaxWrites, t \in Slug : entry'[h][t] \in {entry[h][t], Empty} BY <1>1, <1>2
<1>5. TypeOK'
  <2>1. [entry[g] EXCEPT ![s] = Empty] \in [Slug -> Entry] BY <1>2, <1>3
  <2>2. entry' \in [0..MaxWrites -> [Slug -> Entry]] BY <1>1, <1>2, <2>1
  <2>3. \A h \in 0..MaxWrites, t \in Slug : entry'[h][t] # Empty => entry'[h][t].ttl
    BY <1>4 DEF IInv, TypeOK
  <2> QED BY <1>1, <2>2, <2>3 DEF IInv, TypeOK
<1>6. GenerationOK' BY GenerationNext
<1>7. KeysOK' BY <1>1, <1>4 DEF IInv, KeysOK
<1>8. SlugsOK' BY <1>1 DEF IInv, SlugsOK, Locked
<1>9. EntriesOK' BY <1>1, <1>4 DEF IInv, TypeOK, EntriesOK, PageOf
<1>10. VisitsOK'
  <2> SUFFICES ASSUME NEW q \in Reader PROVE VisitOK(q)' BY DEF VisitsOK
  <2>1. VisitOK(q) /\ visit[q].key \in 0..MaxWrites BY DEF IInv, VisitsOK, TypeOK
  <2>2. visit[q].at = "keyed" => visit[q].slug \in Slug BY <2>1 DEF VisitOK, Active
  <2> QED BY <1>1, <1>4, <2>1, <2>2 DEF VisitOK, Active, PageOf
<1>11. PublicOK' BY <1>1, <1>3, <1>4 DEF IInv, PublicOK
<1> QED BY <1>5, <1>6, <1>7, <1>8, <1>9, <1>10, <1>11 DEF IInv

LEMMA InitHolds == Init => IInv
<1> SUFFICES ASSUME Init PROVE IInv OBVIOUS
<1> USE DEF Init
<1>1. NoTx \in Tx /\ NoTx.at = "idle" /\ NoTx.kind = "none" BY NoTxIsIdle DEF NoTxFact
<1>2. NoVisit \in Visit /\ NoVisit.at = "idle" /\ NoVisit.key = 0 /\ NoVisit.got = NoPage
  BY NoVisitTyped DEF NoVisit
<1>3. Empty \in Entry /\ Empty.page = NoPage BY DEF Empty, Entry
<1>4. 0 \in 0..MaxWrites /\ 0 \in 0..MaxReads /\ 0 \in 0..MaxFaults BY ConstAssumption
<1>5. row \in [Post -> Row]
  <2> DEFINE First == [slug : Slug, status : {"draft", "published"}, gone : {FALSE}, text : {0}]
  <2>1. First \subseteq Row
    <3> SUFFICES ASSUME NEW r \in First PROVE r \in Row OBVIOUS
    <3>1. r = [slug |-> r.slug, status |-> r.status, gone |-> r.gone, text |-> r.text] OBVIOUS
    <3>2. r.slug \in Slug /\ r.status \in Status /\ r.text \in Nat
      BY DEF Status
    <3>3. r.gone \in {FALSE} OBVIOUS
    <3>4. \A x \in {FALSE} : x \in BOOLEAN OBVIOUS
    <3>5. r.slug \in Slug /\ r.status \in Status /\ r.gone \in BOOLEAN /\ r.text \in Nat
      BY <3>2, <3>3, <3>4
    <3> QED BY <3>1, <3>5 DEF Row
  <2>2. row \in [Post -> First] OBVIOUS
  <2> HIDE DEF First
  <2> QED BY <2>1, <2>2
<1>6. \A s \in Slug : PagesIn(row, s) \subseteq Page BY <1>5, PageTyped
<1>7. TypeOK BY <1>1, <1>2, <1>3, <1>4, <1>5, <1>6 DEF TypeOK
<1>8. GenerationOK
  <2>1. Unannounced = {} BY <1>1 DEF Unannounced
  <2> QED BY <2>1, FS_EmptySet DEF GenerationOK
<1>9. KeysOK BY <1>2 DEF KeysOK
<1>10. SlugsOK BY <1>1 DEF SlugsOK, Locked
<1>11. EntriesOK BY <1>4 DEF EntriesOK
<1>12. VisitsOK BY <1>2 DEF VisitsOK, VisitOK, Active
<1>13. PublicOK BY <1>2, <1>3 DEF PublicOK
<1> QED BY <1>7, <1>8, <1>9, <1>10, <1>11, <1>12, <1>13 DEF IInv

LEMMA StepHolds == IInv /\ [Next]_vars => IInv'
<1> SUFFICES ASSUME IInv, [Next]_vars PROVE IInv' OBVIOUS
<1>1. CASE UNCHANGED vars
  BY <1>1 DEF vars, redis, IInv, TypeOK, GenerationOK, Unannounced, KeysOK, SlugsOK, Locked,
              EntriesOK, PageOf, VisitsOK, VisitOK, Active, PublicOK
<1> QED BY <1>1, StepCases, PrepareStep, InvalidateStep, CommitStep, RelabelStep, VisitStep, ExpireStep

----------------------------------------------------------------------------
(* Theorems.                                                               *)

THEOREM Inductive == Spec => []IInv
BY InitHolds, StepHolds, PTL DEF Spec

\* Every variable keeps its type, the generation never passes the number of writes, and
\* no entry is stored without an expiry.
THEOREM TypeCorrect == Spec => []TypeOK
<1>1. IInv => TypeOK BY DEF IInv
<1> QED BY <1>1, Inductive, PTL

\* get_published_detail_by_slug answers with what the slug led to at some moment of the
\* request, unless the page was put while a write was under way, the write was one that
\* announces nothing, or the generation fell back to 0.
THEOREM ReadThrough == Spec => []AnswersAreCurrent
<1>1. IInv => AnswersAreCurrent BY DEF IInv, VisitsOK, VisitOK, AnswersAreCurrent
<1> QED BY <1>1, Inductive, PTL

\* public.py 117: an answer carries nothing that was never public, whatever the races.
THEOREM NothingPrivate == Spec => []DraftsStayPrivate
<1>1. IInv => DraftsStayPrivate BY DEF IInv, PublicOK, DraftsStayPrivate
<1> QED BY <1>1, Inductive, PTL

=============================================================================
