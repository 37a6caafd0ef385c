------------------------------ MODULE PostCache ------------------------------
(***************************************************************************)
(* The public detail page of a workspace's posts: the read-through cache   *)
(* whose keys carry a generation (apps/blog/services/_cache.py), and the   *)
(* requests and flushes that change what the page shows.                   *)
(*                                                                         *)
(* Every Redis command and every statement is a step.  A writer holds the  *)
(* lock of the posts row from its UPDATE to its commit and bumps the       *)
(* generation in between, so the bump always comes before the commit.      *)
(***************************************************************************)
EXTENDS Naturals, FiniteSets

CONSTANTS
    Post, Slug,
    Writer, Reader,   \* sessions that write, visitors
    None,             \* no post, no transaction
    MaxWrites,        \* bound on write requests
    MaxReads,         \* bound on visits
    MaxFaults         \* bound on Redis commands that fall back

ASSUME ConstAssumption ==
    /\ IsFiniteSet(Post) /\ IsFiniteSet(Slug)
    /\ None \notin Post \cup Slug
    /\ MaxWrites \in Nat /\ MaxReads \in Nat /\ MaxFaults \in Nat

VARIABLES
    row,      \* the posts, with what a page shows of content, category, tags, counters
    tx,       \* what each writer is doing
    gen,      \* Redis: <prefix>:ws:<id>:gen
    entry,    \* Redis: <prefix>:ws:<id>:v<gen>:slug:<slug>
    visit,    \* what each visitor's request is doing
    writes, reads, faults,
    shown     \* observer: every page that has been public

redis == <<gen, entry>>
vars == <<row, tx, gen, entry, visit, writes, reads, faults, shown>>

Status == {"draft", "published", "archived"}
Row == [slug : Slug, status : Status, gone : BOOLEAN, text : Nat]
Page == [post : Post, text : Nat]
NoPage == [post |-> None, text |-> 0]

Announced == {"patch", "publish", "unpublish", "archive", "delete", "flush"}
Kind == Announced \cup {"restore"}
NoTx == [kind |-> "none", post |-> None, slug |-> None, at |-> "idle"]
Tx == [kind : Kind, post : Post, slug : Slug, at : {"checked", "locked", "announced"}] \cup {NoTx}

\* race: put while a write was under way, or overtaken by one nobody announces.
Entry == [page : Page \cup {NoPage}, ttl : BOOLEAN, race : BOOLEAN]
Empty == [page |-> NoPage, ttl |-> FALSE, race |-> FALSE]

\* seen: what the slug has led to since the request came in.
Visit == [at : {"idle", "asked", "keyed", "missed", "loaded", "rekeyed", "done"},
          slug : Slug \cup {None}, key : Nat, got : Page \cup {NoPage},
          seen : SUBSET (Page \cup {NoPage}), race : BOOLEAN]
NoVisit == [at |-> "idle", slug |-> None, key |-> 0, got |-> NoPage, seen |-> {}, race |-> FALSE]

----------------------------------------------------------------------------
\* get_published_by_slug: the row with the slug, if it is published and not deleted.
PagesIn(rows, s) ==
    {[post |-> p, text |-> rows[p].text] :
        p \in {q \in Post : rows[q].slug = s /\ rows[q].status = "published" /\ ~rows[q].gone}}

PageIn(rows, s) == IF PagesIn(rows, s) = {} THEN NoPage ELSE CHOOSE g \in PagesIn(rows, s) : TRUE

PageOf(s) == PageIn(row, s)

\* Faulty variant: the status is not looked at.
LoadAnyStatus(s) == PageIn([p \in Post |-> [row[p] EXCEPT !.status = "published"]], s)

\* The statement that a reader executes.
PublishedBySlug(s) == PageOf(s)

\* Drafts, and posts published before the cache was filled, each with a slug of its own.
Init ==
    /\ row \in [Post -> [slug : Slug, status : {"draft", "published"}, gone : {FALSE}, text : {0}]]
    /\ \A p, q \in Post : row[p].slug = row[q].slug => p = q
    /\ tx = [w \in Writer |-> NoTx]
    /\ gen = 0 /\ entry = [g \in 0..MaxWrites |-> [s \in Slug |-> Empty]]
    /\ visit = [r \in Reader |-> NoVisit]
    /\ writes = 0 /\ reads = 0 /\ faults = 0
    /\ shown = UNION {PagesIn(row, s) : s \in Slug}

----------------------------------------------------------------------------
(* Writers.                                                                *)

\* find_or_raise and the check of the transition, without a lock.
MayStart(k, r) ==
    /\ ~r.gone
    /\ k = "publish" => r.status \in {"draft", "archived"}
    /\ k = "unpublish" => r.status = "published"
    /\ k = "archive" => r.status # "archived"

Start(w, k, p, s) ==
    /\ tx[w] = NoTx /\ writes < MaxWrites
    /\ MayStart(k, row[p])
    /\ k # "patch" => s = row[p].slug
    /\ tx' = [tx EXCEPT ![w] = [kind |-> k, post |-> p, slug |-> s, at |-> "checked"]]
    /\ writes' = writes + 1
    /\ UNCHANGED <<row, redis, visit, reads, faults, shown>>

Locked(w) == tx[w].at \in {"locked", "announced"}

\* uq_posts_workspace_slug counts deleted posts too, and waits for an open transaction.
SlugIsFree(w) ==
    /\ \A q \in Post \ {tx[w].post} : row[q].slug # tx[w].slug
    /\ \A v \in Writer \ {w} : Locked(v) /\ tx[v].kind = "patch" => tx[v].slug # tx[w].slug

\* The UPDATE: a row lock, and no row if the post is deleted by now.
Update(w) ==
    /\ tx[w].at = "checked"
    /\ \A v \in Writer \ {w} : Locked(v) => tx[v].post # tx[w].post
    /\ ~row[tx[w].post].gone
    /\ tx[w].kind = "patch" => SlugIsFree(w)
    /\ tx' = [tx EXCEPT ![w].at = "locked"]
    /\ UNCHANGED <<row, redis, visit, writes, reads, faults, shown>>

\* Faulty variant: the generation is put back to a fixed value instead of counted up.
InvalidateResets(w) ==
    /\ tx[w].at = "locked" /\ tx[w].kind \in Announced
    /\ gen' = 1
    /\ tx' = [tx EXCEPT ![w].at = "announced"]
    /\ UNCHANGED <<row, entry, visit, writes, reads, faults, shown>>

InvalidateWorkspace(w) ==
    /\ tx[w].at = "locked" /\ tx[w].kind \in Announced
    /\ gen' = gen + 1
    /\ tx' = [tx EXCEPT ![w].at = "announced"]
    /\ UNCHANGED <<row, entry, visit, writes, reads, faults, shown>>

\* A publication first flushes the autosave, and sets published_at.
Changed(t, r) ==
    [r EXCEPT !.status = CASE t.kind = "publish" -> "published"
                           [] t.kind = "unpublish" -> "draft"
                           [] t.kind = "archive" -> "archived"
                           [] OTHER -> @,
              !.gone = @ \/ t.kind = "delete",
              !.slug = IF t.kind = "patch" THEN t.slug ELSE @,
              !.text = IF t.kind \in {"patch", "flush", "publish", "restore"} THEN @ + 1 ELSE @]

\* What a commit of these rows means to the observers.
Observe(rows) ==
    /\ shown' = shown \cup UNION {PagesIn(rows, s) : s \in Slug}
    /\ visit' = [r \in Reader |->
         IF visit[r].at \in {"idle", "done"} THEN visit[r]
         ELSE [visit[r] EXCEPT !.seen = @ \cup {PageIn(rows, visit[r].slug)}]]

\* A commit without an invalidation overtakes the entries of the post.
Overtake(p) ==
    entry' = [g \in DOMAIN entry |-> [s \in Slug |->
                [entry[g][s] EXCEPT !.race = @ \/ entry[g][s].page.post = p]]]

Commit(w) ==
    /\ \/ tx[w].at = "announced" /\ UNCHANGED entry
       \/ tx[w].at = "locked" /\ tx[w].kind = "restore" /\ Overtake(tx[w].post)
    /\ LET p == tx[w].post
           rows == [row EXCEPT ![p] = Changed(tx[w], row[p])]
       IN row' = rows /\ Observe(rows)
    /\ tx' = [tx EXCEPT ![w] = NoTx]
    /\ UNCHANGED <<gen, writes, reads, faults>>

\* Not found, a slug that is taken, a Redis error in INCR, a failed commit.
Abort(w) ==
    /\ tx[w] # NoTx
    /\ tx' = [tx EXCEPT ![w] = NoTx]
    /\ UNCHANGED <<row, redis, visit, writes, reads, faults, shown>>

\* What changes the page and is not announced: a category or a tag that is renamed or
\* deleted, a counter that moves.
Relabel(p) ==
    /\ writes < MaxWrites /\ writes' = writes + 1
    /\ LET rows == [row EXCEPT ![p].text = @ + 1] IN row' = rows /\ Observe(rows)
    /\ Overtake(p)
    /\ UNCHANGED <<tx, gen, reads, faults>>

ChangeCategory(p) == Relabel(p)
ChangeTag(p) == Relabel(p)
CountReaction(p) == Relabel(p)

----------------------------------------------------------------------------
(* Readers: get_published_detail_by_slug.                                  *)

\* Redis does not answer, also after the retries: the command returns its fallback.
FallsBack == faults < MaxFaults /\ faults' = faults + 1

Go(r, v) == visit' = [visit EXCEPT ![r] = v]

Answer(r, page, race) ==
    Go(r, [NoVisit EXCEPT !.at = "done", !.got = page, !.seen = visit[r].seen, !.race = race])

Ask(r, s) ==
    /\ visit[r].at \in {"idle", "done"} /\ reads < MaxReads
    /\ reads' = reads + 1
    /\ Go(r, [NoVisit EXCEPT !.at = "asked", !.slug = s, !.seen = {PageOf(s)}])
    /\ UNCHANGED <<row, tx, redis, writes, faults, shown>>

\* get_int gives 0 when Redis does not answer.
CurrentGeneration(r, from, to) ==
    /\ visit[r].at = from
    /\ \/ Go(r, [visit[r] EXCEPT !.at = to, !.key = gen]) /\ UNCHANGED faults
       \/ FallsBack /\ Go(r, [visit[r] EXCEPT !.at = to, !.key = 0, !.race = TRUE])
    /\ UNCHANGED <<row, tx, redis, writes, reads, shown>>

DetailKey(r) == CurrentGeneration(r, "asked", "keyed")
DetailKeyAgain(r) == CurrentGeneration(r, "loaded", "rekeyed")

\* A hit is the answer; a miss, also when Redis does not answer, goes to the database.
GetDetail(r) ==
    LET e == entry[visit[r].key][visit[r].slug] IN
    /\ visit[r].at = "keyed"
    /\ \/ /\ e # Empty /\ UNCHANGED faults
          /\ Answer(r, e.page, visit[r].race \/ e.race)
       \/ /\ e = Empty /\ UNCHANGED faults
          /\ Go(r, [visit[r] EXCEPT !.at = "missed"])
       \/ /\ e # Empty /\ FallsBack
          /\ Go(r, [visit[r] EXCEPT !.at = "missed"])
    /\ UNCHANGED <<row, tx, redis, writes, reads, shown>>

Load(r) ==
    /\ visit[r].at = "missed"
    /\ LET page == PublishedBySlug(visit[r].slug) IN
       IF page = NoPage THEN Answer(r, page, visit[r].race)
       ELSE Go(r, [visit[r] EXCEPT !.at = "loaded", !.got = page])
    /\ UNCHANGED <<row, tx, redis, writes, reads, faults, shown>>

\* The put crosses a write: what was read is old, or about to be.
Crosses(r) ==
    \/ visit[r].got # PageOf(visit[r].slug)
    \/ \E w \in Writer : tx[w].at = "announced"

Stored(r, expires) ==
    [entry EXCEPT ![visit[r].key][visit[r].slug] =
        [page |-> visit[r].got, ttl |-> expires, race |-> Crosses(r)]]

\* Faulty variant: stored without an expiry.
PutWithoutTTL(r) ==
    /\ visit[r].at = "rekeyed" /\ Answer(r, visit[r].got, visit[r].race)
    /\ \/ entry' = Stored(r, FALSE) /\ UNCHANGED faults
       \/ FallsBack /\ UNCHANGED entry
    /\ UNCHANGED <<row, tx, gen, writes, reads, shown>>

PutDetail(r) ==
    /\ visit[r].at = "rekeyed" /\ Answer(r, visit[r].got, visit[r].race)
    /\ \/ entry' = Stored(r, TRUE) /\ UNCHANGED faults
       \/ FallsBack /\ UNCHANGED entry
    /\ UNCHANGED <<row, tx, gen, writes, reads, shown>>

\* POST_CACHE_DETAIL_TTL has passed.
Expire(g, s) ==
    /\ entry[g][s].ttl
    /\ entry' = [entry EXCEPT ![g][s] = Empty]
    /\ UNCHANGED <<row, tx, gen, visit, writes, reads, faults, shown>>

----------------------------------------------------------------------------
Write(w) == Update(w) \/ InvalidateWorkspace(w) \/ Commit(w)
Read(r) == DetailKey(r) \/ GetDetail(r) \/ Load(r) \/ DetailKeyAgain(r) \/ PutDetail(r)

Next ==
    \/ \E w \in Writer :
         \/ \E k \in Kind, p \in Post, s \in Slug : Start(w, k, p, s)
         \/ Write(w) \/ Abort(w)
    \/ \E p \in Post : ChangeCategory(p) \/ ChangeTag(p) \/ CountReaction(p)
    \/ \E r \in Reader : Read(r) \/ \E s \in Slug : Ask(r, s)
    \/ \E g \in DOMAIN entry, s \in Slug : Expire(g, s)

Spec == Init /\ [][Next]_vars

\* Requests end, one way or the other, and keys expire.
FairSpec ==
    /\ Spec
    /\ \A w \in Writer : WF_vars(Write(w) \/ Abort(w))
    /\ \A r \in Reader : WF_vars(Read(r))
    /\ \A g \in 0..MaxWrites, s \in Slug : WF_vars(Expire(g, s))

----------------------------------------------------------------------------
(* Properties.                                                             *)

\* Every variable has its type, and an entry that holds a page expires.
TypeOK ==
    /\ row \in [Post -> Row] /\ tx \in [Writer -> Tx]
    /\ gen \in 0..MaxWrites /\ entry \in [0..MaxWrites -> [Slug -> Entry]]
    /\ visit \in [Reader -> Visit] /\ \A r \in Reader : visit[r].key \in 0..MaxWrites
    /\ writes \in 0..MaxWrites /\ reads \in 0..MaxReads /\ faults \in 0..MaxFaults
    /\ shown \subseteq Page
    /\ \A g \in 0..MaxWrites, s \in Slug : entry[g][s] # Empty => entry[g][s].ttl

\* get_published_detail_by_slug: an answer is what the slug led to at some moment of
\* the request.  Exceptions: a page put while a write was under way (the generation is
\* bumped before the commit, and read again at the put), a write that announces
\* nothing, and a generation that fell back to 0.
AnswersAreCurrent ==
    \A r \in Reader : visit[r].at = "done" => visit[r].got \in visit[r].seen \/ visit[r].race

\* public.py 117: no answer carries a page that was never public, whatever the races.
DraftsStayPrivate ==
    \A r \in Reader : visit[r].at = "done" => visit[r].got \in shown \cup {NoPage}

\* public.py 119: once the writes are over, the pages that the cache would serve are
\* those of the database, also after every race and fallback.
CacheConverges ==
    <>[](\A s \in Slug : entry[gen][s].page \in {NoPage, PageOf(s)})
=============================================================================
