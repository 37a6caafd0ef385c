-------------------------------- MODULE Catalog --------------------------------
(***************************************************************************)
(* Products, their categories and their images: the requests of            *)
(* apps/product over the session and the repository of apps/core.          *)
(*                                                                         *)
(* Every statement sees what is committed when it starts (READ COMMITTED). *)
(* The UPDATE of a row holds it until the request ends; an update that     *)
(* only replaces images updates no row and so waits for nobody, except for *)
(* the images that somebody else is deleting.  What holds no lock from one *)
(* statement to the next (an INSERT or UPDATE that is the request's only   *)
(* write, and its commit) is one step.  The share locks of foreign keys    *)
(* only delay a request and are left out.                                  *)
(***************************************************************************)
EXTENDS Naturals, FiniteSets

CONSTANTS
    Client,               \* administrators, one request at a time each
    Product, Category,    \* identifiers of rows
    Slug,
    Seeded,               \* the rows that the migration seeds, with their slugs
    None,                 \* no row, no slug, no category
    MaxWrites             \* bound on requests

Id == Product \cup Category
Row == [slug : Slug, category : Category \cup {None}, deleted : BOOLEAN]

\* What the constants are; the modules that give them values assume it.
ConstantsOK ==
    /\ IsFiniteSet(Client) /\ IsFiniteSet(Product \cup Category) /\ IsFiniteSet(Slug)
    /\ Product \cap Category = {} /\ None \notin Product \cup Category \cup Slug \cup Row
    /\ DOMAIN Seeded \subseteq Product \cup Category
    /\ \A i \in DOMAIN Seeded : Seeded[i] \in Slug
    /\ \A i, j \in DOMAIN Seeded : Seeded[i] = Seeded[j] /\ (i \in Product <=> j \in Product) => i = j
    /\ MaxWrites \in Nat

VARIABLES
    row,      \* products and product_categorys: None, or slug, category and deletion
    images,   \* product_images: the batches whose images a product has
    tx,       \* what each client's request has done so far
    writes,   \* requests so far, and the batch number of each one's images
    mixed,    \* observer: products whose images two requests replaced at once, one without
              \* the product's row
    late      \* observer: requests that had reloaded a product when its deletion committed

vars == <<row, images, tx, writes, mixed, late>>

Kind == {"create", "update", "delete"}
Place == {"checked", "written", "deleting", "deleted", "added", "ready"}

\* set: the slug and category to write ("keep": not in the payload); fields: whether the
\* payload has any field of the row; new: what happens to the images.
Request ==
    [kind : Kind, at : Place, on : Id, slug : Slug \cup {"keep"},
     category : Category \cup {None, "keep"}, fields : BOOLEAN,
     new : {"keep", "clear", "replace"}, target : SUBSET (0..MaxWrites), batch : 0..MaxWrites]
Idle == [at |-> "idle"]

\* The seeded products have one image each, batch 0.
Init ==
    /\ row = [i \in Id |-> IF i \in DOMAIN Seeded
                             THEN [slug |-> Seeded[i], category |-> None, deleted |-> FALSE]
                             ELSE None]
    /\ images = [p \in Product |-> IF p \in DOMAIN Seeded THEN {0} ELSE {}]
    /\ tx = [c \in Client |-> Idle] /\ writes = 0
    /\ mixed = {} /\ late = {}

----------------------------------------------------------------------------
(* What the statements see.                                                *)

Table(i) == IF i \in Product THEN Product ELSE Category
Live(i) == row[i] # None /\ ~row[i].deleted

\* Faulty variant: the UPDATE does not ask whether the row is deleted.
MatchedAnyway(i) == TRUE

\* _fast_update_by_id: UPDATE ... WHERE deleted_at IS NULL.
Matched(i) == Live(i)

\* find_by_slug: another live row of the table.
Found(i, s) == {j \in Table(i) \ {i} : Live(j) /\ row[j].slug = s}

\* Who holds the row, and who is at its images.
At(c, i, places) == tx[c] # Idle /\ tx[c].on = i /\ tx[c].at \in places
Holds(c, i) == At(c, i, Place \ {"checked"}) /\ tx[c].fields
Replacing(c, i) == At(c, i, {"deleting", "deleted", "added", "ready"}) /\ tx[c].new # "keep"

RowIsFree(c, i) == \A d \in Client \ {c} : ~Holds(d, i)

\* The unique index, over deleted rows too and over those that others have yet to commit.
IndexAllows(c, i, s) ==
    \A j \in Table(i) \ {i} :
        /\ row[j] # None => row[j].slug # s
        /\ \A d \in Client \ {c} : Holds(d, j) => tx[d].slug # s

----------------------------------------------------------------------------
(* Bookkeeping of requests.                                                *)

Begins(c, r) ==
    /\ writes' = writes + 1
    /\ tx' = [tx EXCEPT ![c] = r]
    /\ UNCHANGED <<row, images, mixed, late>>

Goes(c, to) ==
    /\ tx' = [tx EXCEPT ![c].at = to]
    /\ UNCHANGED <<row, images, writes, mixed, late>>

Ends(c) == tx' = [tx EXCEPT ![c] = Idle] /\ late' = late \ {c} /\ UNCHANGED writes

\* _ensure_category_exists.
CategoryExists(k) == k \in Category => Live(k)

CreateCheck(c, i, s, k, n) ==
    /\ row[i] = None /\ CategoryExists(k) /\ Found(i, s) = {}
    /\ i \in Category => k = None /\ n = "clear"
    /\ Begins(c, [kind |-> "create", at |-> "checked", on |-> i, slug |-> s, category |-> k,
                  fields |-> TRUE, new |-> n, target |-> {},
                  batch |-> IF n = "replace" THEN writes + 1 ELSE 0])

Batch(c) == IF tx[c].new = "replace" THEN {tx[c].batch} ELSE {}

\* The row, its images and the commit; the row is reloaded before, which its own writer sees.
Create(c) ==
    LET i == tx[c].on IN
    /\ tx[c] # Idle /\ tx[c].kind = "create"
    /\ row[i] = None /\ IndexAllows(c, i, tx[c].slug)
    /\ row' = [row EXCEPT ![i] = [slug |-> tx[c].slug, category |-> tx[c].category, deleted |-> FALSE]]
    /\ images' = IF i \in Product THEN [images EXCEPT ![i] = Batch(c)] ELSE images
    /\ Ends(c)
    /\ UNCHANGED mixed

DeleteCheck(c, i) ==
    /\ Live(i)
    /\ Begins(c, [kind |-> "delete", at |-> "checked", on |-> i, slug |-> "keep", category |-> "keep",
                  fields |-> TRUE, new |-> "keep", target |-> {}, batch |-> 0])

\* Only deleted_at is written: the products of a category keep its key.
SoftDelete(c) ==
    LET i == tx[c].on IN
    /\ tx[c] # Idle /\ tx[c].kind = "delete"
    /\ RowIsFree(c, i) /\ Matched(i)
    /\ row' = [row EXCEPT ![i].deleted = TRUE]
    /\ late' = late \cup {d \in Client : At(d, i, {"ready"})}
    /\ tx' = [tx EXCEPT ![c] = Idle]
    /\ UNCHANGED <<images, writes, mixed>>

----------------------------------------------------------------------------
(* Updates: find_or_raise and the look-ups, the row, the images, a reload. *)

\* find_or_raise loads the images too.
UpdateCheck(c, i, s, k, f, n) ==
    /\ Live(i) /\ CategoryExists(k) /\ Found(i, s) = {}
    /\ s # "keep" \/ k # "keep" => f
    /\ s = "keep" \/ k = "keep"     \* bound: a slug or a category
    /\ i \in Category => k = "keep" /\ f /\ n = "keep"
    /\ Begins(c, [kind |-> "update", at |-> "checked", on |-> i, slug |-> s, category |-> k,
                  fields |-> f, new |-> n,
                  target |-> IF n = "keep" THEN {} ELSE images[i],
                  batch |-> IF n = "replace" THEN writes + 1 ELSE 0])

Updating(c, from) == tx[c] # Idle /\ tx[c].kind = "update" /\ tx[c].at = from

\* A row that is gone matches nothing, and the service goes on.
UpdateRow(c) ==
    LET i == tx[c].on IN
    /\ Updating(c, "checked")
    /\ tx[c].fields => /\ RowIsFree(c, i)
                       /\ tx[c].slug # "keep" => IndexAllows(c, i, tx[c].slug)
    /\ tx' = [tx EXCEPT ![c].at = IF tx[c].new = "keep" THEN "added" ELSE "written",
                        ![c].fields = @ /\ Matched(i)]
    /\ UNCHANGED <<row, images, writes, mixed, late>>

\* Faulty variant: the images that find_or_raise loaded.
LoadedImages(c) == tx[c].target

\* The images of the product when the DELETE starts.
Target(c) == images[tx[c].on]

DeleteImages(c) ==
    /\ Updating(c, "written")
    /\ tx' = [tx EXCEPT ![c].at = "deleting", ![c].target = Target(c)]
    /\ UNCHANGED <<row, images, writes, mixed, late>>

\* It waits for everybody who has deleted one of them before; what is gone by then it skips.
ImagesDeleted(c) ==
    /\ Updating(c, "deleting")
    /\ \A d \in Client \ {c} :
          At(d, tx[c].on, {"deleted", "added", "ready"}) /\ tx[d].new # "keep"
              => tx[c].target \cap tx[d].target \cap images[tx[c].on] = {}
    /\ Goes(c, "deleted")

AddImages(c) == Updating(c, "deleted") /\ Goes(c, "added")

\* find_by_id does not find a deleted product; a category's UPDATE must have matched.
Reloaded(c) == IF tx[c].on \in Product THEN Live(tx[c].on) ELSE tx[c].fields

Reload(c) == Updating(c, "added") /\ Reloaded(c) /\ Goes(c, "ready")

\* The row as the request leaves it.
Updated(c) ==
    LET r == tx[c]  was == row[r.on] IN
    IF r.fields THEN [was EXCEPT !.slug = IF r.slug = "keep" THEN @ ELSE r.slug,
                                 !.category = IF r.category = "keep" THEN @ ELSE r.category]
    ELSE was

Commit(c) ==
    LET i == tx[c].on IN
    /\ Updating(c, "ready")
    /\ row' = [row EXCEPT ![i] = Updated(c)]
    /\ images' = IF tx[c].new = "keep" THEN images
                 ELSE [images EXCEPT ![i] = (@ \ tx[c].target) \cup Batch(c)]
    /\ mixed' = IF Replacing(c, i) /\ \E d \in Client \ {c} : Replacing(d, i) /\ ~(tx[c].fields /\ tx[d].fields)
                THEN mixed \cup {i} ELSE mixed
    /\ Ends(c)

\* Refused, not found, an index violated, a deadlock: rolled back.
Fails(c) == tx[c] # Idle /\ Ends(c) /\ UNCHANGED <<row, images, mixed>>

----------------------------------------------------------------------------
Asks(c) ==
    /\ tx[c] = Idle /\ writes < MaxWrites
    /\ \E i \in Id :
           \/ \E s \in Slug, k \in Category \cup {None}, n \in {"clear", "replace"} : CreateCheck(c, i, s, k, n)
           \/ \E s \in Slug \cup {"keep"}, k \in Category \cup {None, "keep"}, f \in BOOLEAN,
                 n \in {"keep", "clear", "replace"} : UpdateCheck(c, i, s, k, f, n)
           \/ DeleteCheck(c, i)

Step(c) ==
    \/ Create(c) \/ SoftDelete(c)
    \/ UpdateRow(c) \/ DeleteImages(c) \/ ImagesDeleted(c) \/ AddImages(c) \/ Reload(c) \/ Commit(c)

Next == \E c \in Client : Asks(c) \/ Step(c) \/ Fails(c)

Spec == Init /\ [][Next]_vars

----------------------------------------------------------------------------
(* Properties.                                                             *)

\* Every variable has its type, and no two rows of a table share a slug.
TypeOK ==
    /\ row \in [Id -> Row \cup {None}]
    /\ images \in [Product -> SUBSET (0..MaxWrites)]
    /\ tx \in [Client -> Request \cup {Idle}] /\ writes \in 0..MaxWrites
    /\ mixed \subseteq Product /\ late \subseteq Client
    /\ \A i \in Id : \A j \in Table(i) \ {i} :
          row[i] # None /\ row[j] # None => row[i].slug # row[j].slug

\* schemas.py 113-117: "the existing image set is replaced entirely": a product has the images
\* of one request only, as long as every replacement that overlaps another has the row.
ImagesOfOneRequest == \A p \in Product \ mixed : Cardinality(images[p]) <= 1

\* services.py 256 and 273-275: whatever is written to a product or a category in the
\* meantime, one that is deleted keeps its row and, unless the reload came before the
\* deletion, its images.
DeletedStays ==
    [][\A i \in Id : row[i] # None /\ row[i].deleted =>
          /\ row'[i] = row[i]
          /\ i \in Product /\ images'[i] # images[i] => \E c \in late : tx[c].on = i /\ tx'[c] = Idle]_vars
=============================================================================
