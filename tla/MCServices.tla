------------------------------- MODULE MCServices -------------------------------
(***************************************************************************)
(* Two services over one session and repository layer: workspaces, with    *)
(* three users and one workspace after another, and the catalog, with two  *)
(* administrators.  They share no row, so one of them is explored while    *)
(* the other rests.                                                        *)
(***************************************************************************)
EXTENDS Workspace, TLC

CONSTANTS u1, u2, u3, w1, w2, acme, api
CONSTANTS Client, Product, Category, Seeded, MaxWrites, c1, c2, p1, p2, k1

VARIABLES row, images, tx, writes, mixed, late

shop == <<row, images, tx, writes, mixed, late>>

Catalog == INSTANCE Catalog

ASSUME CatalogAssumption == Catalog!ConstantsOK

\* A category and a product are there already; another product may come.
SeededRows == (k1 :> acme) @@ (p1 :> acme)

ServicesInit == Init /\ Catalog!Init

ServicesNext ==
    \/ writes = 0 /\ Next /\ UNCHANGED shop
    \/ requests = 0 /\ Catalog!Next /\ UNCHANGED vars

ServicesSpec == ServicesInit /\ [][ServicesNext]_<<vars, shop>>

\* Both type invariants, with the unique slugs of each table.
ServicesTypeOK == TypeOK /\ Catalog!TypeOK

\* Catalog: the images of a product come from one request.
ImagesOfOneRequest == Catalog!ImagesOfOneRequest

\* Catalog: a deleted product or category stays as it is.
DeletedStays == Catalog!DeletedStays
=============================================================================
