---------------------------- MODULE Services_proofs ----------------------------
(***************************************************************************)
(* Theorems about Workspace and Catalog, for every number of users,        *)
(* workspaces, administrators, products and requests: slugs, the owners    *)
(* and the size of a workspace, the images of a product, and what is       *)
(* deleted.                                                                *)
(***************************************************************************)
EXTENDS MCServices, TLAPS, FiniteSetTheorems

----------------------------------------------------------------------------
(* Workspace: the inductive invariant.                                     *)

SlugsOK ==
    \A w, v \in Space : space[w] # None /\ space[v] # None /\ space[w].slug = space[v].slug => w = v

\* What a request found is still so, unless it was overtaken.
RequestOK(u) ==
    LET r == req[u] IN
    /\ r.kind = "create" => r.slug \in Slug
    /\ r.kind \in {"add", "change"} => r.role \in Role
    /\ r.kind \in {"add", "change", "remove"} => space[r.on] # None
    /\ r.kind = "add" /\ r.at = "checked" /\ u \notin overtaken =>
         Cardinality(Members(r.on)) < MaxMembers
    /\ r.kind \in {"change", "remove"} /\ r.at = "checked" =>
         /\ role[r.on][r.who] # None
         /\ u \notin overtaken /\ r.on \notin crossed => Owners(r.on) \ {r.who} # {}

MembersInv ==
    TypeOK /\ SlugsOK /\ OwnersStay /\ \A u \in User : RequestOK(u)

----------------------------------------------------------------------------
(* Catalog: the inductive invariant.                                       *)

\* Who holds a row is alone with it, the row is not deleted, and the slug to come is
\* nobody else's.
HoldersOK ==
    \A c \in Client, i \in Catalog!Id : Catalog!Holds(c, i) =>
        /\ Catalog!Live(i) /\ Catalog!RowIsFree(c, i)
        /\ tx[c].slug # "keep" => Catalog!IndexAllows(c, i, tx[c].slug)

\* What a request is about exists once it has been found, and only updates go further than
\* their checks.
WritersOK ==
    \A c \in Client : tx[c] # Catalog!Idle =>
        /\ tx[c].kind = "create" => tx[c].at = "checked" /\ tx[c].slug \in Slug
                                   /\ tx[c].category \in Category \cup {None}
        /\ tx[c].kind = "delete" => tx[c].at = "checked"
        /\ tx[c].kind = "update" =>
             /\ row[tx[c].on] # None
             /\ tx[c].at \in {"written", "deleting", "deleted"} => tx[c].new # "keep"
             /\ tx[c].new # "keep" => tx[c].on \in Product

\* A replacement that nobody mixed with knows every image of its product, and a product that
\* is deleted under a reloaded request makes that request a late one.
ImagesOK ==
    \A c \in Client, p \in Product :
        /\ Catalog!Replacing(c, p) /\ p \notin mixed => images[p] \subseteq tx[c].target
        /\ Catalog!At(c, p, {"ready"}) /\ ~Catalog!Live(p) => c \in late

CatalogInv ==
    Catalog!TypeOK /\ HoldersOK /\ WritersOK /\ ImagesOK /\ Catalog!ImagesOfOneRequest

----------------------------------------------------------------------------
(* Workspace: requests.                                                    *)

\* The type invariant counts; the inductive one compares.
LEMMA AtMostOne ==
    ASSUME NEW sp,
           \A w, v \in Space : sp[w] # None /\ sp[v] # None /\ sp[w].slug = sp[v].slug => w = v
    PROVE  \A s \in Slug : Cardinality({w \in Space : sp[w] # None /\ sp[w].slug = s}) <= 1
<1> SUFFICES ASSUME NEW s \in Slug
             PROVE  Cardinality({w \in Space : sp[w] # None /\ sp[w].slug = s}) <= 1
  OBVIOUS
<1> DEFINE I == {w \in Space : sp[w] # None /\ sp[w].slug = s}
<1>1. \A w \in I : I = {w} OBVIOUS
<1> HIDE DEF I
<1>2. ASSUME I = {} PROVE Cardinality(I) <= 1
  <2>1. Cardinality({}) = 0 BY FS_EmptySet
  <2> QED BY <1>2, <2>1
<1>3. ASSUME I # {} PROVE Cardinality(I) <= 1
  <2>1. PICK w \in I : I = {w} BY <1>1, <1>3
  <2>2. Cardinality({w}) = 1 BY FS_Singleton
  <2> QED BY <2>1, <2>2
<1>4. Cardinality(I) <= 1 BY <1>2, <1>3
<1> QED BY <1>4 DEF I

LEMMA SpaceTypes ==
    ASSUME MembersInv
    PROVE  /\ space \in [Space -> Row \cup {None}] /\ role \in [Space -> [User -> Role \cup {None}]]
           /\ req \in [User -> Request \cup {Idle}] /\ requests \in 0..MaxRequests
           /\ overtaken \subseteq User /\ crossed \subseteq Space /\ anonymous \subseteq Space
           /\ \A w \in Space, u \in User : role[w][u] # None => space[w] # None
BY DEF MembersInv, TypeOK, Members

\* The type invariant in the form in which the steps keep it.
LEMMA SpacesTyped ==
    ASSUME space' \in [Space -> Row \cup {None}], role' \in [Space -> [User -> Role \cup {None}]],
           SlugsOK', \A w \in Space, u \in User : role'[w][u] # None => space'[w] # None,
           anonymous' \subseteq Space, req' \in [User -> Request \cup {Idle}], requests' \in 0..MaxRequests,
           overtaken' \subseteq User, crossed' \subseteq Space
    PROVE  TypeOK'
<1>1. \A s \in Slug : Cardinality(Indexed(s)') <= 1 BY AtMostOne DEF Indexed, SlugsOK
<1>2. \A w \in Space : Members(w)' # {} => space'[w] # None BY DEF Members
<1> QED BY <1>1, <1>2 DEF TypeOK

UserIdleFact == Idle.kind = "none" /\ Idle.at = "idle"

LEMMA UserIdle == UserIdleFact BY DEF UserIdleFact, Idle

LEMMA IdleTyped ==
    Idle \in [kind : {"none"}, at : {"idle"}, on : {None}, slug : {None}, who : {None}, role : {None}]
BY DEF Idle

\* A step of one request that writes to no workspace and no membership.
LEMMA RequestStep ==
    ASSUME MembersInv, NEW u \in User, NEW r \in Request \cup {Idle},
           req' = [req EXCEPT ![u] = r], requests' \in 0..MaxRequests, RequestOK(u)',
           UNCHANGED <<space, role, crossed>>, anonymous' \subseteq Space,
           overtaken' \in {overtaken, overtaken \ {u}}
    PROVE  MembersInv'
<1>1. TypeOK' /\ SlugsOK'
  <2>1. req' \in [User -> Request \cup {Idle}] BY SpaceTypes
  <2>2. overtaken' \subseteq User BY SpaceTypes
  <2>3. SlugsOK' BY DEF MembersInv, SlugsOK
  <2> QED BY <2>1, <2>2, <2>3, SpaceTypes, SpacesTyped
<1>2. OwnersStay' BY DEF MembersInv, OwnersStay, Owners, Members
<1>3. ASSUME NEW v \in User, v # u PROVE RequestOK(v)'
  <2>1. req'[v] = req[v] /\ (v \in overtaken' <=> v \in overtaken) BY <1>3, SpaceTypes
  <2>2. RequestOK(v) BY DEF MembersInv
  <2>3. \A w : Members(w)' = Members(w) /\ Owners(w)' = Owners(w) BY DEF Members, Owners
  <2>4. UNCHANGED <<space, role, crossed>> OBVIOUS
  <2> QED BY <2>1, <2>2, <2>3, <2>4 DEF RequestOK
<1> QED BY <1>1, <1>2, <1>3 DEF MembersInv

LEMMA AsksStep ==
    ASSUME MembersInv, NEW u \in User, Asks(u)
    PROVE  MembersInv'
<1>1. ASSUME NEW r \in Request, Admitted(u, r), r.at # "checked" \/ r.kind = "create",
             r.kind = "create" => r.slug \in Slug,
             r.kind \in {"add", "change"} => r.role \in Role, space[r.on] # None \/ r.kind = "create"
      PROVE  MembersInv'
  <2>1. /\ req' = [req EXCEPT ![u] = r] /\ UNCHANGED <<space, role, anonymous, overtaken, crossed>>
        /\ requests' = requests + 1
    BY <1>1 DEF Admitted
  <2>2. requests' \in 0..MaxRequests
    BY <2>1, SpaceTypes, ConstAssumption DEF Asks
  <2>3. req'[u] = r BY <2>1, SpaceTypes
  <2>4. RequestOK(u)' BY <1>1, <2>1, <2>3 DEF RequestOK
  <2> QED BY <2>1, <2>2, <2>4, SpaceTypes, RequestStep
<1>2. ASSUME NEW w \in Space, NEW s \in Slug, CreateCheck(u, w, s) PROVE MembersInv'
  <2> DEFINE r == [Idle EXCEPT !.kind = "create", !.at = "checked", !.on = w, !.slug = s, !.who = u]
  <2>1. "create" \in Kind BY DEF Kind
  <2>2. r \in Request /\ r.kind = "create" /\ r.slug = s
    BY <2>1, IdleTyped DEF Request
  <2>3. Admitted(u, r) BY <1>2 DEF CreateCheck
  <2> HIDE DEF r
  <2> QED BY <1>1, <2>2, <2>3
<1>3. ASSUME NEW w \in Space, NEW k \in Kind, NEW v \in User, NEW ro \in Role \cup {None},
             k # "create", k \in {"add", "change"} => ro \in Role, OwnerRequest(u, k, w, v, ro)
      PROVE  MembersInv'
  <2> DEFINE r == [Idle EXCEPT !.kind = k, !.at = "admitted", !.on = w, !.who = v, !.role = ro]
  <2>1. r \in Request /\ r.kind = k /\ r.at = "admitted" /\ r.on = w /\ r.role = ro
    BY IdleTyped DEF Request
  <2>2. Admitted(u, r) /\ space[w] # None BY <1>3 DEF OwnerRequest, HasRole, Live
  <2> HIDE DEF r
  <2> QED BY <1>1, <1>3, <2>1, <2>2
<1>4. {"configure", "delete", "remove", "add", "change"} \subseteq Kind \ {"create"} BY DEF Kind
<1> QED BY <1>2, <1>3, <1>4 DEF Asks

LEMMA ChecksStep ==
    ASSUME MembersInv, NEW u \in User, Checks(u), req[u].at = "admitted",
           req[u].kind = "add" => Cardinality(Members(req[u].on)) < MaxMembers,
           req[u].kind \in {"change", "remove"} =>
              /\ role[req[u].on][req[u].who] # None
              /\ req[u].on \notin crossed => Owners(req[u].on) \ {req[u].who} # {}
    PROVE  MembersInv'
<1> DEFINE r == [req[u] EXCEPT !.at = "checked"]
<1>1. req[u] \in Request BY SpaceTypes, UserIdle DEF UserIdleFact
<1>2. /\ r \in Request /\ r.kind = req[u].kind /\ r.on = req[u].on /\ r.slug = req[u].slug
      /\ r.who = req[u].who /\ r.role = req[u].role
  BY <1>1 DEF Request
<1>3. req' = [req EXCEPT ![u] = r] /\ UNCHANGED <<space, role, anonymous, requests, overtaken, crossed>>
  BY DEF Checks
<1> HIDE DEF r
<1>4. req'[u] = r BY <1>3, SpaceTypes
<1>5. RequestOK(u)
  BY DEF MembersInv
<1>6. RequestOK(u)' BY <1>2, <1>3, <1>4, <1>5 DEF RequestOK, Members, Owners
<1> QED BY <1>2, <1>3, <1>6, SpaceTypes, RequestStep


\* Whatever a request does to itself only, or to the switch for anonymous comments.
LEMMA UserEnds ==
    ASSUME MembersInv, NEW u \in User, Ends(u), UNCHANGED <<space, role, crossed, requests>>,
           anonymous' \subseteq Space, overtaken' \in {overtaken, overtaken \ {u}}
    PROVE  MembersInv'
<1>1. req' = [req EXCEPT ![u] = Idle] BY DEF Ends
<1>2. req'[u] = Idle BY <1>1, SpaceTypes
<1>3. RequestOK(u)' BY <1>2, UserIdle DEF RequestOK, UserIdleFact
<1> QED BY <1>1, <1>3, SpaceTypes, RequestStep

LEMMA CreateStep ==
    ASSUME MembersInv, NEW u \in User, Create(u)
    PROVE  MembersInv'
<1> DEFINE new == [slug |-> req[u].slug, by |-> u, deleted |-> FALSE]
<1>0. req[u].on \in Space /\ req[u].slug \in Slug /\ space[req[u].on] = None
      /\ \A v \in Space : space[v] # None => space[v].slug # req[u].slug
  <2>1. req[u].kind = "create" /\ space[req[u].on] = None /\ Indexed(req[u].slug) = {}
    BY DEF Create, IndexAllows
  <2>2. req[u] \in Request BY <2>1, SpaceTypes, UserIdle DEF UserIdleFact
  <2>3. req[u].slug \in Slug BY <2>1 DEF MembersInv, RequestOK
  <2> QED BY <2>1, <2>2, <2>3 DEF Request, Indexed
<1> PICK w \in Space : w = req[u].on BY <1>0
<1>1. /\ req[u].slug \in Slug /\ space[w] = None
      /\ \A v \in Space : space[v] # None => space[v].slug # req[u].slug
  BY <1>0
<1>2. /\ space' = [space EXCEPT ![w] = new] /\ role' = [role EXCEPT ![w][u] = "owner"]
      /\ req' = [req EXCEPT ![u] = Idle] /\ UNCHANGED <<anonymous, requests, overtaken, crossed>>
  BY DEF Create, Bootstrap, Ends
<1>3. new \in Row /\ new.slug = req[u].slug /\ new # None
  <2>1. new \in Row /\ new.slug = req[u].slug BY <1>1 DEF Row
  <2> QED BY <2>1, NoneAssumption
<1> HIDE DEF new
<1>4. "owner" \in Role BY DEF Role
<1>5. TypeOK' /\ SlugsOK'
  <2> DEFINE sp == [space EXCEPT ![w] = new]
             ro == [role EXCEPT ![w][u] = "owner"]
  <2>1. sp \in [Space -> Row \cup {None}] /\ ro \in [Space -> [User -> Role \cup {None}]]
    BY <1>1, <1>3, <1>4, SpaceTypes
  <2>2. ASSUME NEW x \in Space, NEW y \in Space, sp[x] # None, sp[y] # None, sp[x].slug = sp[y].slug
        PROVE  x = y
    BY <1>1, <1>3, <2>2, SpaceTypes DEF MembersInv, SlugsOK
  <2>3. ASSUME NEW x \in Space, NEW v \in User, ro[x][v] # None PROVE sp[x] # None
    BY <1>1, <1>3, <2>3, SpaceTypes
  <2>4. space' = sp /\ role' = ro BY <1>2
  <2>5. req' \in [User -> Request \cup {Idle}] BY <1>2, SpaceTypes
  <2>6. anonymous' \subseteq Space /\ requests' \in 0..MaxRequests /\ overtaken' \subseteq User
        /\ crossed' \subseteq Space
    BY <1>2, SpaceTypes
  <2> HIDE DEF sp, ro
  <2>7. SlugsOK' BY <2>2, <2>4 DEF SlugsOK
  <2> QED BY <2>1, <2>3, <2>4, <2>5, <2>6, <2>7, SpacesTyped
<1>6. \A x \in Space \ {w} : role'[x] = role[x] /\ space'[x] = space[x] BY <1>2, SpaceTypes
<1>7. OwnersStay'
  <2>1. ASSUME NEW x \in Space \ {w}, space[x] # None, x \notin crossed
        PROVE  Owners(x)' # {} /\ Cardinality(Members(x)') <= MaxMembers
    <3>1. Owners(x)' = Owners(x) /\ Members(x)' = Members(x) BY <1>6 DEF Owners, Members
    <3> QED BY <2>1, <3>1 DEF MembersInv, OwnersStay
  <2>2. Owners(w)' # {}
    <3>1. role'[w][u] = "owner" BY <1>2, SpaceTypes
    <3> QED BY <3>1 DEF Owners
  <2>3. Cardinality(Members(w)') <= MaxMembers
    <3>1. \A v \in User \ {u} : role'[w][v] = None BY <1>1, <1>2, SpaceTypes
    <3>2. Members(w)' \in SUBSET {u} BY <3>1 DEF Members
    <3>3. IsFiniteSet({u}) /\ Cardinality({u}) = 1 BY FS_Singleton
    <3> DEFINE M == Members(w)'
    <3>4. M \in SUBSET {u} BY <3>2
    <3> HIDE DEF M
    <3>5. Cardinality(M) <= 1 /\ Cardinality(M) \in Nat BY <3>3, <3>4, FS_Subset, FS_CardinalityType
    <3> QED BY <3>5, ConstAssumption DEF M
  <2> QED BY <1>2, <1>6, <2>1, <2>2, <2>3 DEF OwnersStay
<1>8. ASSUME NEW v \in User PROVE RequestOK(v)'
  <2>1. CASE v = u
    <3>1. req'[v] = Idle BY <1>2, <2>1, SpaceTypes
    <3> QED BY <3>1, UserIdle DEF RequestOK, UserIdleFact
  <2>2. CASE v # u
    <3>1. req'[v] = req[v] BY <1>2, <2>2, SpaceTypes
    <3>2. RequestOK(v) BY DEF MembersInv
    <3>3. CASE req[v].kind \in {"add", "change", "remove"}
      <4>1. req[v] \in Request BY <3>3, SpaceTypes, UserIdle DEF UserIdleFact
      <4>2. req[v].on \in Space \ {w} BY <1>1, <3>2, <3>3, <4>1 DEF RequestOK, Request
      <4>3. /\ role'[req[v].on] = role[req[v].on] /\ space'[req[v].on] = space[req[v].on]
            /\ Owners(req[v].on)' = Owners(req[v].on) /\ Members(req[v].on)' = Members(req[v].on)
        BY <1>6, <3>1, <4>2 DEF Owners, Members
      <4> QED BY <1>2, <3>1, <3>2, <4>3 DEF RequestOK
    <3>4. CASE req[v].kind \notin {"add", "change", "remove"}
      BY <3>1, <3>2, <3>4 DEF RequestOK
    <3> QED BY <3>3, <3>4
  <2> QED BY <2>1, <2>2
<1> QED BY <1>5, <1>7, <1>8 DEF MembersInv

LEMMA SoftDeleteStep ==
    ASSUME MembersInv, NEW u \in User, SoftDelete(u)
    PROVE  MembersInv'
<1>1. req[u] \in Request /\ req[u].on \in Space
  <2>1. req[u] \in Request BY SpaceTypes, UserIdle DEF UserIdleFact, SoftDelete
  <2> QED BY <2>1 DEF Request
<1> PICK w \in Space : w = req[u].on BY <1>1
<1> DEFINE new == [space[w] EXCEPT !.deleted = TRUE]
<1>2. /\ space' = [space EXCEPT ![w] = new] /\ space[w] # None
      /\ req' = [req EXCEPT ![u] = Idle] /\ UNCHANGED <<role, anonymous, requests, overtaken, crossed>>
  BY DEF SoftDelete, Ends, Live
<1>3. new \in Row /\ new.slug = space[w].slug /\ new # None
  <2>1. space[w] \in Row BY <1>2, SpaceTypes
  <2>2. new \in Row /\ new.slug = space[w].slug BY <2>1 DEF Row
  <2> QED BY <2>2, NoneAssumption
<1> HIDE DEF new
<1>4. \A x \in Space : /\ space'[x] # None <=> space[x] # None
                       /\ space[x] # None => space'[x].slug = space[x].slug
  BY <1>2, <1>3, SpaceTypes
<1>5. space' \in [Space -> Row \cup {None}] BY <1>2, <1>3, SpaceTypes
<1>6. TypeOK' /\ SlugsOK'
  <2>1. req' \in [User -> Request \cup {Idle}] BY <1>2, SpaceTypes
  <2>2. SlugsOK' BY <1>4 DEF MembersInv, SlugsOK
  <2>3. \A x \in Space, v \in User : role'[x][v] # None => space'[x] # None BY <1>2, <1>4, SpaceTypes
  <2> QED BY <1>2, <1>5, <2>1, <2>2, <2>3, SpaceTypes, SpacesTyped
<1>7. \A x : Members(x)' = Members(x) /\ Owners(x)' = Owners(x) BY <1>2 DEF Members, Owners
<1>8. OwnersStay' BY <1>2, <1>4, <1>7 DEF MembersInv, OwnersStay
<1>9. ASSUME NEW v \in User PROVE RequestOK(v)'
  <2>1. CASE v = u
    <3>1. req'[v] = Idle BY <1>2, <2>1, SpaceTypes
    <3> QED BY <3>1, UserIdle DEF RequestOK, UserIdleFact
  <2>2. CASE v # u
    <3>1. req'[v] = req[v] BY <1>2, <2>2, SpaceTypes
    <3>2. RequestOK(v) BY DEF MembersInv
    <3>3. req[v].kind \in {"add", "change", "remove"} => req[v].on \in Space
      BY SpaceTypes, UserIdle DEF UserIdleFact, Request
    <3>4. UNCHANGED <<role, overtaken, crossed>> BY <1>2
    <3> QED BY <1>4, <1>7, <3>1, <3>2, <3>3, <3>4 DEF RequestOK
  <2> QED BY <2>1, <2>2
<1> QED BY <1>6, <1>8, <1>9 DEF MembersInv

----------------------------------------------------------------------------
(* Workspace: writes to memberships.                                       *)

LEMMA MembersFinite ==
    ASSUME NEW w \in Space
    PROVE  IsFiniteSet(Members(w)) /\ Cardinality(Members(w)) \in Nat
<1>1. Members(w) \in SUBSET User BY DEF Members
<1> QED BY <1>1, FS_Subset, FS_CardinalityType, ConstAssumption

\* A write to one membership, of a member that was counted as it is or that others have to
\* count again.
LEMMA WritesStep ==
    ASSUME MembersInv, NEW u \in User, NEW w \in Space, NEW who \in User, NEW is \in Role \cup {None},
           req[u].who = who, Writes(u, w, is), space[w] # None,
           w \notin crossed /\ u \notin overtaken =>
               Owners(w)' # {} /\ Cardinality(Members(w)') <= MaxMembers
    PROVE  MembersInv'
<1> DEFINE was == role[w][who]
           counts == (IF was = None THEN {"add"} ELSE {}) \cup
                     (IF was = "owner" /\ is # "owner" THEN {"change", "remove"} ELSE {})
           Lost(v) == is = None /\ v \in Checked(w, {"change", "remove"}) /\ req[v].who = who
<1>1. /\ role' = [role EXCEPT ![w][who] = is] /\ UNCHANGED <<space, anonymous, requests>>
      /\ overtaken' = (overtaken \cup Checked(w, counts)) \ {u}
      /\ crossed' = IF u \in overtaken THEN crossed \cup {w} ELSE crossed
      /\ req' = [v \in User |-> IF v = u THEN Idle
                                ELSE IF Lost(v) THEN [req[v] EXCEPT !.at = "lost"] ELSE req[v]]
  BY DEF Writes, Outdates
<1>2. /\ \A x \in Space, v \in User : x # w \/ v # who => role'[x][v] = role[x][v]
      /\ role'[w][who] = is /\ role' \in [Space -> [User -> Role \cup {None}]]
  BY <1>1, SpaceTypes
<1>3. \A x \in Space \ {w} : Members(x)' = Members(x) /\ Owners(x)' = Owners(x)
  BY <1>2 DEF Members, Owners
<1>4. ASSUME NEW v \in User \ {u}
      PROVE  /\ req'[v].kind = req[v].kind /\ req'[v].on = req[v].on /\ req'[v].who = req[v].who
             /\ req'[v].slug = req[v].slug /\ req'[v].role = req[v].role
             /\ req'[v].at = "checked" => req[v].at = "checked" /\ ~Lost(v)
             /\ req'[v] \in Request \cup {Idle}
  <2>1. CASE Lost(v)
    <3>1. req[v] \in Request BY <2>1, SpaceTypes, UserIdle DEF UserIdleFact, Checked
    <3>2. req'[v] = [req[v] EXCEPT !.at = "lost"] BY <1>1, <2>1
    <3> QED BY <3>1, <3>2 DEF Request
  <2>2. CASE ~Lost(v)
    <3>1. req'[v] = req[v] BY <1>1, <2>2
    <3> QED BY <2>2, <3>1, SpaceTypes
  <2> QED BY <2>1, <2>2
<1>5. req'[u] = Idle BY <1>1
<1>6. TypeOK' /\ SlugsOK'
  <2>1. req' \in [User -> Request \cup {Idle}]
    <3>1. \A v \in User : req'[v] \in Request \cup {Idle} BY <1>4, <1>5
    <3> QED BY <1>1, <3>1
  <2>2. \A x \in Space, v \in User : role'[x][v] # None => space'[x] # None BY <1>1, <1>2, SpaceTypes
  <2>3. overtaken' \subseteq User /\ crossed' \subseteq Space /\ anonymous' \subseteq Space
        /\ requests' \in 0..MaxRequests
    BY <1>1, SpaceTypes DEF Checked
  <2>4. SlugsOK' BY <1>1 DEF MembersInv, SlugsOK
  <2> QED BY <1>1, <1>2, <2>1, <2>2, <2>3, <2>4, SpaceTypes, SpacesTyped
<1>7. OwnersStay'
  <2>1. ASSUME NEW x \in Space, space[x] # None, x \notin crossed'
        PROVE  Owners(x)' # {} /\ Cardinality(Members(x)') <= MaxMembers
    <3>1. CASE x = w
      <4>1. u \notin overtaken /\ w \notin crossed BY <1>1, <2>1, <3>1
      <4> QED BY <3>1, <4>1
    <3>2. CASE x # w
      <4>1. x \notin crossed BY <1>1, <2>1
      <4>2. Owners(x) # {} /\ Cardinality(Members(x)) <= MaxMembers
        BY <2>1, <4>1 DEF MembersInv, OwnersStay
      <4> QED BY <1>3, <3>2, <4>2
    <3> QED BY <3>1, <3>2
  <2> QED BY <1>1, <2>1 DEF OwnersStay
<1>8. ASSUME NEW v \in User PROVE RequestOK(v)'
  <2>1. CASE v = u BY <1>5, <2>1, UserIdle DEF RequestOK, UserIdleFact
  <2>2. CASE v # u
    <3> PICK r : r = req[v] OBVIOUS
    <3>1. RequestOK(v) BY DEF MembersInv
    <3>2. r.kind \in {"add", "change", "remove"} => r.on \in Space
      BY SpaceTypes, UserIdle DEF UserIdleFact, Request
    <3>7. r.kind \in {"add", "change", "remove"} => r.who \in User
      BY SpaceTypes, UserIdle DEF UserIdleFact, Request
    <3>3. v \in overtaken => v \in overtaken' BY <1>1, <2>2
    <3>4. CASE r.kind = "add" /\ req'[v].at = "checked" /\ v \notin overtaken'
      <4>1. Cardinality(Members(r.on)) < MaxMembers
        BY <1>4, <2>2, <3>1, <3>3, <3>4 DEF RequestOK
      <4>2. Cardinality(Members(r.on)') < MaxMembers
        <5>1. CASE r.on # w BY <1>3, <3>2, <3>4, <4>1, <5>1
        <5>2. CASE r.on = w
          <6>1. was # None
            <7>1. v \in Checked(w, {"add"}) BY <1>4, <2>2, <3>4, <5>2 DEF Checked
            <7> QED BY <1>1, <2>2, <3>4, <7>1 DEF Checked
          <6>2. Members(w)' \in SUBSET Members(w) BY <1>2, <6>1 DEF Members
          <6> DEFINE M == Members(w)'
          <6>3. M \in SUBSET Members(w) BY <6>2
          <6> HIDE DEF M
          <6>4. Cardinality(M) <= Cardinality(Members(w)) /\ Cardinality(M) \in Nat
            BY <6>3, MembersFinite, FS_Subset, FS_CardinalityType
          <6>5. Cardinality(M) < MaxMembers BY <4>1, <5>2, <6>4, MembersFinite, ConstAssumption
          <6> QED BY <5>2, <6>5 DEF M
        <5> QED BY <5>1, <5>2
      <4> QED BY <1>1, <1>4, <2>2, <3>1, <3>4, <4>2 DEF RequestOK
    <3>5. CASE r.kind \in {"change", "remove"} /\ req'[v].at = "checked"
      <4>1. role[r.on][r.who] # None BY <1>4, <2>2, <3>1, <3>5 DEF RequestOK
      <4>2. role'[r.on][r.who] # None
        <5>1. CASE r.on = w /\ r.who = who
          <6>1. v \in Checked(w, {"change", "remove"}) BY <1>4, <2>2, <3>5, <5>1 DEF Checked
          <6>2. is # None BY <1>4, <2>2, <3>5, <5>1, <6>1
          <6> QED BY <1>2, <5>1, <6>2
        <5>2. CASE r.on # w \/ r.who # who
          <6>1. r.on \in Space /\ r.who \in User BY <3>2, <3>7, <3>5
          <6> QED BY <1>2, <4>1, <5>2, <6>1
        <5> QED BY <5>1, <5>2
      <4>3. ASSUME v \notin overtaken', r.on \notin crossed' PROVE Owners(r.on)' \ {r.who} # {}
        <5>1. v \notin overtaken /\ r.on \notin crossed BY <1>1, <3>3, <4>3
        <5>2. Owners(r.on) \ {r.who} # {} BY <1>4, <2>2, <3>1, <3>5, <5>1 DEF RequestOK
        <5>3. CASE r.on # w
          <6>1. Owners(r.on)' = Owners(r.on) BY <1>3, <3>2, <3>5, <5>3
          <6> QED BY <5>2, <6>1
        <5>4. CASE r.on = w
          <6>1. ~(was = "owner" /\ is # "owner")
            <7>1. v \in Checked(w, {"change", "remove"}) BY <1>4, <2>2, <3>5, <5>4 DEF Checked
            <7> QED BY <1>1, <2>2, <4>3, <7>1 DEF Checked
          <6>2. Owners(w) \subseteq Owners(w)' BY <1>2, <6>1 DEF Owners
          <6> QED BY <5>2, <5>4, <6>2
        <5> QED BY <5>3, <5>4
      <4> QED BY <1>1, <1>4, <2>2, <3>1, <3>5, <4>2, <4>3 DEF RequestOK
    <3>6. CASE ~(r.kind \in {"change", "remove"} /\ req'[v].at = "checked")
               /\ ~(r.kind = "add" /\ req'[v].at = "checked" /\ v \notin overtaken')
      BY <1>1, <1>4, <2>2, <3>1, <3>6 DEF RequestOK
    <3> QED BY <3>4, <3>5, <3>6
  <2> QED BY <2>1, <2>2
<1> QED BY <1>6, <1>7, <1>8 DEF MembersInv

\* The membership that a request at its write is about.
LEMMA WriteTyped ==
    ASSUME MembersInv, NEW u \in User, req[u].kind \in {"add", "change", "remove"}
    PROVE  /\ req[u].on \in Space /\ req[u].who \in User /\ space[req[u].on] # None
           /\ req[u].kind \in {"add", "change"} => req[u].role \in Role
<1>1. req[u] \in Request BY SpaceTypes, UserIdle DEF UserIdleFact
<1>2. RequestOK(u) BY DEF MembersInv
<1> QED BY <1>1, <1>2 DEF Request, RequestOK

LEMMA AddStep ==
    ASSUME MembersInv, NEW u \in User, AddMember(u)
    PROVE  MembersInv'
<1>1. req[u].kind = "add" /\ req[u].at = "checked" BY DEF AddMember
<1> PICK w \in Space, who \in User, is \in Role : w = req[u].on /\ who = req[u].who /\ is = req[u].role
  BY <1>1, WriteTyped
<1>2. /\ Writes(u, w, is) /\ who \notin Members(w) /\ space[w] # None
      /\ role' = [role EXCEPT ![w][who] = is]
  BY <1>1, WriteTyped DEF AddMember, Writes
<1>3. ASSUME w \notin crossed, u \notin overtaken
      PROVE  Owners(w)' # {} /\ Cardinality(Members(w)') <= MaxMembers
  <2>1. Owners(w) # {} BY <1>2, <1>3 DEF MembersInv, OwnersStay
  <2>2. role[w][who] = None /\ "owner" # None BY <1>2, NoneAssumption DEF Members, Role
  <2>3. Owners(w) \subseteq Owners(w)' BY <1>2, <2>2, SpaceTypes DEF Owners
  <2>4. Members(w)' = Members(w) \cup {who} BY <1>2, SpaceTypes, NoneAssumption DEF Members
  <2>5. Cardinality(Members(w)) < MaxMembers BY <1>1, <1>3 DEF MembersInv, RequestOK
  <2> DEFINE M == Members(w)
  <2>6. IsFiniteSet(M) /\ Cardinality(M) \in Nat BY MembersFinite
  <2>7. who \notin M BY <1>2
  <2> HIDE DEF M
  <2>8. Cardinality(M \cup {who}) = Cardinality(M) + 1 BY <2>6, <2>7, FS_AddElement
  <2>9. Cardinality(M \cup {who}) <= MaxMembers BY <2>5, <2>6, <2>8, ConstAssumption DEF M
  <2> QED BY <2>1, <2>3, <2>4, <2>9 DEF M
<1> QED BY <1>2, <1>3, WritesStep

\* What those who change or remove a member know of the other owners.
LEMMA OthersOwn ==
    ASSUME MembersInv, NEW u \in User, NEW w \in Space, w = req[u].on, w \notin crossed,
           u \notin overtaken, req[u].kind \in {"change", "remove"}, req[u].at = "checked"
    PROVE  /\ Owners(w) \ {req[u].who} # {} /\ role[w][req[u].who] # None
           /\ Cardinality(Members(w)) <= MaxMembers
<1>1. RequestOK(u) BY DEF MembersInv
<1>2. Owners(w) \ {req[u].who} # {} /\ role[w][req[u].who] # None /\ space[w] # None
  BY <1>1 DEF RequestOK
<1> QED BY <1>2 DEF MembersInv, OwnersStay

LEMMA ChangeStep ==
    ASSUME MembersInv, NEW u \in User, ChangeRole(u)
    PROVE  MembersInv'
<1>1. req[u].kind = "change" /\ req[u].at = "checked" BY DEF ChangeRole
<1> PICK w \in Space, who \in User, is \in Role : w = req[u].on /\ who = req[u].who /\ is = req[u].role
  BY <1>1, WriteTyped
<1>2. Writes(u, w, is) /\ space[w] # None /\ role' = [role EXCEPT ![w][who] = is]
  BY <1>1, WriteTyped DEF ChangeRole, Writes
<1>3. ASSUME w \notin crossed, u \notin overtaken
      PROVE  Owners(w)' # {} /\ Cardinality(Members(w)') <= MaxMembers
  <2>1. /\ Owners(w) \ {who} # {} /\ role[w][who] # None
        /\ Cardinality(Members(w)) <= MaxMembers
    BY <1>1, <1>3, OthersOwn
  <2>2. Owners(w) \ {who} \subseteq Owners(w)' BY <1>2, SpaceTypes DEF Owners
  <2>3. Members(w)' = Members(w) BY <1>2, <2>1, SpaceTypes, NoneAssumption DEF Members
  <2> QED BY <2>1, <2>2, <2>3
<1> QED BY <1>2, <1>3, WritesStep

LEMMA RemoveStep ==
    ASSUME MembersInv, NEW u \in User, RemoveMember(u)
    PROVE  MembersInv'
<1>1. req[u].kind = "remove" /\ req[u].at = "checked" BY DEF RemoveMember
<1> PICK w \in Space, who \in User : w = req[u].on /\ who = req[u].who
  BY <1>1, WriteTyped
<1>2. Writes(u, w, None) /\ space[w] # None /\ role' = [role EXCEPT ![w][who] = None]
  BY <1>1, WriteTyped DEF RemoveMember, Writes
<1>3. ASSUME w \notin crossed, u \notin overtaken
      PROVE  Owners(w)' # {} /\ Cardinality(Members(w)') <= MaxMembers
  <2>1. Owners(w) \ {who} # {} /\ Cardinality(Members(w)) <= MaxMembers
    BY <1>1, <1>3, OthersOwn
  <2>2. Owners(w) \ {who} \subseteq Owners(w)' BY <1>2, SpaceTypes DEF Owners
  <2> DEFINE M == Members(w)'
  <2>3. M \in SUBSET Members(w) BY <1>2, SpaceTypes DEF Members
  <2> HIDE DEF M
  <2>4. Cardinality(M) <= Cardinality(Members(w)) /\ Cardinality(M) \in Nat
    BY <2>3, MembersFinite, FS_Subset, FS_CardinalityType
  <2>5. Cardinality(M) <= MaxMembers BY <2>1, <2>4, MembersFinite, ConstAssumption
  <2> QED BY <2>1, <2>2, <2>5 DEF M
<1> QED BY <1>2, <1>3, WritesStep

----------------------------------------------------------------------------
(* Workspace: the theorem of one service.                                  *)

LEMMA UserStep ==
    ASSUME MembersInv, NEW u \in User, Step(u)
    PROVE  MembersInv'
<1>1. CASE FindWorkspace(u)
  <2>1. Checks(u) /\ req[u].at = "admitted" /\ req[u].kind \notin {"add", "change", "remove"}
    BY <1>1 DEF FindWorkspace
  <2> QED BY <2>1, ChecksStep
<1>2. CASE AddCheck(u) BY <1>2, ChecksStep DEF AddCheck
<1>3. CASE ChangeCheck(u) \/ RemoveCheck(u)
  <2>1. /\ Checks(u) /\ req[u].at = "admitted" /\ req[u].kind \in {"change", "remove"}
        /\ role[req[u].on][req[u].who] # None
        /\ role[req[u].on][req[u].who] = "owner" => KeepsAnOwner(req[u].on)
    BY <1>3 DEF ChangeCheck, RemoveCheck
  <2> PICK w \in Space, who \in User : w = req[u].on /\ who = req[u].who BY <2>1, WriteTyped
  <2>2. ASSUME w \notin crossed PROVE Owners(w) \ {who} # {}
    <3>1. CASE role[w][who] # "owner"
      <4>1. who \notin Owners(w) BY <3>1 DEF Owners
      <4>2. space[w] # None BY <2>1, WriteTyped
      <4> QED BY <2>2, <4>1, <4>2 DEF MembersInv, OwnersStay
    <3>2. CASE role[w][who] = "owner"
      <4> DEFINE O == Owners(w)
      <4>1. Cardinality(O) > 1 BY <2>1, <3>2 DEF KeepsAnOwner
      <4> HIDE DEF O
      <4>2. O \subseteq {who} => Cardinality(O) <= 1
        <5>1. IsFiniteSet({who}) /\ Cardinality({who}) = 1 BY FS_Singleton
        <5> QED BY <5>1, FS_Subset
      <4>3. ~(O \subseteq {who})
        <5> SUFFICES ASSUME O \subseteq {who} PROVE FALSE OBVIOUS
        <5>1. Cardinality({who}) = 1 /\ IsFiniteSet({who}) BY FS_Singleton
        <5>2. Cardinality(O) \in Nat /\ Cardinality(O) <= 1 BY <4>2, <5>1, FS_Subset, FS_CardinalityType
        <5> QED BY <4>1, <5>2
      <4> QED BY <4>3 DEF O
    <3> QED BY <3>1, <3>2
  <2>3. req[u].kind # "add" BY <2>1
  <2> QED BY <2>1, <2>2, <2>3, ChecksStep
<1>4. CASE Create(u) BY <1>4, CreateStep
<1>5. CASE Configure(u)
  <2>1. req[u].kind = "configure" BY <1>5 DEF Configure
  <2>2. req[u].on \in Space BY <2>1, SpaceTypes, UserIdle DEF UserIdleFact, Request
  <2>3. anonymous' \subseteq Space BY <1>5, <2>2, SpaceTypes DEF Configure
  <2>4. Ends(u) /\ UNCHANGED <<space, role, requests, overtaken, crossed>> BY <1>5 DEF Configure
  <2> QED BY <2>3, <2>4, UserEnds
<1>6. CASE SoftDelete(u) BY <1>6, SoftDeleteStep
<1>7. CASE AddMember(u) BY <1>7, AddStep
<1>8. CASE ChangeRole(u) BY <1>8, ChangeStep
<1>9. CASE RemoveMember(u) BY <1>9, RemoveStep
<1> QED BY <1>1, <1>2, <1>3, <1>4, <1>5, <1>6, <1>7, <1>8, <1>9 DEF Step

LEMMA WorkspaceInductive ==
    /\ Init => MembersInv
    /\ MembersInv /\ [Next]_vars => MembersInv'
<1>1. ASSUME Init PROVE MembersInv
  <2>1. SlugsOK /\ OwnersStay BY <1>1 DEF Init, SlugsOK, OwnersStay
  <2>2. \A u \in User : RequestOK(u) BY <1>1, UserIdle DEF Init, RequestOK, UserIdleFact
  <2>3. \A s \in Slug : Cardinality(Indexed(s)) <= 1
    <3>1. \A s \in Slug : Indexed(s) = {} BY <1>1 DEF Init, Indexed
    <3>2. Cardinality({}) = 0 BY FS_EmptySet
    <3> QED BY <3>1, <3>2
  <2>4. \A w \in Space : Members(w) = {} BY <1>1 DEF Init, Members
  <2>5. TypeOK BY <1>1, <2>3, <2>4, ConstAssumption DEF Init, TypeOK
  <2> QED BY <2>1, <2>2, <2>5 DEF MembersInv
<1>2. ASSUME MembersInv, NEW u \in User, Fails(u) PROVE MembersInv'
  <2>1. /\ Ends(u) /\ overtaken' = overtaken \ {u}
        /\ UNCHANGED <<space, role, anonymous, requests, crossed>>
    BY <1>2 DEF Fails
  <2> QED BY <1>2, <2>1, SpaceTypes, UserEnds
<1>3. ASSUME MembersInv, UNCHANGED vars PROVE MembersInv'
  <2>1. UNCHANGED <<space, role, anonymous, req, requests, overtaken, crossed>> BY <1>3 DEF vars
  <2>2. \A w : Members(w)' = Members(w) /\ Owners(w)' = Owners(w) /\ Indexed(w)' = Indexed(w)
    BY <2>1 DEF Members, Owners, Indexed
  <2>3. TypeOK' /\ SlugsOK' /\ OwnersStay'
    BY <1>3, <2>1, <2>2 DEF MembersInv, TypeOK, SlugsOK, OwnersStay
  <2>4. \A u \in User : RequestOK(u)' BY <1>3, <2>1, <2>2 DEF MembersInv, RequestOK
  <2> QED BY <2>3, <2>4 DEF MembersInv
<1> QED BY <1>1, <1>2, <1>3, AsksStep, UserStep DEF Next

----------------------------------------------------------------------------
(* Catalog: requests.                                                      *)

LEMMA CatalogTypes ==
    ASSUME CatalogInv
    PROVE  /\ row \in [Catalog!Id -> Catalog!Row \cup {None}]
           /\ images \in [Product -> SUBSET (0..MaxWrites)]
           /\ tx \in [Client -> Catalog!Request \cup {Catalog!Idle}] /\ writes \in 0..MaxWrites
           /\ mixed \subseteq Product /\ late \subseteq Client
           /\ \A i \in Catalog!Id : \A j \in Catalog!Table(i) \ {i} :
                 row[i] # None /\ row[j] # None => row[i].slug # row[j].slug
BY DEF CatalogInv, Catalog!TypeOK

\* A request under way, with the fields of one.
LEMMA RequestTyped ==
    ASSUME CatalogInv, NEW c \in Client, tx[c] # Catalog!Idle
    PROVE  /\ tx[c] \in Catalog!Request /\ tx[c].on \in Catalog!Id
           /\ tx[c].kind \in Catalog!Kind /\ tx[c].at \in Catalog!Place
           /\ tx[c].slug \in Slug \cup {"keep"} /\ tx[c].category \in Category \cup {None, "keep"}
           /\ tx[c].fields \in BOOLEAN /\ tx[c].batch \in 0..MaxWrites
           /\ tx[c].target \subseteq 0..MaxWrites
<1>1. tx[c] \in Catalog!Request BY CatalogTypes
<1> QED BY <1>1 DEF Catalog!Request

\* Products and categories are two tables.
LEMMA Tables ==
    /\ \A i \in Catalog!Id : Catalog!Table(i) \subseteq Catalog!Id
    /\ \A i, j \in Catalog!Id : i \in Catalog!Table(j) => j \in Catalog!Table(i)
    /\ None \notin Catalog!Row
BY CatalogAssumption DEF Catalog!ConstantsOK, Catalog!Table, Catalog!Id

\* A step of one request that leaves rows and images alone.
LEMMA ClientStep ==
    ASSUME CatalogInv, NEW c \in Client, NEW r \in Catalog!Request \cup {Catalog!Idle},
           tx' = [tx EXCEPT ![c] = r], UNCHANGED <<row, images, mixed>>,
           writes' \in 0..MaxWrites, late' \in {late, late \ {c}},
           \A i \in Catalog!Id : Catalog!Holds(c, i)' =>
               /\ Catalog!Live(i) /\ Catalog!RowIsFree(c, i)
               /\ r.slug # "keep" => Catalog!IndexAllows(c, i, r.slug),
           r # Catalog!Idle =>
               /\ r.kind = "create" => r.at = "checked" /\ r.slug \in Slug
                                      /\ r.category \in Category \cup {None}
               /\ r.kind = "delete" => r.at = "checked"
               /\ r.kind = "update" =>
                    /\ row[r.on] # None
                    /\ r.at \in {"written", "deleting", "deleted"} => r.new # "keep"
                    /\ r.new # "keep" => r.on \in Product,
           \A p \in Product :
               /\ Catalog!Replacing(c, p)' /\ p \notin mixed => images[p] \subseteq r.target
               /\ Catalog!At(c, p, {"ready"})' /\ ~Catalog!Live(p) => c \in late'
    PROVE  CatalogInv'
<1>1. tx'[c] = r /\ \A d \in Client \ {c} : tx'[d] = tx[d] BY CatalogTypes
<1>2. \A d \in Client \ {c} : \A i :
         /\ Catalog!Holds(d, i)' = Catalog!Holds(d, i)
         /\ Catalog!Replacing(d, i)' = Catalog!Replacing(d, i)
         /\ Catalog!At(d, i, {"ready"})' = Catalog!At(d, i, {"ready"})
  BY <1>1 DEF Catalog!Holds, Catalog!Replacing, Catalog!At
<1>3. \A i : Catalog!Live(i)' = Catalog!Live(i) BY DEF Catalog!Live
<1>4. Catalog!TypeOK'
  <2>1. tx' \in [Client -> Catalog!Request \cup {Catalog!Idle}] BY CatalogTypes
  <2>2. late' \subseteq Client BY CatalogTypes
  <2> QED BY <2>1, <2>2, CatalogTypes DEF Catalog!TypeOK
<1>5. HoldersOK'
  <2>1. ASSUME NEW i \in Catalog!Id, Catalog!Holds(c, i)'
        PROVE  /\ Catalog!Live(i)' /\ Catalog!RowIsFree(c, i)'
               /\ r.slug # "keep" => Catalog!IndexAllows(c, i, r.slug)'
    <3>1. /\ Catalog!Live(i) /\ Catalog!RowIsFree(c, i)
          /\ r.slug # "keep" => Catalog!IndexAllows(c, i, r.slug)
      BY <2>1
    <3>2. Catalog!RowIsFree(c, i)' BY <1>2, <3>1 DEF Catalog!RowIsFree
    <3>3. r.slug # "keep" => Catalog!IndexAllows(c, i, r.slug)'
      BY <1>1, <1>2, <3>1 DEF Catalog!IndexAllows
    <3> QED BY <1>3, <3>1, <3>2, <3>3
  <2>2. ASSUME NEW d \in Client \ {c}, NEW i \in Catalog!Id, Catalog!Holds(d, i)
        PROVE  /\ Catalog!Live(i)' /\ Catalog!RowIsFree(d, i)'
               /\ tx[d].slug # "keep" => Catalog!IndexAllows(d, i, tx[d].slug)'
    <3>1. /\ Catalog!Live(i) /\ Catalog!RowIsFree(d, i)
          /\ tx[d].slug # "keep" => Catalog!IndexAllows(d, i, tx[d].slug)
      BY <2>2 DEF CatalogInv, HoldersOK
    <3>2. ~Catalog!Holds(c, i)' BY <2>2 DEF Catalog!RowIsFree
    <3>3. Catalog!RowIsFree(d, i)' BY <1>2, <3>1, <3>2 DEF Catalog!RowIsFree
    <3>4. ASSUME tx[d].slug # "keep", NEW j \in Catalog!Table(i) \ {i}, Catalog!Holds(c, j)'
          PROVE  r.slug # tx[d].slug
      <4>1. j \in Catalog!Id /\ i \in Catalog!Table(j) \ {j} BY Tables
      <4>2. r.slug # "keep" => Catalog!IndexAllows(c, j, r.slug) BY <3>4, <4>1
      <4> QED BY <2>2, <3>4, <4>1, <4>2 DEF Catalog!IndexAllows
    <3>5. tx[d].slug # "keep" => Catalog!IndexAllows(d, i, tx[d].slug)'
      BY <1>1, <1>2, <3>1, <3>4 DEF Catalog!IndexAllows
    <3> QED BY <1>3, <3>1, <3>3, <3>5
  <2> QED BY <1>1, <1>2, <2>1, <2>2 DEF HoldersOK
<1>6. WritersOK' BY <1>1 DEF CatalogInv, WritersOK
<1>7. ImagesOK'
  <2>1. ASSUME NEW d \in Client, d # c, NEW p \in Product
        PROVE  /\ Catalog!Replacing(d, p)' /\ p \notin mixed' => images'[p] \subseteq tx'[d].target
               /\ Catalog!At(d, p, {"ready"})' /\ ~Catalog!Live(p)' => d \in late'
    BY <1>1, <1>2, <1>3, <2>1 DEF CatalogInv, ImagesOK
  <2> QED BY <1>1, <1>3, <2>1 DEF ImagesOK
<1>8. Catalog!ImagesOfOneRequest' BY DEF CatalogInv, Catalog!ImagesOfOneRequest
<1> QED BY <1>4, <1>5, <1>6, <1>7, <1>8 DEF CatalogInv

\* A request begins with its checks.
LEMMA BeginsStep ==
    ASSUME CatalogInv, NEW c \in Client, NEW r \in Catalog!Request, Catalog!Begins(c, r),
           writes < MaxWrites, r.at = "checked",
           r.kind = "create" => r.slug \in Slug /\ r.category \in Category \cup {None},
           r.kind = "update" => row[r.on] # None /\ (r.new # "keep" => r.on \in Product)
    PROVE  CatalogInv'
<1>1. /\ tx' = [tx EXCEPT ![c] = r] /\ UNCHANGED <<row, images, mixed, late>> /\ writes' = writes + 1
  BY DEF Catalog!Begins
<1>2. writes' \in 0..MaxWrites BY <1>1, CatalogTypes, CatalogAssumption DEF Catalog!ConstantsOK
<1>3. tx'[c] = r BY <1>1, CatalogTypes
<1>4. \A i : ~Catalog!Holds(c, i)' /\ ~Catalog!Replacing(c, i)' /\ ~Catalog!At(c, i, {"ready"})'
  BY <1>3 DEF Catalog!Holds, Catalog!Replacing, Catalog!At
<1> QED BY <1>1, <1>2, <1>4, ClientStep

LEMMA CatalogAsks ==
    ASSUME CatalogInv, NEW c \in Client, Catalog!Asks(c)
    PROVE  CatalogInv'
<1>1. writes < MaxWrites /\ writes \in 0..MaxWrites /\ MaxWrites \in Nat
  BY CatalogTypes, CatalogAssumption DEF Catalog!Asks, Catalog!ConstantsOK
<1>2. {0, writes + 1} \subseteq 0..MaxWrites BY <1>1
<1>3. ASSUME NEW i \in Catalog!Id, NEW s \in Slug, NEW k \in Category \cup {None},
             NEW n \in {"clear", "replace"}, Catalog!CreateCheck(c, i, s, k, n)
      PROVE  CatalogInv'
  <2> DEFINE b == IF n = "replace" THEN writes + 1 ELSE 0
             r == [kind |-> "create", at |-> "checked", on |-> i, slug |-> s, category |-> k,
                   fields |-> TRUE, new |-> n, target |-> {}, batch |-> b]
  <2>1. b \in 0..MaxWrites BY <1>2
  <2>2. Catalog!Begins(c, r) BY <1>3 DEF Catalog!CreateCheck
  <2> HIDE DEF b
  <2>3. r \in Catalog!Request BY <2>1 DEF Catalog!Request, Catalog!Kind, Catalog!Place
  <2>4. r.at = "checked" /\ r.kind = "create" /\ r.slug = s /\ r.category = k OBVIOUS
  <2> HIDE DEF r
  <2> QED BY <1>1, <2>2, <2>3, <2>4, BeginsStep
<1>4. ASSUME NEW i \in Catalog!Id, NEW s \in Slug \cup {"keep"}, NEW k \in Category \cup {None, "keep"},
             NEW f \in BOOLEAN, NEW n \in {"keep", "clear", "replace"}, Catalog!UpdateCheck(c, i, s, k, f, n)
      PROVE  CatalogInv'
  <2> DEFINE t == IF n = "keep" THEN {} ELSE images[i]
             b == IF n = "replace" THEN writes + 1 ELSE 0
             r == [kind |-> "update", at |-> "checked", on |-> i, slug |-> s, category |-> k,
                   fields |-> f, new |-> n, target |-> t, batch |-> b]
  <2>1. b \in 0..MaxWrites BY <1>2
  <2>2. row[i] # None /\ (n # "keep" => i \in Product)
    BY <1>4 DEF Catalog!UpdateCheck, Catalog!Live, Catalog!Id
  <2>3. t \in SUBSET (0..MaxWrites) BY <2>2, CatalogTypes
  <2>4. Catalog!Begins(c, r) BY <1>4 DEF Catalog!UpdateCheck
  <2> HIDE DEF b, t
  <2>5. r \in Catalog!Request BY <2>1, <2>3 DEF Catalog!Request, Catalog!Kind, Catalog!Place
  <2>6. r.at = "checked" /\ r.kind = "update" /\ r.on = i /\ r.new = n OBVIOUS
  <2> HIDE DEF r
  <2> QED BY <1>1, <2>2, <2>4, <2>5, <2>6, BeginsStep
<1>5. ASSUME NEW i \in Catalog!Id, Catalog!DeleteCheck(c, i) PROVE CatalogInv'
  <2> DEFINE r == [kind |-> "delete", at |-> "checked", on |-> i, slug |-> "keep", category |-> "keep",
                   fields |-> TRUE, new |-> "keep", target |-> {}, batch |-> 0]
  <2>1. Catalog!Begins(c, r) BY <1>5 DEF Catalog!DeleteCheck
  <2>2. r \in Catalog!Request BY <1>2 DEF Catalog!Request, Catalog!Kind, Catalog!Place
  <2>3. r.at = "checked" /\ r.kind = "delete" OBVIOUS
  <2> HIDE DEF r
  <2> QED BY <1>1, <2>1, <2>2, <2>3, BeginsStep
<1> QED BY <1>3, <1>4, <1>5 DEF Catalog!Asks

\* An update goes on to its next statement: what it holds and replaces stays the same.
LEMMA GoesStep ==
    ASSUME CatalogInv, NEW c \in Client, NEW from \in {"deleting", "deleted", "added"},
           NEW to \in {"deleted", "added", "ready"}, Catalog!Updating(c, from), Catalog!Goes(c, to),
           from # "added" => to # "ready", from = "added" => to = "ready" /\ Catalog!Reloaded(c)
    PROVE  CatalogInv'
<1> DEFINE r == [tx[c] EXCEPT !.at = to]
<1>1. tx[c] # Catalog!Idle /\ tx[c].kind = "update" /\ tx[c].at = from BY DEF Catalog!Updating
<1>2. tx[c] \in Catalog!Request BY <1>1, CatalogTypes
<1>3. /\ r \in Catalog!Request /\ r.kind = "update" /\ r.at = to /\ r.on = tx[c].on /\ r.slug = tx[c].slug
      /\ r.fields = tx[c].fields /\ r.new = tx[c].new /\ r.target = tx[c].target
  <2>1. to \in Catalog!Place BY DEF Catalog!Place
  <2> QED BY <1>1, <1>2, <2>1 DEF Catalog!Request
<1>4. tx' = [tx EXCEPT ![c] = r] /\ UNCHANGED <<row, images, writes, mixed, late>> BY DEF Catalog!Goes
<1> HIDE DEF r
<1>5. tx'[c] = r BY <1>4, CatalogTypes
<1>6. ASSUME NEW i \in Catalog!Id, Catalog!Holds(c, i)'
      PROVE  /\ Catalog!Live(i) /\ Catalog!RowIsFree(c, i)
             /\ r.slug # "keep" => Catalog!IndexAllows(c, i, r.slug)
  <2>1. Catalog!Holds(c, i)
    BY <1>1, <1>3, <1>5, <1>6 DEF Catalog!Holds, Catalog!At, Catalog!Place
  <2> QED BY <1>3, <2>1 DEF CatalogInv, HoldersOK
<1>7. row[r.on] # None /\ (r.new # "keep" => r.on \in Product)
      /\ (r.at \in {"written", "deleting", "deleted"} => r.new # "keep")
  BY <1>1, <1>3 DEF CatalogInv, WritersOK
<1>8. ASSUME NEW p \in Product, Catalog!Replacing(c, p)', p \notin mixed PROVE images[p] \subseteq r.target
  <2>1. Catalog!Replacing(c, p)
    BY <1>1, <1>3, <1>5, <1>8 DEF Catalog!Replacing, Catalog!At
  <2> QED BY <1>3, <1>8, <2>1 DEF CatalogInv, ImagesOK
<1>9. ASSUME NEW p \in Product, Catalog!At(c, p, {"ready"})', ~Catalog!Live(p) PROVE c \in late'
  <2>1. tx[c].on = p /\ to = "ready" BY <1>3, <1>5, <1>9 DEF Catalog!At
  <2>2. Catalog!Live(p) BY <2>1 DEF Catalog!Reloaded
  <2> QED BY <1>9, <2>2
<1> QED BY <1>3, <1>4, <1>6, <1>7, <1>8, <1>9, CatalogTypes, ClientStep

LEMMA UpdateRowStep ==
    ASSUME CatalogInv, NEW c \in Client, Catalog!UpdateRow(c)
    PROVE  CatalogInv'
<1> DEFINE to == IF tx[c].new = "keep" THEN "added" ELSE "written"
           f == tx[c].fields /\ Catalog!Matched(tx[c].on)
           r == [tx[c] EXCEPT !.at = to, !.fields = f]
<1>1. tx[c] # Catalog!Idle /\ tx[c].kind = "update" /\ tx[c].at = "checked"
  BY DEF Catalog!Updating, Catalog!UpdateRow
<1>2. tx[c] \in Catalog!Request BY <1>1, CatalogTypes
<1>3. to \in Catalog!Place /\ f \in BOOLEAN BY DEF Catalog!Place
<1>4. tx' = [tx EXCEPT ![c] = r] /\ UNCHANGED <<row, images, writes, mixed, late>>
  BY CatalogTypes DEF Catalog!UpdateRow
<1>5. /\ r \in Catalog!Request /\ r.kind = "update" /\ r.at = to /\ r.on = tx[c].on /\ r.slug = tx[c].slug
      /\ r.fields = f /\ r.new = tx[c].new
  <2> HIDE DEF to, f
  <2> QED BY <1>1, <1>2, <1>3 DEF Catalog!Request
<1> HIDE DEF r
<1>6. tx'[c] = r BY <1>4, CatalogTypes
<1>7. ASSUME NEW i \in Catalog!Id, Catalog!Holds(c, i)'
      PROVE  /\ Catalog!Live(i) /\ Catalog!RowIsFree(c, i)
             /\ r.slug # "keep" => Catalog!IndexAllows(c, i, r.slug)
  <2>1. r.on = i /\ f BY <1>5, <1>6, <1>7 DEF Catalog!Holds, Catalog!At
  <2> QED BY <1>5, <2>1 DEF Catalog!UpdateRow, Catalog!Matched
<1>8. row[r.on] # None /\ (r.new # "keep" => r.on \in Product)
      /\ (r.at \in {"written", "deleting", "deleted"} => r.new # "keep")
  BY <1>1, <1>5 DEF CatalogInv, WritersOK
<1>9. \A p : ~Catalog!Replacing(c, p)' /\ ~Catalog!At(c, p, {"ready"})'
  BY <1>5, <1>6 DEF Catalog!Replacing, Catalog!At
<1> QED BY <1>4, <1>5, <1>7, <1>8, <1>9, CatalogTypes, ClientStep

LEMMA DeleteImagesStep ==
    ASSUME CatalogInv, NEW c \in Client, Catalog!DeleteImages(c)
    PROVE  CatalogInv'
<1> DEFINE t == images[tx[c].on]
           r == [tx[c] EXCEPT !.at = "deleting", !.target = t]
<1>1. tx[c] # Catalog!Idle /\ tx[c].kind = "update" /\ tx[c].at = "written"
  BY DEF Catalog!Updating, Catalog!DeleteImages
<1>2. tx[c] \in Catalog!Request BY <1>1, CatalogTypes
<1>3. row[tx[c].on] # None /\ tx[c].new # "keep" /\ tx[c].on \in Product
  BY <1>1 DEF CatalogInv, WritersOK
<1>4. t \in SUBSET (0..MaxWrites) BY <1>3, CatalogTypes
<1>5. tx' = [tx EXCEPT ![c] = r] /\ UNCHANGED <<row, images, writes, mixed, late>>
  BY CatalogTypes DEF Catalog!DeleteImages, Catalog!Target
<1>6. /\ r \in Catalog!Request /\ r.kind = "update" /\ r.at = "deleting" /\ r.on = tx[c].on
      /\ r.slug = tx[c].slug /\ r.fields = tx[c].fields /\ r.new = tx[c].new /\ r.target = t
  <2> HIDE DEF t
  <2>1. "deleting" \in Catalog!Place BY DEF Catalog!Place
  <2> QED BY <1>1, <1>2, <1>4, <2>1 DEF Catalog!Request
<1> HIDE DEF r
<1>7. tx'[c] = r BY <1>5, CatalogTypes
<1>8. ASSUME NEW i \in Catalog!Id, Catalog!Holds(c, i)'
      PROVE  /\ Catalog!Live(i) /\ Catalog!RowIsFree(c, i)
             /\ r.slug # "keep" => Catalog!IndexAllows(c, i, r.slug)
  <2>1. Catalog!Holds(c, i)
    BY <1>1, <1>6, <1>7, <1>8 DEF Catalog!Holds, Catalog!At, Catalog!Place
  <2> QED BY <1>6, <2>1 DEF CatalogInv, HoldersOK
<1>9. \A p \in Product : /\ Catalog!Replacing(c, p)' => images[p] \subseteq r.target
                         /\ ~Catalog!At(c, p, {"ready"})'
  BY <1>6, <1>7 DEF Catalog!Replacing, Catalog!At
<1> QED BY <1>3, <1>5, <1>6, <1>8, <1>9, CatalogTypes, ClientStep

LEMMA CatalogFails ==
    ASSUME CatalogInv, NEW c \in Client, Catalog!Fails(c)
    PROVE  CatalogInv'
<1>1. /\ tx' = [tx EXCEPT ![c] = Catalog!Idle] /\ late' = late \ {c}
      /\ UNCHANGED <<row, images, writes, mixed>>
  BY DEF Catalog!Fails, Catalog!Ends
<1>2. tx'[c] = Catalog!Idle BY <1>1, CatalogTypes
<1>3. \A i : ~Catalog!Holds(c, i)' /\ ~Catalog!Replacing(c, i)' /\ ~Catalog!At(c, i, {"ready"})'
  BY <1>2 DEF Catalog!Holds, Catalog!Replacing, Catalog!At
<1> QED BY <1>1, <1>3, CatalogTypes, ClientStep

----------------------------------------------------------------------------
(* Catalog: commits.                                                       *)

\* A request that changes one row ends: what the others hold is another row, and what they
\* replace is unchanged or mixed.
LEMMA EndsStep ==
    ASSUME CatalogInv, NEW c \in Client, NEW i \in Catalog!Id, NEW new \in Catalog!Row \cup {None},
           row' = [row EXCEPT ![i] = new], tx' = [tx EXCEPT ![c] = Catalog!Idle], UNCHANGED writes,
           images' \in [Product -> SUBSET (0..MaxWrites)], mixed \subseteq mixed', mixed' \subseteq Product,
           late' \subseteq Client, late \ {c} \subseteq late',
           row[i] # None => new # None,
           new = row[i] \/ Catalog!RowIsFree(c, i),
           new # None => \A j \in Catalog!Table(i) \ {i} :
               /\ row[j] # None => row[j].slug # new.slug
               /\ \A d \in Client \ {c} : Catalog!Holds(d, j) /\ tx[d].slug # "keep" => tx[d].slug # new.slug,
           \A d \in Client \ {c} : Catalog!At(d, i, {"ready"}) /\ i \in Product =>
               d \in late' \/ Catalog!Live(i)' \/ ~Catalog!Live(i),
           \A d \in Client \ {c}, p \in Product \ mixed' : Catalog!Replacing(d, p) => images'[p] \subseteq images[p],
           Catalog!ImagesOfOneRequest'
    PROVE  CatalogInv'
<1>1. tx'[c] = Catalog!Idle /\ \A d \in Client \ {c} : tx'[d] = tx[d] BY CatalogTypes
<1>2. row'[i] = new /\ \A j \in Catalog!Id \ {i} : row'[j] = row[j] BY CatalogTypes
<1>3. \A d \in Client \ {c} : \A j :
         /\ Catalog!Holds(d, j)' = Catalog!Holds(d, j)
         /\ Catalog!Replacing(d, j)' = Catalog!Replacing(d, j)
         /\ Catalog!At(d, j, {"ready"})' = Catalog!At(d, j, {"ready"})
  BY <1>1 DEF Catalog!Holds, Catalog!Replacing, Catalog!At
<1>4. \A j : ~Catalog!Holds(c, j)' /\ ~Catalog!Replacing(c, j)' /\ ~Catalog!At(c, j, {"ready"})'
  BY <1>1 DEF Catalog!Holds, Catalog!Replacing, Catalog!At
<1>5. \A j \in Catalog!Id : /\ row[j] # None => row'[j] # None
                           /\ (j # i \/ new = row[i]) => Catalog!Live(j)' = Catalog!Live(j)
  BY <1>2 DEF Catalog!Live
<1>6. Catalog!TypeOK'
  <2>1. tx' \in [Client -> Catalog!Request \cup {Catalog!Idle}] BY CatalogTypes
  <2>2. row' \in [Catalog!Id -> Catalog!Row \cup {None}] BY CatalogTypes
  <2>3. ASSUME NEW j \in Catalog!Id, NEW k \in Catalog!Table(j) \ {j}, row'[j] # None, row'[k] # None
        PROVE  row'[j].slug # row'[k].slug
    <3>1. k \in Catalog!Id /\ j \in Catalog!Table(k) BY Tables
    <3>2. CASE j = i BY <1>2, <2>3, <3>1, <3>2
    <3>3. CASE k = i BY <1>2, <2>3, <3>1, <3>3
    <3>4. CASE j # i /\ k # i
      <4>1. row'[j] = row[j] /\ row'[k] = row[k] BY <1>2, <3>1, <3>4
      <4> QED BY <2>3, <4>1, CatalogTypes
    <3> QED BY <3>2, <3>3, <3>4
  <2> QED BY <2>1, <2>2, <2>3, CatalogTypes DEF Catalog!TypeOK
<1>7. HoldersOK'
  <2>1. ASSUME NEW d \in Client \ {c}, NEW j \in Catalog!Id, Catalog!Holds(d, j)
        PROVE  /\ Catalog!Live(j)' /\ Catalog!RowIsFree(d, j)'
               /\ tx[d].slug # "keep" => Catalog!IndexAllows(d, j, tx[d].slug)'
    <3>1. /\ Catalog!Live(j) /\ Catalog!RowIsFree(d, j)
          /\ tx[d].slug # "keep" => Catalog!IndexAllows(d, j, tx[d].slug)
      BY <2>1 DEF CatalogInv, HoldersOK
    <3>2. Catalog!Live(j)' BY <1>5, <2>1, <3>1 DEF Catalog!RowIsFree
    <3>3. Catalog!RowIsFree(d, j)' BY <1>3, <1>4, <3>1 DEF Catalog!RowIsFree
    <3>4. ASSUME tx[d].slug # "keep", NEW k \in Catalog!Table(j) \ {j}, row'[k] # None
          PROVE  row'[k].slug # tx[d].slug
      <4>1. k \in Catalog!Id /\ j \in Catalog!Table(k) \ {k} BY Tables
      <4>2. CASE k = i BY <1>2, <2>1, <3>4, <4>1, <4>2
      <4>3. CASE k # i
        <5>1. row'[k] = row[k] BY <1>2, <4>1, <4>3
        <5> QED BY <3>1, <3>4, <5>1 DEF Catalog!IndexAllows
      <4> QED BY <4>2, <4>3
    <3>5. tx[d].slug # "keep" => Catalog!IndexAllows(d, j, tx[d].slug)'
      BY <1>1, <1>3, <1>4, <3>1, <3>4 DEF Catalog!IndexAllows
    <3> QED BY <3>2, <3>3, <3>5
  <2> QED BY <1>1, <1>3, <1>4, <2>1 DEF HoldersOK
<1>8. WritersOK'
  <2>1. ASSUME NEW d \in Client \ {c}, tx[d] # Catalog!Idle PROVE tx[d].on \in Catalog!Id
    BY <2>1, RequestTyped
  <2> QED BY <1>1, <1>5, <2>1 DEF CatalogInv, WritersOK
<1>9. ImagesOK'
  <2>1. ASSUME NEW d \in Client \ {c}, NEW p \in Product
        PROVE  /\ Catalog!Replacing(d, p) /\ p \notin mixed' => images'[p] \subseteq tx[d].target
               /\ Catalog!At(d, p, {"ready"}) /\ ~Catalog!Live(p)' => d \in late'
    <3>1. /\ Catalog!Replacing(d, p) /\ p \notin mixed => images[p] \subseteq tx[d].target
          /\ Catalog!At(d, p, {"ready"}) /\ ~Catalog!Live(p) => d \in late
      BY DEF CatalogInv, ImagesOK
    <3>2. p \in Catalog!Id BY DEF Catalog!Id
    <3> QED BY <1>5, <3>1, <3>2
  <2> QED BY <1>1, <1>3, <1>4, <2>1 DEF ImagesOK
<1> QED BY <1>6, <1>7, <1>8, <1>9 DEF CatalogInv

\* The instance counts as this module does.
LEMMA SameCardinality ==
    ASSUME NEW S
    PROVE  Catalog!Cardinality(S) = Cardinality(S)
BY DEF Catalog!Cardinality, Cardinality

LEMMA OneBatch ==
    ASSUME NEW c \in Client
    PROVE  Catalog!Cardinality(Catalog!Batch(c)) <= 1
<1>1. Cardinality({tx[c].batch}) = 1 /\ Cardinality({}) = 0 BY FS_EmptySet, FS_Singleton
<1>2. Cardinality(Catalog!Batch(c)) <= 1 BY <1>1 DEF Catalog!Batch
<1> QED BY <1>2, SameCardinality

LEMMA CatalogCreateStep ==
    ASSUME CatalogInv, NEW c \in Client, Catalog!Create(c)
    PROVE  CatalogInv'
<1>1. tx[c] # Catalog!Idle /\ tx[c].kind = "create" BY DEF Catalog!Create
<1> PICK i \in Catalog!Id : i = tx[c].on BY <1>1, RequestTyped
<1> DEFINE new == [slug |-> tx[c].slug, category |-> tx[c].category, deleted |-> FALSE]
<1>2. /\ row' = [row EXCEPT ![i] = new] /\ tx' = [tx EXCEPT ![c] = Catalog!Idle] /\ late' = late \ {c}
      /\ images' = IF i \in Product THEN [images EXCEPT ![i] = Catalog!Batch(c)] ELSE images
      /\ UNCHANGED <<writes, mixed>> /\ row[i] = None /\ Catalog!IndexAllows(c, i, tx[c].slug)
  BY DEF Catalog!Create, Catalog!Ends
<1>3. /\ new \in Catalog!Row /\ new.slug = tx[c].slug /\ ~new.deleted
      /\ tx[c].slug \in Slug /\ tx[c].category \in Category \cup {None}
  <2>1. tx[c].slug \in Slug /\ tx[c].category \in Category \cup {None}
    BY <1>1 DEF CatalogInv, WritersOK
  <2> QED BY <2>1 DEF Catalog!Row
<1> HIDE DEF new
<1>4. Catalog!Batch(c) \subseteq 0..MaxWrites BY <1>1, RequestTyped DEF Catalog!Batch
<1>5. images' \in [Product -> SUBSET (0..MaxWrites)] BY <1>2, <1>4, CatalogTypes
<1>6. ASSUME NEW p \in Product, p # i PROVE images'[p] = images[p] BY <1>2, <1>6, CatalogTypes
<1>7. Catalog!ImagesOfOneRequest'
  <2>1. i \in Product => images'[i] = Catalog!Batch(c) BY <1>2, CatalogTypes
  <2>2. ASSUME NEW p \in Product \ mixed PROVE Catalog!Cardinality(images'[p]) <= 1
    BY <1>6, <2>1, OneBatch DEF CatalogInv, Catalog!ImagesOfOneRequest
  <2> QED BY <1>2, <2>2 DEF Catalog!ImagesOfOneRequest
<1>8. ASSUME NEW d \in Client \ {c} PROVE ~Catalog!Replacing(d, i) /\ ~Catalog!Holds(d, i)
  <2> SUFFICES ASSUME tx[d] # Catalog!Idle, tx[d].on = i, tx[d].at \in Catalog!Place \ {"checked"} PROVE FALSE
    BY DEF Catalog!Replacing, Catalog!Holds, Catalog!At, Catalog!Place
  <2>1. tx[d].kind \in {"create", "update", "delete"} BY RequestTyped DEF Catalog!Kind
  <2> QED BY <1>2, <2>1 DEF CatalogInv, WritersOK
<1>9. Catalog!RowIsFree(c, i) BY <1>8 DEF Catalog!RowIsFree
<1>10. \A j \in Catalog!Table(i) \ {i} :
         /\ row[j] # None => row[j].slug # new.slug
         /\ \A d \in Client \ {c} : Catalog!Holds(d, j) /\ tx[d].slug # "keep" => tx[d].slug # new.slug
  BY <1>2, <1>3 DEF Catalog!IndexAllows
<1>11. ~Catalog!Live(i) BY <1>2 DEF Catalog!Live
<1>12. \A d \in Client \ {c}, p \in Product \ mixed' : Catalog!Replacing(d, p) => images'[p] \subseteq images[p]
  BY <1>6, <1>8
<1> QED BY <1>2, <1>3, <1>5, <1>7, <1>9, <1>10, <1>11, <1>12, Tables, CatalogTypes, EndsStep

\* The slug of a row is nobody else's, nor will it be.
LEMMA SlugIsOwn ==
    ASSUME CatalogInv, NEW i \in Catalog!Id, row[i] # None, NEW j \in Catalog!Table(i) \ {i}
    PROVE  /\ row[j] # None => row[j].slug # row[i].slug
           /\ \A d \in Client : Catalog!Holds(d, j) /\ tx[d].slug # "keep" => tx[d].slug # row[i].slug
<1>1. row[j] # None => row[j].slug # row[i].slug BY CatalogTypes
<1>2. ASSUME NEW d \in Client, Catalog!Holds(d, j), tx[d].slug # "keep" PROVE tx[d].slug # row[i].slug
  <2>1. j \in Catalog!Id /\ i \in Catalog!Table(j) \ {j} BY Tables
  <2>2. Catalog!IndexAllows(d, j, tx[d].slug) BY <1>2, <2>1 DEF CatalogInv, HoldersOK
  <2> QED BY <2>1, <2>2 DEF Catalog!IndexAllows
<1> QED BY <1>1, <1>2

LEMMA CatalogDeleteStep ==
    ASSUME CatalogInv, NEW c \in Client, Catalog!SoftDelete(c)
    PROVE  CatalogInv'
<1>1. tx[c] # Catalog!Idle BY DEF Catalog!SoftDelete
<1> PICK i \in Catalog!Id : i = tx[c].on BY <1>1, RequestTyped
<1> DEFINE new == [row[i] EXCEPT !.deleted = TRUE]
<1>2. /\ row' = [row EXCEPT ![i] = new] /\ tx' = [tx EXCEPT ![c] = Catalog!Idle]
      /\ late' = late \cup {d \in Client : Catalog!At(d, i, {"ready"})}
      /\ UNCHANGED <<images, writes, mixed>> /\ row[i] # None /\ Catalog!RowIsFree(c, i)
  BY DEF Catalog!SoftDelete, Catalog!Matched, Catalog!Live
<1>3. row[i] \in Catalog!Row BY <1>2, CatalogTypes
<1>4. new \in Catalog!Row /\ new.slug = row[i].slug BY <1>3 DEF Catalog!Row
<1> HIDE DEF new
<1>5. \A j \in Catalog!Table(i) \ {i} :
         /\ row[j] # None => row[j].slug # new.slug
         /\ \A d \in Client \ {c} : Catalog!Holds(d, j) /\ tx[d].slug # "keep" => tx[d].slug # new.slug
  BY <1>2, <1>4, SlugIsOwn
<1>6. Catalog!ImagesOfOneRequest' BY <1>2 DEF CatalogInv, Catalog!ImagesOfOneRequest
<1> QED BY <1>2, <1>4, <1>5, <1>6, Tables, CatalogTypes, EndsStep

LEMMA CommitStep ==
    ASSUME CatalogInv, NEW c \in Client, Catalog!Commit(c)
    PROVE  CatalogInv'
<1>1. tx[c] # Catalog!Idle /\ tx[c].kind = "update" /\ tx[c].at = "ready"
  BY DEF Catalog!Commit, Catalog!Updating
<1> PICK i \in Catalog!Id : i = tx[c].on BY <1>1, RequestTyped
<1> PICK new : new = Catalog!Updated(c) OBVIOUS
<1>2. /\ row' = [row EXCEPT ![i] = new] /\ tx' = [tx EXCEPT ![c] = Catalog!Idle] /\ late' = late \ {c}
      /\ UNCHANGED writes
      /\ images' = IF tx[c].new = "keep" THEN images
                   ELSE [images EXCEPT ![i] = (images[i] \ tx[c].target) \cup Catalog!Batch(c)]
      /\ mixed' = IF /\ Catalog!Replacing(c, i)
                     /\ \E d \in Client \ {c} : Catalog!Replacing(d, i) /\ ~(tx[c].fields /\ tx[d].fields)
                  THEN mixed \cup {i} ELSE mixed
  BY DEF Catalog!Commit, Catalog!Ends
<1>3. row[i] # None /\ row[i] \in Catalog!Row /\ (tx[c].new # "keep" => i \in Product)
  BY <1>1, CatalogTypes DEF CatalogInv, WritersOK
<1>4. tx[c].fields => Catalog!Holds(c, i)
  BY <1>1 DEF Catalog!Holds, Catalog!At, Catalog!Place
<1>5. tx[c].fields => /\ Catalog!RowIsFree(c, i)
                      /\ tx[c].slug # "keep" => Catalog!IndexAllows(c, i, tx[c].slug)
  BY <1>4 DEF CatalogInv, HoldersOK
<1>6. /\ new \in Catalog!Row /\ new.deleted = row[i].deleted
      /\ ~tx[c].fields => new = row[i]
      /\ new.slug = row[i].slug \/ (tx[c].fields /\ tx[c].slug # "keep" /\ new.slug = tx[c].slug)
  <2> DEFINE s == IF tx[c].slug = "keep" THEN row[i].slug ELSE tx[c].slug
             k == IF tx[c].category = "keep" THEN row[i].category ELSE tx[c].category
  <2>1. CASE ~tx[c].fields
    <3>1. new = row[i] BY <2>1 DEF Catalog!Updated
    <3> QED BY <1>3, <2>1, <3>1
  <2>2. CASE tx[c].fields
    <3>1. new = [row[i] EXCEPT !.slug = s, !.category = k] BY <2>2 DEF Catalog!Updated
    <3>2. s \in Slug /\ k \in Category \cup {None}
      <4>1. row[i].slug \in Slug /\ row[i].category \in Category \cup {None} BY <1>3 DEF Catalog!Row
      <4> QED BY <1>1, <4>1, RequestTyped
    <3>3. s = row[i].slug \/ (tx[c].slug # "keep" /\ s = tx[c].slug) OBVIOUS
    <3> HIDE DEF s, k
    <3> QED BY <1>3, <2>2, <3>1, <3>2, <3>3 DEF Catalog!Row
  <2> QED BY <2>1, <2>2
<1>7. \A j \in Catalog!Table(i) \ {i} :
         /\ row[j] # None => row[j].slug # new.slug
         /\ \A d \in Client \ {c} : Catalog!Holds(d, j) /\ tx[d].slug # "keep" => tx[d].slug # new.slug
  BY <1>3, <1>5, <1>6, SlugIsOwn DEF Catalog!IndexAllows
<1>8. Catalog!Live(i)' = Catalog!Live(i)
  <2>1. row'[i] = new BY <1>2, CatalogTypes
  <2> QED BY <1>3, <1>6, <2>1, Tables DEF Catalog!Live
<1>9. images' \in [Product -> SUBSET (0..MaxWrites)]
  <2>1. Catalog!Batch(c) \subseteq 0..MaxWrites BY <1>1, RequestTyped DEF Catalog!Batch
  <2> QED BY <1>2, <2>1, CatalogTypes
<1>10. \A p \in Product : p # i \/ tx[c].new = "keep" => images'[p] = images[p]
  BY <1>2, CatalogTypes
<1>11. i \in Product /\ tx[c].new # "keep" =>
          /\ images'[i] = (images[i] \ tx[c].target) \cup Catalog!Batch(c)
          /\ Catalog!Replacing(c, i)
  BY <1>1, <1>2, CatalogTypes DEF Catalog!Replacing, Catalog!At
<1>12. mixed \subseteq mixed' /\ mixed' \subseteq Product
  <2>1. Catalog!Replacing(c, i) => i \in Product BY <1>3 DEF Catalog!Replacing
  <2> QED BY <1>2, <2>1, CatalogTypes
<1>13. ASSUME NEW d \in Client \ {c}, NEW p \in Product \ mixed', Catalog!Replacing(d, p)
       PROVE  images'[p] = images[p]
  <2> SUFFICES ASSUME p = i, tx[c].new # "keep" PROVE FALSE BY <1>10
  <2>1. tx[c].fields /\ tx[d].fields BY <1>2, <1>11, <1>13
  <2>2. Catalog!Holds(d, i) BY <1>13, <2>1 DEF Catalog!Replacing, Catalog!Holds, Catalog!At, Catalog!Place
  <2> QED BY <1>5, <2>1, <2>2 DEF Catalog!RowIsFree
<1>14. Catalog!ImagesOfOneRequest'
  <2>1. ASSUME NEW p \in Product \ mixed' PROVE Catalog!Cardinality(images'[p]) <= 1
    <3>1. p \notin mixed BY <1>12
    <3>2. CASE p # i \/ tx[c].new = "keep"
      BY <1>10, <3>1, <3>2 DEF CatalogInv, Catalog!ImagesOfOneRequest
    <3>3. CASE p = i /\ tx[c].new # "keep"
      <4>1. images[i] \subseteq tx[c].target BY <1>11, <3>1, <3>3 DEF CatalogInv, ImagesOK
      <4>2. images'[i] = Catalog!Batch(c) BY <1>11, <3>3, <4>1
      <4> QED BY <3>3, <4>2, OneBatch
    <3> QED BY <3>2, <3>3
  <2> QED BY <2>1 DEF Catalog!ImagesOfOneRequest
<1>15. late' \subseteq Client /\ late \ {c} \subseteq late' BY <1>2, CatalogTypes
<1>16. new # None BY <1>6, Tables
<1>17. new = row[i] \/ Catalog!RowIsFree(c, i) BY <1>5, <1>6
<1>18. row' = [row EXCEPT ![i] = new] /\ tx' = [tx EXCEPT ![c] = Catalog!Idle] /\ UNCHANGED writes
  BY <1>2
<1>19. \A d \in Client \ {c} : Catalog!At(d, i, {"ready"}) /\ i \in Product =>
          d \in late' \/ Catalog!Live(i)' \/ ~Catalog!Live(i)
  BY <1>8
<1>20. \A d \in Client \ {c}, p \in Product \ mixed' : Catalog!Replacing(d, p) => images'[p] \subseteq images[p]
  BY <1>13
<1>21. new \in Catalog!Row \cup {None} BY <1>6
<1> QED BY <1>7, <1>9, <1>12, <1>14, <1>15, <1>16, <1>17, <1>18, <1>19, <1>20, <1>21, EndsStep

----------------------------------------------------------------------------
(* Catalog: the theorem of one service.                                    *)

LEMMA CatalogStep ==
    ASSUME CatalogInv, NEW c \in Client, Catalog!Step(c)
    PROVE  CatalogInv'
<1>1. CASE Catalog!ImagesDeleted(c)
  <2>1. Catalog!Updating(c, "deleting") /\ Catalog!Goes(c, "deleted") BY <1>1 DEF Catalog!ImagesDeleted
  <2> QED BY <2>1, GoesStep
<1>2. CASE Catalog!AddImages(c)
  <2>1. Catalog!Updating(c, "deleted") /\ Catalog!Goes(c, "added") BY <1>2 DEF Catalog!AddImages
  <2> QED BY <2>1, GoesStep
<1>3. CASE Catalog!Reload(c)
  <2>1. Catalog!Updating(c, "added") /\ Catalog!Goes(c, "ready") /\ Catalog!Reloaded(c)
    BY <1>3 DEF Catalog!Reload
  <2> QED BY <2>1, GoesStep
<1> QED
  BY <1>1, <1>2, <1>3, CatalogCreateStep, CatalogDeleteStep, UpdateRowStep, DeleteImagesStep, CommitStep
  DEF Catalog!Step

LEMMA CatalogStart ==
    ASSUME Catalog!Init
    PROVE  CatalogInv
<1>1. /\ \A i \in Catalog!Id : row[i] = IF i \in DOMAIN Seeded
                                THEN [slug |-> Seeded[i], category |-> None, deleted |-> FALSE] ELSE None
      /\ row = [i \in Catalog!Id |-> row[i]]
      /\ images = [p \in Product |-> IF p \in DOMAIN Seeded THEN {0} ELSE {}]
      /\ tx = [c \in Client |-> Catalog!Idle] /\ writes = 0 /\ mixed = {} /\ late = {}
  BY DEF Catalog!Init
<1>2. MaxWrites \in Nat BY CatalogAssumption DEF Catalog!ConstantsOK
<1>3. \A i \in Catalog!Id : row[i] # None =>
         i \in DOMAIN Seeded /\ row[i] \in Catalog!Row /\ row[i].slug = Seeded[i]
  <2> SUFFICES ASSUME NEW i \in Catalog!Id, i \in DOMAIN Seeded
               PROVE  row[i] \in Catalog!Row /\ row[i].slug = Seeded[i]
    BY <1>1
  <2>1. Seeded[i] \in Slug BY CatalogAssumption DEF Catalog!ConstantsOK
  <2>2. row[i] = [slug |-> Seeded[i], category |-> None, deleted |-> FALSE] BY <1>1
  <2> QED BY <2>1, <2>2 DEF Catalog!Row
<1>4. ASSUME NEW i \in Catalog!Id, NEW j \in Catalog!Table(i) \ {i}, row[i] # None, row[j] # None
      PROVE  row[i].slug # row[j].slug
  <2>1. j \in Catalog!Id /\ (i \in Product <=> j \in Product)
    BY CatalogAssumption DEF Catalog!ConstantsOK, Catalog!Table, Catalog!Id
  <2>2. \A x, y \in DOMAIN Seeded : Seeded[x] = Seeded[y] /\ (x \in Product <=> y \in Product) => x = y
    BY CatalogAssumption DEF Catalog!ConstantsOK
  <2> QED BY <1>3, <1>4, <2>1, <2>2
<1>5. row \in [Catalog!Id -> Catalog!Row \cup {None}] BY <1>1, <1>3
<1>6. Catalog!TypeOK BY <1>1, <1>2, <1>4, <1>5 DEF Catalog!TypeOK
<1>7. \A c \in Client : \A i : ~Catalog!Holds(c, i) /\ ~Catalog!Replacing(c, i) /\ ~Catalog!At(c, i, {"ready"})
  BY <1>1 DEF Catalog!Holds, Catalog!Replacing, Catalog!At
<1>8. HoldersOK /\ WritersOK /\ ImagesOK BY <1>1, <1>7 DEF HoldersOK, WritersOK, ImagesOK
<1>9. Catalog!ImagesOfOneRequest
  <2>1. Cardinality({0}) = 1 /\ Cardinality({}) = 0 BY FS_EmptySet, FS_Singleton
  <2>2. Catalog!Cardinality({0}) = 1 /\ Catalog!Cardinality({}) = 0 BY <2>1, SameCardinality
  <2>3. \A p \in Product : images[p] = {0} \/ images[p] = {} BY <1>1
  <2> QED BY <2>2, <2>3 DEF Catalog!ImagesOfOneRequest
<1> QED BY <1>6, <1>8, <1>9 DEF CatalogInv

LEMMA CatalogStutters ==
    ASSUME CatalogInv, UNCHANGED shop
    PROVE  CatalogInv'
<1>1. UNCHANGED <<row, images, tx, writes, mixed, late>> BY DEF shop
<1>2. /\ \A i : Catalog!Live(i)' = Catalog!Live(i)
      /\ \A c, i : /\ Catalog!Holds(c, i)' = Catalog!Holds(c, i)
                   /\ Catalog!Replacing(c, i)' = Catalog!Replacing(c, i)
                   /\ Catalog!At(c, i, {"ready"})' = Catalog!At(c, i, {"ready"})
  BY <1>1 DEF Catalog!Live, Catalog!Holds, Catalog!Replacing, Catalog!At
<1>3. \A c, i, s : /\ Catalog!RowIsFree(c, i)' = Catalog!RowIsFree(c, i)
                   /\ Catalog!IndexAllows(c, i, s)' = Catalog!IndexAllows(c, i, s)
  BY <1>1, <1>2 DEF Catalog!RowIsFree, Catalog!IndexAllows
<1>4. HoldersOK' BY <1>1, <1>2, <1>3 DEF CatalogInv, HoldersOK
<1>5. WritersOK' BY <1>1 DEF CatalogInv, WritersOK
<1>6. ImagesOK' BY <1>1, <1>2 DEF CatalogInv, ImagesOK
<1>7. Catalog!TypeOK' /\ Catalog!ImagesOfOneRequest'
  BY <1>1 DEF CatalogInv, Catalog!TypeOK, Catalog!ImagesOfOneRequest
<1> QED BY <1>4, <1>5, <1>6, <1>7 DEF CatalogInv

LEMMA CatalogInductive ==
    ASSUME CatalogInv, Catalog!Next \/ UNCHANGED shop
    PROVE  CatalogInv'
BY CatalogAsks, CatalogStep, CatalogFails, CatalogStutters DEF Catalog!Next

\* What DeletedStays says of one step.
KeepsDeleted ==
    \A i \in Catalog!Id : row[i] # None /\ row[i].deleted =>
        /\ row'[i] = row[i]
        /\ i \in Product /\ images'[i] # images[i] => \E c \in late : tx[c].on = i /\ tx'[c] = Catalog!Idle

LEMMA DeletedKept ==
    ASSUME CatalogInv, NEW c \in Client, Catalog!Asks(c) \/ Catalog!Step(c) \/ Catalog!Fails(c)
    PROVE  KeepsDeleted
<1>1. CASE UNCHANGED <<row, images>> BY <1>1 DEF KeepsDeleted
<1>2. CASE Catalog!Create(c)
  <2>1. tx[c] # Catalog!Idle /\ row[tx[c].on] = None BY <1>2 DEF Catalog!Create
  <2> PICK i \in Catalog!Id : i = tx[c].on BY <2>1, RequestTyped
  <2>2. \A j \in Catalog!Id \ {i} : row'[j] = row[j] /\ (j \in Product => images'[j] = images[j])
    BY <1>2, CatalogTypes DEF Catalog!Create
  <2> QED BY <2>1, <2>2 DEF KeepsDeleted
<1>3. CASE Catalog!SoftDelete(c)
  <2>1. tx[c] # Catalog!Idle /\ ~row[tx[c].on].deleted /\ UNCHANGED images
    BY <1>3 DEF Catalog!SoftDelete, Catalog!Matched, Catalog!Live
  <2> PICK i \in Catalog!Id : i = tx[c].on BY <2>1, RequestTyped
  <2>2. \A j \in Catalog!Id \ {i} : row'[j] = row[j] BY <1>3, CatalogTypes DEF Catalog!SoftDelete
  <2> QED BY <2>1, <2>2 DEF KeepsDeleted
<1>4. CASE Catalog!Commit(c)
  <2>1. tx[c] # Catalog!Idle /\ tx[c].at = "ready" BY <1>4 DEF Catalog!Commit, Catalog!Updating
  <2> PICK i \in Catalog!Id : i = tx[c].on BY <2>1, RequestTyped
  <2>2. \A j \in Catalog!Id \ {i} : row'[j] = row[j] /\ (j \in Product => images'[j] = images[j])
    BY <1>4, CatalogTypes DEF Catalog!Commit
  <2>3. ASSUME row[i] # None, row[i].deleted
        PROVE  row'[i] = row[i] /\ (i \in Product => c \in late)
    <3>1. ~Catalog!Live(i) BY <2>3 DEF Catalog!Live
    <3>2. Catalog!At(c, i, {"ready"}) BY <2>1 DEF Catalog!At
    <3>3. ~tx[c].fields
      <4>1. tx[c].fields => Catalog!Holds(c, i) BY <2>1 DEF Catalog!Holds, Catalog!At, Catalog!Place
      <4> QED BY <3>1, <4>1 DEF CatalogInv, HoldersOK
    <3>4. row'[i] = row[i] BY <1>4, <3>3, CatalogTypes DEF Catalog!Commit, Catalog!Updated
    <3> QED BY <3>1, <3>2, <3>4 DEF CatalogInv, ImagesOK
  <2>4. tx'[c] = Catalog!Idle BY <1>4, CatalogTypes DEF Catalog!Commit, Catalog!Ends
  <2> QED BY <2>2, <2>3, <2>4 DEF KeepsDeleted
<1>5. Catalog!Create(c) \/ Catalog!SoftDelete(c) \/ Catalog!Commit(c) \/ UNCHANGED <<row, images>>
  BY DEF Catalog!Asks, Catalog!Step, Catalog!Fails, Catalog!CreateCheck, Catalog!UpdateCheck,
         Catalog!DeleteCheck, Catalog!Begins, Catalog!UpdateRow, Catalog!DeleteImages,
         Catalog!ImagesDeleted, Catalog!AddImages, Catalog!Reload, Catalog!Goes
<1> QED BY <1>1, <1>2, <1>3, <1>4, <1>5

----------------------------------------------------------------------------
(* Both services.                                                          *)

\* Both invariants are inductive, one service at a time.
THEOREM ServicesInductive == ServicesSpec => [](MembersInv /\ CatalogInv)
<1>1. ServicesInit => MembersInv /\ CatalogInv BY WorkspaceInductive, CatalogStart DEF ServicesInit
<1>2. MembersInv /\ CatalogInv /\ [ServicesNext]_<<vars, shop>> => MembersInv' /\ CatalogInv'
  BY WorkspaceInductive, CatalogInductive DEF ServicesNext
<1> QED BY <1>1, <1>2, PTL DEF ServicesSpec

\* Every variable of both services has its type: no two workspaces and no two rows of one
\* table share a slug, deleted ones included, and members have a workspace (workspace/models.py
\* and product/models.py, the unique indexes).
THEOREM TypesCorrect == ServicesSpec => []ServicesTypeOK
<1>1. MembersInv /\ CatalogInv => ServicesTypeOK BY DEF MembersInv, CatalogInv, ServicesTypeOK
<1> QED BY <1>1, ServicesInductive, PTL

\* A workspace keeps an owner and its limit of members, however many users add, change and
\* remove members at once, unless a write had been overtaken (services.py 8-9).
THEOREM WorkspacesAreOwned == ServicesSpec => []OwnersStay
<1>1. MembersInv => OwnersStay BY DEF MembersInv
<1> QED BY <1>1, ServicesInductive, PTL

\* The images of a product are those of one request, whatever other administrators replace
\* meanwhile, unless one of two at once did not hold the product's row (schemas.py 113-117).
THEOREM OneImageSet == ServicesSpec => []ImagesOfOneRequest
<1>1. CatalogInv => ImagesOfOneRequest BY DEF CatalogInv, ImagesOfOneRequest
<1> QED BY <1>1, ServicesInductive, PTL

\* No step changes a deleted product or category, nor its images, except for a commit whose
\* reload came before the deletion (services.py 256, 273-275).
THEOREM DeletedRowsStay == ServicesSpec => DeletedStays
<1>1. MembersInv /\ CatalogInv /\ [ServicesNext]_<<vars, shop>> => [KeepsDeleted]_shop
  BY DeletedKept DEF ServicesNext, Catalog!Next
<1> QED BY <1>1, ServicesInductive, PTL DEF ServicesSpec, DeletedStays, Catalog!DeletedStays, KeepsDeleted, shop,
                                         Catalog!vars

=============================================================================
