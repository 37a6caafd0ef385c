------------------------------ MODULE Workspace ------------------------------
(***************************************************************************)
(* Workspaces and their members: the requests of apps/workspace, the gate  *)
(* that every request of a workspace passes (dependencies.py), and the     *)
(* unique indexes and foreign keys behind them.                            *)
(*                                                                         *)
(* A request reads at the gate and again in the service, each time what is *)
(* committed, and locks nothing until its one write.  That write holds its *)
(* row until the commit, so the two are one step; between the reads and    *)
(* that step anything may happen.                                          *)
(***************************************************************************)
EXTENDS Naturals, FiniteSets

CONSTANTS
    User,         \* one request at a time each
    Space,        \* identifiers of workspaces
    Slug, Reserved,
    None,         \* no row
    MaxMembers,   \* WORKSPACE_MAX_MEMBERS
    MaxRequests   \* bound on requests

ASSUME ConstAssumption ==
    /\ IsFiniteSet(User) /\ IsFiniteSet(Space) /\ IsFiniteSet(Slug)
    /\ Reserved \subseteq Slug /\ None \notin User \cup Space \cup Slug
    /\ MaxMembers \in Nat \ {0} /\ MaxRequests \in Nat

VARIABLES
    space,     \* workspaces: None, or the slug, who created it and whether it is deleted
    role,      \* workspace_members: the role of each user in each workspace, or None
    anonymous, \* the workspaces that allow anonymous comments
    req,       \* what each user's request is doing
    requests,
    overtaken, \* observer: requests whose count or look-up a commit has outdated
    crossed    \* observer: workspaces that such a request wrote to

vars == <<space, role, anonymous, req, requests, overtaken, crossed>>

Role == {"owner", "editor", "viewer", "commenter"}
Row == [slug : Slug, by : User, deleted : BOOLEAN]

ASSUME NoneAssumption == None \notin Row \cup Role

Kind == {"create", "configure", "delete", "add", "change", "remove"}
Request == [kind : Kind, at : {"admitted", "checked", "lost"}, on : Space, slug : Slug \cup {None},
            who : User, role : Role \cup {None}]
Idle == [kind |-> "none", at |-> "idle", on |-> None, slug |-> None, who |-> None, role |-> None]

Init ==
    /\ space = [w \in Space |-> None]
    /\ role = [w \in Space |-> [u \in User |-> None]]
    /\ anonymous = {}
    /\ req = [u \in User |-> Idle] /\ requests = 0
    /\ overtaken = {} /\ crossed = {}

----------------------------------------------------------------------------
(* What the statements see.                                                *)

Live(w) == space[w] # None /\ ~space[w].deleted
Members(w) == {u \in User : role[w][u] # None}
Owners(w) == {u \in User : role[w][u] = "owner"}

\* ensure_slug_available looks at live workspaces, the unique index at all of them.
Takes(s) == {w \in Space : Live(w) /\ space[w].slug = s}
Indexed(s) == {w \in Space : space[w] # None /\ space[w].slug = s}

\* list_for_user and list_members.
WorkspacesOf(u) == {w \in Space : Live(w) /\ u \in Members(w)}
MembersPage(w, roles) == {u \in Members(w) : role[w][u] \in roles}

\* require_workspace_member, require_workspace_role.
IsMember(u, w) == w \in WorkspacesOf(u)
HasRole(u, w, allowed) == Live(w) /\ u \in MembersPage(w, allowed)

----------------------------------------------------------------------------
(* Bookkeeping of requests.                                                *)

Admitted(u, r) ==
    /\ requests' = requests + 1
    /\ req' = [req EXCEPT ![u] = r]
    /\ UNCHANGED <<space, role, anonymous, overtaken, crossed>>

Checks(u) ==
    /\ req' = [req EXCEPT ![u].at = "checked"]
    /\ UNCHANGED <<space, role, anonymous, requests, overtaken, crossed>>

Ends(u) == req' = [req EXCEPT ![u] = Idle]

Checked(w, kinds) == {v \in User : req[v].at = "checked" /\ req[v].on = w /\ req[v].kind \in kinds}

\* What others have counted is outdated: the members, or the owners.
Outdates(u, w, is) ==
    LET was == role[w][req[u].who]
        counts == (IF was = None THEN {"add"} ELSE {}) \cup
                  (IF was = "owner" /\ is # "owner" THEN {"change", "remove"} ELSE {})
    IN overtaken' = (overtaken \cup Checked(w, counts)) \ {u}

\* One INSERT, UPDATE or DELETE of a membership, and the commit.  A deleted row is lost to
\* those who hold its id, also when the user is added again.
Writes(u, w, is) ==
    /\ role' = [role EXCEPT ![w][req[u].who] = is]
    /\ Outdates(u, w, is)
    /\ crossed' = IF u \in overtaken THEN crossed \cup {w} ELSE crossed
    /\ req' = [v \in User |->
                 IF v = u THEN Idle
                 ELSE IF is = None /\ v \in Checked(w, {"change", "remove"}) /\ req[v].who = req[u].who
                      THEN [req[v] EXCEPT !.at = "lost"] ELSE req[v]]
    /\ UNCHANGED <<space, anonymous, requests>>

----------------------------------------------------------------------------
(* Workspaces.                                                             *)

CreateCheck(u, w, s) ==
    /\ s \notin Reserved /\ Takes(s) = {}
    /\ Admitted(u, [Idle EXCEPT !.kind = "create", !.at = "checked", !.on = w, !.slug = s, !.who = u])

\* Faulty variant: the caller is not seated.
BootstrapNobody(u, w) == role

Bootstrap(u, w) == [role EXCEPT ![w][u] = "owner"]

\* Faulty variant: the index covers live workspaces only.
IndexAllowsDeleted(s) == Takes(s) = {}

\* The unique index.
IndexAllows(s) == Indexed(s) = {}

\* Workspace and bootstrap membership in one transaction.
Create(u) ==
    LET w == req[u].on IN
    /\ req[u].kind = "create" /\ space[w] = None /\ IndexAllows(req[u].slug)
    /\ space' = [space EXCEPT ![w] = [slug |-> req[u].slug, by |-> u, deleted |-> FALSE]]
    /\ role' = Bootstrap(u, w)
    /\ Ends(u)
    /\ UNCHANGED <<anonymous, requests, overtaken, crossed>>

\* The gate of every request that only owners may make.
OwnerRequest(u, k, w, v, r) ==
    /\ HasRole(u, w, {"owner"})
    /\ Admitted(u, [Idle EXCEPT !.kind = k, !.at = "admitted", !.on = w, !.who = v, !.role = r])

\* find_or_raise, then the UPDATE by id: a workspace deleted meanwhile has no row.
FindWorkspace(u) ==
    /\ req[u].at = "admitted" /\ req[u].kind \in {"configure", "delete"}
    /\ Live(req[u].on)
    /\ Checks(u)

Configure(u) ==
    /\ req[u].kind = "configure" /\ req[u].at = "checked" /\ Live(req[u].on)
    /\ anonymous' \in {anonymous \cup {req[u].on}, anonymous \ {req[u].on}}
    /\ Ends(u)
    /\ UNCHANGED <<space, role, requests, overtaken, crossed>>

SoftDelete(u) ==
    /\ req[u].kind = "delete" /\ req[u].at = "checked" /\ Live(req[u].on)
    /\ space' = [space EXCEPT ![req[u].on].deleted = TRUE]
    /\ Ends(u)
    /\ UNCHANGED <<role, anonymous, requests, overtaken, crossed>>

----------------------------------------------------------------------------
(* Members.                                                                *)

AddCheck(u) ==
    LET w == req[u].on IN
    /\ req[u].kind = "add" /\ req[u].at = "admitted" /\ Live(w)
    /\ req[u].who \notin Members(w) /\ Cardinality(Members(w)) < MaxMembers
    /\ Checks(u)

\* The unique index on workspace and user refuses a second row.
AddMember(u) ==
    LET w == req[u].on IN
    /\ req[u].kind = "add" /\ req[u].at = "checked" /\ req[u].who \notin Members(w)
    /\ Writes(u, w, req[u].role)

\* Faulty variant: one owner left is enough to let an owner go.
KeepsAnOwnerOffByOne(w) == Cardinality(Owners(w)) > 0

\* count_owners: the workspace keeps an owner without this one.
KeepsAnOwner(w) == Cardinality(Owners(w)) > 1

ChangeCheck(u) ==
    LET w == req[u].on  is == role[w][req[u].who] IN
    /\ req[u].kind = "change" /\ req[u].at = "admitted"
    /\ is \notin {None, req[u].role}
    /\ is = "owner" => KeepsAnOwner(w)
    /\ Checks(u)

RemoveCheck(u) ==
    LET w == req[u].on  is == role[w][req[u].who] IN
    /\ req[u].kind = "remove" /\ req[u].at = "admitted"
    /\ is # None
    /\ is = "owner" => KeepsAnOwner(w)
    /\ Checks(u)

\* UPDATE by id, whatever the role has become meanwhile.
ChangeRole(u) ==
    LET w == req[u].on IN
    /\ req[u].kind = "change" /\ req[u].at = "checked"
    /\ Writes(u, w, req[u].role)

\* DELETE by id.
RemoveMember(u) ==
    /\ req[u].kind = "remove" /\ req[u].at = "checked"
    /\ Writes(u, req[u].on, None)

\* Refused, not found, a row lost, or an index that was violated: rolled back.
Fails(u) ==
    /\ req[u] # Idle /\ Ends(u)
    /\ overtaken' = overtaken \ {u}
    /\ UNCHANGED <<space, role, anonymous, requests, crossed>>

----------------------------------------------------------------------------
Asks(u) ==
    /\ req[u] = Idle /\ requests < MaxRequests
    /\ \E w \in Space :
           \/ \E s \in Slug : CreateCheck(u, w, s)
           \/ \E k \in {"configure", "delete"} : OwnerRequest(u, k, w, u, None)
           \/ \E v \in User : \/ OwnerRequest(u, "remove", w, v, None)
                              \/ \E k \in {"add", "change"}, r \in Role : OwnerRequest(u, k, w, v, r)

Step(u) ==
    \/ FindWorkspace(u) \/ AddCheck(u) \/ ChangeCheck(u) \/ RemoveCheck(u)
    \/ Create(u) \/ Configure(u) \/ SoftDelete(u)
    \/ AddMember(u) \/ ChangeRole(u) \/ RemoveMember(u)

Next == \E u \in User : Asks(u) \/ Step(u) \/ Fails(u)

Spec == Init /\ [][Next]_vars

----------------------------------------------------------------------------
(* Properties.                                                             *)

\* Every variable has its type, slugs are unique over live and deleted workspaces, and
\* there are members of existing workspaces only.
TypeOK ==
    /\ space \in [Space -> Row \cup {None}]
    /\ role \in [Space -> [User -> Role \cup {None}]]
    /\ anonymous \subseteq Space
    /\ req \in [User -> Request \cup {Idle}] /\ requests \in 0..MaxRequests
    /\ overtaken \subseteq User /\ crossed \subseteq Space
    /\ \A s \in Slug : Cardinality(Indexed(s)) <= 1
    /\ \A w \in Space : Members(w) # {} => space[w] # None

\* services.py 8-9: "every workspace must keep at least one owner", also a deleted one,
\* and no more members than the limit, unless two requests crossed there.
OwnersStay ==
    \A w \in Space : space[w] # None /\ w \notin crossed =>
        Owners(w) # {} /\ Cardinality(Members(w)) <= MaxMembers
=============================================================================
