-------------------------------- MODULE Rbac --------------------------------
(***************************************************************************)
(* Who may do what: the rows that say so (roles of users, one group with   *)
(* its members and roles, the permission of a role, grants on one object), *)
(* the Casbin rules that are stored next to them (apps/rbac/services) and  *)
(* the copy of the rules that each worker enforces (enforcer.py).          *)
(*                                                                         *)
(* Rows and rules are written by different sessions.  A request commits    *)
(* its row first and writes the rules then, unless its session is already  *)
(* in a transaction, for instance because the user was not in the cache:   *)
(* then the rules are stored first and the row is committed at the end.    *)
(***************************************************************************)
EXTENDS Naturals, FiniteSets

CONSTANTS
    Client,       \* administrators, with one request at a time each
    Worker,       \* processes with an enforcer of their own
    Home,         \* the worker that serves a client
    Members,      \* the members of the group at the start
    Roles,        \* and its roles
    Own,          \* <<user, role>>: the roles that users have of their own at the start
    MaxUsers,     \* users are numbered, in the order of their ids
    MaxRoles,
    BatchSize,    \* RBAC_GROUP_ROLE_FANOUT_BATCH_SIZE
    MaxRequests,  \* bound on requests
    MaxFaults     \* bound on faults

ASSUME ConstAssumption ==
    /\ IsFiniteSet(Client) /\ IsFiniteSet(Worker) /\ Home \in [Client -> Worker]
    /\ {MaxUsers, MaxRoles, MaxRequests, MaxFaults} \subseteq Nat
    /\ BatchSize \in Nat \ {0} /\ Members \subseteq 1..MaxUsers /\ Roles \subseteq 1..MaxRoles
    /\ Own \subseteq (1..MaxUsers) \X (1..MaxRoles)

VARIABLES
    rows,      \* the committed rows
    stored,    \* casbin_rule
    mem,       \* the rules in each worker's memory
    load,      \* what a worker's load_policy has read
    req,       \* what each client's request is doing
    requests,
    faults,
    failed,    \* observer: rules that a fault was about; each is logged or raised
    crossed,   \* observer: rules two requests were about at once, or a page missed
    refused    \* observer: rules that stayed as they were because Casbin answered False

vars == <<rows, stored, mem, load, req, requests, faults, failed, crossed, refused>>

User == 1..MaxUsers
Role == 1..MaxRoles

UserRole(u, r) == <<"user", u, r>>
UserGroup(u) == <<"member", u, 0>>
GroupRole(r) == <<"group", 0, r>>
RolePermission(r) == <<"permission", 0, r>>
ObjectPermission(u) == <<"object", u, 0>>
Row == {UserRole(u, r) : u \in User, r \in Role} \cup {UserGroup(u) : u \in User}
       \cup {GroupRole(r) : r \in Role} \cup {RolePermission(r) : r \in Role}
       \cup {ObjectPermission(u) : u \in User}

IsUser(u, r) == <<"g", u, r>>
MayAct(r) == <<"p", 0, r>>
MayActOn(u) == <<"o", u, 0>>
Rule == {IsUser(u, r) : u \in User, r \in Role} \cup {MayAct(r) : r \in Role}
        \cup {MayActOn(u) : u \in User}

\* The rules that a row is a reason for, given all rows.
Rules(row, all) ==
    CASE row[1] = "user" -> {IsUser(row[2], row[3])}
      [] row[1] = "member" -> {IsUser(row[2], r) : r \in {r \in Role : GroupRole(r) \in all}}
      [] row[1] = "group" -> {IsUser(u, row[3]) : u \in {u \in User : UserGroup(u) \in all}}
      [] row[1] = "permission" -> {MayAct(row[3])}
      [] row[1] = "object" -> {MayActOn(row[2])}

Scope(row) == Rules(row, Row)
Backed == UNION {Rules(row, rows) : row \in rows}

Kind == {"grant", "revoke", "seed"}
Place == {"inserted", "listed", "committed", "storing", "synced", "undo"}
Request == [kind : Kind, at : Place, row : Row, ambient : BOOLEAN,
            rules : SUBSET Rule, offset : 0..MaxUsers + BatchSize]
Idle == [kind |-> "none", at |-> "idle", row |-> UserGroup(0), ambient |-> FALSE,
         rules |-> {}, offset |-> 0]

\* The group may have members and roles, and users roles of their own, with their rules.
\* Every worker starts with load_policy.
Init ==
    /\ rows = {UserGroup(u) : u \in Members} \cup {GroupRole(r) : r \in Roles}
              \cup {UserRole(o[1], o[2]) : o \in Own}
    /\ stored = {IsUser(u, r) : u \in Members, r \in Roles} \cup {IsUser(o[1], o[2]) : o \in Own}
    /\ mem = [w \in Worker |-> stored]
    /\ load = [w \in Worker |-> [on |-> FALSE, rules |-> {}]]
    /\ req = [a \in Client |-> Idle]
    /\ requests = 0 /\ faults = 0
    /\ failed = {} /\ crossed = {} /\ refused = {}

----------------------------------------------------------------------------
(* The questions.                                                          *)

\* The matcher of rbac_model.conf for the type.
Check(rules, u) == \E r \in Role : {IsUser(u, r), MayAct(r)} \subseteq rules

\* The owner, then the grant on the object, then the type.
CheckObject(rules, u, owner) == u = owner \/ MayActOn(u) \in rules \/ Check(rules, u)

----------------------------------------------------------------------------
(* The row.                                                                *)

Busy == {a \in Client : req[a] # Idle}

\* The row of a request that is not committed yet: the unique index makes a second INSERT,
\* and the row lock a second DELETE, wait for the first one's transaction.
Pending(row) ==
    \E a \in Busy : /\ req[a].row = row
                    /\ req[a].at \in {"inserted", "listed"}
                       \/ (req[a].ambient /\ req[a].at \in {"storing", "synced"})

Goes(a, r) == req' = [req EXCEPT ![a] = r]
Ends(a) == Goes(a, Idle)

\* assign_role_to_user and the seeder are one transaction, sync included.
OneTransaction(kind, row) == row[1] = "user" \/ kind = "seed"

Begins(a, kind, row, ambient, at, rules) ==
    /\ req[a] = Idle /\ requests < MaxRequests /\ requests' = requests + 1
    /\ ~Pending(row) /\ OneTransaction(kind, row) => ambient
    /\ Goes(a, [Idle EXCEPT !.kind = kind, !.at = at, !.row = row, !.ambient = ambient,
                            !.rules = rules])
    /\ crossed' = crossed \cup (Scope(row) \cap UNION {Scope(req[b].row) : b \in Busy})
    /\ UNCHANGED <<rows, stored, mem, load, faults, failed, refused>>

\* The INSERT; the rules of a user, a permission and an object follow from the row alone.
Insert(a, row, ambient) ==
    /\ row \notin rows
    /\ IF row[1] \in {"member", "group"} THEN Begins(a, "grant", row, ambient, "inserted", {})
       ELSE Begins(a, "grant", row, ambient, "listed", Scope(row))

\* ON CONFLICT DO NOTHING: the seeder goes on to the rule when the row is there, too.
Seed(a, row) ==
    /\ row[1] = "permission"
    /\ Begins(a, "seed", row, TRUE, "listed", Scope(row))

\* The DELETE of a revocation.
DeleteGrant(a, row, ambient) ==
    /\ row[1] = "object" /\ row \in rows
    /\ Begins(a, "revoke", row, ambient, "listed", Scope(row))

\* The roles of the group, in one SELECT.
ListRoles(a) ==
    /\ req[a].at = "inserted" /\ req[a].row[1] = "member"
    /\ Goes(a, [req[a] EXCEPT !.at = "listed", !.rules = Rules(req[a].row, rows)])
    /\ UNCHANGED <<rows, stored, mem, load, requests, faults, failed, crossed, refused>>

\* list_active_user_ids, ordered by the id.
Active == {u \in User : UserGroup(u) \in rows}
Position(u) == Cardinality({v \in Active : v <= u})
Batch(offset) == {u \in Active : offset < Position(u) /\ Position(u) <= offset + BatchSize}

\* Faulty variant: a full batch is taken for the last one.
IsLastFull(batch) == Cardinality(batch) <= BatchSize

IsLast(batch) == Cardinality(batch) < BatchSize

ListBatch(a) ==
    LET batch == Batch(req[a].offset) IN
    /\ req[a].at = "inserted" /\ req[a].row[1] = "group"
    /\ Goes(a, [req[a] EXCEPT !.rules = @ \cup {IsUser(u, req[a].row[3]) : u \in batch},
                              !.offset = IF IsLast(batch) THEN 0 ELSE @ + BatchSize,
                              !.at = IF IsLast(batch) THEN "listed" ELSE "inserted"])
    /\ UNCHANGED <<rows, stored, mem, load, requests, faults, failed, crossed, refused>>

\* Rolled back before any rule was written.
Abort(a) ==
    /\ req[a].at \in {"inserted", "listed"}
    /\ Ends(a)
    /\ UNCHANGED <<rows, stored, mem, load, requests, faults, failed, crossed, refused>>

Committed(a) == IF req[a].kind = "revoke" THEN rows \ {req[a].row} ELSE rows \cup {req[a].row}

CommitRow(a) ==
    /\ req[a].at = "listed" /\ ~req[a].ambient
    /\ rows' = Committed(a)
    /\ Goes(a, [req[a] EXCEPT !.at = "committed"])
    /\ UNCHANGED <<stored, mem, load, requests, faults, failed, crossed, refused>>

----------------------------------------------------------------------------
(* The rules.  Casbin changes the memory of its worker first, and goes on to  *)
(* the table only if that changed anything.                                *)

\* A transaction that is still open is committed at the end of the request.
Synced(a) == IF req[a].ambient THEN Goes(a, [req[a] EXCEPT !.at = "synced"]) ELSE Ends(a)

MaySync(a) == req[a].at = "committed" \/ (req[a].at = "listed" /\ req[a].ambient)

AddToMemory(a) ==
    LET w == Home[a] IN
    /\ MaySync(a) /\ req[a].kind # "revoke"
    /\ req[a].rules # {} /\ req[a].rules \cap mem[w] = {}
    /\ mem' = [mem EXCEPT ![w] = @ \cup req[a].rules]
    /\ Goes(a, [req[a] EXCEPT !.at = "storing"])
    /\ UNCHANGED <<rows, stored, load, requests, faults, failed, crossed, refused>>

RemoveFromMemory(a) ==
    LET w == Home[a] IN
    /\ MaySync(a) /\ req[a].kind = "revoke" /\ req[a].rules \subseteq mem[w]
    /\ mem' = [mem EXCEPT ![w] = @ \ req[a].rules]
    /\ Goes(a, [req[a] EXCEPT !.at = "storing"])
    /\ UNCHANGED <<rows, stored, load, requests, faults, failed, crossed, refused>>

\* Nothing to do; or Casbin answers False, which the services do not look at: a rule of
\* the batch is in memory already, or the one to remove is not.
NotWritten(a) ==
    LET w == Home[a] IN
    /\ MaySync(a)
    /\ IF req[a].kind = "revoke" THEN ~req[a].rules \subseteq mem[w]
       ELSE req[a].rules = {} \/ req[a].rules \cap mem[w] # {}
    /\ refused' = refused \cup IF req[a].kind = "revoke" THEN req[a].rules
                               ELSE req[a].rules \ stored
    /\ Synced(a)
    /\ UNCHANGED <<rows, stored, mem, load, requests, faults, failed, crossed>>

\* Faulty variant: a revocation changes the memory only.
StoredWithoutRemoval(a) == IF req[a].kind = "revoke" THEN stored ELSE stored \cup req[a].rules

Stored(a) == IF req[a].kind = "revoke" THEN stored \ req[a].rules ELSE stored \cup req[a].rules

StoreRules(a) ==
    /\ req[a].at = "storing"
    /\ stored' = Stored(a)
    /\ Synced(a)
    /\ UNCHANGED <<rows, mem, load, requests, faults, failed, crossed, refused>>

CommitLast(a) ==
    /\ req[a].at = "synced"
    /\ rows' = Committed(a)
    /\ Ends(a)
    /\ UNCHANGED <<stored, mem, load, requests, faults, failed, crossed, refused>>

----------------------------------------------------------------------------
(* Faults and compensation.                                                *)

Fault == faults < MaxFaults /\ faults' = faults + 1

\* The adapter raises.  A grant that was committed before is compensated; a revocation and
\* what is one transaction raise, which rolls back what is not committed.
StoreFails(a) ==
    /\ req[a].at = "storing" /\ Fault
    /\ failed' = failed \cup Scope(req[a].row)
    /\ IF req[a].kind = "revoke" \/ OneTransaction(req[a].kind, req[a].row) THEN Ends(a)
       ELSE Goes(a, [req[a] EXCEPT !.at = "undo"])
    /\ UNCHANGED <<rows, stored, mem, load, requests, crossed, refused>>

\* The row of a grant is deleted, or stays and the drift is reported; one that is not
\* committed yet goes with its transaction.
WithoutRow(a) == IF req[a].ambient THEN {rows} ELSE {rows, rows \ {req[a].row}}

\* A member that goes moves the others up: with OFFSET, the next page begins after the one
\* who moves to the end of the last.
Missed(u) ==
    {rule \in Rule : \E b \in Client, v \in Active :
        /\ req[b].at = "inserted" /\ req[b].row[1] = "group"
        /\ u < v /\ Position(v) = req[b].offset + 1
        /\ rule = IsUser(v, req[b].row[3])}

\* _best_effort_remove_grouping_policies, then the row, each step of which may fail.
Compensate(a) ==
    LET w == Home[a]
        undone == IF req[a].row[1] \in {"member", "group"} THEN req[a].rules ELSE {}
    IN
    /\ req[a].at = "undo"
    /\ \E these \in SUBSET (undone \cap mem[w]) :
         /\ mem' = [mem EXCEPT ![w] = @ \ these]
         /\ stored' \in {stored, stored \ these}
    /\ rows' \in WithoutRow(a)
    /\ crossed' = IF rows' # rows /\ req[a].row[1] = "member"
                  THEN crossed \cup Missed(req[a].row[2]) ELSE crossed
    /\ Ends(a)
    /\ UNCHANGED <<load, requests, faults, failed, refused>>

\* The commit after the rules were stored fails.
CommitFails(a) ==
    /\ req[a].at = "synced" /\ Fault
    /\ failed' = failed \cup req[a].rules
    /\ Ends(a)
    /\ UNCHANGED <<rows, stored, mem, load, requests, crossed, refused>>

\* The worker dies and starts again.
Crash(w) ==
    LET its == {a \in Busy : Home[a] = w} IN
    /\ Fault
    /\ failed' = failed \cup UNION {Scope(req[a].row) : a \in its}
    /\ req' = [a \in Client |-> IF a \in its THEN Idle ELSE req[a]]
    /\ mem' = [mem EXCEPT ![w] = stored]
    /\ load' = [load EXCEPT ![w] = [on |-> FALSE, rules |-> {}]]
    /\ UNCHANGED <<rows, stored, requests, crossed, refused>>

----------------------------------------------------------------------------
(* The heartbeat, and the watcher's messages as far as they arrive.        *)

LoadBegins(w) ==
    /\ ~load[w].on
    /\ load' = [load EXCEPT ![w] = [on |-> TRUE, rules |-> stored]]
    /\ UNCHANGED <<rows, stored, mem, req, requests, faults, failed, crossed, refused>>

\* Faulty variant: the memory is not cleared before the rules are loaded.
LoadedOver(w) == mem[w] \cup load[w].rules

Loaded(w) == load[w].rules

LoadEnds(w) ==
    /\ load[w].on
    /\ mem' = [mem EXCEPT ![w] = Loaded(w)]
    /\ load' = [load EXCEPT ![w] = [on |-> FALSE, rules |-> {}]]
    /\ UNCHANGED <<rows, stored, req, requests, faults, failed, crossed, refused>>

\* An exception ends the tick, not the loop.
LoadFails(w) ==
    /\ load[w].on /\ Fault
    /\ load' = [load EXCEPT ![w] = [on |-> FALSE, rules |-> {}]]
    /\ UNCHANGED <<rows, stored, mem, req, requests, failed, crossed, refused>>

----------------------------------------------------------------------------
Step(a) ==
    \/ ListRoles(a) \/ ListBatch(a) \/ Abort(a) \/ CommitRow(a)
    \/ AddToMemory(a) \/ RemoveFromMemory(a) \/ NotWritten(a)
    \/ StoreRules(a) \/ CommitLast(a) \/ Compensate(a)

Next ==
    \/ \E a \in Client : Step(a) \/ StoreFails(a) \/ CommitFails(a)
    \/ \E a \in Client, row \in Row :
         \/ Seed(a, row)
         \/ \E ambient \in BOOLEAN : Insert(a, row, ambient) \/ DeleteGrant(a, row, ambient)
    \/ \E w \in Worker : LoadBegins(w) \/ LoadEnds(w) \/ LoadFails(w) \/ Crash(w)

Spec == Init /\ [][Next]_vars

\* A request that was begun goes on; the heartbeat ticks for ever.
Fairness ==
    /\ \A a \in Client : WF_vars(Step(a))
    /\ \A w \in Worker : WF_vars(LoadBegins(w)) /\ WF_vars(LoadEnds(w))

FairSpec == Spec /\ Fairness

----------------------------------------------------------------------------
(* Properties.                                                             *)

\* Every variable has its type.
TypeOK ==
    /\ rows \subseteq Row /\ {stored, failed, crossed, refused} \subseteq SUBSET Rule
    /\ mem \in [Worker -> SUBSET Rule] /\ load \in [Worker -> [on : BOOLEAN, rules : SUBSET Rule]]
    /\ req \in [Client -> Request \cup {Idle}]
    /\ requests \in 0..MaxRequests /\ faults \in 0..MaxFaults

UnderWay == UNION {Scope(req[a].row) : a \in Busy}

\* services/__init__.py 48-55: what is stored has a row behind it, a request that is still
\* at it, or a failure that was reported.  Only a grant on an object, which can be revoked,
\* is lost sight of, without a log: when a revocation meets the grant, or when Casbin
\* refuses it on a worker that does not know the rule yet.
GrantsAreBacked ==
    stored \subseteq Backed \cup UnderWay \cup failed
                     \cup ((crossed \cup refused) \cap {MayActOn(u) : u \in User})

\* services/__init__.py 20-25: every row has its rules stored, however many pages the
\* members fill, unless a request is still at it, a failure was reported, two requests met
\* or a page missed a member.  For a role that a user has directly and for a permission
\* this is so whatever Casbin refused before.  What a membership, a role of the group or a
\* grant on an object gives may also be refused, with no other request near, no fault and
\* no log: Casbin drops the whole batch if the worker knows one rule of it, as it does
\* when the user has one of the roles already, or a revocation has not reached it.
RowsAreEnforced ==
    \A row \in rows : \A rule \in Rules(row, rows) :
        \/ rule \in stored \cup UnderWay \cup failed \cup crossed
        \/ row[1] \notin {"user", "permission"} /\ rule \in refused

\* enforcer.py 253-256: in the end every worker answers every question as the stored
\* rules do, though messages were lost, loads failed and rules changed during a load.
EnforcersConverge ==
    <>[](\A w \in Worker, u \in User :
            /\ Check(mem[w], u) = Check(stored, u)
            /\ CheckObject(mem[w], u, 0) = CheckObject(stored, u, 0))
=============================================================================
