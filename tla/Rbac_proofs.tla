------------------------------ MODULE Rbac_proofs ------------------------------
(***************************************************************************)
(* Theorems about Rbac, for every number of administrators, workers,       *)
(* users, roles, requests and faults, and every size of a page: what is    *)
(* stored has a row, and every row is enforced.                            *)
(***************************************************************************)
EXTENDS Rbac, TLAPS, FiniteSetTheorems, WellFoundedInduction

----------------------------------------------------------------------------
(* The inductive invariant, request by request.                            *)

Objects == {MayActOn(u) : u \in User}
Grants(a) == req[a].kind \in {"grant", "seed"}

\* What a request may look like where it is.
ShapeOK(a) ==
    LET r == req[a] IN
    /\ r.kind = "revoke" => r.row[1] = "object"
    /\ r.at = "inserted" => r.kind = "grant" /\ r.row[1] \in {"member", "group"}
    /\ r.at = "committed" => ~r.ambient
    /\ r.at = "synced" => r.ambient
    /\ r.at = "undo" => Scope(r.row) \subseteq failed
    /\ r.rules \subseteq Scope(r.row)
    /\ r.kind # "none" /\ r.row[1] \notin {"member", "group"} => r.rules = Scope(r.row)

\* The rules of a grant are those its row is a reason for: no more, and, once they are
\* listed, no less.
ListOK(a) ==
    LET r == req[a] IN
    Grants(a) =>
        /\ r.rules \subseteq Rules(r.row, rows) \cup failed
        /\ r.at # "inserted" => Rules(r.row, rows) \subseteq r.rules \cup crossed
        /\ r.at = "inserted" /\ r.row[1] = "group" =>
             \A v \in Active : Position(v) <= r.offset => IsUser(v, r.row[3]) \in r.rules \cup crossed

\* A row that was committed first is still as the request left it.
RowOK(a) ==
    LET r == req[a] IN
    ~r.ambient /\ r.at \in {"committed", "storing"} =>
        /\ Grants(a) => \/ r.row \in rows \/ Scope(r.row) \subseteq failed
                        \/ r.row[1] = "object" /\ Scope(r.row) \subseteq crossed
        /\ r.kind = "revoke" => r.row \notin rows \/ Scope(r.row) \subseteq crossed

\* Rules that were stored first are still stored, or still gone.
SyncOK(a) ==
    LET r == req[a] IN
    r.at = "synced" =>
        /\ Grants(a) => r.rules \subseteq stored \cup crossed \cup refused \cup failed
        /\ r.kind = "revoke" => r.rules \cap stored \subseteq crossed \cup refused

RequestOK(a) == ShapeOK(a) /\ ListOK(a) /\ RowOK(a) /\ SyncOK(a)

\* Two requests at once have both seen the other begin.
OverlapOK == \A a \in Busy : \A b \in Busy \ {a} : Scope(req[a].row) \cap Scope(req[b].row) \subseteq crossed

\* A request answers for rules that it may have stored without a row, and for those that
\* have a row and are yet to be stored.
Stores(a) == req[a].at \in {"committed", "storing", "synced"}
Owes(a) ==
    \/ Grants(a) /\ ~req[a].ambient /\ req[a].at \in {"committed", "storing"}
    \/ req[a].kind = "revoke" /\ req[a].at = "synced"

StoredOK ==
    \A x \in stored : \/ x \in Backed \/ x \in failed \/ x \in (crossed \cup refused) \cap Objects
                      \/ \E a \in Client : Stores(a) /\ x \in req[a].rules

BackedOK ==
    \A x \in Backed : \/ x \in stored \/ x \in failed \/ x \in crossed \cup refused
                      \/ \E a \in Client : Owes(a) /\ x \in req[a].rules

IInv == TypeOK /\ (\A a \in Client : RequestOK(a)) /\ OverlapOK /\ StoredOK /\ BackedOK

----------------------------------------------------------------------------
(* Rows and their rules.                                                   *)

LEMMA RowFields ==
    ASSUME NEW row \in Row
    PROVE  /\ row[1] \in {"user", "member", "group", "permission", "object"}
           /\ row[1] \in {"user", "member", "object"} => row[2] \in User
           /\ row[1] \in {"user", "group", "permission"} => row[3] \in Role
           /\ row[1] = "member" => row = UserGroup(row[2])
           /\ row[1] = "group" => row = GroupRole(row[3])
           /\ row[1] = "object" => row = ObjectPermission(row[2])
BY DEF Row, UserRole, UserGroup, GroupRole, RolePermission, ObjectPermission

LEMMA RowNames ==
    /\ \A u, r : UserGroup(u)[1] = "member" /\ GroupRole(r)[1] = "group" /\ ObjectPermission(u)[1] = "object"
    /\ \A u, v : UserGroup(u) = UserGroup(v) => u = v
    /\ \A q, r : GroupRole(q) = GroupRole(r) => q = r
BY DEF UserGroup, GroupRole, ObjectPermission

\* What a row is a reason for, rule by rule.
LEMMA InRules ==
    ASSUME NEW row \in Row, NEW A, NEW x
    PROVE  x \in Rules(row, A) <=>
              \/ row[1] = "user" /\ x = IsUser(row[2], row[3])
              \/ row[1] = "member" /\ \E r \in Role : GroupRole(r) \in A /\ x = IsUser(row[2], r)
              \/ row[1] = "group" /\ \E u \in User : UserGroup(u) \in A /\ x = IsUser(u, row[3])
              \/ row[1] = "permission" /\ x = MayAct(row[3])
              \/ row[1] = "object" /\ x = MayActOn(row[2])
<1>1. CASE row[1] = "user" BY <1>1 DEF Rules
<1>2. CASE row[1] = "member" BY <1>2 DEF Rules
<1>3. CASE row[1] = "group" BY <1>3 DEF Rules
<1>4. CASE row[1] = "permission" BY <1>4 DEF Rules
<1>5. CASE row[1] = "object" BY <1>5 DEF Rules
<1> QED BY <1>1, <1>2, <1>3, <1>4, <1>5, RowFields

LEMMA RulesTyped ==
    ASSUME NEW row \in Row, NEW A
    PROVE  Rules(row, A) \subseteq Rule
BY RowFields, InRules DEF Rule

LEMMA RulesMonotone ==
    ASSUME NEW row \in Row, NEW A, NEW B, A \subseteq B
    PROVE  Rules(row, A) \subseteq Rules(row, B)
BY InRules

LEMMA RulesInScope ==
    ASSUME NEW row \in Row, NEW A \in SUBSET Row
    PROVE  Rules(row, A) \subseteq Scope(row)
BY RulesMonotone DEF Scope

\* A new row is a reason for no rule outside its scope, and for none of its own.
LEMMA RulesGrow ==
    ASSUME NEW row \in Row, NEW x \in Row, NEW A
    PROVE  /\ Rules(row, A \cup {x}) \subseteq Rules(row, A) \cup Scope(x)
           /\ Rules(row, A \cup {row}) = Rules(row, A)
<1>1. ASSUME NEW y \in Rules(row, A \cup {x}), y \notin Rules(row, A) PROVE y \in Scope(x) /\ x # row
  <2>1. CASE row[1] = "member"
    <3>1. PICK r \in Role : GroupRole(r) \in A \cup {x} /\ y = IsUser(row[2], r)
      BY <1>1, <2>1, InRules
    <3>2. x = GroupRole(r) /\ x[1] = "group" /\ x[3] = r
      BY <1>1, <2>1, <3>1, InRules, RowNames, RowFields
    <3>3. row[2] \in User /\ UserGroup(row[2]) \in Row BY <2>1, RowFields
    <3> QED BY <2>1, <3>1, <3>2, <3>3, InRules DEF Scope
  <2>2. CASE row[1] = "group"
    <3>1. PICK u \in User : UserGroup(u) \in A \cup {x} /\ y = IsUser(u, row[3])
      BY <1>1, <2>2, InRules
    <3>2. x = UserGroup(u) /\ x[1] = "member" /\ x[2] = u
      BY <1>1, <2>2, <3>1, InRules, RowNames, RowFields
    <3>3. row[3] \in Role /\ GroupRole(row[3]) \in Row BY <2>2, RowFields
    <3> QED BY <2>2, <3>1, <3>2, <3>3, InRules DEF Scope
  <2>3. CASE row[1] \notin {"member", "group"} BY <1>1, <2>3, InRules
  <2> QED BY <2>1, <2>2, <2>3
<1>2. Rules(row, A) \subseteq Rules(row, A \cup {row}) BY RulesMonotone
<1>3. ASSUME NEW y \in Rules(row, A \cup {row}) PROVE y \in Rules(row, A)
  BY <1>3, InRules, RowNames
<1> QED BY <1>1, <1>2, <1>3

LEMMA RulesShrink ==
    ASSUME NEW row \in Row, NEW x \in Row, NEW A
    PROVE  /\ Rules(row, A) \subseteq Rules(row, A \ {x}) \cup Scope(x)
           /\ x[1] = "object" => Rules(row, A \ {x}) = Rules(row, A)
<1>1. Rules(row, (A \ {x}) \cup {x}) \subseteq Rules(row, A \ {x}) \cup Scope(x) BY RulesGrow
<1>2. Rules(row, A) \subseteq Rules(row, (A \ {x}) \cup {x}) BY RulesMonotone
<1>3. ASSUME x[1] = "object", NEW y \in Rules(row, A) PROVE y \in Rules(row, A \ {x})
  BY <1>3, InRules, RowNames
<1>4. Rules(row, A \ {x}) \subseteq Rules(row, A) BY RulesMonotone
<1> QED BY <1>1, <1>2, <1>3, <1>4

\* Only for a member and for a group do the other rows matter.
LEMMA PlainRules ==
    ASSUME NEW row \in Row, row[1] \notin {"member", "group"}, NEW A
    PROVE  Rules(row, A) = Scope(row)
BY InRules DEF Scope

\* A rule about an object has one row.
LEMMA ObjectRules ==
    ASSUME NEW row \in Row, row[1] = "object"
    PROVE  /\ Scope(row) = {MayActOn(row[2])}
           /\ Scope(row) \subseteq Objects
           /\ \A other \in Row : \A A : MayActOn(row[2]) \in Rules(other, A) => other = row
<1>1. row[2] \in User BY RowFields
<1>2. Scope(row) = {MayActOn(row[2])} BY InRules DEF Scope
<1>3. ASSUME NEW other \in Row, NEW A, MayActOn(row[2]) \in Rules(other, A) PROVE other = row
  <2>1. other[1] = "object" /\ MayActOn(row[2]) = MayActOn(other[2])
    BY <1>3, InRules DEF MayActOn, MayAct, IsUser
  <2> QED BY <2>1, RowFields DEF MayActOn
<1> QED BY <1>1, <1>2, <1>3 DEF Objects

\* What a set of rows is a reason for.
Reasons(all) == UNION {Rules(row, all) : row \in all}

LEMMA ReasonsGrow ==
    ASSUME NEW A \in SUBSET Row, NEW x \in Row
    PROVE  /\ Reasons(A) \subseteq Reasons(A \cup {x})
           /\ Reasons(A \cup {x}) \subseteq Reasons(A) \cup Rules(x, A)
           /\ Rules(x, A) \subseteq Reasons(A \cup {x})
<1>1. Rules(x, A \cup {x}) = Rules(x, A) BY RulesGrow
<1>2. ASSUME NEW row \in A PROVE Rules(row, A) \subseteq Rules(row, A \cup {x}) BY RulesMonotone
<1>3. ASSUME NEW row \in A, NEW y \in Rules(row, A \cup {x}), y \notin Rules(row, A)
      PROVE  y \in Rules(x, A)
  <2>1. CASE row[1] = "member"
    <3>1. PICK r \in Role : GroupRole(r) \in A \cup {x} /\ y = IsUser(row[2], r)
      BY <1>3, <2>1, InRules
    <3>2. x = GroupRole(r) /\ x[1] = "group" /\ x[3] = r
      BY <1>3, <2>1, <3>1, InRules, RowNames, RowFields
    <3>3. row[2] \in User /\ UserGroup(row[2]) \in A BY <2>1, RowFields
    <3> QED BY <3>1, <3>2, <3>3, InRules
  <2>2. CASE row[1] = "group"
    <3>1. PICK u \in User : UserGroup(u) \in A \cup {x} /\ y = IsUser(u, row[3])
      BY <1>3, <2>2, InRules
    <3>2. x = UserGroup(u) /\ x[1] = "member" /\ x[2] = u
      BY <1>3, <2>2, <3>1, InRules, RowNames, RowFields
    <3>3. row[3] \in Role /\ GroupRole(row[3]) \in A BY <2>2, RowFields
    <3> QED BY <3>1, <3>2, <3>3, InRules
  <2>3. CASE row[1] \notin {"member", "group"} BY <1>3, <2>3, PlainRules
  <2> QED BY <2>1, <2>2, <2>3
<1> QED BY <1>1, <1>2, <1>3 DEF Reasons

LEMMA ReasonsShrink ==
    ASSUME NEW A \in SUBSET Row, NEW x \in Row
    PROVE  /\ Reasons(A \ {x}) \subseteq Reasons(A)
           /\ Reasons(A) \subseteq Reasons(A \ {x}) \cup Scope(x)
           /\ x[1] = "object" => MayActOn(x[2]) \notin Reasons(A \ {x})
<1>1. ASSUME NEW row \in A PROVE Rules(row, A \ {x}) \subseteq Rules(row, A) BY RulesMonotone
<1>2. ASSUME NEW row \in A PROVE Rules(row, A) \subseteq Rules(row, A \ {x}) \cup Scope(x)
  BY RulesShrink
<1>3. Rules(x, A) \subseteq Scope(x) BY RulesInScope
<1>4. x[1] = "object" => MayActOn(x[2]) \notin Reasons(A \ {x}) BY ObjectRules DEF Reasons
<1> QED BY <1>1, <1>2, <1>3, <1>4 DEF Reasons

----------------------------------------------------------------------------
(* Pages.  The position of a user among the members, for any members A.    *)

Rank(A, u) == Cardinality({v \in A : v <= u})

LEMMA HasLeast ==
    ASSUME NEW S \in SUBSET Nat, S # {}
    PROVE  \E m \in S : \A n \in S : m <= n
<1> DEFINE R == OpToRel(<, Nat)
<1>1. IsWellFoundedOn(R, Nat) BY NatLessThanWellFounded
<1>2. \A m, n \in Nat : m < n => <<m, n>> \in R BY DEF OpToRel
<1> HIDE DEF R
<1>3. PICK m \in S : \A n \in S : ~(<<n, m>> \in R) BY <1>1, WFMin
<1>4. ASSUME NEW n \in S PROVE m <= n
  <2>1. m \in Nat /\ n \in Nat /\ ~(n < m) BY <1>2, <1>3
  <2> QED BY <2>1
<1> QED BY <1>4

LEMMA HasGreatest ==
    ASSUME NEW N \in Nat, NEW S \in SUBSET (1..N), S # {}
    PROVE  \E m \in S : \A n \in S : n <= m
<1> DEFINE T == {N - n : n \in S}
<1>1. T \subseteq Nat /\ T # {}
  <2>1. \A n \in S : N - n \in Nat OBVIOUS
  <2> QED BY <2>1
<1>2. PICK t \in T : \A n \in T : t <= n BY <1>1, HasLeast
<1>3. PICK m \in S : t = N - m OBVIOUS
<1>4. ASSUME NEW n \in S PROVE n <= m
  <2>1. N - n \in T OBVIOUS
  <2>2. t <= N - n BY <1>2, <2>1
  <2> QED BY <1>3, <2>2
<1> QED BY <1>4

LEMMA Users ==
    ASSUME NEW A \in SUBSET User
    PROVE  /\ MaxUsers \in Nat /\ User \subseteq Nat /\ IsFiniteSet(A)
           /\ Cardinality(A) \in 0..MaxUsers
<1>1. MaxUsers \in Nat BY ConstAssumption
<1>2. IsFiniteSet(User) /\ Cardinality(User) = MaxUsers BY <1>1, FS_Interval DEF User
<1>3. IsFiniteSet(A) /\ Cardinality(A) <= Cardinality(User) BY <1>2, FS_Subset
<1>4. Cardinality(A) \in Nat BY <1>3, FS_CardinalityType
<1> QED BY <1>1, <1>2, <1>3, <1>4 DEF User

LEMMA RankType ==
    ASSUME NEW A \in SUBSET User, NEW u
    PROVE  Rank(A, u) \in Nat /\ Rank(A, u) <= MaxUsers /\ IsFiniteSet({v \in A : v <= u})
BY Users, {v \in A : v <= u} \in SUBSET User DEF Rank

LEMMA RankGrows ==
    ASSUME NEW A \in SUBSET User, NEW B \in SUBSET A, NEW u
    PROVE  Rank(B, u) <= Rank(A, u)
<1> DEFINE S == {v \in A : v <= u}
           T == {v \in B : v <= u}
<1>1. T \in SUBSET S /\ IsFiniteSet(S) BY RankType
<1> HIDE DEF S, T
<1>2. Cardinality(T) <= Cardinality(S) BY <1>1, FS_Subset
<1> QED BY <1>2 DEF Rank, S, T

LEMMA RankStrict ==
    ASSUME NEW A \in SUBSET User, NEW u \in User, NEW v \in A, u < v
    PROVE  Rank(A, u) < Rank(A, v)
<1> DEFINE S == {w \in A : w <= u}
           T == {w \in A : w <= v}
<1>1. S \in SUBSET T /\ IsFiniteSet(T) /\ v \in T /\ v \notin S 
  <2>1. \A w \in A : w \in Nat /\ (w <= u => w <= v) BY Users
  <2>2. v \in T /\ v \notin S BY Users
  <2> QED BY <2>1, <2>2, RankType
<1>2. Rank(A, u) = Cardinality(S) /\ Rank(A, v) = Cardinality(T) BY DEF Rank
<1>3. Rank(A, u) \in Nat /\ Rank(A, v) \in Nat BY RankType, Users
<1> HIDE DEF S, T
<1>4. Cardinality(S) <= Cardinality(T) /\ Cardinality(S) # Cardinality(T) BY <1>1, FS_Subset
<1> QED BY <1>2, <1>3, <1>4

LEMMA RankWithout ==
    ASSUME NEW A \in SUBSET User, NEW u \in User, NEW v \in User
    PROVE  Rank(A \ {u}, v) = IF u \in A /\ u <= v THEN Rank(A, v) - 1 ELSE Rank(A, v)
<1> DEFINE S == {w \in A : w <= v}
           T == {w \in A \ {u} : w <= v}
<1>1. IsFiniteSet(S) BY RankType
<1>2. T = S \ {u} /\ (u \in S <=> u \in A /\ u <= v) OBVIOUS
<1>3. Rank(A, v) = Cardinality(S) /\ Rank(A \ {u}, v) = Cardinality(T) BY DEF Rank
<1> HIDE DEF S, T
<1>4. Cardinality(S \ {u}) = IF u \in S THEN Cardinality(S) - 1 ELSE Cardinality(S) BY <1>1, FS_RemoveElement
<1> QED BY <1>2, <1>3, <1>4

\* The first k members are k, unless there are fewer.
LEMMA Firsts ==
    ASSUME NEW A \in SUBSET User, NEW k \in Nat
    PROVE  LET low == {u \in A : Rank(A, u) <= k} IN
           /\ Cardinality(low) <= k
           /\ (\E v \in A : k < Rank(A, v)) => k <= Cardinality(low)
<1> DEFINE low == {u \in A : Rank(A, u) <= k}
           high == {u \in A : k < Rank(A, u)}
<1>1. IsFiniteSet(low) /\ Cardinality(low) \in Nat BY low \in SUBSET User, Users
<1>2. Cardinality(low) <= k
  <2>1. CASE low = {} BY <2>1, FS_EmptySet
  <2>2. CASE low # {}
    <3>1. PICK m \in low : \A n \in low : n <= m BY <2>2, HasGreatest, Users DEF User
    <3> DEFINE upto == {v \in A : v <= m}
    <3>2. low \in SUBSET upto /\ IsFiniteSet(upto) BY <3>1, RankType
    <3>3. Cardinality(upto) <= k BY DEF Rank
    <3>4. Cardinality(upto) \in Nat BY <3>2, FS_CardinalityType
    <3> HIDE DEF low, upto
    <3>5. Cardinality(low) <= Cardinality(upto) BY <3>2, FS_Subset
    <3> QED BY <1>1, <3>3, <3>4, <3>5
  <2> QED BY <2>1, <2>2
<1>3. ASSUME high # {} PROVE k <= Cardinality(low)
  <2>1. PICK m \in high : \A n \in high : m <= n BY <1>3, HasLeast, Users
  <2> DEFINE upto == {v \in A : v <= m}
  <2>2. IsFiniteSet(upto) /\ m \in upto BY RankType, Users
  <2>3. upto \ {m} \in SUBSET low
    <3>1. ASSUME NEW n \in upto \ {m} PROVE n \in low
      <4>1. n \in A /\ n \in Nat /\ m \in Nat /\ n <= m /\ n # m BY Users
      <4>2. n \notin high BY <2>1, <4>1
      <4>3. Rank(A, n) \in Nat BY RankType, Users
      <4> QED BY <4>1, <4>2, <4>3
    <3> QED BY <3>1
  <2>4. k < Cardinality(upto) BY DEF Rank
  <2>5. Cardinality(upto) \in Nat BY <2>2, FS_CardinalityType
  <2> HIDE DEF low, high, upto
  <2>6. Cardinality(upto \ {m}) = Cardinality(upto) - 1 BY <2>2, FS_RemoveElement
  <2>7. Cardinality(upto \ {m}) <= Cardinality(low) BY <1>1, <2>3, FS_Subset
  <2> QED BY <1>1, <2>4, <2>5, <2>6, <2>7
<1> QED BY <1>2, <1>3

\* A page that is followed by a member is full.
LEMMA PageIsFull ==
    ASSUME NEW A \in SUBSET User, NEW k \in Nat, NEW n \in Nat, NEW v \in A, k + n < Rank(A, v)
    PROVE  n <= Cardinality({u \in A : k < Rank(A, u) /\ Rank(A, u) <= k + n})
<1> DEFINE low == {u \in A : Rank(A, u) <= k}
           all == {u \in A : Rank(A, u) <= k + n}
           page == {u \in A : k < Rank(A, u) /\ Rank(A, u) <= k + n}
<1>1. Cardinality(low) <= k BY Firsts
<1>2. k + n <= Cardinality(all) BY Firsts, k + n \in Nat
<1>3. /\ IsFiniteSet(low) /\ IsFiniteSet(all) /\ IsFiniteSet(page)
      /\ Cardinality(low) \in Nat /\ Cardinality(all) \in Nat /\ Cardinality(page) \in Nat
  BY low \in SUBSET User, all \in SUBSET User, page \in SUBSET User, Users
<1>4. page = all \ low /\ all \cap low = low
  <2>1. \A u \in A : Rank(A, u) \in Nat BY RankType, Users
  <2> QED BY <2>1
<1> HIDE DEF low, all, page
<1>5. Cardinality(page) = Cardinality(all) - Cardinality(low) BY <1>3, <1>4, FS_Difference
<1>6. n <= Cardinality(page) BY <1>1, <1>2, <1>3, <1>5
<1> QED BY <1>6 DEF page

\* The first page begins with the first member.
LEMMA RankPositive ==
    ASSUME NEW A \in SUBSET User, NEW v \in A
    PROVE  0 < Rank(A, v)
<1>1. Rank(A \ {v}, v) = Rank(A, v) - 1 BY RankWithout, Users
<1>2. Rank(A \ {v}, v) \in Nat /\ Rank(A, v) \in Nat BY RankType, A \ {v} \in SUBSET User
<1> QED BY <1>1, <1>2

----------------------------------------------------------------------------
(* One request.                                                            *)

LEMMA IdleFacts ==
    /\ Idle.kind = "none" /\ Idle.at = "idle" /\ Idle.rules = {} /\ Idle.row = UserGroup(0)
    /\ Idle.ambient = FALSE /\ Idle.offset = 0 /\ Idle \notin Request
BY DEF Idle, Request, Kind

LEMMA BusyFacts ==
    ASSUME TypeOK, NEW a \in Client, req[a].at # "idle" \/ a \in Busy
    PROVE  /\ a \in Busy /\ req[a] \in Request /\ req[a] # Idle
           /\ req[a].row \in Row /\ req[a].kind \in Kind /\ req[a].at \in Place
           /\ req[a].rules \in SUBSET Rule /\ req[a].ambient \in BOOLEAN
           /\ req[a].offset \in 0..(MaxUsers + BatchSize)
<1>1. req[a] # Idle BY IdleFacts DEF Busy
<1>2. req[a] \in Request BY <1>1 DEF TypeOK
<1> QED BY <1>1, <1>2 DEF Request, Busy

LEMMA IdleOK ==
    ASSUME NEW a \in Client, req[a] = Idle
    PROVE  RequestOK(a) /\ ~Stores(a) /\ ~Owes(a)
BY IdleFacts DEF RequestOK, ShapeOK, ListOK, RowOK, SyncOK, Stores, Owes, Grants

LEMMA IsReasons == Backed = Reasons(rows)
BY DEF Backed, Reasons

LEMMA IsRank ==
    ASSUME TypeOK
    PROVE  /\ Active \in SUBSET User /\ \A u : Position(u) = Rank(Active, u)
           /\ \A u \in Active : UserGroup(u) \in rows /\ u \in User
BY DEF Active, Position, Rank

\* What one request may do to the others: rows and rules change within its scope, and a
\* row that goes is about an object, or is one of which a failure was reported.
Within(a) ==
    LET row == req[a].row IN
    /\ stored \ Scope(row) \subseteq stored' /\ stored' \subseteq stored \cup Scope(row)
    /\ \/ rows' = rows
       \/ rows' = rows \cup {row}
       \/ rows' = rows \ {row} /\ row[1] = "object"
       \/ /\ rows' = rows \ {row} /\ Scope(row) \subseteq failed
          /\ row[1] = "member" => Missed(row[2]) \subseteq crossed'

LEMMA OthersKeep ==
    ASSUME IInv, TypeOK', NEW a \in Busy, Within(a), NEW b \in Client \ {a}, req'[b] = req[b],
           failed \subseteq failed', crossed \subseteq crossed' /\ refused \subseteq refused'
    PROVE  RequestOK(b)'
<1> PICK x : x = req[a].row OBVIOUS
<1> PICK r : r = req[b] OBVIOUS
<1>1. CASE r = Idle
  <2>1. req'[b] = Idle BY <1>1
  <2> QED BY <2>1, IdleFacts DEF RequestOK, ShapeOK, ListOK, RowOK, SyncOK, Grants
<1>2. CASE r # Idle
  <2>1. b \in Busy /\ r \in Request /\ r.row \in Row
    BY <1>2, BusyFacts DEF IInv, Busy
  <2>2. x \in Row BY BusyFacts DEF IInv, Busy
  <2>3. Scope(x) \cap Scope(r.row) \subseteq crossed BY <2>1 DEF IInv, OverlapOK
  <2>4. RequestOK(b) BY DEF IInv
  <2>5. rows \in SUBSET Row /\ rows' \in SUBSET Row BY DEF IInv, TypeOK
  <2>6. ShapeOK(b)' BY <2>4 DEF RequestOK, ShapeOK
  <2>7. ASSUME Grants(b) PROVE Rules(r.row, rows) \subseteq Rules(r.row, rows') \cup failed'
    <3>1. CASE rows \subseteq rows' BY <3>1, <2>1, RulesMonotone
    <3>2. CASE rows' = rows \ {x} /\ x[1] = "object" BY <3>2, <2>1, <2>2, RulesShrink
    <3>3. CASE rows' = rows \ {x} /\ Scope(x) \subseteq failed BY <3>3, <2>1, <2>2, RulesShrink
    <3> QED BY <3>1, <3>2, <3>3 DEF Within
  <2>8. Rules(r.row, rows') \subseteq Rules(r.row, rows) \cup crossed'
    <3>1. CASE rows' \subseteq rows BY <3>1, <2>1, RulesMonotone
    <3>2. CASE rows' = rows \cup {x}
      <4>1. Rules(r.row, rows') \subseteq Rules(r.row, rows) \cup Scope(x) BY <3>2, <2>1, <2>2, RulesGrow
      <4>2. Rules(r.row, rows') \subseteq Scope(r.row) BY <2>1, <2>5, RulesInScope
      <4> QED BY <4>1, <4>2, <2>3
    <3> QED BY <3>1, <3>2 DEF Within
  <2>9. ASSUME Grants(b), r.at = "inserted", r.row[1] = "group",
               NEW v \in Active', Position(v)' <= r.offset
        PROVE  IsUser(v, r.row[3]) \in r.rules \cup crossed'
    <3>1. v \in User /\ UserGroup(v) \in rows' BY DEF Active
    <3>2. IsUser(v, r.row[3]) \in Scope(r.row)
      BY <3>1, <2>1, <2>5, <2>9, InRules DEF Scope
    <3>3. v \in Active /\ Position(v) <= r.offset => IsUser(v, r.row[3]) \in r.rules \cup crossed
      BY <2>4, <2>9 DEF RequestOK, ListOK, Grants
    <3>4. /\ Active \in SUBSET User /\ Active' \in SUBSET User
          /\ Position(v) = Rank(Active, v) /\ Position(v)' = Rank(Active', v)
      BY DEF Active, Position, Rank
    <3>5. /\ Rank(Active, v) \in Nat /\ Rank(Active', v) \in Nat
          /\ r.offset \in Nat /\ \A u \in User : u \in Nat
      <4>1. Rank(Active, v) \in Nat /\ Rank(Active', v) \in Nat BY <3>4, RankType
      <4>2. r.offset \in 0..(MaxUsers + BatchSize) BY <2>1 DEF Request
      <4>3. User \subseteq Nat BY <3>4, Users
      <4> QED BY <4>1, <4>2, <4>3
    <3>6. CASE rows \subseteq rows'
      <4>1. Active \in SUBSET Active' BY <3>6 DEF Active
      <4>2. Position(v) <= r.offset BY <2>9, <3>4, <3>5, <4>1, RankGrows
      <4>3. v \notin Active => v \in User /\ UserGroup(v) \notin rows BY <3>1 DEF Active
      <4>4. v \notin Active => x = UserGroup(v)
        BY <3>1, <3>6, <4>3 DEF Within
      <4>5. v \notin Active => IsUser(v, r.row[3]) \in Scope(x)
        <5>1. x = UserGroup(v) => x[1] = "member" /\ x[2] = v BY <2>2, RowFields, RowNames
        <5>2. r.row[3] \in Role /\ GroupRole(r.row[3]) \in Row BY <2>1, <2>9, RowFields
        <5> QED BY <2>2, <4>4, <5>1, <5>2, InRules DEF Scope
      <4> QED BY <3>2, <3>3, <4>2, <4>5, <2>3
    <3>7. CASE rows' = rows \ {x} /\ x[1] # "member"
      <4>1. Active' = Active BY <3>7, RowNames DEF Active
      <4> QED BY <2>9, <3>3, <3>4, <4>1
    <3>8. CASE rows' = rows \ {x} /\ x[1] = "member" /\ Missed(x[2]) \subseteq crossed'
      <4>1. x[2] \in User /\ x = UserGroup(x[2]) BY <3>8, <2>2, RowFields
      <4>2. Active' = Active \ {x[2]} BY <3>8, <4>1, RowNames DEF Active
      <4>3. v \in Active /\ v # x[2] BY <4>2
      <4> PICK u \in User : u = x[2] BY <4>1
      <4>4. Rank(Active', v) = IF u \in Active /\ u <= v THEN Rank(Active, v) - 1 ELSE Rank(Active, v)
        BY <3>1, <3>4, <4>2, RankWithout
      <4>5. CASE Position(v) <= r.offset BY <4>5, <4>3, <3>3
      <4>6. CASE ~(Position(v) <= r.offset)
        <5>1. u < v /\ Position(v) = r.offset + 1
          BY <2>9, <3>1, <3>4, <3>5, <4>3, <4>4, <4>6
        <5>2. r.row[3] \in Role /\ IsUser(v, r.row[3]) \in Rule
          BY <2>1, <2>9, <3>1, RowFields DEF Rule
        <5>3. IsUser(v, r.row[3]) \in Missed(u)
          BY <5>1, <5>2, <4>3, <2>9 DEF Missed
        <5> QED BY <3>8, <5>3
      <4> QED BY <4>5, <4>6
    <3> QED BY <3>6, <3>7, <3>8 DEF Within
  <2>10. ListOK(b)' BY <2>4, <2>7, <2>8, <2>9 DEF RequestOK, ListOK, Grants
  <2>11. RowOK(b)'
    <3>1. CASE x = r.row
      <4>1. Scope(r.row) \subseteq crossed' BY <3>1, <2>3
      <4>2. x \in rows /\ x \notin rows' => x[1] = "object" \/ Scope(x) \subseteq failed'
        BY DEF Within
      <4> QED BY <2>4, <3>1, <4>1, <4>2 DEF RequestOK, RowOK, Grants, Within
    <3>2. CASE x # r.row
      <4>1. r.row \in rows' <=> r.row \in rows BY <3>2 DEF Within
      <4> QED BY <2>4, <4>1 DEF RequestOK, RowOK, Grants
    <3> QED BY <3>1, <3>2
  <2>12. SyncOK(b)'
    <3>1. r.rules \subseteq Scope(r.row) BY <2>4 DEF RequestOK, ShapeOK
    <3>2. r.rules \cap Scope(x) \subseteq crossed' BY <3>1, <2>3
    <3>3. stored \ Scope(x) \subseteq stored' /\ stored' \subseteq stored \cup Scope(x) BY DEF Within
    <3> QED BY <2>4, <3>2, <3>3 DEF RequestOK, SyncOK, Grants
  <2> QED BY <2>6, <2>10, <2>11, <2>12 DEF RequestOK
<1> QED BY <1>1, <1>2

----------------------------------------------------------------------------
(* Types.                                                                  *)

LEMMA GoesOn ==
    ASSUME TypeOK, NEW a \in Client, NEW r \in Request \cup {Idle}, Goes(a, r)
    PROVE  /\ req' \in [Client -> Request \cup {Idle}]
           /\ req'[a] = r /\ \A b \in Client \ {a} : req'[b] = req[b]
BY DEF TypeOK, Goes

LEMMA EndsThere ==
    ASSUME TypeOK, NEW a \in Client, Ends(a)
    PROVE  /\ req' \in [Client -> Request \cup {Idle}]
           /\ req'[a] = Idle /\ \A b \in Client \ {a} : req'[b] = req[b]
BY GoesOn DEF Ends

LEMMA SyncedType ==
    ASSUME TypeOK, NEW a \in Client, a \in Busy, Synced(a)
    PROVE  /\ req' \in [Client -> Request \cup {Idle}]
           /\ \A b \in Client \ {a} : req'[b] = req[b]
           /\ req'[a] = IF req[a].ambient THEN [req[a] EXCEPT !.at = "synced"] ELSE Idle
<1>1. req[a] \in Request BY BusyFacts
<1>2. [req[a] EXCEPT !.at = "synced"] \in Request BY <1>1 DEF Request, Place
<1> QED BY <1>2, GoesOn, EndsThere DEF Synced

\* A full page leaves fewer members than there are users.
LEMMA PageOffset ==
    ASSUME TypeOK, NEW o \in 0..(MaxUsers + BatchSize), ~IsLast(Batch(o))
    PROVE  o + BatchSize \in 0..(MaxUsers + BatchSize)
<1>1. BatchSize \in Nat \ {0} /\ MaxUsers \in Nat BY ConstAssumption
<1>2. Active \in SUBSET User /\ Batch(o) \in SUBSET User BY IsRank DEF Batch
<1>3. Cardinality(Batch(o)) \in Nat BY <1>2, Users
<1>4. Batch(o) # {} BY <1>1, <1>3, FS_EmptySet DEF IsLast
<1>5. PICK u \in Batch(o) : TRUE BY <1>4
<1>6. u \in Active /\ o < Rank(Active, u) BY <1>5, IsRank DEF Batch
<1>7. Rank(Active, u) \in Nat /\ Rank(Active, u) <= MaxUsers BY <1>2, RankType
<1> QED BY <1>1, <1>6, <1>7

Began(kind, row, ambient, at, rules) ==
    [Idle EXCEPT !.kind = kind, !.at = at, !.row = row, !.ambient = ambient, !.rules = rules]

LEMMA BeganType ==
    ASSUME NEW kind \in Kind, NEW row \in Row, NEW ambient \in BOOLEAN, NEW at \in Place,
           NEW rules \in SUBSET Rule
    PROVE  LET r == Began(kind, row, ambient, at, rules) IN
           /\ r \in Request /\ r.kind = kind /\ r.row = row /\ r.ambient = ambient
           /\ r.at = at /\ r.rules = rules /\ r.offset = 0
<1>1. 0 \in 0..(MaxUsers + BatchSize) BY ConstAssumption
<1> QED BY <1>1 DEF Began, Idle, Request

LEMMA BeginsType ==
    ASSUME TypeOK, NEW a \in Client, NEW kind \in Kind, NEW row \in Row, NEW ambient \in BOOLEAN,
           NEW at \in Place, NEW rules \in SUBSET Rule, Begins(a, kind, row, ambient, at, rules)
    PROVE  /\ TypeOK' /\ req'[a] = Began(kind, row, ambient, at, rules)
           /\ \A b \in Client \ {a} : req'[b] = req[b]
<1>1. Goes(a, Began(kind, row, ambient, at, rules)) BY DEF Begins, Began
<1>2. /\ req' \in [Client -> Request \cup {Idle}]
      /\ req'[a] = Began(kind, row, ambient, at, rules) /\ \A b \in Client \ {a} : req'[b] = req[b]
  BY <1>1, BeganType, GoesOn
<1>3. requests' \in 0..MaxRequests BY ConstAssumption DEF Begins, TypeOK
<1>4. Scope(row) \subseteq Rule BY RulesTyped DEF Scope
<1> QED BY <1>2, <1>3, <1>4 DEF Begins, TypeOK

LEMMA FaultType ==
    ASSUME TypeOK, Fault
    PROVE  faults' \in 0..MaxFaults
BY ConstAssumption DEF TypeOK, Fault

LEMMA CommittedType ==
    ASSUME TypeOK, NEW a \in Client, a \in Busy
    PROVE  Committed(a) \subseteq Row
BY BusyFacts DEF Committed, TypeOK

LEMMA StepType ==
    ASSUME TypeOK, NEW a \in Client, Step(a) \/ StoreFails(a) \/ CommitFails(a)
    PROVE  TypeOK'
<1> USE DEF TypeOK
<1>1. CASE ListRoles(a)
  <2>1. a \in Busy /\ req[a] \in Request /\ req[a].row \in Row BY <1>1, BusyFacts DEF ListRoles
  <2>2. Rules(req[a].row, rows) \in SUBSET Rule BY <2>1, RulesTyped
  <2>3. [req[a] EXCEPT !.at = "listed", !.rules = Rules(req[a].row, rows)] \in Request
    BY <2>1, <2>2 DEF Request, Place
  <2> QED BY <1>1, <2>3, GoesOn DEF ListRoles
<1>2. CASE ListBatch(a)
  <2> DEFINE o == req[a].offset
             page == {IsUser(u, req[a].row[3]) : u \in Batch(o)}
             last == IsLast(Batch(o))
  <2>1. /\ req[a] \in Request /\ req[a].row \in Row /\ req[a].row[1] = "group"
        /\ o \in 0..(MaxUsers + BatchSize) /\ req[a].rules \in SUBSET Rule
    BY <1>2, BusyFacts DEF ListBatch
  <2>2. page \in SUBSET Rule BY <2>1, RowFields, IsRank DEF Batch, Rule
  <2>3. (IF last THEN 0 ELSE o + BatchSize) \in 0..(MaxUsers + BatchSize)
    BY <2>1, PageOffset, ConstAssumption
  <2>4. (IF last THEN "listed" ELSE "inserted") \in Place BY DEF Place
  <2> DEFINE r == [req[a] EXCEPT !.rules = @ \cup page, !.offset = IF last THEN 0 ELSE @ + BatchSize,
                                 !.at = IF last THEN "listed" ELSE "inserted"]
  <2>5. Goes(a, r) BY <1>2 DEF ListBatch
  <2> HIDE DEF page, last
  <2>6. r \in Request BY <2>1, <2>2, <2>3, <2>4 DEF Request
  <2> HIDE DEF r
  <2> QED BY <1>2, <2>5, <2>6, GoesOn DEF ListBatch
<1>3. CASE Abort(a)
  BY <1>3, EndsThere DEF Abort
<1>4. CASE CommitRow(a)
  <2>1. a \in Busy /\ req[a] \in Request BY <1>4, BusyFacts DEF CommitRow
  <2>2. [req[a] EXCEPT !.at = "committed"] \in Request BY <2>1 DEF Request, Place
  <2> QED BY <1>4, <2>1, <2>2, GoesOn, CommittedType DEF CommitRow
<1>5. CASE AddToMemory(a) \/ RemoveFromMemory(a)
  <2>1. a \in Busy /\ req[a] \in Request /\ req[a].rules \in SUBSET Rule
    BY <1>5, BusyFacts DEF AddToMemory, RemoveFromMemory, MaySync
  <2>2. [req[a] EXCEPT !.at = "storing"] \in Request BY <2>1 DEF Request, Place
  <2>3. req' \in [Client -> Request \cup {Idle}]
    BY <1>5, <2>2, GoesOn DEF AddToMemory, RemoveFromMemory
  <2>4. mem' \in [Worker -> SUBSET Rule] BY <1>5, <2>1 DEF AddToMemory, RemoveFromMemory
  <2> QED BY <1>5, <2>3, <2>4 DEF AddToMemory, RemoveFromMemory
<1>6. CASE NotWritten(a)
  <2>1. a \in Busy /\ req[a].rules \in SUBSET Rule BY <1>6, BusyFacts DEF NotWritten, MaySync
  <2>2. req' \in [Client -> Request \cup {Idle}] BY <1>6, <2>1, SyncedType DEF NotWritten
  <2> QED BY <1>6, <2>1, <2>2 DEF NotWritten
<1>7. CASE StoreRules(a)
  <2>1. a \in Busy /\ req[a].rules \in SUBSET Rule BY <1>7, BusyFacts DEF StoreRules
  <2>2. req' \in [Client -> Request \cup {Idle}] BY <1>7, <2>1, SyncedType DEF StoreRules
  <2>3. stored' \in SUBSET Rule BY <1>7, <2>1 DEF StoreRules, Stored
  <2> QED BY <1>7, <2>2, <2>3 DEF StoreRules
<1>8. CASE CommitLast(a)
  <2>1. a \in Busy BY <1>8, BusyFacts DEF CommitLast
  <2> QED BY <1>8, <2>1, EndsThere, CommittedType DEF CommitLast
<1>9. CASE Compensate(a)
  <2> PICK w : w = Home[a] OBVIOUS
  <2>1. mem' \in [Worker -> SUBSET Rule]
    <3>1. w \in Worker BY ConstAssumption
    <3>2. PICK these : mem' = [mem EXCEPT ![w] = @ \ these] BY <1>9 DEF Compensate
    <3> QED BY <3>1, <3>2
  <2>2. stored' \in SUBSET Rule BY <1>9 DEF Compensate
  <2>3. rows' \subseteq Row BY <1>9 DEF Compensate, WithoutRow
  <2>4. crossed' \in SUBSET Rule BY <1>9 DEF Compensate, Missed
  <2>5. req' \in [Client -> Request \cup {Idle}] BY <1>9, EndsThere DEF Compensate
  <2> QED BY <1>9, <2>1, <2>2, <2>3, <2>4, <2>5 DEF Compensate
<1>10. CASE StoreFails(a)
  <2>1. a \in Busy /\ req[a] \in Request /\ req[a].row \in Row BY <1>10, BusyFacts DEF StoreFails
  <2>2. [req[a] EXCEPT !.at = "undo"] \in Request BY <2>1 DEF Request, Place
  <2>3. req' \in [Client -> Request \cup {Idle}] BY <1>10, <2>2, GoesOn, EndsThere DEF StoreFails
  <2>4. Scope(req[a].row) \subseteq Rule BY <2>1, RulesTyped DEF Scope
  <2>5. faults' \in 0..MaxFaults BY <1>10, FaultType DEF StoreFails
  <2> QED BY <1>10, <2>3, <2>4, <2>5 DEF StoreFails
<1>11. CASE CommitFails(a)
  <2>1. a \in Busy /\ req[a].rules \in SUBSET Rule BY <1>11, BusyFacts DEF CommitFails
  <2>2. faults' \in 0..MaxFaults BY <1>11, FaultType DEF CommitFails
  <2> QED BY <1>11, <2>1, <2>2, EndsThere DEF CommitFails
<1> QED BY <1>1, <1>2, <1>3, <1>4, <1>5, <1>6, <1>7, <1>8, <1>9, <1>10, <1>11 DEF Step

LEMMA WorkerType ==
    ASSUME TypeOK, NEW w \in Worker, LoadBegins(w) \/ LoadEnds(w) \/ LoadFails(w) \/ Crash(w)
    PROVE  TypeOK'
<1> USE DEF TypeOK
<1>1. CASE LoadBegins(w) BY <1>1 DEF LoadBegins
<1>2. CASE LoadEnds(w) BY <1>2 DEF LoadEnds, Loaded
<1>3. CASE LoadFails(w) BY <1>3, FaultType DEF LoadFails
<1>4. CASE Crash(w)
  <2>1. faults' \in 0..MaxFaults BY <1>4, FaultType DEF Crash
  <2>2. ASSUME NEW a \in Busy PROVE Scope(req[a].row) \subseteq Rule
    <3>1. req[a].row \in Row BY BusyFacts DEF Busy
    <3> QED BY <3>1, RulesTyped DEF Scope
  <2>3. failed' \in SUBSET Rule BY <1>4, <2>2 DEF Crash
  <2>4. req' \in [Client -> Request \cup {Idle}] BY <1>4 DEF Crash
  <2>5. mem' \in [Worker -> SUBSET Rule] BY <1>4 DEF Crash
  <2>6. load' \in [Worker -> [on : BOOLEAN, rules : SUBSET Rule]] BY <1>4 DEF Crash
  <2> QED BY <1>4, <2>1, <2>3, <2>4, <2>5, <2>6 DEF Crash
<1> QED BY <1>1, <1>2, <1>3, <1>4

----------------------------------------------------------------------------
(* A step of one request keeps the invariant, if what it stores and what   *)
(* it commits is accounted for.                                            *)

Explained(a, x) == \/ x \in Backed \/ x \in failed \/ x \in (crossed \cup refused) \cap Objects
                   \/ Stores(a) /\ x \in req[a].rules

Kept(a, x) == \/ x \in stored \/ x \in failed \/ x \in crossed \cup refused
              \/ Owes(a) /\ x \in req[a].rules

LEMMA OneStep ==
    ASSUME IInv, TypeOK', NEW a \in Client, \A b \in Client \ {a} : req'[b] = req[b],
           failed \subseteq failed', crossed \subseteq crossed' /\ refused \subseteq refused', RequestOK(a)',
           \A b \in Client \ {a} : RequestOK(b)',
           \A b \in Busy \ {a} : req'[a] # Idle =>
                Scope(req'[a].row) \cap Scope(req[b].row) \subseteq crossed',
           \A x \in stored' : x \notin stored \/ x \in Backed \/ (Stores(a) /\ x \in req[a].rules)
                => Explained(a, x)',
           \A x \in Backed' : x \notin Backed \/ x \in stored \/ (Owes(a) /\ x \in req[a].rules)
                => Kept(a, x)'
    PROVE  IInv'
<1>1. \A b \in Client : RequestOK(b)' OBVIOUS
<1>2. OverlapOK'
  <2>1. ASSUME NEW b \in Client, NEW c \in Client \ {b}, req'[b] # Idle, req'[c] # Idle
        PROVE  Scope(req'[b].row) \cap Scope(req'[c].row) \subseteq crossed'
    <3>1. CASE b = a BY <2>1, <3>1 DEF Busy
    <3>2. CASE c = a BY <2>1, <3>2 DEF Busy
    <3>3. CASE b # a /\ c # a
      <4>1. req'[b] = req[b] /\ req'[c] = req[c] /\ b \in Busy /\ c \in Busy \ {b} BY <2>1, <3>3 DEF Busy
      <4> QED BY <4>1 DEF IInv, OverlapOK
    <3> QED BY <3>1, <3>2, <3>3
  <2> QED BY <2>1 DEF OverlapOK, Busy, Scope
<1>3. StoredOK'
  <2>1. ASSUME NEW x \in stored'
        PROVE  Explained(a, x)' \/ (\E c \in Client : Stores(c)' /\ x \in req'[c].rules)
               \/ x \in failed' \/ x \in (crossed' \cup refused') \cap Objects
    <3>1. ASSUME x \in stored, x \notin Backed, x \notin failed, x \notin (crossed \cup refused) \cap Objects,
                 ~(Stores(a) /\ x \in req[a].rules)
          PROVE  \E c \in Client : Stores(c)' /\ x \in req'[c].rules
      <4>1. PICK c \in Client : Stores(c) /\ x \in req[c].rules BY <3>1 DEF IInv, StoredOK
      <4>2. req'[c] = req[c] BY <3>1, <4>1
      <4>3. Stores(c)' BY <4>1, <4>2 DEF Stores
      <4> QED BY <4>1, <4>2, <4>3
    <3> QED BY <2>1, <3>1
  <2>2. ASSUME NEW x \in stored', Explained(a, x)'
        PROVE  \/ x \in Backed' \/ x \in failed' \/ x \in (crossed' \cup refused') \cap Objects
               \/ \E c \in Client : Stores(c)' /\ x \in req'[c].rules
    BY <2>2 DEF Explained
  <2> QED BY <2>1, <2>2 DEF StoredOK, Objects
<1>4. BackedOK'
  <2>1. ASSUME NEW x \in Backed'
        PROVE  Kept(a, x)' \/ (\E c \in Client : Owes(c)' /\ x \in req'[c].rules)
               \/ x \in failed' \/ x \in crossed' \cup refused'
    <3>1. ASSUME x \in Backed, x \notin stored, x \notin failed, x \notin crossed \cup refused,
                 ~(Owes(a) /\ x \in req[a].rules)
          PROVE  \E c \in Client : Owes(c)' /\ x \in req'[c].rules
      <4>1. PICK c \in Client : Owes(c) /\ x \in req[c].rules BY <3>1 DEF IInv, BackedOK
      <4>2. req'[c] = req[c] BY <3>1, <4>1
      <4>3. Owes(c)' BY <4>1, <4>2 DEF Owes, Grants
      <4> QED BY <4>1, <4>2, <4>3
    <3> QED BY <2>1, <3>1
  <2>2. ASSUME NEW x \in Backed', Kept(a, x)'
        PROVE  \/ x \in stored' \/ x \in failed' \/ x \in crossed' \cup refused'
               \/ \E c \in Client : Owes(c)' /\ x \in req'[c].rules
    BY <2>2 DEF Kept
  <2> QED BY <2>1, <2>2 DEF BackedOK
<1> QED BY <1>1, <1>2, <1>3, <1>4 DEF IInv

LEMMA OthersUnmoved ==
    ASSUME IInv, NEW b \in Client, req'[b] = req[b], rows' = rows, stored' = stored,
           failed \subseteq failed', crossed \subseteq crossed' /\ refused \subseteq refused'
    PROVE  RequestOK(b)'
<1>1. RequestOK(b) BY DEF IInv
<1>2. Active' = Active /\ \A v : Position(v)' = Position(v) BY DEF Active, Position
<1>3. ShapeOK(b)' BY <1>1 DEF RequestOK, ShapeOK
<1>4. ListOK(b)' BY <1>1, <1>2 DEF RequestOK, ListOK, Grants
<1>5. RowOK(b)' BY <1>1 DEF RequestOK, RowOK, Grants
<1>6. SyncOK(b)' BY <1>1 DEF RequestOK, SyncOK, Grants
<1> QED BY <1>3, <1>4, <1>5, <1>6 DEF RequestOK

\* A step that changes neither rows nor rules.
LEMMA QuietStep ==
    ASSUME IInv, TypeOK', NEW a \in Client, \A b \in Client \ {a} : req'[b] = req[b],
           rows' = rows, stored' = stored, failed \subseteq failed', crossed \subseteq crossed' /\ refused \subseteq refused',
           RequestOK(a)',
           \A b \in Busy \ {a} : req'[a] # Idle =>
                Scope(req'[a].row) \cap Scope(req[b].row) \subseteq crossed',
           \A x \in req[a].rules : x \in stored /\ Stores(a) => Explained(a, x)',
           \A x \in req[a].rules : x \in Backed /\ Owes(a) => Kept(a, x)'
    PROVE  IInv'
<1>1. \A b \in Client \ {a} : RequestOK(b)' BY OthersUnmoved
<1>2. Backed' = Backed BY DEF Backed
<1>3. \A x \in stored' : x \notin stored \/ x \in Backed \/ (Stores(a) /\ x \in req[a].rules)
        => Explained(a, x)'
  BY <1>2 DEF Explained
<1>4. \A x \in Backed' : x \notin Backed \/ x \in stored \/ (Owes(a) /\ x \in req[a].rules)
        => Kept(a, x)'
  BY <1>2 DEF Kept
<1> QED BY <1>1, <1>3, <1>4, OneStep

\* Such a step of a request that goes on.
LEMMA SameScope ==
    ASSUME IInv, NEW a \in Client, a \in Busy, req'[a] = Idle \/ req'[a].row = req[a].row,
           crossed \subseteq crossed' /\ refused \subseteq refused'
    PROVE  \A b \in Busy \ {a} : req'[a] # Idle =>
                Scope(req'[a].row) \cap Scope(req[b].row) \subseteq crossed'
BY DEF IInv, OverlapOK

LEMMA IdleAfter ==
    ASSUME NEW a \in Client, req'[a] = Idle
    PROVE  RequestOK(a)' /\ ~Stores(a)' /\ ~Owes(a)'
BY IdleFacts DEF RequestOK, ShapeOK, ListOK, RowOK, SyncOK, Stores, Owes, Grants

LEMMA BeginsStep ==
    ASSUME IInv, NEW a \in Client, NEW kind \in Kind, NEW row \in Row, NEW ambient \in BOOLEAN,
           NEW at \in {"inserted", "listed"},
           NEW rules, Begins(a, kind, row, ambient, at, rules),
           kind = "revoke" => row[1] = "object",
           at = "inserted" => kind = "grant" /\ row[1] \in {"member", "group"} /\ rules = {},
           at = "listed" => row[1] \notin {"member", "group"} /\ rules = Scope(row)
    PROVE  IInv'
<1> USE DEF IInv
<1>1. Scope(row) \subseteq Rule BY RulesTyped DEF Scope
<1>2. rules \in SUBSET Rule /\ at \in Place BY <1>1 DEF Place
<1>3. /\ TypeOK' /\ req'[a] = Began(kind, row, ambient, at, rules)
      /\ \A b \in Client \ {a} : req'[b] = req[b]
  BY <1>2, BeginsType
<1> PICK r \in Request : r = Began(kind, row, ambient, at, rules) BY <1>2, BeganType
<1>4. /\ r.kind = kind /\ r.row = row /\ r.ambient = ambient /\ r.at = at /\ r.rules = rules /\ r.offset = 0
  BY <1>2, BeganType
<1>5. req'[a] = r BY <1>3
<1>6. /\ rows' = rows /\ stored' = stored /\ failed' = failed /\ req[a] = Idle
      /\ refused' = refused /\ crossed' = crossed \cup (Scope(row) \cap UNION {Scope(req[b].row) : b \in Busy})
  BY DEF Begins
<1>7. RequestOK(a)'
  <2>1. ShapeOK(a)' BY <1>4, <1>5 DEF ShapeOK
  <2>2. ListOK(a)'
    <3>1. CASE at = "listed"
      <4>1. Rules(row, rows') = rules BY <3>1, PlainRules
      <4> QED BY <3>1, <4>1, <1>4, <1>5 DEF ListOK
    <3>2. CASE at = "inserted"
      <4>1. ASSUME NEW v \in Active' PROVE ~(Position(v)' <= 0)
        <5>1. Active' \in SUBSET User BY DEF Active
        <5>2. 0 < Rank(Active', v) /\ Rank(Active', v) \in Nat BY <5>1, RankPositive, RankType
        <5> QED BY <5>2 DEF Position, Rank
      <4> QED BY <3>2, <4>1, <1>4, <1>5 DEF ListOK
    <3> QED BY <3>1, <3>2
  <2>3. RowOK(a)' /\ SyncOK(a)' BY <1>4, <1>5 DEF RowOK, SyncOK
  <2> QED BY <2>1, <2>2, <2>3 DEF RequestOK
<1>8. \A b \in Busy \ {a} : req'[a] # Idle => Scope(req'[a].row) \cap Scope(req[b].row) \subseteq crossed'
  BY <1>4, <1>5, <1>6
<1>9. req[a].rules = {} BY <1>6, IdleFacts
<1> QED BY <1>3, <1>6, <1>7, <1>8, <1>9, QuietStep

LEMMA NewRequests ==
    ASSUME IInv, NEW a \in Client, NEW row \in Row, NEW ambient \in BOOLEAN,
           Seed(a, row) \/ Insert(a, row, ambient) \/ DeleteGrant(a, row, ambient)
    PROVE  IInv'
<1>1. CASE Seed(a, row)
  <2>1. Begins(a, "seed", row, TRUE, "listed", Scope(row)) BY <1>1 DEF Seed
  <2> QED BY <1>1, <2>1, BeginsStep DEF Seed, Kind
<1>2. CASE Insert(a, row, ambient)
  <2>1. CASE row[1] \in {"member", "group"}
    <3>1. Begins(a, "grant", row, ambient, "inserted", {}) BY <1>2, <2>1 DEF Insert
    <3> QED BY <2>1, <3>1, BeginsStep DEF Kind
  <2>2. CASE row[1] \notin {"member", "group"}
    <3>1. Begins(a, "grant", row, ambient, "listed", Scope(row)) BY <1>2, <2>2 DEF Insert
    <3> QED BY <2>2, <3>1, BeginsStep DEF Kind
  <2> QED BY <2>1, <2>2
<1>3. CASE DeleteGrant(a, row, ambient)
  <2>1. Begins(a, "revoke", row, ambient, "listed", Scope(row)) /\ row[1] = "object"
    BY <1>3 DEF DeleteGrant
  <2> QED BY <2>1, BeginsStep DEF Kind
<1> QED BY <1>1, <1>2, <1>3

\* The rules of a grant whose row was committed first are explained without the request.
LEMMA GrantExplained ==
    ASSUME IInv, NEW a \in Client, Grants(a), ~req[a].ambient, req[a].at \in {"committed", "storing"}
    PROVE  \A x \in req[a].rules : x \in Backed \/ x \in failed \/ x \in (crossed \cup refused) \cap Objects
<1>1. RequestOK(a) /\ req[a].row \in Row /\ rows \subseteq Row BY BusyFacts DEF IInv, TypeOK
<1> PICK row \in Row : row = req[a].row BY <1>1
<1>2. req[a].rules \subseteq Rules(row, rows) \cup failed /\ req[a].rules \subseteq Scope(row)
  BY <1>1 DEF RequestOK, ListOK, ShapeOK
<1>3. \/ row \in rows \/ Scope(row) \subseteq failed
      \/ row[1] = "object" /\ Scope(row) \subseteq crossed
  BY <1>1 DEF RequestOK, RowOK
<1>4. row \in rows => Rules(row, rows) \subseteq Backed BY DEF Backed
<1>5. row[1] = "object" => Scope(row) \subseteq Objects BY ObjectRules
<1> QED BY <1>2, <1>3, <1>4, <1>5

LEMMA ListRolesStep ==
    ASSUME IInv, NEW a \in Client, ListRoles(a)
    PROVE  IInv'
<1> USE DEF IInv
<1>1. TypeOK' BY StepType DEF Step
<1>2. /\ a \in Busy /\ req[a] \in Request /\ req[a].row \in Row /\ req[a].row[1] = "member"
      /\ req[a].at = "inserted" /\ rows \in SUBSET Row
  BY BusyFacts DEF ListRoles, TypeOK
<1> DEFINE r == [req[a] EXCEPT !.at = "listed", !.rules = Rules(req[a].row, rows)]
<1>3. Rules(req[a].row, rows) \in SUBSET Rule /\ Rules(req[a].row, rows) \subseteq Scope(req[a].row)
  BY <1>2, RulesTyped, RulesInScope
<1>4. r \in Request BY <1>2, <1>3 DEF Request, Place
<1>5. req'[a] = r /\ \A b \in Client \ {a} : req'[b] = req[b] BY <1>4, GoesOn DEF ListRoles
<1>6. /\ r.kind = req[a].kind /\ r.row = req[a].row /\ r.ambient = req[a].ambient
      /\ r.at = "listed" /\ r.rules = Rules(req[a].row, rows)
  BY <1>2 DEF Request
<1> HIDE DEF r
<1>7. /\ rows' = rows /\ stored' = stored /\ failed' = failed /\ crossed' = crossed /\ refused' = refused BY DEF ListRoles
<1>8. RequestOK(a)'
  <2>1. RequestOK(a) OBVIOUS
  <2>2. ShapeOK(a)' BY <2>1, <1>2, <1>3, <1>5, <1>6, <1>7 DEF RequestOK, ShapeOK
  <2>3. ListOK(a)' BY <1>5, <1>6, <1>7 DEF ListOK
  <2>4. RowOK(a)' /\ SyncOK(a)' BY <1>5, <1>6 DEF RowOK, SyncOK
  <2> QED BY <2>2, <2>3, <2>4 DEF RequestOK
<1>9. ~Stores(a) /\ ~Owes(a) BY <1>2 DEF Stores, Owes
<1>10. \A b \in Busy \ {a} : req'[a] # Idle => Scope(req'[a].row) \cap Scope(req[b].row) \subseteq crossed'
  BY <1>2, <1>5, <1>6, <1>7, SameScope
<1> QED BY <1>1, <1>5, <1>7, <1>8, <1>9, <1>10, QuietStep

LEMMA ListBatchStep ==
    ASSUME IInv, NEW a \in Client, ListBatch(a)
    PROVE  IInv'
<1> USE DEF IInv
<1>1. TypeOK' BY StepType DEF Step
<1>2. /\ a \in Busy /\ req[a] \in Request /\ req[a].row \in Row /\ req[a].row[1] = "group"
      /\ req[a].at = "inserted" /\ rows \in SUBSET Row
      /\ req[a].offset \in 0..(MaxUsers + BatchSize) /\ req[a].rules \in SUBSET Rule
  BY BusyFacts DEF ListBatch, TypeOK
<1> DEFINE o == req[a].offset
           page == {IsUser(u, req[a].row[3]) : u \in Batch(o)}
           last == IsLast(Batch(o))
           r == [req[a] EXCEPT !.rules = @ \cup page, !.offset = IF last THEN 0 ELSE @ + BatchSize,
                               !.at = IF last THEN "listed" ELSE "inserted"]
<1>3. Active \in SUBSET User /\ \A u : Position(u) = Rank(Active, u) BY IsRank
<1>4. page \subseteq Rules(req[a].row, rows)
  BY <1>2, <1>3, InRules DEF Batch, Active
<1>5. Rules(req[a].row, rows) \subseteq Scope(req[a].row) /\ Rules(req[a].row, rows) \subseteq Rule
  BY <1>2, RulesTyped, RulesInScope
<1>6. (IF last THEN 0 ELSE o + BatchSize) \in 0..(MaxUsers + BatchSize)
  BY <1>2, PageOffset, ConstAssumption
<1>7. Goes(a, r) BY DEF ListBatch
<1>8. \A v \in Active : IF last THEN v \in Batch(o) \/ Position(v) <= o
                        ELSE Position(v) <= o + BatchSize => v \in Batch(o) \/ Position(v) <= o
  <2>1. o \in Nat /\ BatchSize \in Nat BY <1>2, ConstAssumption
  <2>2. ASSUME NEW v \in Active PROVE Rank(Active, v) \in Nat BY <1>3, RankType
  <2>3. ASSUME NEW v \in Active, last PROVE Rank(Active, v) <= o + BatchSize
    <3>1. Batch(o) = {u \in Active : o < Rank(Active, u) /\ Rank(Active, u) <= o + BatchSize}
      BY <1>3 DEF Batch
    <3>2. Batch(o) \in SUBSET User BY <1>3, <3>1
    <3>3. Cardinality(Batch(o)) \in Nat BY <3>2, Users
    <3>4. Cardinality(Batch(o)) < BatchSize BY <2>3 DEF IsLast
    <3>5. o + BatchSize < Rank(Active, v) => BatchSize <= Cardinality(Batch(o))
      BY <1>3, <2>1, <3>1, PageIsFull
    <3> QED BY <2>1, <2>2, <3>3, <3>4, <3>5
  <2>4. ASSUME NEW v \in Active, v \notin Batch(o), Rank(Active, v) <= o + BatchSize
        PROVE  Rank(Active, v) <= o
    BY <2>1, <2>2, <2>4, <1>3 DEF Batch
  <2> QED BY <1>3, <2>3, <2>4
<1>9. page = {IsUser(u, req[a].row[3]) : u \in Batch(o)} OBVIOUS
<1> HIDE DEF page, last
<1>10. r \in Request BY <1>2, <1>4, <1>5, <1>6 DEF Request, Place
<1>11. /\ r.kind = req[a].kind /\ r.row = req[a].row /\ r.ambient = req[a].ambient
       /\ r.rules = req[a].rules \cup page /\ r.offset = (IF last THEN 0 ELSE o + BatchSize)
       /\ r.at = (IF last THEN "listed" ELSE "inserted")
  BY <1>2 DEF Request
<1> HIDE DEF r
<1>12. req'[a] = r /\ \A b \in Client \ {a} : req'[b] = req[b] BY <1>7, <1>10, GoesOn
<1>13. /\ rows' = rows /\ stored' = stored /\ failed' = failed /\ crossed' = crossed /\ refused' = refused BY DEF ListBatch
<1>14. RequestOK(a)'
  <2>1. RequestOK(a) OBVIOUS
  <2>2. ShapeOK(a)'
    BY <2>1, <1>2, <1>4, <1>5, <1>11, <1>12, <1>13 DEF RequestOK, ShapeOK
  <2>3. ASSUME Grants(a)
        PROVE  \A v \in Active : Position(v) <= o => IsUser(v, r.row[3]) \in req[a].rules \cup crossed
    BY <2>1, <2>3, <1>2, <1>11 DEF RequestOK, ListOK
  <2>4. \A v \in Batch(o) : IsUser(v, r.row[3]) \in page BY <1>9, <1>11
  <2>5. ListOK(a)'
    <3>1. Grants(a)' <=> Grants(a) BY <1>11, <1>12 DEF Grants
    <3>2. Active' = Active /\ \A v : Position(v)' = Position(v) BY <1>13 DEF Active, Position
    <3>3. ASSUME Grants(a) PROVE r.rules \subseteq Rules(r.row, rows) \cup failed
      BY <2>1, <3>3, <1>4, <1>11 DEF RequestOK, ListOK
    <3>4. ASSUME Grants(a), r.at # "inserted" PROVE Rules(r.row, rows) \subseteq r.rules \cup crossed
      <4>1. last BY <3>4, <1>11
      <4>2. ASSUME NEW x \in Rules(r.row, rows) PROVE x \in r.rules \cup crossed
        <5>1. PICK u \in User : UserGroup(u) \in rows /\ x = IsUser(u, r.row[3])
          BY <4>2, <1>2, <1>11, InRules
        <5>2. u \in Active BY <5>1 DEF Active
        <5>3. u \in Batch(o) \/ Position(u) <= o BY <1>8, <4>1, <5>2
        <5> QED BY <5>1, <5>2, <5>3, <2>3, <2>4, <3>4, <1>11
      <4> QED BY <4>2
    <3>5. ASSUME Grants(a), r.at = "inserted", NEW v \in Active, Position(v) <= r.offset
          PROVE  IsUser(v, r.row[3]) \in r.rules \cup crossed
      <4>1. ~last /\ r.offset = o + BatchSize BY <3>5, <1>11
      <4>2. v \in Batch(o) \/ Position(v) <= o BY <3>5, <4>1, <1>8
      <4> QED BY <4>2, <2>3, <2>4, <3>5, <1>11
    <3> QED BY <3>1, <3>2, <3>3, <3>4, <3>5, <1>12, <1>13 DEF ListOK
  <2>6. RowOK(a)' /\ SyncOK(a)' BY <1>11, <1>12 DEF RowOK, SyncOK
  <2> QED BY <2>2, <2>5, <2>6 DEF RequestOK
<1>15. ~Stores(a) /\ ~Owes(a) BY <1>2 DEF Stores, Owes
<1>16. \A b \in Busy \ {a} : req'[a] # Idle => Scope(req'[a].row) \cap Scope(req[b].row) \subseteq crossed'
  BY <1>2, <1>11, <1>12, <1>13, SameScope
<1> QED BY <1>1, <1>12, <1>13, <1>14, <1>15, <1>16, QuietStep

LEMMA AbortStep ==
    ASSUME IInv, NEW a \in Client, Abort(a)
    PROVE  IInv'
<1> USE DEF IInv
<1>1. TypeOK' BY StepType DEF Step
<1>2. req'[a] = Idle /\ \A b \in Client \ {a} : req'[b] = req[b] BY EndsThere DEF Abort
<1>3. rows' = rows /\ stored' = stored /\ failed' = failed /\ crossed' = crossed /\ refused' = refused BY DEF Abort
<1>4. ~Stores(a) /\ ~Owes(a) BY DEF Abort, Stores, Owes
<1> QED BY <1>1, <1>2, <1>3, <1>4, IdleAfter, QuietStep

LEMMA MemoryStep ==
    ASSUME IInv, NEW a \in Client, AddToMemory(a) \/ RemoveFromMemory(a)
    PROVE  IInv'
<1> USE DEF IInv
<1>1. TypeOK' BY StepType DEF Step
<1>2. MaySync(a) BY DEF AddToMemory, RemoveFromMemory
<1>3. a \in Busy /\ req[a] \in Request BY <1>2, BusyFacts DEF MaySync
<1> DEFINE r == [req[a] EXCEPT !.at = "storing"]
<1>4. r \in Request BY <1>3 DEF Request, Place
<1>5. req'[a] = r /\ \A b \in Client \ {a} : req'[b] = req[b]
  BY <1>4, GoesOn DEF AddToMemory, RemoveFromMemory
<1>6. /\ r.kind = req[a].kind /\ r.row = req[a].row /\ r.ambient = req[a].ambient
      /\ r.at = "storing" /\ r.rules = req[a].rules
  BY <1>3 DEF Request
<1> HIDE DEF r
<1>7. rows' = rows /\ stored' = stored /\ failed' = failed /\ crossed' = crossed /\ refused' = refused
  BY DEF AddToMemory, RemoveFromMemory
<1>8. RequestOK(a) OBVIOUS
<1>9. req[a].at = "committed" \/ (req[a].at = "listed" /\ req[a].ambient) BY <1>2 DEF MaySync
<1>10. RequestOK(a)'
  <2>1. ShapeOK(a)' BY <1>5, <1>6, <1>7, <1>8 DEF RequestOK, ShapeOK
  <2>2. ListOK(a)' BY <1>5, <1>6, <1>7, <1>8, <1>9 DEF RequestOK, ListOK, Grants
  <2>3. RowOK(a)' BY <1>5, <1>6, <1>7, <1>8, <1>9 DEF RequestOK, RowOK, Grants
  <2>4. SyncOK(a)' BY <1>5, <1>6 DEF SyncOK
  <2> QED BY <2>1, <2>2, <2>3, <2>4 DEF RequestOK
<1>11. \A b \in Busy \ {a} : req'[a] # Idle => Scope(req'[a].row) \cap Scope(req[b].row) \subseteq crossed'
  BY <1>3, <1>5, <1>6, <1>7, SameScope
<1>12. \A x \in req[a].rules : Stores(a) => Explained(a, x)'
  BY <1>5, <1>6 DEF Explained, Stores
<1>13. (~req[a].ambient /\ Owes(a)) => Owes(a)'
  BY <1>5, <1>6, <1>9 DEF Owes, Grants
<1>14. req[a].ambient => ~Owes(a) BY <1>9 DEF Owes
<1>15. \A x \in req[a].rules : Owes(a) => Kept(a, x)'
  BY <1>5, <1>6, <1>13, <1>14 DEF Kept
<1> QED BY <1>1, <1>5, <1>7, <1>10, <1>11, <1>12, <1>15, QuietStep

LEMMA NotWrittenStep ==
    ASSUME IInv, NEW a \in Client, NotWritten(a)
    PROVE  IInv'
<1> USE DEF IInv
<1>1. TypeOK' BY StepType DEF Step
<1>2. a \in Busy /\ req[a] \in Request /\ req[a].kind \in Kind /\ req[a].row \in Row
  BY BusyFacts DEF NotWritten, MaySync
<1>3. req[a].at = "committed" \/ (req[a].at = "listed" /\ req[a].ambient) BY DEF NotWritten, MaySync
<1>4. /\ \A b \in Client \ {a} : req'[b] = req[b]
      /\ req'[a] = IF req[a].ambient THEN [req[a] EXCEPT !.at = "synced"] ELSE Idle
  BY <1>2, SyncedType DEF NotWritten
<1>5. /\ rows' = rows /\ stored' = stored /\ failed' = failed /\ crossed \subseteq crossed' /\ refused \subseteq refused'
      /\ req[a].kind = "revoke" => req[a].rules \subseteq refused'
      /\ req[a].kind # "revoke" => req[a].rules \subseteq stored \cup refused'
  BY DEF NotWritten
<1>6. RequestOK(a) /\ (Grants(a) <=> req[a].kind # "revoke") BY <1>2 DEF Grants, Kind
<1>7. CASE req[a].ambient
  <2> DEFINE r == [req[a] EXCEPT !.at = "synced"]
  <2>1. /\ r.kind = req[a].kind /\ r.row = req[a].row /\ r.ambient = req[a].ambient
        /\ r.at = "synced" /\ r.rules = req[a].rules /\ req'[a] = r
    BY <1>2, <1>4, <1>7 DEF Request
  <2> HIDE DEF r
  <2>2. req[a].at = "listed" BY <1>3, <1>6, <1>7 DEF RequestOK, ShapeOK
  <2>3. RequestOK(a)'
    <3>1. ShapeOK(a)' BY <2>1, <1>5, <1>6, <1>7 DEF RequestOK, ShapeOK
    <3>2. ListOK(a)' BY <2>1, <2>2, <1>5, <1>6 DEF RequestOK, ListOK, Grants
    <3>3. RowOK(a)' BY <2>1 DEF RowOK
    <3>4. SyncOK(a)' BY <2>1, <1>5, <1>6 DEF SyncOK, Grants
    <3> QED BY <3>1, <3>2, <3>3, <3>4 DEF RequestOK
  <2>4. ~Stores(a) /\ ~Owes(a) BY <2>2 DEF Stores, Owes
  <2>5. \A b \in Busy \ {a} : req'[a] # Idle => Scope(req'[a].row) \cap Scope(req[b].row) \subseteq crossed'
    BY <1>2, <1>5, <2>1, SameScope
  <2> QED BY <1>1, <1>4, <1>5, <2>3, <2>4, <2>5, QuietStep
<1>8. CASE ~req[a].ambient
  <2>1. req'[a] = Idle /\ req[a].at = "committed" BY <1>3, <1>4, <1>8
  <2>2. \A x \in req[a].rules : x \in stored => Explained(a, x)'
    <3>1. Backed' = Backed BY <1>5 DEF Backed
    <3>2. Grants(a) => \A x \in req[a].rules : x \in Backed \/ x \in failed \/ x \in (crossed \cup refused) \cap Objects
      BY <1>8, <2>1, GrantExplained
    <3>3. req[a].kind = "revoke" => req[a].rules \subseteq Objects
      BY <1>2, <1>6, ObjectRules DEF RequestOK, ShapeOK
    <3> QED BY <1>5, <1>6, <3>1, <3>2, <3>3 DEF Explained, Objects
  <2>3. \A x \in req[a].rules : Kept(a, x)' BY <1>5 DEF Kept
  <2> QED BY <1>1, <1>4, <1>5, <2>1, <2>2, <2>3, IdleAfter, QuietStep
<1> QED BY <1>7, <1>8

LEMMA StoreFailsStep ==
    ASSUME IInv, NEW a \in Client, StoreFails(a)
    PROVE  IInv'
<1> USE DEF IInv
<1>1. TypeOK' BY StepType
<1>2. a \in Busy /\ req[a] \in Request /\ req[a].at = "storing" BY BusyFacts DEF StoreFails
<1>3. /\ rows' = rows /\ stored' = stored /\ failed' = failed \cup Scope(req[a].row)
      /\ crossed' = crossed /\ refused' = refused
  BY DEF StoreFails
<1>4. RequestOK(a) OBVIOUS
<1>5. \A x \in req[a].rules : Explained(a, x)' /\ Kept(a, x)'
  BY <1>3, <1>4 DEF RequestOK, ShapeOK, Explained, Kept
<1>6. CASE Ends(a) BY <1>1, <1>3, <1>5, <1>6, EndsThere, IdleAfter, QuietStep
<1>7. CASE ~Ends(a)
  <2> DEFINE r == [req[a] EXCEPT !.at = "undo"]
  <2>1. r \in Request /\ Goes(a, r) BY <1>2, <1>7 DEF StoreFails, Request, Place
  <2>2. req'[a] = r /\ \A b \in Client \ {a} : req'[b] = req[b] BY <2>1, GoesOn
  <2>3. /\ r.kind = req[a].kind /\ r.row = req[a].row /\ r.ambient = req[a].ambient
        /\ r.at = "undo" /\ r.rules = req[a].rules
    BY <1>2 DEF Request
  <2> HIDE DEF r
  <2>4. RequestOK(a)'
    <3>1. Scope(r.row) \subseteq failed' BY <2>3, <1>3
    <3>2. ShapeOK(a)' BY <2>2, <2>3, <3>1, <1>4 DEF RequestOK, ShapeOK
    <3>3. ListOK(a)' BY <2>2, <2>3, <1>2, <1>3, <1>4 DEF RequestOK, ListOK, Grants
    <3>4. RowOK(a)' /\ SyncOK(a)' BY <2>2, <2>3 DEF RowOK, SyncOK
    <3> QED BY <3>2, <3>3, <3>4 DEF RequestOK
  <2>5. \A b \in Busy \ {a} : req'[a] # Idle => Scope(req'[a].row) \cap Scope(req[b].row) \subseteq crossed'
    BY <1>2, <1>3, <2>2, <2>3, SameScope
  <2> QED BY <1>1, <1>3, <1>5, <2>2, <2>4, <2>5, QuietStep
<1> QED BY <1>6, <1>7

LEMMA CommitFailsStep ==
    ASSUME IInv, NEW a \in Client, CommitFails(a)
    PROVE  IInv'
<1> USE DEF IInv
<1>1. TypeOK' BY StepType
<1>2. req'[a] = Idle /\ \A b \in Client \ {a} : req'[b] = req[b] BY EndsThere DEF CommitFails
<1>3. /\ rows' = rows /\ stored' = stored /\ failed' = failed \cup req[a].rules
      /\ crossed' = crossed /\ refused' = refused
  BY DEF CommitFails
<1>4. \A x \in req[a].rules : Explained(a, x)' /\ Kept(a, x)' BY <1>3 DEF Explained, Kept
<1> QED BY <1>1, <1>2, <1>3, <1>4, IdleAfter, QuietStep

\* The kinds of a request: it adds its row and its rules, or it removes an object's.
LEMMA KindsOf ==
    ASSUME IInv, NEW a \in Client, a \in Busy
    PROVE  \/ Grants(a) /\ req[a].kind # "revoke"
           \/ /\ ~Grants(a) /\ req[a].kind = "revoke" /\ req[a].row[1] = "object"
              /\ req[a].rules = Scope(req[a].row) /\ Scope(req[a].row) \subseteq Objects
              /\ Scope(req[a].row) = {MayActOn(req[a].row[2])}
<1>1. req[a].kind \in Kind /\ req[a].row \in Row BY BusyFacts DEF IInv
<1>2. ShapeOK(a) BY DEF IInv, RequestOK
<1> QED BY <1>1, <1>2, ObjectRules DEF Grants, Kind, ShapeOK

LEMMA CommitRowStep ==
    ASSUME IInv, NEW a \in Client, CommitRow(a)
    PROVE  IInv'
<1> USE DEF IInv
<1>1. TypeOK' BY StepType DEF Step
<1>2. /\ a \in Busy /\ req[a] \in Request /\ req[a].row \in Row /\ req[a].at = "listed"
      /\ ~req[a].ambient /\ rows \in SUBSET Row
  BY BusyFacts DEF CommitRow, TypeOK
<1> PICK row \in Row : row = req[a].row BY <1>2
<1> DEFINE r == [req[a] EXCEPT !.at = "committed"]
<1>3. r \in Request BY <1>2 DEF Request, Place
<1>4. req'[a] = r /\ \A b \in Client \ {a} : req'[b] = req[b] BY <1>3, GoesOn DEF CommitRow
<1>5. /\ r.kind = req[a].kind /\ r.row = row /\ r.ambient = FALSE /\ req[a].ambient = FALSE
      /\ r.at = "committed" /\ r.rules = req[a].rules
  BY <1>2 DEF Request
<1> HIDE DEF r
<1>6. stored' = stored /\ failed' = failed /\ crossed' = crossed /\ refused' = refused /\ rows' = Committed(a) BY DEF CommitRow
<1>7. RequestOK(a) OBVIOUS
<1>8. Within(a)
  <2>1. req[a].kind = "revoke" => rows' = rows \ {row} /\ row[1] = "object" BY <1>2, <1>6, KindsOf DEF Committed
  <2>2. req[a].kind # "revoke" => rows' = rows \cup {row} BY <1>6 DEF Committed
  <2> QED BY <1>6, <2>1, <2>2 DEF Within
<1>9. \A b \in Client \ {a} : RequestOK(b)' BY <1>1, <1>2, <1>4, <1>6, <1>8, OthersKeep
<1>10. \A b \in Busy \ {a} : req'[a] # Idle => Scope(req'[a].row) \cap Scope(req[b].row) \subseteq crossed'
  BY <1>2, <1>4, <1>5, <1>6, SameScope
<1>11. Stores(a)' /\ ~Stores(a) /\ ~Owes(a) BY <1>2, <1>4, <1>5 DEF Stores, Owes
<1>12. Backed = Reasons(rows) /\ Backed' = Reasons(rows') BY DEF Backed, Reasons
<1>13. CASE Grants(a)
  <2>1. rows' = rows \cup {row} BY <1>6, <1>13 DEF Committed, Grants
  <2>2. Rules(row, rows') = Rules(row, rows) BY <2>1, RulesGrow
  <2>3. RequestOK(a)'
    <3>1. ShapeOK(a)' BY <1>4, <1>5, <1>6, <1>7 DEF RequestOK, ShapeOK
    <3>2. ListOK(a)' BY <1>2, <1>4, <1>5, <1>6, <1>7, <1>13, <2>2 DEF RequestOK, ListOK, Grants
    <3>3. RowOK(a)' BY <1>4, <1>5, <1>13, <2>1 DEF RowOK, Grants
    <3>4. SyncOK(a)' BY <1>4, <1>5 DEF SyncOK
    <3> QED BY <3>1, <3>2, <3>3, <3>4 DEF RequestOK
  <2>4. Backed \subseteq Backed' /\ Backed' \subseteq Backed \cup Rules(row, rows)
    BY <1>2, <1>12, <2>1, ReasonsGrow
  <2>5. Rules(row, rows) \subseteq req[a].rules \cup crossed BY <1>2, <1>7, <1>13 DEF RequestOK, ListOK
  <2>6. Owes(a)' BY <1>4, <1>5, <1>13 DEF Owes, Grants
  <2>7. \A x \in stored' : x \notin stored \/ x \in Backed \/ (Stores(a) /\ x \in req[a].rules)
          => Explained(a, x)'
    BY <1>6, <1>11, <2>4 DEF Explained
  <2>8. \A x \in Backed' : x \notin Backed \/ x \in stored \/ (Owes(a) /\ x \in req[a].rules)
          => Kept(a, x)'
    BY <1>4, <1>5, <1>6, <1>11, <2>4, <2>5, <2>6 DEF Kept
  <2> QED BY <1>1, <1>4, <1>6, <1>9, <1>10, <2>3, <2>7, <2>8, OneStep
<1>14. CASE ~Grants(a)
  <2>1. /\ req[a].kind = "revoke" /\ row[1] = "object" /\ rows' = rows \ {row}
        /\ req[a].rules = Scope(row)
    BY <1>2, <1>6, <1>14, KindsOf DEF Committed
  <2>2. RequestOK(a)'
    <3>1. ShapeOK(a)' BY <1>4, <1>5, <1>6, <1>7 DEF RequestOK, ShapeOK
    <3>2. ListOK(a)' BY <1>4, <1>5, <1>14 DEF ListOK, Grants
    <3>3. RowOK(a)' BY <1>4, <1>5, <1>14, <2>1 DEF RowOK, Grants
    <3>4. SyncOK(a)' BY <1>4, <1>5 DEF SyncOK
    <3> QED BY <3>1, <3>2, <3>3, <3>4 DEF RequestOK
  <2>3. Backed' \subseteq Backed /\ Backed \subseteq Backed' \cup Scope(row)
    BY <1>2, <1>12, <2>1, ReasonsShrink
  <2>4. \A x \in stored' : x \notin stored \/ x \in Backed \/ (Stores(a) /\ x \in req[a].rules)
          => Explained(a, x)'
    BY <1>4, <1>5, <1>6, <1>11, <2>1, <2>3 DEF Explained
  <2>5. \A x \in Backed' : x \notin Backed \/ x \in stored \/ (Owes(a) /\ x \in req[a].rules)
          => Kept(a, x)'
    BY <1>6, <1>11, <2>3 DEF Kept
  <2> QED BY <1>1, <1>4, <1>6, <1>9, <1>10, <2>2, <2>4, <2>5, OneStep
<1> QED BY <1>13, <1>14

LEMMA CommitLastStep ==
    ASSUME IInv, NEW a \in Client, CommitLast(a)
    PROVE  IInv'
<1> USE DEF IInv
<1>1. TypeOK' BY StepType DEF Step
<1>2. /\ a \in Busy /\ req[a].row \in Row /\ req[a].at = "synced" /\ rows \in SUBSET Row
  BY BusyFacts DEF CommitLast, TypeOK
<1> PICK row \in Row : row = req[a].row BY <1>2
<1>3. req'[a] = Idle /\ \A b \in Client \ {a} : req'[b] = req[b] BY EndsThere DEF CommitLast
<1>4. stored' = stored /\ failed' = failed /\ crossed' = crossed /\ refused' = refused /\ rows' = Committed(a) BY DEF CommitLast
<1>5. RequestOK(a) OBVIOUS
<1>6. Within(a)
  <2>1. req[a].kind = "revoke" => rows' = rows \ {row} /\ row[1] = "object" BY <1>2, <1>4, KindsOf DEF Committed
  <2>2. req[a].kind # "revoke" => rows' = rows \cup {row} BY <1>4 DEF Committed
  <2> QED BY <1>4, <2>1, <2>2 DEF Within
<1>7. \A b \in Client \ {a} : RequestOK(b)' BY <1>1, <1>2, <1>3, <1>4, <1>6, OthersKeep
<1>8. Backed = Reasons(rows) /\ Backed' = Reasons(rows') BY DEF Backed, Reasons
<1>9. CASE Grants(a)
  <2>1. rows' = rows \cup {row} BY <1>4, <1>9 DEF Committed, Grants
  <2>2. /\ Backed \subseteq Backed' /\ Backed' \subseteq Backed \cup Rules(row, rows)
        /\ Rules(row, rows) \subseteq Backed'
    BY <1>2, <1>8, <2>1, ReasonsGrow
  <2>3. /\ req[a].rules \subseteq Rules(row, rows) \cup failed
        /\ Rules(row, rows) \subseteq req[a].rules \cup crossed
        /\ req[a].rules \subseteq stored \cup crossed \cup refused \cup failed
    BY <1>2, <1>5, <1>9 DEF RequestOK, ListOK, SyncOK
  <2>4. \A x \in stored' : x \notin stored \/ x \in Backed \/ (Stores(a) /\ x \in req[a].rules)
          => Explained(a, x)'
    BY <1>4, <2>2, <2>3 DEF Explained
  <2>5. \A x \in Backed' : x \notin Backed \/ x \in stored \/ (Owes(a) /\ x \in req[a].rules)
          => Kept(a, x)'
    BY <1>4, <2>2, <2>3 DEF Kept
  <2> QED BY <1>1, <1>3, <1>4, <1>7, <2>4, <2>5, IdleAfter, OneStep
<1>10. CASE ~Grants(a)
  <2>1. /\ req[a].kind = "revoke" /\ row[1] = "object" /\ rows' = rows \ {row}
        /\ req[a].rules = Scope(row) /\ Scope(row) \subseteq Objects /\ Scope(row) = {MayActOn(row[2])}
    BY <1>2, <1>4, <1>10, KindsOf DEF Committed
  <2>2. /\ Backed' \subseteq Backed /\ Backed \subseteq Backed' \cup Scope(row)
        /\ MayActOn(row[2]) \notin Backed'
    BY <1>2, <1>8, <2>1, ReasonsShrink
  <2>3. Scope(row) \cap stored \subseteq crossed \cup refused BY <1>2, <1>5, <2>1 DEF RequestOK, SyncOK
  <2>4. \A x \in stored' : x \notin stored \/ x \in Backed \/ (Stores(a) /\ x \in req[a].rules)
          => Explained(a, x)'
    BY <1>4, <2>1, <2>2, <2>3 DEF Explained, Objects
  <2>5. \A x \in Backed' : x \notin Backed \/ x \in stored \/ (Owes(a) /\ x \in req[a].rules)
          => Kept(a, x)'
    BY <1>4, <2>1, <2>2 DEF Kept
  <2> QED BY <1>1, <1>3, <1>4, <1>7, <2>4, <2>5, IdleAfter, OneStep
<1> QED BY <1>9, <1>10

LEMMA CompensateStep ==
    ASSUME IInv, NEW a \in Client, Compensate(a)
    PROVE  IInv'
<1> USE DEF IInv
<1>1. TypeOK' BY StepType DEF Step
<1>2. /\ a \in Busy /\ req[a].row \in Row /\ req[a].at = "undo" /\ rows \in SUBSET Row
  BY BusyFacts DEF Compensate, TypeOK
<1> PICK row \in Row : row = req[a].row BY <1>2
<1>3. req'[a] = Idle /\ \A b \in Client \ {a} : req'[b] = req[b] BY EndsThere DEF Compensate
<1>4. failed' = failed /\ crossed \subseteq crossed' /\ refused \subseteq refused' BY DEF Compensate
<1>5. Scope(row) \subseteq failed /\ req[a].rules \subseteq Scope(row)
  BY <1>2 DEF RequestOK, ShapeOK
<1>6. stored' \subseteq stored /\ stored \ Scope(row) \subseteq stored'
  BY <1>5 DEF Compensate
<1>7. rows' = rows \/ rows' = rows \ {row} BY DEF Compensate, WithoutRow
<1>8. rows' # rows /\ row[1] = "member" => Missed(row[2]) \subseteq crossed' BY DEF Compensate
<1>9. Within(a) BY <1>5, <1>6, <1>7, <1>8 DEF Within
<1>10. \A b \in Client \ {a} : RequestOK(b)' BY <1>1, <1>2, <1>3, <1>4, <1>9, OthersKeep
<1>11. Backed = Reasons(rows) /\ Backed' = Reasons(rows') BY DEF Backed, Reasons
<1>12. Backed' \subseteq Backed /\ Backed \subseteq Backed' \cup Scope(row)
  BY <1>2, <1>7, <1>11, ReasonsShrink
<1>13. \A x \in stored' : x \notin stored \/ x \in Backed \/ (Stores(a) /\ x \in req[a].rules)
          => Explained(a, x)'
  BY <1>4, <1>5, <1>6, <1>12 DEF Explained
<1>14. \A x \in Backed' : x \notin Backed \/ x \in stored \/ (Owes(a) /\ x \in req[a].rules)
          => Kept(a, x)'
  BY <1>4, <1>5, <1>6, <1>12 DEF Kept
<1> QED BY <1>1, <1>3, <1>4, <1>10, <1>13, <1>14, IdleAfter, OneStep

LEMMA StoreRulesStep ==
    ASSUME IInv, NEW a \in Client, StoreRules(a)
    PROVE  IInv'
<1> USE DEF IInv
<1>1. TypeOK' BY StepType DEF Step
<1>2. /\ a \in Busy /\ req[a] \in Request /\ req[a].row \in Row /\ req[a].at = "storing"
      /\ rows \in SUBSET Row
  BY BusyFacts DEF StoreRules, TypeOK
<1> PICK row \in Row : row = req[a].row BY <1>2
<1>3. /\ \A b \in Client \ {a} : req'[b] = req[b]
      /\ req'[a] = IF req[a].ambient THEN [req[a] EXCEPT !.at = "synced"] ELSE Idle
  BY <1>2, SyncedType DEF StoreRules
<1>4. rows' = rows /\ failed' = failed /\ crossed' = crossed /\ refused' = refused /\ stored' = Stored(a) BY DEF StoreRules
<1>5. RequestOK(a) /\ req[a].rules \subseteq Scope(row) BY DEF RequestOK, ShapeOK
<1>6. Backed' = Backed BY <1>4 DEF Backed
<1>7. Within(a) BY <1>4, <1>5 DEF Within, Stored
<1>8. \A b \in Client \ {a} : RequestOK(b)' BY <1>1, <1>2, <1>3, <1>4, <1>7, OthersKeep
<1>9. /\ Grants(a) => stored' = stored \cup req[a].rules
      /\ ~Grants(a) => stored' = stored \ req[a].rules
  BY <1>2, <1>4, KindsOf DEF Stored
<1>10. CASE req[a].ambient
  <2> DEFINE r == [req[a] EXCEPT !.at = "synced"]
  <2>1. /\ r.kind = req[a].kind /\ r.row = row /\ r.ambient = req[a].ambient
        /\ r.at = "synced" /\ r.rules = req[a].rules /\ req'[a] = r
    BY <1>2, <1>3, <1>10 DEF Request
  <2> HIDE DEF r
  <2>2. RequestOK(a)'
    <3>1. ShapeOK(a)' BY <2>1, <1>4, <1>5, <1>10 DEF RequestOK, ShapeOK
    <3>2. ListOK(a)' BY <2>1, <1>2, <1>4, <1>5 DEF RequestOK, ListOK, Grants
    <3>3. RowOK(a)' BY <2>1 DEF RowOK
    <3>4. SyncOK(a)'
      <4>1. Grants(a)' <=> Grants(a) BY <2>1 DEF Grants
      <4>2. r.kind = "revoke" => ~Grants(a) BY <2>1 DEF Grants
      <4> QED BY <2>1, <4>1, <4>2, <1>9 DEF SyncOK
    <3> QED BY <3>1, <3>2, <3>3, <3>4 DEF RequestOK
  <2>3. \A b \in Busy \ {a} : req'[a] # Idle => Scope(req'[a].row) \cap Scope(req[b].row) \subseteq crossed'
    BY <1>2, <1>4, <2>1, SameScope
  <2>4. Stores(a)' BY <2>1 DEF Stores
  <2>5. ~Grants(a) => Owes(a)' BY <1>2, <2>1, KindsOf DEF Owes
  <2>6. \A x \in stored' : x \notin stored \/ x \in Backed \/ (Stores(a) /\ x \in req[a].rules)
          => Explained(a, x)'
    BY <1>6, <1>9, <2>1, <2>4 DEF Explained
  <2>7. \A x \in Backed' : x \notin Backed \/ x \in stored \/ (Owes(a) /\ x \in req[a].rules)
          => Kept(a, x)'
    <3>1. ~Owes(a) BY <1>2, <1>10 DEF Owes
    <3>2. ASSUME NEW x \in stored PROVE Kept(a, x)'
      BY <1>9, <2>1, <2>5 DEF Kept
    <3> QED BY <1>6, <3>1, <3>2
  <2> QED BY <1>1, <1>3, <1>4, <1>8, <2>2, <2>3, <2>6, <2>7, OneStep
<1>11. CASE ~req[a].ambient
  <2>1. req'[a] = Idle BY <1>3, <1>11
  <2>2. CASE Grants(a)
    <3>1. \A x \in req[a].rules : x \in Backed \/ x \in failed \/ x \in (crossed \cup refused) \cap Objects
      BY <1>2, <1>11, <2>2, GrantExplained
    <3>2. \A x \in stored' : x \notin stored \/ x \in Backed \/ (Stores(a) /\ x \in req[a].rules)
            => Explained(a, x)'
      BY <1>4, <1>6, <1>9, <2>2, <3>1 DEF Explained, Objects
    <3>3. \A x \in Backed' : x \notin Backed \/ x \in stored \/ (Owes(a) /\ x \in req[a].rules)
            => Kept(a, x)'
      BY <1>6, <1>9, <2>2 DEF Kept
    <3> QED BY <1>1, <1>3, <1>4, <1>8, <2>1, <3>2, <3>3, IdleAfter, OneStep
  <2>3. CASE ~Grants(a)
    <3>1. /\ req[a].kind = "revoke" /\ row[1] = "object" /\ req[a].rules = Scope(row)
          /\ Scope(row) = {MayActOn(row[2])}
      BY <1>2, <2>3, KindsOf
    <3>2. row \notin rows \/ Scope(row) \subseteq crossed
      BY <1>2, <1>5, <1>11, <3>1 DEF RequestOK, RowOK
    <3>3. row \notin rows => MayActOn(row[2]) \notin Backed BY <1>2, <3>1, ObjectRules DEF Backed
    <3>4. \A x \in stored' : x \notin stored \/ x \in Backed \/ (Stores(a) /\ x \in req[a].rules)
            => Explained(a, x)'
      BY <1>6, <1>9, <2>3 DEF Explained
    <3>5. \A x \in Backed' : x \notin Backed \/ x \in stored \/ (Owes(a) /\ x \in req[a].rules)
            => Kept(a, x)'
      <4>1. ~Owes(a) BY <1>2, <2>3, <3>1 DEF Owes
      <4>2. ASSUME NEW x \in stored, x \in Backed PROVE Kept(a, x)'
        <5>1. CASE x \in Scope(row) BY <1>4, <3>1, <3>2, <3>3, <4>2, <5>1 DEF Kept
        <5>2. CASE x \notin Scope(row) BY <1>9, <2>3, <3>1, <4>2, <5>2 DEF Kept
        <5> QED BY <5>1, <5>2
      <4> QED BY <1>6, <4>1, <4>2
    <3> QED BY <1>1, <1>3, <1>4, <1>8, <2>1, <3>4, <3>5, IdleAfter, OneStep
  <2> QED BY <2>2, <2>3
<1> QED BY <1>10, <1>11

LEMMA CrashStep ==
    ASSUME IInv, NEW w \in Worker, Crash(w)
    PROVE  IInv'
<1> USE DEF IInv
<1> DEFINE its == {a \in Busy : Home[a] = w}
<1>1. TypeOK' BY WorkerType
<1>2. /\ rows' = rows /\ stored' = stored /\ crossed' = crossed /\ refused' = refused
      /\ failed' = failed \cup UNION {Scope(req[a].row) : a \in its}
      /\ req' = [a \in Client |-> IF a \in its THEN Idle ELSE req[a]]
  BY DEF Crash
<1>3. \A a \in Client \ its : req'[a] = req[a] BY <1>2
<1>4. \A a \in its : a \in Client /\ req'[a] = Idle BY <1>2 DEF Busy
<1>5. \A a \in its : Scope(req[a].row) \subseteq failed' BY <1>2
<1> HIDE DEF its
<1>6. ASSUME NEW a \in Client PROVE RequestOK(a)'
  <2>1. CASE a \in its BY <2>1, <1>4, IdleAfter
  <2>2. CASE a \notin its BY <2>2, <1>2, <1>3, OthersUnmoved
  <2> QED BY <2>1, <2>2
<1>7. \A b \in Client : req'[b] # Idle => req'[b] = req[b] /\ b \in Busy BY <1>3, <1>4 DEF Busy
<1>8. OverlapOK'
  <2>1. ASSUME NEW b \in Client, NEW c \in Client \ {b}, req'[b] # Idle, req'[c] # Idle
        PROVE  Scope(req'[b].row) \cap Scope(req'[c].row) \subseteq crossed'
    BY <1>2, <1>7, <2>1 DEF OverlapOK
  <2> QED BY <2>1 DEF OverlapOK, Busy, Scope
<1>9. Backed' = Backed BY <1>2 DEF Backed
<1>10. StoredOK'
  <2>1. ASSUME NEW x \in stored', x \notin Backed, x \notin failed', x \notin (crossed \cup refused) \cap Objects
        PROVE  \E c \in Client : Stores(c)' /\ x \in req'[c].rules
    <3>1. PICK c \in Client : Stores(c) /\ x \in req[c].rules BY <1>2, <2>1 DEF StoredOK
    <3>2. x \in Scope(req[c].row) BY <3>1 DEF RequestOK, ShapeOK
    <3>3. req'[c] = req[c] BY <1>3, <1>5, <2>1, <3>2
    <3>4. Stores(c)' BY <3>1, <3>3 DEF Stores
    <3> QED BY <3>1, <3>3, <3>4
  <2> QED BY <1>2, <1>9, <2>1 DEF StoredOK, Objects
<1>11. BackedOK'
  <2>1. ASSUME NEW x \in Backed, x \notin stored, x \notin failed', x \notin crossed \cup refused
        PROVE  \E c \in Client : Owes(c)' /\ x \in req'[c].rules
    <3>1. PICK c \in Client : Owes(c) /\ x \in req[c].rules BY <1>2, <2>1 DEF BackedOK
    <3>2. x \in Scope(req[c].row) BY <3>1 DEF RequestOK, ShapeOK
    <3>3. req'[c] = req[c] BY <1>3, <1>5, <2>1, <3>2
    <3>4. Owes(c)' BY <3>1, <3>3 DEF Owes, Grants
    <3> QED BY <3>1, <3>3, <3>4
  <2> QED BY <1>2, <1>9, <2>1 DEF BackedOK
<1> QED BY <1>1, <1>6, <1>8, <1>10, <1>11

\* Neither a load nor a stuttering step is about rows, stored rules or requests.
LEMMA Unconcerned ==
    ASSUME IInv, TypeOK', rows' = rows, stored' = stored, req' = req, failed' = failed, crossed' = crossed /\ refused' = refused
    PROVE  IInv'
<1> USE DEF IInv
<1>1. \A a \in Client : RequestOK(a)' BY OthersUnmoved
<1>2. OverlapOK' BY DEF OverlapOK, Busy, Scope
<1>3. Backed' = Backed BY DEF Backed
<1>4. StoredOK' BY <1>3 DEF StoredOK, Stores, Objects
<1>5. BackedOK' BY <1>3 DEF BackedOK, Owes, Grants
<1> QED BY <1>1, <1>2, <1>4, <1>5

LEMMA LoadStep ==
    ASSUME IInv, NEW w \in Worker, LoadBegins(w) \/ LoadEnds(w) \/ LoadFails(w)
    PROVE  IInv'
<1>1. TypeOK' BY WorkerType DEF IInv
<1>2. rows' = rows /\ stored' = stored /\ req' = req /\ failed' = failed /\ crossed' = crossed /\ refused' = refused
  BY DEF LoadBegins, LoadEnds, LoadFails
<1> QED BY <1>1, <1>2, Unconcerned

----------------------------------------------------------------------------
(* The theorems.                                                           *)

LEMMA InitOK == Init => IInv
<1> SUFFICES ASSUME Init PROVE IInv OBVIOUS
<1> USE DEF Init
<1>1. rows \subseteq Row BY ConstAssumption DEF Row, User, Role
<1>2. stored \subseteq Rule BY ConstAssumption DEF Rule, User, Role
<1>3. TypeOK BY <1>1, <1>2, ConstAssumption DEF TypeOK
<1>4. \A a \in Client : RequestOK(a) /\ a \notin Busy BY IdleOK DEF Busy
<1>5. StoredOK
  <2>1. ASSUME NEW x \in stored PROVE x \in Backed
    <3>1. CASE \E u \in Members, r \in Roles : x = IsUser(u, r)
      <4>1. PICK u \in Members, r \in Roles : x = IsUser(u, r) BY <3>1
      <4>2. UserGroup(u) \in rows /\ GroupRole(r) \in rows /\ r \in Role
        BY ConstAssumption DEF Role
      <4>3. x \in Rules(UserGroup(u), rows)
        BY <4>1, <4>2 DEF Rules, UserGroup
      <4> QED BY <4>2, <4>3 DEF Backed
    <3>2. CASE \E o \in Own : x = IsUser(o[1], o[2])
      <4>1. PICK o \in Own : x = IsUser(o[1], o[2]) BY <3>2
      <4>2. UserRole(o[1], o[2]) \in rows OBVIOUS
      <4>3. x \in Rules(UserRole(o[1], o[2]), rows) BY <4>1 DEF Rules, UserRole
      <4> QED BY <4>2, <4>3 DEF Backed
    <3> QED BY <2>1, <3>1, <3>2
  <2> QED BY <2>1 DEF StoredOK
<1>6. BackedOK
  <2>1. ASSUME NEW x \in Backed PROVE x \in stored
    <3>1. PICK row \in rows : x \in Rules(row, rows) BY <2>1 DEF Backed
    <3>2. \A u : UserGroup(u) \in rows => u \in Members
      BY RowNames DEF UserRole
    <3>3. \A r : GroupRole(r) \in rows => r \in Roles
      BY RowNames DEF UserRole
    <3>4. row \in Row /\ row[1] \in {"member", "group", "user"} BY <1>1, <3>1, RowNames DEF UserRole
    <3>5. \/ \E u \in Members, r \in Roles : x = IsUser(u, r)
          \/ \E o \in Own : x = IsUser(o[1], o[2])
      <4>1. CASE row[1] = "member"
        <5>1. PICK r \in Role : GroupRole(r) \in rows /\ x = IsUser(row[2], r) BY <3>1, <3>4, <4>1, InRules
        <5>2. row = UserGroup(row[2]) BY <3>4, <4>1, RowFields
        <5> QED BY <3>1, <3>2, <3>3, <5>1, <5>2
      <4>2. CASE row[1] = "group"
        <5>1. PICK u \in User : UserGroup(u) \in rows /\ x = IsUser(u, row[3]) BY <3>1, <3>4, <4>2, InRules
        <5>2. row = GroupRole(row[3]) BY <3>4, <4>2, RowFields
        <5> QED BY <3>1, <3>2, <3>3, <5>1, <5>2
      <4>3. CASE row[1] = "user"
        <5>1. x = IsUser(row[2], row[3]) BY <3>1, <3>4, <4>3, InRules
        <5>2. PICK o \in Own : row = UserRole(o[1], o[2]) BY <3>1, <4>3, RowNames
        <5> QED BY <5>1, <5>2 DEF UserRole
      <4> QED BY <3>4, <4>1, <4>2, <4>3
    <3> QED BY <3>5
  <2> QED BY <2>1 DEF BackedOK
<1>7. OverlapOK
  <2>1. Busy = {} BY <1>4 DEF Busy
  <2> QED BY <2>1 DEF OverlapOK
<1>8. \A a \in Client : RequestOK(a) BY <1>4
<1> HIDE DEF Init
<1> QED BY <1>3, <1>5, <1>6, <1>7, <1>8 DEF IInv

LEMMA NextOK == IInv /\ [Next]_vars => IInv'
<1> SUFFICES ASSUME IInv, [Next]_vars PROVE IInv' OBVIOUS
<1>1. ASSUME NEW a \in Client, Step(a) \/ StoreFails(a) \/ CommitFails(a) PROVE IInv'
  BY <1>1, ListRolesStep, ListBatchStep, AbortStep, CommitRowStep, MemoryStep, NotWrittenStep,
     StoreRulesStep, CommitLastStep, CompensateStep, StoreFailsStep, CommitFailsStep DEF Step
<1>2. ASSUME NEW a \in Client, NEW row \in Row, Seed(a, row) PROVE IInv'
  <2>1. TRUE \in BOOLEAN OBVIOUS
  <2> QED BY <1>2, <2>1, NewRequests
<1>3. ASSUME NEW a \in Client, NEW row \in Row, NEW ambient \in BOOLEAN,
             Insert(a, row, ambient) \/ DeleteGrant(a, row, ambient)
      PROVE IInv'
  BY <1>3, NewRequests
<1>4. ASSUME NEW w \in Worker, LoadBegins(w) \/ LoadEnds(w) \/ LoadFails(w) \/ Crash(w) PROVE IInv'
  BY <1>4, LoadStep, CrashStep
<1>5. CASE UNCHANGED vars
  <2>1. TypeOK' BY <1>5 DEF IInv, TypeOK, vars
  <2> QED BY <1>5, <2>1, Unconcerned DEF vars
<1> QED BY <1>1, <1>2, <1>3, <1>4, <1>5 DEF Next

----------------------------------------------------------------------------
(* Roles that users have directly, and permissions: one rule for each row, *)
(* which Casbin refuses only if the worker knows that very rule.           *)

Direct(row) == row[1] \in {"user", "permission"}

\* What a worker knows, and what it has read, is stored, is about to be, or was about a
\* fault; only the rule of an object may have been removed since.
Lasting == stored \cup failed \cup Objects
KnownOK ==
    \A w \in Worker : \A x \in mem[w] :
        x \in Lasting \/ \E a \in Client : req[a].at = "storing" /\ x \in req[a].rules
ReadOK == \A w \in Worker : load[w].rules \subseteq Lasting

Enforced == stored \cup failed \cup crossed
DirectSyncOK ==
    \A a \in Client : req[a].at = "synced" /\ Direct(req[a].row) => req[a].rules \subseteq Enforced
DirectOK ==
    \A row \in rows : Direct(row) =>
        Scope(row) \subseteq Enforced \/ \E a \in Client : Owes(a) /\ req[a].row = row

DInv == KnownOK /\ ReadOK /\ DirectSyncOK /\ DirectOK

LEMMA DirectRules ==
    ASSUME NEW row \in Row, Direct(row)
    PROVE  /\ \E x \in Rule \ Objects : Scope(row) = {x}
           /\ row[1] \notin {"member", "group", "object"}
<1>1. CASE row[1] = "user"
  <2>1. Scope(row) = {IsUser(row[2], row[3])} BY <1>1, InRules DEF Scope
  <2>2. IsUser(row[2], row[3]) \in Rule \ Objects
    BY <1>1, RowFields DEF Rule, Objects, IsUser, MayActOn
  <2> QED BY <1>1, <2>1, <2>2
<1>2. CASE row[1] = "permission"
  <2>1. Scope(row) = {MayAct(row[3])} BY <1>2, InRules DEF Scope
  <2>2. MayAct(row[3]) \in Rule \ Objects
    BY <1>2, RowFields DEF Rule, Objects, MayAct, MayActOn
  <2> QED BY <1>2, <2>1, <2>2
<1> QED BY <1>1, <1>2 DEF Direct

\* A direct request is a grant, and its rules are the one of its row.
LEMMA DirectRequest ==
    ASSUME IInv, NEW a \in Client, a \in Busy, Direct(req[a].row)
    PROVE  /\ Grants(a) /\ req[a].kind # "revoke" /\ req[a].rules = Scope(req[a].row)
           /\ req[a].row \in Row /\ \E x \in Rule \ Objects : req[a].rules = {x}
<1>1. req[a].row \in Row /\ req[a].kind \in Kind /\ ShapeOK(a)
  BY BusyFacts DEF IInv, RequestOK
<1>2. Grants(a) /\ req[a].kind # "revoke" BY <1>1, DirectRules, KindsOf
<1> QED BY <1>1, <1>2, DirectRules DEF ShapeOK, Grants

\* A step of one client is not one of another.
LEMMA OthersWait ==
    ASSUME TypeOK, NEW a \in Client, Step(a) \/ StoreFails(a) \/ CommitFails(a)
    PROVE  \A b \in Client \ {a} : req'[b] = req[b]
BY DEF TypeOK, Step, StoreFails, CommitFails, ListRoles, ListBatch, Abort, CommitRow, AddToMemory,
       RemoveFromMemory, NotWritten, StoreRules, CommitLast, Compensate, Synced, Ends, Goes

LEMMA BeginsThere ==
    ASSUME IInv, NEW a \in Client, NEW row \in Row, NEW ambient \in BOOLEAN,
           Seed(a, row) \/ Insert(a, row, ambient) \/ DeleteGrant(a, row, ambient)
    PROVE  /\ rows' = rows /\ stored' = stored /\ failed' = failed /\ crossed \subseteq crossed'
           /\ mem' = mem /\ load' = load /\ req[a] = Idle
           /\ req'[a].at \in {"inserted", "listed"} /\ \A b \in Client \ {a} : req'[b] = req[b]
<1>1. PICK rules : \E kind \in Kind, go \in BOOLEAN, at \in {"inserted", "listed"} :
        Begins(a, kind, row, go, at, rules)
  BY DEF Seed, Insert, DeleteGrant, Kind
<1> PICK kind \in Kind, go \in BOOLEAN, at \in {"inserted", "listed"} :
        Begins(a, kind, row, go, at, rules)
  BY <1>1
<1>2. /\ req'[a] = Began(kind, row, go, at, rules) /\ \A b \in Client \ {a} : req'[b] = req[b]
  BY DEF IInv, TypeOK, Begins, Goes, Began
<1>3. Began(kind, row, go, at, rules).at = at BY DEF Began, Idle
<1> QED BY <1>2, <1>3 DEF Begins

\* The steps of one request, with the fault that ends it.
Acts(a) == Step(a) \/ StoreFails(a) \/ CommitFails(a)

\* What is stored goes only if it is an object's, or was about a fault.
LEMMA ActsLose ==
    ASSUME IInv, NEW a \in Client, Acts(a)
    PROVE  failed \subseteq failed' /\ crossed \subseteq crossed' /\ stored \subseteq Lasting'
<1> USE DEF Acts
<1>1. failed \subseteq failed' /\ crossed \subseteq crossed'
  BY DEF Step, StoreFails, CommitFails, ListRoles, ListBatch, Abort, CommitRow, AddToMemory,
         RemoveFromMemory, NotWritten, StoreRules, CommitLast, Compensate
<1>2. CASE StoreRules(a)
  <2>1. a \in Busy BY <1>2, BusyFacts DEF IInv, StoreRules
  <2>2. req[a].kind # "revoke" \/ req[a].rules \subseteq Objects BY <2>1, KindsOf
  <2>3. stored' = Stored(a) BY <1>2 DEF StoreRules
  <2> QED BY <1>1, <2>2, <2>3 DEF Stored, Lasting, Objects
<1>3. CASE Compensate(a)
  <2>1. req[a].rules \subseteq failed
    BY <1>3 DEF IInv, RequestOK, ShapeOK, Compensate
  <2>2. stored \ req[a].rules \subseteq stored' BY <1>3 DEF Compensate
  <2> QED BY <1>1, <2>1, <2>2 DEF Lasting
<1>4. CASE stored' = stored BY <1>1, <1>4 DEF Lasting
<1>5. StoreRules(a) \/ Compensate(a) \/ stored' = stored
  BY DEF Step, StoreFails, CommitFails, ListRoles, ListBatch, Abort, CommitRow, AddToMemory,
         RemoveFromMemory, NotWritten, CommitLast
<1> QED BY <1>1, <1>2, <1>3, <1>4, <1>5

LEMMA Lasts ==
    ASSUME failed \subseteq failed', stored \subseteq Lasting'
    PROVE  Lasting \subseteq Lasting'
BY DEF Lasting, Objects

\* Rules that are being stored are stored in the end, or were an object's or about a fault.
LEMMA ActsStore ==
    ASSUME IInv, NEW a \in Client, Acts(a), req[a].at = "storing"
    PROVE  req[a].rules \subseteq Lasting'
<1>1. a \in Busy /\ req[a].rules \subseteq Scope(req[a].row)
  BY BusyFacts DEF IInv, RequestOK, ShapeOK
<1>2. CASE StoreRules(a)
  <2>1. req[a].kind # "revoke" \/ req[a].rules \subseteq Objects BY <1>1, KindsOf
  <2>2. stored' = Stored(a) BY <1>2 DEF StoreRules
  <2> QED BY <2>1, <2>2 DEF Stored, Lasting, Objects
<1>3. CASE StoreFails(a) BY <1>1, <1>3 DEF StoreFails, Lasting
<1>4. StoreRules(a) \/ StoreFails(a)
  BY DEF Acts, Step, CommitFails, ListRoles, ListBatch, Abort, CommitRow, AddToMemory,
         RemoveFromMemory, NotWritten, CommitLast, Compensate, MaySync
<1> QED BY <1>2, <1>3, <1>4

LEMMA ActsKnow ==
    ASSUME IInv, KnownOK, ReadOK, NEW a \in Client, Acts(a)
    PROVE  KnownOK' /\ ReadOK'
<1>1. /\ Lasting \subseteq Lasting' /\ \A b \in Client \ {a} : req'[b] = req[b]
      /\ load' = load
  <2>1. \A b \in Client \ {a} : req'[b] = req[b] BY OthersWait DEF IInv, Acts
  <2>2. load' = load
    BY DEF Acts, Step, StoreFails, CommitFails, ListRoles, ListBatch, Abort, CommitRow, AddToMemory,
           RemoveFromMemory, NotWritten, StoreRules, CommitLast, Compensate
  <2> QED BY <2>1, <2>2, ActsLose, Lasts
<1>2. ReadOK' BY <1>1 DEF ReadOK
<1>3. ASSUME NEW w \in Worker, NEW x \in mem'[w], x \in mem[w]
      PROVE  x \in Lasting' \/ \E b \in Client : req'[b].at = "storing" /\ x \in req'[b].rules
  <2>1. CASE x \in Lasting BY <2>1, <1>1
  <2>2. CASE \E b \in Client : req[b].at = "storing" /\ x \in req[b].rules
    <3>1. PICK b \in Client : req[b].at = "storing" /\ x \in req[b].rules BY <2>2
    <3>2. CASE b = a BY <3>1, <3>2, ActsStore
    <3>3. CASE b # a BY <3>1, <3>3, <1>1
    <3> QED BY <3>2, <3>3
  <2> QED BY <1>3, <2>1, <2>2 DEF KnownOK
<1>4. ASSUME NEW w \in Worker, NEW x \in mem'[w], x \notin mem[w]
      PROVE  req'[a].at = "storing" /\ x \in req'[a].rules
  <2>1. CASE AddToMemory(a)
    <3>1. MaySync(a) /\ mem' = [mem EXCEPT ![Home[a]] = @ \cup req[a].rules]
      BY <2>1 DEF AddToMemory
    <3>2. a \in Busy /\ req[a] \in Request BY <3>1, BusyFacts DEF IInv, MaySync
    <3>3. req'[a] = [req[a] EXCEPT !.at = "storing"]
      BY <2>1 DEF AddToMemory, Goes, IInv, TypeOK
    <3>4. req'[a].at = "storing" /\ req'[a].rules = req[a].rules BY <3>2, <3>3 DEF Request
    <3>5. x \in req[a].rules BY <1>4, <3>1 DEF IInv, TypeOK
    <3> QED BY <3>4, <3>5
  <2>2. ASSUME NEW S, mem' = [mem EXCEPT ![Home[a]] = @ \ S] PROVE FALSE
    BY <1>4, <2>2 DEF IInv, TypeOK
  <2>3. AddToMemory(a) \/ \E S : mem' = [mem EXCEPT ![Home[a]] = @ \ S]
    <3>1. CASE RemoveFromMemory(a) BY <3>1 DEF RemoveFromMemory
    <3>2. CASE Compensate(a) BY <3>2 DEF Compensate
    <3>3. CASE mem' = mem BY <1>4, <3>3
    <3>4. AddToMemory(a) \/ RemoveFromMemory(a) \/ Compensate(a) \/ mem' = mem
      BY DEF Acts, Step, StoreFails, CommitFails, ListRoles, ListBatch, Abort, CommitRow,
             NotWritten, StoreRules, CommitLast
    <3> QED BY <3>1, <3>2, <3>3, <3>4
  <2> QED BY <2>1, <2>2, <2>3
<1> QED BY <1>2, <1>3, <1>4 DEF KnownOK

\* A direct grant that Casbin refuses is enforced by what made it refuse.
LEMMA RefusedIsEnforced ==
    ASSUME IInv, KnownOK, NEW a \in Client, NotWritten(a), Direct(req[a].row)
    PROVE  req[a].rules \subseteq Enforced
<1>1. a \in Busy /\ req[a].at # "storing" BY BusyFacts DEF IInv, NotWritten, MaySync
<1>2. PICK x \in Rule \ Objects : req[a].rules = {x} BY <1>1, DirectRequest
<1>3. req[a].kind # "revoke" /\ req[a].rules = Scope(req[a].row) BY <1>1, DirectRequest
<1>4. Home[a] \in Worker /\ x \in mem[Home[a]]
  BY <1>2, <1>3, ConstAssumption DEF NotWritten
<1>5. CASE x \in Lasting BY <1>2, <1>5 DEF Lasting, Enforced
<1>6. CASE \E b \in Client : req[b].at = "storing" /\ x \in req[b].rules
  <2>1. PICK b \in Client : req[b].at = "storing" /\ x \in req[b].rules BY <1>6
  <2>2. b \in Busy \ {a} /\ x \in Scope(req[b].row)
    BY <1>1, <2>1, BusyFacts DEF IInv, RequestOK, ShapeOK
  <2>3. Scope(req[a].row) \cap Scope(req[b].row) \subseteq crossed
    BY <1>1, <2>2 DEF IInv, OverlapOK
  <2> QED BY <1>2, <1>3, <2>2, <2>3 DEF Enforced
<1> QED BY <1>4, <1>5, <1>6 DEF KnownOK

LEMMA EnforcedLasts ==
    ASSUME failed \subseteq failed', crossed \subseteq crossed', stored \subseteq Lasting',
           NEW R, R \subseteq Enforced, R \cap Objects = {}
    PROVE  R \subseteq Enforced'
BY DEF Lasting, Enforced, Objects

\* What becomes of a direct request: its rules are enforced when it ends with its row.
LEMMA ActsDirect ==
    ASSUME IInv, KnownOK, DirectSyncOK, NEW a \in Client, Acts(a), a \in Busy, Direct(req[a].row)
    PROVE  /\ req'[a] = Idle \/ req'[a].row = req[a].row
           /\ req'[a].at = "synced" => req'[a].rules \subseteq Enforced'
           /\ Owes(a) => req[a].rules \subseteq Enforced' \/ Owes(a)'
           /\ req[a].row \in rows' \ rows => req[a].rules \subseteq Enforced' \/ Owes(a)'
<1> PICK r \in Request : r = req[a] BY BusyFacts DEF IInv
<1>1. /\ r.kind # "revoke" /\ Grants(a) /\ r.row[1] \notin {"member", "group", "object"}
      /\ r.rules \cap Objects = {} /\ r.rules = Scope(r.row) /\ r.kind \in Kind
  BY DirectRequest, DirectRules DEF Request
<1>2. /\ failed \subseteq failed' /\ crossed \subseteq crossed' /\ stored \subseteq Lasting'
  BY ActsLose
<1> USE DEF Acts
<1>3. CASE ListRoles(a) \/ ListBatch(a) BY <1>1, <1>3 DEF ListRoles, ListBatch
<1>4. CASE Abort(a)
  <2>1. req'[a] = Idle /\ rows' = rows BY <1>4, EndsThere DEF Abort, IInv
  <2> QED BY <1>4, <2>1, IdleFacts DEF Abort, Owes
<1>5. CASE CommitRow(a)
  <2>1. req'[a] = [r EXCEPT !.at = "committed"] BY <1>5 DEF CommitRow, Goes, IInv, TypeOK
  <2>2. /\ req'[a].row = r.row /\ req'[a].at = "committed" /\ req'[a].kind = r.kind
        /\ req'[a].ambient = r.ambient
    BY <2>1 DEF Request
  <2>3. Owes(a)' BY <1>1, <1>5, <2>2 DEF Owes, Grants, CommitRow
  <2> QED BY <2>2, <2>3
<1>6. CASE AddToMemory(a)
  <2>1. req'[a] = [r EXCEPT !.at = "storing"] /\ rows' = rows
    BY <1>6 DEF AddToMemory, Goes, IInv, TypeOK
  <2>2. /\ req'[a].row = r.row /\ req'[a].at = "storing" /\ req'[a].kind = r.kind
        /\ req'[a].ambient = r.ambient
    BY <2>1 DEF Request
  <2>3. Owes(a) => Owes(a)' BY <1>1, <2>2 DEF Owes, Grants
  <2> QED BY <2>1, <2>2, <2>3
<1>7. CASE RemoveFromMemory(a) BY <1>1, <1>7 DEF RemoveFromMemory
<1>8. CASE NotWritten(a)
  <2>1. r.rules \subseteq Enforced' BY <1>1, <1>2, <1>8, RefusedIsEnforced, EnforcedLasts
  <2>2. req'[a] = (IF r.ambient THEN [r EXCEPT !.at = "synced"] ELSE Idle) /\ rows' = rows
    BY <1>8, SyncedType DEF NotWritten, IInv
  <2>3. req'[a] = Idle \/ (req'[a].row = r.row /\ req'[a].rules = r.rules)
    BY <2>2 DEF Request
  <2> QED BY <2>1, <2>2, <2>3, IdleFacts
<1>9. CASE StoreRules(a)
  <2>1. r.rules \subseteq Enforced' BY <1>1, <1>9 DEF StoreRules, Stored, Enforced
  <2>2. req'[a] = (IF r.ambient THEN [r EXCEPT !.at = "synced"] ELSE Idle) /\ rows' = rows
    BY <1>9, SyncedType DEF StoreRules, IInv
  <2>3. req'[a] = Idle \/ (req'[a].row = r.row /\ req'[a].rules = r.rules)
    BY <2>2 DEF Request
  <2> QED BY <2>1, <2>2, <2>3, IdleFacts
<1>10. CASE CommitLast(a)
  <2>1. req'[a] = Idle BY <1>10, EndsThere DEF CommitLast, IInv
  <2>2. r.rules \subseteq Enforced BY <1>10 DEF CommitLast, DirectSyncOK
  <2>3. r.rules \subseteq Enforced' BY <1>1, <1>2, <2>2, EnforcedLasts
  <2> QED BY <2>1, <2>3, IdleFacts
<1>11. CASE Compensate(a) \/ CommitFails(a)
  <2>1. req'[a] = Idle /\ rows' \subseteq rows
    BY <1>11, EndsThere DEF Compensate, CommitFails, WithoutRow, IInv
  <2>2. ~Owes(a) BY <1>1, <1>11 DEF Compensate, CommitFails, Owes
  <2> QED BY <2>1, <2>2, IdleFacts
<1>12. CASE StoreFails(a)
  <2>1. r.rules \subseteq Enforced' BY <1>1, <1>12 DEF StoreFails, Enforced
  <2>2. rows' = rows /\ (req'[a] = Idle \/ req'[a] = [r EXCEPT !.at = "undo"])
    BY <1>12 DEF StoreFails, Ends, Goes, IInv, TypeOK
  <2>3. req'[a] = Idle \/ (req'[a].row = r.row /\ req'[a].rules = r.rules)
    BY <2>2 DEF Request
  <2> QED BY <2>1, <2>2, <2>3, IdleFacts
<1> QED BY <1>3, <1>4, <1>5, <1>6, <1>7, <1>8, <1>9, <1>10, <1>11, <1>12 DEF Step

\* A request that goes on keeps its row.
LEMMA ActsRow ==
    ASSUME IInv, NEW a \in Client, Acts(a)
    PROVE  /\ a \in Busy /\ (req'[a] = Idle \/ req'[a].row = req[a].row)
           /\ rows' \subseteq rows \cup {req[a].row}
<1>1. a \in Busy /\ req[a] \in Request
  BY BusyFacts DEF IInv, Acts, Step, StoreFails, CommitFails, ListRoles, ListBatch, Abort, CommitRow,
     AddToMemory, RemoveFromMemory, NotWritten, StoreRules, CommitLast, Compensate, MaySync
<1>2. rows' \subseteq rows \cup {req[a].row}
  BY DEF Acts, Step, StoreFails, CommitFails, ListRoles, ListBatch, Abort, CommitRow, AddToMemory,
         RemoveFromMemory, NotWritten, StoreRules, CommitLast, Compensate, WithoutRow, Committed
<1>3. ASSUME NEW r, Goes(a, r), r.row = req[a].row PROVE req'[a].row = req[a].row
  BY <1>3 DEF Goes, IInv, TypeOK
<1>4. Ends(a) => req'[a] = Idle BY DEF Ends, Goes, IInv, TypeOK
<1>5. \E r : Goes(a, r) /\ (r = Idle \/ r.row = req[a].row)
  <2> DEFINE g == req[a]
  <2>1. CASE Abort(a) \/ CommitLast(a) \/ Compensate(a) \/ CommitFails(a)
    BY <2>1 DEF Abort, CommitLast, Compensate, CommitFails, Ends
  <2>2. CASE NotWritten(a) \/ StoreRules(a)
    <3>1. [g EXCEPT !.at = "synced"].row = g.row BY <1>1 DEF Request
    <3> QED BY <2>2, <3>1 DEF NotWritten, StoreRules, Synced, Ends
  <2>3. CASE AddToMemory(a) \/ RemoveFromMemory(a)
    <3>1. [g EXCEPT !.at = "storing"].row = g.row BY <1>1 DEF Request
    <3> QED BY <2>3, <3>1 DEF AddToMemory, RemoveFromMemory
  <2>4. CASE CommitRow(a)
    <3>1. [g EXCEPT !.at = "committed"].row = g.row BY <1>1 DEF Request
    <3> QED BY <2>4, <3>1 DEF CommitRow
  <2>5. CASE StoreFails(a)
    <3>1. [g EXCEPT !.at = "undo"].row = g.row BY <1>1 DEF Request
    <3> QED BY <2>5, <3>1 DEF StoreFails, Ends
  <2>6. CASE ListRoles(a)
    <3>1. [g EXCEPT !.at = "listed", !.rules = Rules(g.row, rows)].row = g.row BY <1>1 DEF Request
    <3> QED BY <2>6, <3>1 DEF ListRoles
  <2>7. CASE ListBatch(a)
    <3>1. PICK R, o, t : Goes(a, [g EXCEPT !.rules = R, !.offset = o, !.at = t])
      BY <2>7 DEF ListBatch
    <3>2. [g EXCEPT !.rules = R, !.offset = o, !.at = t].row = g.row BY <1>1 DEF Request
    <3> QED BY <3>1, <3>2
  <2> QED BY <2>1, <2>2, <2>3, <2>4, <2>5, <2>6, <2>7 DEF Acts, Step
<1>6. PICK r : Goes(a, r) /\ (r = Idle \/ r.row = req[a].row) BY <1>5
<1>7. r = Idle => req'[a] = Idle BY <1>6 DEF Goes, IInv, TypeOK
<1> QED BY <1>1, <1>2, <1>3, <1>6, <1>7

LEMMA ActsKeepDirect ==
    ASSUME IInv, DInv, NEW a \in Client, Acts(a)
    PROVE  DInv'
<1> USE DEF DInv
<1>1. KnownOK' /\ ReadOK' BY ActsKnow
<1>2. \A b \in Client \ {a} : req'[b] = req[b] BY OthersWait DEF IInv, Acts
<1>3. failed \subseteq failed' /\ crossed \subseteq crossed' /\ stored \subseteq Lasting' BY ActsLose
<1>4. /\ a \in Busy /\ req[a].row \in Row /\ (req'[a] = Idle \/ req'[a].row = req[a].row)
      /\ rows' \subseteq rows \cup {req[a].row} /\ rows \subseteq Row
  BY ActsRow, BusyFacts DEF IInv, TypeOK
<1>5. DirectSyncOK'
  <2>1. ASSUME NEW b \in Client, req'[b].at = "synced", Direct(req'[b].row)
        PROVE  req'[b].rules \subseteq Enforced'
    <3>1. CASE b = a
      <4>1. req'[a].row = req[a].row BY <1>4, <2>1, <3>1, IdleFacts
      <4>2. Direct(req[a].row) BY <2>1, <3>1, <4>1 DEF Direct
      <4> QED BY <1>4, <2>1, <3>1, <4>2, ActsDirect
    <3>2. CASE b # a
      <4>1. req'[b] = req[b] BY <1>2, <3>2
      <4>2. b \in Busy /\ Direct(req[b].row) /\ req[b].at = "synced"
        BY <2>1, <4>1, BusyFacts DEF Direct, IInv
      <4>3. req[b].rules \subseteq Enforced BY <4>2 DEF DirectSyncOK
      <4>4. req[b].rules \cap Objects = {} BY <4>2, DirectRequest
      <4> QED BY <1>3, <4>1, <4>3, <4>4, EnforcedLasts
    <3> QED BY <3>1, <3>2
  <2> QED BY <2>1 DEF DirectSyncOK, Direct
<1>6. DirectOK'
  <2>1. ASSUME NEW row \in rows', Direct(row)
        PROVE  Scope(row) \subseteq Enforced' \/ \E b \in Client : Owes(b)' /\ req'[b].row = row
    <3>1. row \in Row /\ Scope(row) \cap Objects = {} BY <1>4, <2>1, DirectRules
    <3>2. ASSUME row = req[a].row, Owes(a) \/ row \notin rows
          PROVE  Scope(row) \subseteq Enforced' \/ (Owes(a)' /\ req'[a].row = row)
      <4>1. Direct(req[a].row) BY <2>1, <3>2 DEF Direct
      <4>2. Scope(row) = req[a].rules BY <1>4, <3>2, <4>1, DirectRequest
      <4>3. Scope(row) \subseteq Enforced' \/ Owes(a)' BY <1>4, <2>1, <3>2, <4>1, <4>2, ActsDirect
      <4>4. Owes(a)' => req'[a] # Idle BY IdleAfter
      <4> QED BY <1>4, <3>2, <4>3, <4>4
    <3>3. CASE row \notin rows BY <1>4, <3>2, <3>3
    <3>4. CASE Scope(row) \subseteq Enforced BY <1>3, <3>1, <3>4, EnforcedLasts
    <3>5. ASSUME NEW b \in Client, Owes(b), req[b].row = row
          PROVE  Scope(row) \subseteq Enforced' \/ \E c \in Client : Owes(c)' /\ req'[c].row = row
      <4>1. CASE b = a BY <3>2, <3>5, <4>1
      <4>2. CASE b # a
        <5>1. req'[b] = req[b] BY <1>2, <4>2
        <5>2. Owes(b)' BY <3>5, <5>1 DEF Owes, Grants
        <5> QED BY <3>5, <5>1, <5>2
      <4> QED BY <4>1, <4>2
    <3> QED BY <2>1, <3>3, <3>4, <3>5 DEF DirectOK
  <2> QED BY <2>1 DEF DirectOK, Direct, Scope
<1> QED BY <1>1, <1>5, <1>6

\* A step that moves no busy request, keeps rows and loses no rule.
LEMMA QuietDirect ==
    ASSUME IInv, DInv, rows' = rows, failed \subseteq failed', crossed \subseteq crossed',
           stored' = stored,
           \A b \in Busy : req'[b] = req[b] \/ Scope(req[b].row) \subseteq failed',
           \A b \in Client : req'[b] = req[b] \/ req'[b].at \in {"idle", "inserted", "listed"},
           \A w \in Worker : mem'[w] \subseteq mem[w] \cup stored \cup load[w].rules,
           \A w \in Worker : load'[w].rules \subseteq stored \cup load[w].rules
    PROVE  DInv'
<1> USE DEF DInv
<1>1. stored \subseteq Lasting' /\ stored \subseteq Lasting /\ Lasting \subseteq Lasting'
  BY DEF Lasting, Objects
<1>2. ReadOK' BY <1>1 DEF ReadOK
<1>3. KnownOK'
  <2>1. ASSUME NEW w \in Worker, NEW x \in mem'[w]
        PROVE  x \in Lasting' \/ \E b \in Client : req'[b].at = "storing" /\ x \in req'[b].rules
    <3>1. CASE x \in Lasting BY <1>1, <3>1
    <3>2. CASE \E b \in Client : req[b].at = "storing" /\ x \in req[b].rules
      <4>1. PICK b \in Client : req[b].at = "storing" /\ x \in req[b].rules BY <3>2
      <4>2. b \in Busy /\ x \in Scope(req[b].row)
        BY <4>1, BusyFacts DEF IInv, RequestOK, ShapeOK
      <4>3. CASE req'[b] = req[b] BY <4>1, <4>3
      <4>4. CASE Scope(req[b].row) \subseteq failed' BY <4>2, <4>4 DEF Lasting
      <4> QED BY <4>2, <4>3, <4>4
    <3> QED BY <1>1, <2>1, <3>1, <3>2 DEF KnownOK, ReadOK
  <2> QED BY <2>1 DEF KnownOK
<1>4. DirectSyncOK'
  <2>1. ASSUME NEW b \in Client, req'[b].at = "synced", Direct(req'[b].row)
        PROVE  req'[b].rules \subseteq Enforced'
    <3>1. req'[b] = req[b] BY <2>1
    <3>2. b \in Busy /\ Direct(req[b].row) /\ req[b].at = "synced"
      BY <2>1, <3>1, BusyFacts DEF Direct, IInv
    <3>3. req[b].rules \subseteq Enforced BY <3>2 DEF DirectSyncOK
    <3> QED BY <3>1, <3>3 DEF Enforced
  <2> QED BY <2>1 DEF DirectSyncOK, Direct
<1>5. DirectOK'
  <2>1. ASSUME NEW row \in rows, Direct(row)
        PROVE  Scope(row) \subseteq Enforced' \/ \E b \in Client : Owes(b)' /\ req'[b].row = row
    <3>1. CASE Scope(row) \subseteq Enforced BY <3>1 DEF Enforced
    <3>2. ASSUME NEW b \in Client, Owes(b), req[b].row = row
          PROVE  Scope(row) \subseteq Enforced' \/ (Owes(b)' /\ req'[b].row = row)
      <4>1. b \in Busy BY <3>2, BusyFacts DEF IInv, Owes
      <4>2. CASE req'[b] = req[b] BY <3>2, <4>2 DEF Owes, Grants
      <4>3. CASE Scope(row) \subseteq failed' BY <4>3 DEF Enforced
      <4> QED BY <3>2, <4>1, <4>2, <4>3
    <3> QED BY <2>1, <3>1, <3>2 DEF DirectOK
  <2> QED BY <2>1 DEF DirectOK, Direct, Scope
<1> QED BY <1>2, <1>3, <1>4, <1>5

LEMMA DirectInit == Init => DInv
<1> SUFFICES ASSUME Init PROVE DInv OBVIOUS
<1> USE DEF Init
<1>1. KnownOK BY DEF KnownOK, Lasting
<1>2. ReadOK BY DEF ReadOK, Lasting
<1>3. DirectSyncOK BY IdleFacts DEF DirectSyncOK
<1>4. ASSUME NEW row \in rows, Direct(row) PROVE Scope(row) \subseteq Enforced
  <2>1. PICK o \in Own : row = UserRole(o[1], o[2]) BY <1>4, RowNames DEF Direct
  <2>2. Scope(row) = {IsUser(o[1], o[2])} BY <2>1 DEF Scope, Rules, UserRole
  <2> QED BY <2>2 DEF Enforced
<1> QED BY <1>1, <1>2, <1>3, <1>4 DEF DInv, DirectOK

LEMMA DirectNext == IInv /\ DInv /\ [Next]_vars => DInv'
<1> SUFFICES ASSUME IInv, DInv, [Next]_vars PROVE DInv' OBVIOUS
<1>1. ASSUME NEW a \in Client, Step(a) \/ StoreFails(a) \/ CommitFails(a) PROVE DInv'
  BY <1>1, ActsKeepDirect DEF Acts
<1>2. ASSUME NEW a \in Client, NEW row \in Row, NEW ambient \in BOOLEAN,
             Seed(a, row) \/ Insert(a, row, ambient) \/ DeleteGrant(a, row, ambient)
      PROVE DInv'
  <2>1. /\ rows' = rows /\ stored' = stored /\ failed' = failed /\ crossed \subseteq crossed'
        /\ mem' = mem /\ load' = load /\ req[a] = Idle
        /\ req'[a].at \in {"inserted", "listed"} /\ \A b \in Client \ {a} : req'[b] = req[b]
    BY <1>2, BeginsThere
  <2> QED BY <2>1, QuietDirect DEF Busy
<1>3. ASSUME NEW a \in Client, NEW row \in Row, Seed(a, row) PROVE DInv'
  <2>1. TRUE \in BOOLEAN OBVIOUS
  <2> QED BY <1>2, <1>3, <2>1
<1>4. ASSUME NEW w \in Worker, LoadBegins(w) \/ LoadEnds(w) \/ LoadFails(w) PROVE DInv'
  <2>1. /\ rows' = rows /\ stored' = stored /\ req' = req /\ failed' = failed /\ crossed' = crossed
    BY <1>4 DEF LoadBegins, LoadEnds, LoadFails
  <2>2. \A v \in Worker : mem'[v] \subseteq mem[v] \cup stored \cup load[v].rules
    BY <1>4 DEF LoadBegins, LoadEnds, LoadFails, Loaded, IInv, TypeOK
  <2>3. \A v \in Worker : load'[v].rules \subseteq stored \cup load[v].rules
    BY <1>4 DEF LoadBegins, LoadEnds, LoadFails, IInv, TypeOK
  <2> QED BY <2>1, <2>2, <2>3, QuietDirect
<1>5. ASSUME NEW w \in Worker, Crash(w) PROVE DInv'
  <2> DEFINE its == {a \in Busy : Home[a] = w}
  <2>1. /\ rows' = rows /\ stored' = stored /\ crossed' = crossed /\ failed \subseteq failed'
        /\ \A a \in its : Scope(req[a].row) \subseteq failed'
        /\ req' = [a \in Client |-> IF a \in its THEN Idle ELSE req[a]]
    BY <1>5 DEF Crash
  <2>2. \A v \in Worker : mem'[v] \subseteq mem[v] \cup stored \cup load[v].rules
    BY <1>5 DEF Crash, IInv, TypeOK
  <2>3. \A v \in Worker : load'[v].rules \subseteq stored \cup load[v].rules
    BY <1>5 DEF Crash, IInv, TypeOK
  <2>4. \A b \in Busy : req'[b] = req[b] \/ Scope(req[b].row) \subseteq failed' BY <2>1 DEF Busy
  <2>5. \A b \in Client : req'[b] = req[b] \/ req'[b].at \in {"idle", "inserted", "listed"}
    BY <2>1, IdleFacts
  <2> HIDE DEF its
  <2> QED BY <2>1, <2>2, <2>3, <2>4, <2>5, QuietDirect
<1>6. CASE UNCHANGED vars
  <2>1. /\ rows' = rows /\ stored' = stored /\ req' = req /\ failed' = failed /\ crossed' = crossed
        /\ mem' = mem /\ load' = load
    BY <1>6 DEF vars
  <2> QED BY <2>1, QuietDirect
<1> QED BY <1>1, <1>2, <1>3, <1>4, <1>5, <1>6 DEF Next

\* The two invariants are inductive.
THEOREM RbacInductive == Spec => [](IInv /\ DInv)
<1>1. Init => IInv /\ DInv BY InitOK, DirectInit
<1>2. IInv /\ DInv /\ [Next]_vars => (IInv /\ DInv)' BY NextOK, DirectNext
<1> QED BY <1>1, <1>2, PTL DEF Spec

\* Every variable has its type: in particular, paging ends within one page after the last user.
THEOREM TypesCorrect == Spec => []TypeOK
<1>1. IInv => TypeOK BY DEF IInv
<1> QED BY <1>1, RbacInductive, PTL

\* What casbin_rule holds has a row behind it, a request that is still at it, or a failure
\* that was reported; only a grant on one object is lost sight of, without a log: when a
\* revocation meets it, or Casbin refuses the revocation on a worker that does not know
\* the rule yet (services/__init__.py 48-55).
THEOREM StoredIsBacked == Spec => []GrantsAreBacked
<1>1. IInv => GrantsAreBacked
  <2> SUFFICES ASSUME IInv, NEW x \in stored
               PROVE  x \in Backed \cup UnderWay \cup failed \cup ((crossed \cup refused) \cap Objects)
    BY DEF GrantsAreBacked, Objects
  <2>1. ASSUME NEW a \in Client, Stores(a), x \in req[a].rules PROVE x \in UnderWay
    <3>1. a \in Busy BY <2>1, BusyFacts DEF IInv, Stores
    <3>2. x \in Scope(req[a].row) BY <2>1 DEF IInv, RequestOK, ShapeOK
    <3> QED BY <3>1, <3>2 DEF UnderWay
  <2> QED BY <2>1 DEF IInv, StoredOK
<1> QED BY <1>1, RbacInductive, PTL

\* Every row has its rules stored, however many pages they fill, unless a request is still
\* at it, a failure was reported, two requests met or a page missed a member.  A role that
\* a user has directly and a permission are stored whatever Casbin refused.  What a user
\* inherits and a grant on an object are also missing when Casbin refused them: with no
\* fault, no other request near and no log, because the worker knew a rule of the batch
\* (services/__init__.py 20-25, _group.py 110-112 and 140-142).
THEOREM RowsEnforced == Spec => []RowsAreEnforced
<1>1. IInv /\ DInv => RowsAreEnforced
  <2> SUFFICES ASSUME IInv, DInv, NEW row \in rows, NEW x \in Rules(row, rows)
               PROVE  \/ x \in stored \cup UnderWay \cup failed \cup crossed
                      \/ row[1] \notin {"user", "permission"} /\ x \in refused
    BY DEF RowsAreEnforced
  <2>1. ASSUME NEW a \in Client, Owes(a) PROVE Scope(req[a].row) \subseteq UnderWay
    <3>1. a \in Busy BY <2>1, BusyFacts DEF IInv, Owes
    <3> QED BY <3>1 DEF UnderWay
  <2>2. row \in Row /\ rows \subseteq Row BY DEF IInv, TypeOK
  <2>3. CASE Direct(row)
    <3>1. x \in Scope(row) BY <2>2, RulesInScope
    <3>2. Scope(row) \subseteq Enforced \/ Scope(row) \subseteq UnderWay BY <2>1, <2>3 DEF DInv, DirectOK
    <3> QED BY <3>1, <3>2 DEF Enforced
  <2>4. CASE ~Direct(row)
    <3>1. x \in Backed BY DEF Backed
    <3>2. ASSUME NEW a \in Client, Owes(a), x \in req[a].rules PROVE x \in UnderWay
      <4>1. x \in Scope(req[a].row) BY <3>2 DEF IInv, RequestOK, ShapeOK
      <4> QED BY <2>1, <3>2, <4>1
    <3> QED BY <2>4, <3>1, <3>2 DEF IInv, BackedOK, Direct
  <2> QED BY <2>3, <2>4
<1> QED BY <1>1, RbacInductive, PTL

=============================================================================
