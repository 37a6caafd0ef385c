------------------------ MODULE Authentication_proofs ------------------------
(***************************************************************************)
(* Theorems about Accounts and TwoFactor, for every number of sessions,    *)
(* codes, tokens, secrets and requests: what confirms an address, how many *)
(* refresh tokens a login has, when a one-time password is accepted.       *)
(***************************************************************************)
EXTENDS MCAuthentication, TLAPS, FiniteSetTheorems

----------------------------------------------------------------------------
(* Accounts: the inductive invariant.                                      *)

\* A usable code is one that no resend has replaced, and nobody has tried it.
CodesOK ==
    \A k \in Code :
        /\ otp[k].state = "none" => otp[k].attempts = 0
        /\ otp[k].state = "live" => k \in fresh /\ otp[k].attempts = 0

\* The tokens of a login form a chain, whose last one alone may be active.
TokensOK ==
    /\ \A t \in 1..tokens :
         token[t].login \in 1..tokens /\ (token[t].state = "active" => token[t].next = 0)
    /\ \A t, u \in 1..tokens :
         /\ token[t].login = token[u].login /\ token[t].login \notin shared
         /\ token[t].next = 0 /\ token[u].next = 0
         => t = u

\* What a request is about exists; a mailed code is not committed; whoever holds a token
\* that was rotated meanwhile was noticed.
RequestOK(r) ==
    /\ r.at \in {"created", "selected", "mailed"} => r.kind \in {"register", "resend"}
    /\ r.at = "mailed" => r.on \in 1..codes /\ otp[r.on].state = "none"
    /\ \A k \in r.rows : otp[k].state # "none"
    /\ r.kind = "verify" => r.on \in 1..codes
    /\ r.kind \in {"refresh", "logout"} =>
         r.on \in 1..tokens /\ (token[r.on].next # 0 => token[r.on].login \in shared)

RequestsOK ==
    /\ \A a \in Client : RequestOK(req[a])
    /\ \A a, b \in Client : req[a].at = "mailed" /\ req[b].at = "mailed" /\ a # b =>
          req[a].on # req[b].on

AccountsInv == TypeOK /\ CodesOK /\ TokensOK /\ RequestsOK

----------------------------------------------------------------------------
(* Accounts: requests.                                                     *)

IdleFact == Idle.kind = "none" /\ Idle.at = "idle" /\ Idle.rows = {}

LEMMA IdleIsIdle == IdleFact BY DEF IdleFact, Idle

LEMMA AsksTyped ==
    ASSUME NEW kind \in Kind, NEW at \in {"checked", "found"}
    PROVE  /\ Asks(kind, at) \in Request /\ Asks(kind, at).kind = kind
           /\ Asks(kind, at).at = at /\ Asks(kind, at).rows = {}
<1>1. 0 \in 0..MaxCodes BY ConstAssumption
<1> QED BY <1>1 DEF Asks, Request, Place

LEMMA AsksOnTyped ==
    ASSUME NEW kind \in Kind, NEW at \in {"checked", "found"}, NEW on \in 0..MaxCodes \cup 0..MaxTokens
    PROVE  LET r == [Asks(kind, at) EXCEPT !.on = on] IN
           r \in Request /\ r.kind = kind /\ r.at = at /\ r.on = on /\ r.rows = {}
BY AsksTyped DEF Request

\* A step that touches neither codes nor tokens.
Asking(a, r) ==
    /\ UNCHANGED <<otp, codes, token, tokens, fresh, shared>>
    /\ req' = [req EXCEPT ![a] = r] /\ requests' \in 0..MaxRequests
    /\ user' \in User

LEMMA AskingStep ==
    ASSUME AccountsInv, NEW a \in Client, NEW r \in Request \cup {Idle}, Asking(a, r),
           RequestOK(r), r.at # "mailed"
    PROVE  AccountsInv'
<1>1. req \in [Client -> Request \cup {Idle}] BY DEF AccountsInv, TypeOK
<1>2. req'[a] = r /\ \A b \in Client \ {a} : req'[b] = req[b] BY <1>1 DEF Asking
<1>3. TypeOK' BY <1>1 DEF AccountsInv, TypeOK, Asking
<1>4. CodesOK' BY DEF AccountsInv, CodesOK, Asking
<1>5. TokensOK' BY DEF AccountsInv, TokensOK, Asking
<1>6. RequestsOK'
  <2>1. \A b \in Client : RequestOK(req'[b]) BY <1>2 DEF AccountsInv, RequestsOK
  <2>2. \A b \in Client : RequestOK(req[b])' BY <2>1 DEF RequestOK, Asking
  <2>3. \A b, c \in Client : req'[b].at = "mailed" /\ req'[c].at = "mailed" /\ b # c =>
           req'[b].on # req'[c].on
    BY <1>2 DEF AccountsInv, RequestsOK
  <2> QED BY <2>2, <2>3 DEF RequestsOK
<1> QED BY <1>3, <1>4, <1>5, <1>6 DEF AccountsInv

LEMMA BeginsStep ==
    ASSUME AccountsInv, NEW a \in Client, NEW r \in Request, Begins(a, r),
           UNCHANGED <<user, otp, codes, token, tokens, fresh, shared>>,
           RequestOK(r), r.at # "mailed"
    PROVE  AccountsInv'
<1>1. requests' \in 0..MaxRequests BY ConstAssumption DEF Begins, AccountsInv, TypeOK
<1>2. Asking(a, r) BY <1>1 DEF Begins, Asking, AccountsInv, TypeOK
<1> QED BY <1>2, AskingStep

LEMMA CheckStep ==
    ASSUME AccountsInv, NEW a \in Client, Check(a)
    PROVE  AccountsInv'
<1>1. ASSUME NEW kind \in {"register", "resend", "login", "oauth", "delete"},
             NEW at \in {"checked", "found"}, Begins(a, Asks(kind, at)),
             UNCHANGED <<user, otp, codes, token, tokens, fresh, shared>>
      PROVE  AccountsInv'
  <2> DEFINE r == Asks(kind, at)
  <2>1. kind \in Kind BY DEF Kind
  <2>2. r \in Request /\ r.kind = kind /\ r.at = at /\ r.rows = {} BY <2>1, AsksTyped
  <2>3. RequestOK(r) /\ r.at # "mailed" BY <2>2 DEF RequestOK
  <2> QED BY <1>1, <2>2, <2>3, BeginsStep
<1>2. ASSUME NEW k \in Code, VerifyCheck(a, k) PROVE AccountsInv'
  <2> DEFINE r == [Asks("verify", "found") EXCEPT !.on = k]
  <2>1. otp[k].state = "live" BY <1>2 DEF VerifyCheck, Newest, Live
  <2>2. k \in 1..codes BY <2>1, ConstAssumption DEF AccountsInv, TypeOK, Code
  <2>3. k \in 0..MaxCodes /\ "verify" \in Kind BY DEF Code, Kind
  <2>4. r \in Request /\ r.kind = "verify" /\ r.at = "found" /\ r.on = k /\ r.rows = {}
    BY <2>3, AsksOnTyped
  <2>5. RequestOK(r) /\ r.at # "mailed" BY <2>2, <2>4 DEF RequestOK
  <2>6. Begins(a, r) /\ UNCHANGED <<user, otp, codes, token, tokens, fresh, shared>>
    BY <1>2 DEF VerifyCheck
  <2> HIDE DEF r
  <2> QED BY <2>4, <2>5, <2>6, BeginsStep
<1>3. ASSUME NEW t \in Token, NEW kind \in {"refresh", "logout"}, TokenCheck(a, kind, t)
      PROVE  AccountsInv'
  <2> DEFINE r == [Asks(kind, "found") EXCEPT !.on = t]
  <2>1. token[t].state = "active" BY <1>3 DEF TokenCheck
  <2>2. t \in 1..tokens BY <2>1, ConstAssumption DEF AccountsInv, TypeOK, Token
  <2>3. token[t].next = 0 BY <2>1, <2>2 DEF AccountsInv, TokensOK
  <2>4. t \in 0..MaxTokens /\ kind \in Kind BY DEF Token, Kind
  <2>5. r \in Request /\ r.kind = kind /\ r.at = "found" /\ r.on = t /\ r.rows = {}
    BY <2>4, AsksOnTyped
  <2>6. RequestOK(r) /\ r.at # "mailed" BY <2>2, <2>3, <2>5 DEF RequestOK
  <2>7. Begins(a, r) /\ UNCHANGED <<user, otp, codes, token, tokens, fresh, shared>>
    BY <1>3 DEF TokenCheck
  <2> HIDE DEF r
  <2> QED BY <2>5, <2>6, <2>7, BeginsStep
<1> QED
  BY <1>1, <1>2, <1>3 DEF Check, RegisterCheck, ResendCheck, LoginCheck, OAuthCheck, DeleteCheck

\* A request of which the client has some part done.
LEMMA GoesStep ==
    ASSUME AccountsInv, NEW a \in Client, NEW at \in {"created", "linked"}, Goes(a, at),
           at = "created" => req[a].kind = "register",
           user' \in User, UNCHANGED <<otp, codes, token, tokens, fresh, shared>>
    PROVE  AccountsInv'
<1> DEFINE r == [req[a] EXCEPT !.at = at]
<1>1. req \in [Client -> Request \cup {Idle}] /\ requests' \in 0..MaxRequests /\ RequestOK(req[a])
  BY DEF AccountsInv, TypeOK, Goes, RequestsOK
<1>2. req[a] \in Request BY <1>1, IdleIsIdle DEF Goes, IdleFact
<1>3. /\ r \in Request /\ r.kind = req[a].kind /\ r.at = at /\ r.on = req[a].on /\ r.rows = req[a].rows
  BY <1>2 DEF Request, Place
<1>4. req' = [req EXCEPT ![a] = r] BY DEF Goes
<1> HIDE DEF r
<1>5. RequestOK(r) BY <1>1, <1>3 DEF RequestOK
<1>6. Asking(a, r) BY <1>1, <1>4 DEF Asking
<1> QED BY <1>3, <1>5, <1>6, AskingStep

LEMMA EndsStep ==
    ASSUME AccountsInv, NEW a \in Client, Ends(a), user' \in User,
           UNCHANGED <<otp, codes, token, tokens, fresh, shared>>
    PROVE  AccountsInv'
<1>1. Asking(a, Idle) BY DEF Ends, Asking, AccountsInv, TypeOK
<1>2. RequestOK(Idle) /\ Idle.at # "mailed" BY IdleIsIdle DEF RequestOK, IdleFact
<1> QED BY <1>1, <1>2, AskingStep

LEMMA InvalidateActiveStep ==
    ASSUME AccountsInv, NEW a \in Client, InvalidateActive(a)
    PROVE  AccountsInv'
<1> DEFINE r == [req[a] EXCEPT !.at = "selected", !.rows = Live]
<1>1. req \in [Client -> Request \cup {Idle}] /\ RequestOK(req[a])
  BY DEF AccountsInv, TypeOK, RequestsOK
<1>2. req[a] \in Request BY <1>1, IdleIsIdle DEF InvalidateActive, IdleFact
<1>3. Live \subseteq Code BY DEF Live
<1>4. /\ r \in Request /\ r.kind = "resend" /\ r.at = "selected" /\ r.rows = Live
  BY <1>2, <1>3 DEF Request, Place, InvalidateActive
<1>5. req' = [req EXCEPT ![a] = r] BY <1>1 DEF InvalidateActive
<1> HIDE DEF r
<1>6. RequestOK(r) BY <1>4 DEF RequestOK, Live
<1>7. Asking(a, r) BY <1>5 DEF Asking, InvalidateActive, AccountsInv, TypeOK
<1> QED BY <1>4, <1>6, <1>7, AskingStep

----------------------------------------------------------------------------
(* Accounts: codes.                                                        *)

LEMMA IssueAndSendStep ==
    ASSUME AccountsInv, NEW a \in Client, IssueAndSend(a)
    PROVE  AccountsInv'
<1> DEFINE r == [req[a] EXCEPT !.at = "mailed", !.on = codes + 1, !.rows = req[a].rows \cap Live]
<1>1. /\ req \in [Client -> Request \cup {Idle}] /\ RequestOK(req[a]) /\ req[a] # Idle
      /\ codes \in 0..MaxCodes /\ MaxCodes \in Nat /\ codes < MaxCodes /\ codes' = codes + 1
      /\ req[a].at \in {"created", "selected"}
      /\ UNCHANGED <<user, otp, token, tokens, requests, fresh, shared>>
  BY IdleIsIdle, ConstAssumption DEF AccountsInv, TypeOK, RequestsOK, IssueAndSend, IdleFact
<1>2. req[a] \in Request BY <1>1
<1>3. codes' \in 1..MaxCodes /\ codes' \in 0..MaxCodes /\ codes' \in 1..codes' BY <1>1
<1>4. /\ r \in Request /\ r.kind = req[a].kind /\ r.at = "mailed" /\ r.on = codes'
      /\ r.rows \subseteq req[a].rows
  BY <1>1, <1>2, <1>3 DEF Request, Place
<1>5. req' = [req EXCEPT ![a] = r] BY <1>1 DEF IssueAndSend
<1> HIDE DEF r
<1>6. req'[a] = r /\ \A b \in Client \ {a} : req'[b] = req[b] BY <1>1, <1>5
<1>7. TypeOK'
  <2>1. req' \in [Client -> Request \cup {Idle}] BY <1>1, <1>4, <1>5
  <2>2. \A k \in Code : k > codes' => otp'[k].state = "none"
    BY <1>1 DEF AccountsInv, TypeOK, Code
  <2> QED BY <1>1, <1>3, <2>1, <2>2 DEF AccountsInv, TypeOK
<1>8. CodesOK' BY <1>1 DEF AccountsInv, CodesOK
<1>9. TokensOK' BY <1>1 DEF AccountsInv, TokensOK
<1>10. RequestsOK'
  <2>1. otp[codes'].state = "none" BY <1>1, <1>3 DEF AccountsInv, TypeOK, Code
  <2>2. \A b \in Client : RequestOK(req[b])'
    <3> SUFFICES ASSUME NEW b \in Client PROVE RequestOK(req[b])' OBVIOUS
    <3>1. CASE b = a BY <1>1, <1>3, <1>4, <1>6, <2>1, <3>1 DEF RequestOK
    <3>2. CASE b # a
      <4>1. RequestOK(req[b]) /\ req'[b] = req[b] BY <1>6, <3>2 DEF AccountsInv, RequestsOK
      <4>2. 1..codes \subseteq 1..codes' BY <1>1
      <4> QED BY <1>1, <4>1, <4>2 DEF RequestOK
    <3> QED BY <3>1, <3>2
  <2>3. \A b \in Client \ {a} : req'[b].at = "mailed" => req'[b].on # codes'
    <3>1. \A b \in Client \ {a} : req[b].at = "mailed" => req[b].on \in 1..codes
      BY DEF AccountsInv, RequestsOK, RequestOK
    <3>2. codes' \notin 1..codes BY <1>1
    <3> QED BY <1>6, <3>1, <3>2
  <2>4. \A b, c \in Client : req'[b].at = "mailed" /\ req'[c].at = "mailed" /\ b # c =>
           req'[b].on # req'[c].on
    BY <1>4, <1>6, <2>3 DEF AccountsInv, RequestsOK
  <2> QED BY <2>2, <2>4 DEF RequestsOK
<1> QED BY <1>7, <1>8, <1>9, <1>10 DEF AccountsInv

\* What becomes of the codes when one is committed, used or too old.
Recodes ==
    /\ UNCHANGED <<codes, token, tokens, requests, shared>>
    /\ user' \in User /\ fresh' \subseteq Code
    /\ otp' \in [Code -> Otp]
    /\ \A k \in Code :
         /\ otp[k].state # "none" => otp'[k].state # "none"
         /\ otp'[k].state # "none" => k \in 1..codes
    /\ \A a \in Client :
         /\ req'[a] = req[a] \/ req'[a] = Idle
         /\ req'[a].at = "mailed" => otp'[req[a].on].state = "none"

LEMMA RecodesStep ==
    ASSUME AccountsInv, Recodes, CodesOK', req' \in [Client -> Request \cup {Idle}]
    PROVE  AccountsInv'
<1>1. TypeOK'
  <2>1. \A k \in Code : k > codes' => otp'[k].state = "none"
    BY ConstAssumption DEF Recodes, AccountsInv, TypeOK, Code
  <2> QED BY <2>1 DEF AccountsInv, TypeOK, Recodes
<1>2. TokensOK' BY DEF AccountsInv, TokensOK, Recodes
<1>3. RequestsOK'
  <2>1. ASSUME NEW a \in Client PROVE RequestOK(req[a])'
    <3>1. CASE req'[a] = Idle BY <3>1, IdleIsIdle DEF RequestOK, IdleFact
    <3>2. CASE req'[a] = req[a] /\ req'[a] # Idle
      <4>1. RequestOK(req[a]) /\ req[a] \in Request /\ req[a].rows \subseteq Code
        BY <3>2 DEF AccountsInv, TypeOK, RequestsOK, Request
      <4> QED BY <3>2, <4>1 DEF RequestOK, Recodes
    <3> QED BY <3>1, <3>2 DEF Recodes
  <2>2. \A a, b \in Client : req'[a].at = "mailed" /\ req'[b].at = "mailed" /\ a # b =>
           req'[a].on # req'[b].on
    BY IdleIsIdle DEF AccountsInv, RequestsOK, Recodes, IdleFact
  <2> QED BY <2>1, <2>2 DEF RequestsOK
<1> QED BY <1>1, <1>2, <1>3 DEF AccountsInv

\* A mailed code becomes usable, and those that the resend found become used.
LEMMA CommitCodeStep ==
    ASSUME AccountsInv, NEW a \in Client, CommitCode(a)
    PROVE  AccountsInv'
<1> DEFINE n == req[a].on
           rows == req[a].rows
<1>1. /\ req \in [Client -> Request \cup {Idle}] /\ RequestOK(req[a]) /\ req[a].at = "mailed"
      /\ otp \in [Code -> Otp] /\ codes \in 0..MaxCodes /\ MaxCodes \in Nat
      /\ req' = [req EXCEPT ![a] = Idle]
      /\ fresh' = {n} \cup {k \in fresh : otp[k].state = "live" /\ k \notin rows}
      /\ UNCHANGED <<user, codes, token, tokens, requests, shared>>
  BY ConstAssumption DEF CommitCode, Ends, AccountsInv, TypeOK, RequestsOK
<1>2. n \in 1..codes /\ n \in Code /\ otp[n].state = "none" /\ \A k \in rows : otp[k].state # "none"
  BY <1>1 DEF RequestOK, Code
<1>3. req' \in [Client -> Request \cup {Idle}] /\ req'[a] = Idle
      /\ \A b \in Client \ {a} : req'[b] = req[b]
  BY <1>1
<1>4. \A k \in Code : otp[k] \in Otp
      /\ [otp[k] EXCEPT !.state = "live"] \in Otp /\ [otp[k] EXCEPT !.state = "used"] \in Otp
      /\ [otp[k] EXCEPT !.state = "live"].state = "live"
      /\ [otp[k] EXCEPT !.state = "live"].attempts = otp[k].attempts
      /\ [otp[k] EXCEPT !.state = "used"].state = "used"
  BY <1>1 DEF Otp
<1>5. ASSUME NEW k \in Code
      PROVE  /\ otp'[k] \in Otp
             /\ k = n => otp'[k].state = "live" /\ otp'[k].attempts = otp[k].attempts
             /\ k # n /\ k \in rows => otp'[k].state = "used"
             /\ k # n /\ k \notin rows => otp'[k] = otp[k]
  <2>1. otp'[k] = CASE k = n -> [otp[k] EXCEPT !.state = "live"]
                    [] k \in rows -> [otp[k] EXCEPT !.state = "used"]
                    [] OTHER -> otp[k]
    BY DEF CommitCode
  <2>2. CASE k = n BY <1>2, <1>4, <2>1, <2>2
  <2>3. CASE k # n /\ k \in rows BY <1>4, <2>1, <2>3
  <2>4. CASE k # n /\ k \notin rows BY <1>4, <2>1, <2>4
  <2> QED BY <2>2, <2>3, <2>4
<1>6. otp' \in [Code -> Otp] BY <1>5 DEF CommitCode
<1> HIDE DEF n, rows
<1>7. CodesOK'
  <2> SUFFICES ASSUME NEW k \in Code
               PROVE  /\ otp'[k].state = "none" => otp'[k].attempts = 0
                      /\ otp'[k].state = "live" => k \in fresh' /\ otp'[k].attempts = 0
    BY DEF CodesOK
  <2>1. CASE k = n BY <1>1, <1>2, <1>5, <2>1 DEF AccountsInv, CodesOK
  <2>2. CASE k # n /\ k \in rows BY <1>5, <2>2
  <2>3. CASE k # n /\ k \notin rows BY <1>1, <1>5, <2>3 DEF AccountsInv, CodesOK
  <2> QED BY <2>1, <2>2, <2>3
<1>8. \A k \in Code :
         /\ otp[k].state # "none" => otp'[k].state # "none"
         /\ otp'[k].state # "none" => k \in 1..codes
  <2>1. \A k \in Code : otp[k].state # "none" => k \in 1..codes
    BY <1>1 DEF AccountsInv, TypeOK, Code
  <2> QED BY <1>2, <1>5, <2>1
<1>9. \A b \in Client : req'[b].at = "mailed" => otp'[req[b].on].state = "none"
  <2> SUFFICES ASSUME NEW b \in Client, req'[b].at = "mailed" PROVE otp'[req[b].on].state = "none"
    OBVIOUS
  <2>1. b # a /\ req[b].at = "mailed" BY <1>3, IdleIsIdle DEF IdleFact
  <2>2. /\ req[b].on # n /\ req[b].on \in 1..codes /\ otp[req[b].on].state = "none"
    BY <1>1, <2>1 DEF AccountsInv, RequestsOK, RequestOK, n
  <2>3. req[b].on \in Code /\ req[b].on \notin rows BY <1>1, <1>2, <2>2 DEF Code
  <2> QED BY <1>5, <2>2, <2>3
<1>10. Recodes
  <2>1. fresh' \subseteq Code /\ user' \in User BY <1>1, <1>2 DEF AccountsInv, TypeOK
  <2> QED BY <1>1, <1>3, <1>6, <1>8, <1>9, <2>1 DEF Recodes
<1> QED BY <1>3, <1>7, <1>10, RecodesStep

\* A usable code becomes one that is not, or has expired.
LEMMA UsedUpStep ==
    ASSUME AccountsInv, NEW k \in Code, NEW new \in Otp, otp[k].state = "live",
           new.state \in {"used", "expired"}, otp' = [otp EXCEPT ![k] = new],
           user' \in User, UNCHANGED <<codes, token, tokens, requests, fresh, shared>>,
           req' \in [Client -> Request \cup {Idle}],
           \A a \in Client : req'[a] = req[a] \/ req'[a] = Idle
    PROVE  AccountsInv'
<1>1. otp \in [Code -> Otp] /\ codes \in 0..MaxCodes /\ MaxCodes \in Nat /\ fresh \subseteq Code
  BY ConstAssumption DEF AccountsInv, TypeOK
<1>2. otp' \in [Code -> Otp] /\ otp'[k] = new /\ \A j \in Code \ {k} : otp'[j] = otp[j]
  BY <1>1
<1>3. CodesOK' BY <1>2 DEF AccountsInv, CodesOK
<1>4. \A j \in Code : otp[j].state # "none" => j \in 1..codes
  BY <1>1 DEF AccountsInv, TypeOK, Code
<1>5. \A a \in Client : req'[a].at = "mailed" => otp'[req[a].on].state = "none"
  <2> SUFFICES ASSUME NEW a \in Client, req'[a].at = "mailed" PROVE otp'[req[a].on].state = "none"
    OBVIOUS
  <2>1. req[a].at = "mailed" BY IdleIsIdle DEF IdleFact
  <2>2. req[a].on \in 1..codes /\ otp[req[a].on].state = "none"
    BY <2>1 DEF AccountsInv, RequestsOK, RequestOK
  <2>3. req[a].on \in Code /\ req[a].on # k BY <1>1, <2>2 DEF Code
  <2> QED BY <1>2, <2>2, <2>3
<1>6. Recodes BY <1>1, <1>2, <1>4, <1>5 DEF Recodes
<1> QED BY <1>3, <1>6, RecodesStep

LEMMA VerifyStep ==
    ASSUME AccountsInv, NEW a \in Client, Verify(a)
    PROVE  AccountsInv' /\ req[a].on \in Code
<1> DEFINE k == req[a].on
           new == [state |-> "used", attempts |-> otp[k].attempts + 1]
<1>1. /\ req \in [Client -> Request \cup {Idle}] /\ otp \in [Code -> Otp] /\ user \in User
      /\ codes \in 0..MaxCodes /\ MaxCodes \in Nat /\ MaxAttempts \in Nat
  BY ConstAssumption DEF AccountsInv, TypeOK
<1>2. k \in 1..codes /\ k \in Code BY <1>1 DEF Verify, AccountsInv, RequestsOK, RequestOK, Code
<1>3. otp[k].state = "live" /\ otp[k].attempts < MaxAttempts BY DEF Verify, ConsumeAttempt
<1>4. new \in Otp
  <2>1. otp[k].attempts \in 0..MaxAttempts BY <1>1, <1>2 DEF Otp
  <2>2. otp[k].attempts + 1 \in 0..MaxAttempts BY <1>1, <1>3, <2>1
  <2> QED BY <2>2 DEF Otp
<1>5. otp' = [otp EXCEPT ![k] = new] BY DEF Verify
<1>6. user' \in User
  <2>1. (user.active \/ ~user.gone) \in BOOLEAN OBVIOUS
  <2>2. user' = [user EXCEPT !.active = user.active \/ ~user.gone] BY DEF Verify
  <2> QED BY <1>1, <2>1, <2>2 DEF User
<1>7. req' = [req EXCEPT ![a] = Idle] /\ UNCHANGED <<codes, token, tokens, requests, fresh, shared>>
  BY DEF Verify, Ends
<1>8. new.state = "used" OBVIOUS
<1> HIDE DEF new, k
<1> QED BY <1>1, <1>2, <1>3, <1>4, <1>5, <1>6, <1>7, <1>8, UsedUpStep DEF k

LEMMA ExpireCodeStep ==
    ASSUME AccountsInv, NEW k \in Code, ExpireCode(k)
    PROVE  AccountsInv'
<1> DEFINE new == [otp[k] EXCEPT !.state = "expired"]
<1>1. /\ req \in [Client -> Request \cup {Idle}] /\ otp \in [Code -> Otp] /\ user \in User
  BY DEF AccountsInv, TypeOK
<1>2. new \in Otp /\ new.state = "expired" BY <1>1 DEF Otp
<1>3. otp' = [otp EXCEPT ![k] = new] BY DEF ExpireCode
<1> HIDE DEF new
<1> QED BY <1>1, <1>2, <1>3, UsedUpStep DEF ExpireCode

----------------------------------------------------------------------------
(* Accounts: tokens.                                                       *)

\* A step on tokens: requests end or stay, and a token that a request still holds is left
\* as it is, or its login is noticed.
Reissues ==
    /\ UNCHANGED <<user, otp, codes, requests, fresh>>
    /\ req' \in [Client -> Request \cup {Idle}]
    /\ \A a \in Client : req'[a] = req[a] \/ req'[a] = Idle
    /\ token' \in [Token -> RefreshToken] /\ tokens' \in 0..MaxTokens /\ tokens <= tokens'
    /\ \A t \in Token : t > tokens' <=> token'[t].state = "none"
    /\ shared \subseteq shared' /\ shared' \subseteq Token
    /\ \A t \in 1..tokens :
         /\ token'[t].login = token[t].login
         /\ \/ token'[t].next = token[t].next
            \/ \A a \in Client : req'[a].kind \in {"refresh", "logout"} /\ req'[a].on = t =>
                  token[t].login \in shared'

LEMMA ReissuesStep ==
    ASSUME AccountsInv, Reissues, TokensOK'
    PROVE  AccountsInv'
<1>1. TypeOK' BY DEF AccountsInv, TypeOK, Reissues
<1>2. CodesOK' BY DEF AccountsInv, CodesOK, Reissues
<1>3. RequestsOK'
  <2>1. ASSUME NEW a \in Client PROVE RequestOK(req[a])'
    <3>1. CASE req'[a] = Idle BY <3>1, IdleIsIdle DEF RequestOK, IdleFact
    <3>2. CASE req'[a] = req[a]
      <4>1. RequestOK(req[a]) BY DEF AccountsInv, RequestsOK
      <4>2. 1..tokens \subseteq 1..tokens' BY ConstAssumption DEF AccountsInv, TypeOK, Reissues
      <4> QED BY <3>2, <4>1, <4>2 DEF RequestOK, Reissues
    <3> QED BY <3>1, <3>2 DEF Reissues
  <2>2. \A a, b \in Client : req'[a].at = "mailed" /\ req'[b].at = "mailed" /\ a # b =>
           req'[a].on # req'[b].on
    BY IdleIsIdle DEF AccountsInv, RequestsOK, Reissues, IdleFact
  <2> QED BY <2>1, <2>2 DEF RequestsOK
<1> QED BY <1>1, <1>2, <1>3 DEF AccountsInv

LEMMA TokenTypes ==
    ASSUME AccountsInv
    PROVE  /\ token \in [Token -> RefreshToken] /\ tokens \in 0..MaxTokens /\ tokens \in Nat
           /\ MaxTokens \in Nat /\ 1..tokens \subseteq Token /\ shared \subseteq Token
           /\ req \in [Client -> Request \cup {Idle}]
           /\ \A t \in Token : t > tokens <=> token[t].state = "none"
           /\ \A t \in 1..tokens : token[t] \in RefreshToken /\ token[t].login \in Token
                                   /\ token[t].login # tokens + 1 /\ token[t].login \in 1..tokens
BY ConstAssumption DEF AccountsInv, TypeOK, TokensOK, Token

LEMMA IssuePairStep ==
    ASSUME AccountsInv, NEW a \in Client, IssuePair(a)
    PROVE  AccountsInv'
<1> DEFINE n == tokens + 1
           new == [login |-> n, state |-> "active", next |-> 0]
<1>1. /\ tokens < MaxTokens /\ tokens' = n /\ token' = [token EXCEPT ![n] = new]
      /\ req' = [req EXCEPT ![a] = Idle]
      /\ UNCHANGED <<user, otp, codes, requests, fresh, shared>>
  BY DEF IssuePair, Ends
<1>2. n \in Token /\ n \in 0..MaxTokens /\ n \notin 1..tokens /\ 1..n = 1..tokens \cup {n}
  BY <1>1, TokenTypes DEF Token
<1>3. new \in RefreshToken /\ new.login = n /\ new.state = "active" /\ new.next = 0
  BY <1>2, TokenTypes DEF RefreshToken
<1> HIDE DEF new
<1>4. token'[n] = new /\ \A t \in Token \ {n} : token'[t] = token[t] BY <1>1, <1>2, TokenTypes
<1>5. \A t \in 1..tokens : token'[t] = token[t] BY <1>2, <1>4, TokenTypes
<1>6. TokensOK'
  <2>1. \A t \in 1..n : token'[t].login \in 1..n /\ (token'[t].state = "active" => token'[t].next = 0)
    BY <1>2, <1>3, <1>4, <1>5 DEF AccountsInv, TokensOK
  <2>2. \A t \in 1..tokens : token'[t].login # n BY <1>5, TokenTypes
  <2>3. ASSUME NEW t \in 1..n, NEW u \in 1..n, token'[t].login = token'[u].login,
               token'[t].login \notin shared, token'[t].next = 0, token'[u].next = 0
        PROVE  t = u
    <3>1. t = n <=> u = n BY <1>2, <1>3, <1>4, <2>2, <2>3
    <3> QED BY <1>2, <1>5, <2>3, <3>1 DEF AccountsInv, TokensOK
  <2> QED BY <1>1, <2>1, <2>3 DEF TokensOK
<1>7. Reissues
  <2>1. token' \in [Token -> RefreshToken] BY <1>1, <1>2, <1>3, TokenTypes
  <2>2. \A t \in Token : t > tokens' <=> token'[t].state = "none"
    BY <1>1, <1>2, <1>3, <1>4, TokenTypes DEF Token
  <2>3. req' \in [Client -> Request \cup {Idle}] /\ \A b \in Client : req'[b] = req[b] \/ req'[b] = Idle
    BY <1>1, TokenTypes
  <2>4. tokens <= tokens' BY <1>1, TokenTypes
  <2> QED BY <1>1, <1>2, <1>5, <2>1, <2>2, <2>3, <2>4, TokenTypes DEF Reissues
<1> QED BY <1>6, <1>7, ReissuesStep

\* Whoever holds the token too makes its login shared.
LEMMA TogetherMarks ==
    ASSUME AccountsInv, NEW a \in Client, NEW t \in 1..tokens, Together(a, t)
    PROVE  /\ shared \subseteq shared' /\ shared' \subseteq Token
           /\ (\E b \in Client \ {a} : req[b].kind \in {"refresh", "logout"} /\ req[b].on = t)
                 => token[t].login \in shared'
<1>1. token[t].login \in Token /\ shared \subseteq Token BY TokenTypes
<1> QED BY <1>1 DEF Together

LEMMA RotateStep ==
    ASSUME AccountsInv, NEW a \in Client, Rotate(a)
    PROVE  AccountsInv'
<1> DEFINE t == req[a].on
           n == tokens + 1
           new == [login |-> token[t].login, state |-> "active", next |-> 0]
           old == [token[t] EXCEPT !.state = "revoked", !.next = n]
<1>1. t \in 1..tokens BY DEF Rotate, AccountsInv, RequestsOK, RequestOK
<1>2. /\ tokens < MaxTokens /\ tokens' = n
      /\ token' = [token EXCEPT ![n] = new, ![t].state = "revoked", ![t].next = n]
      /\ Together(a, t) /\ req' = [req EXCEPT ![a] = Idle]
      /\ UNCHANGED <<user, otp, codes, requests, fresh>>
  BY DEF Rotate, Ends
<1> HIDE DEF t
<1>3. /\ n \in Token /\ n \in 0..MaxTokens /\ n \notin 1..tokens /\ 1..n = 1..tokens \cup {n}
      /\ t \in Token /\ t # n /\ n # 0
  BY <1>1, <1>2, TokenTypes DEF Token
<1>4. /\ new \in RefreshToken /\ new.login = token[t].login /\ new.state = "active" /\ new.next = 0
      /\ old \in RefreshToken /\ old.login = token[t].login /\ old.state = "revoked" /\ old.next = n
  <2>1. /\ token[t] \in RefreshToken /\ token[t].login \in 0..MaxTokens /\ 0 \in 0..MaxTokens
        /\ n \in 0..MaxTokens
    BY <1>1, <1>3, TokenTypes DEF RefreshToken
  <2>2. new \in RefreshToken /\ new.login = token[t].login /\ new.state = "active" /\ new.next = 0
    BY <2>1 DEF RefreshToken
  <2>3. old \in RefreshToken /\ old.login = token[t].login /\ old.state = "revoked" /\ old.next = n
    BY <2>1 DEF RefreshToken
  <2> QED BY <2>2, <2>3
<1> HIDE DEF new
<1>5. token' = [token EXCEPT ![n] = new, ![t] = old] BY <1>2, <1>3, TokenTypes
<1> HIDE DEF old
<1>6. /\ token'[n] = new /\ token'[t] = old
      /\ \A u \in Token \ {n, t} : token'[u] = token[u]
  BY <1>3, <1>5, TokenTypes
<1>7. \A u \in 1..tokens : u # t => token'[u] = token[u] BY <1>3, <1>6, TokenTypes
<1>8. \A u \in 1..tokens : token'[u].login = token[u].login BY <1>4, <1>6, <1>7
<1>9. /\ shared \subseteq shared' /\ shared' \subseteq Token
      /\ (\E b \in Client \ {a} : req[b].kind \in {"refresh", "logout"} /\ req[b].on = t)
            => token[t].login \in shared'
  BY <1>1, <1>2, TogetherMarks
<1>10. token[t].next # 0 => token[t].login \in shared
  BY DEF Rotate, AccountsInv, RequestsOK, RequestOK, t
<1>11. TokensOK'
  <2>1. \A u \in 1..n : token'[u].login \in 1..n /\ (token'[u].state = "active" => token'[u].next = 0)
    BY <1>1, <1>3, <1>4, <1>6, <1>7 DEF AccountsInv, TokensOK
  <2>2. ASSUME NEW u \in 1..tokens, token'[u].login = token[t].login,
               token[t].login \notin shared', token'[u].next = 0
        PROVE  FALSE
    <3>1. u # t BY <1>3, <1>4, <1>6, <2>2
    <3>2. token[u].login = token[t].login /\ token[u].next = 0 BY <1>7, <2>2, <3>1
    <3>3. token[t].next = 0 /\ token[t].login \notin shared BY <1>9, <1>10, <2>2
    <3> QED BY <1>1, <3>1, <3>2, <3>3 DEF AccountsInv, TokensOK
  <2>3. ASSUME NEW u \in 1..n, NEW v \in 1..n, token'[u].login = token'[v].login,
               token'[u].login \notin shared', token'[u].next = 0, token'[v].next = 0
        PROVE  u = v
    <3>1. CASE u = n \/ v = n BY <1>3, <1>4, <1>6, <2>2, <2>3, <3>1
    <3>2. CASE u \in 1..tokens /\ v \in 1..tokens
      <4>1. u # t /\ v # t BY <1>3, <1>4, <1>6, <2>3
      <4> QED BY <1>7, <1>9, <2>3, <3>2, <4>1 DEF AccountsInv, TokensOK
    <3> QED BY <1>3, <3>1, <3>2
  <2> QED BY <1>2, <2>1, <2>3 DEF TokensOK
<1>12. Reissues
  <2>1. token' \in [Token -> RefreshToken] BY <1>3, <1>4, <1>5, TokenTypes
  <2>2. \A u \in Token : u > tokens' <=> token'[u].state = "none"
    <3>1. \A u \in Token : (u > n <=> u > tokens /\ u # n) BY TokenTypes DEF Token
    <3>2. ~(t > tokens) BY <1>1, TokenTypes
    <3> QED BY <1>2, <1>4, <1>6, <3>1, <3>2, TokenTypes
  <2>3. /\ req' \in [Client -> Request \cup {Idle}] /\ req'[a] = Idle
        /\ \A b \in Client \ {a} : req'[b] = req[b]
    BY <1>2, TokenTypes
  <2>4. tokens <= tokens' BY <1>2, TokenTypes
  <2>5. ASSUME NEW u \in 1..tokens
        PROVE  \/ token'[u].next = token[u].next
               \/ \A b \in Client : req'[b].kind \in {"refresh", "logout"} /\ req'[b].on = u =>
                     token[u].login \in shared'
    <3>1. CASE u # t BY <1>7, <3>1
    <3>2. CASE u = t BY <1>9, <2>3, <3>2, IdleIsIdle DEF IdleFact
    <3> QED BY <3>1, <3>2
  <2> QED BY <1>2, <1>3, <1>8, <1>9, <2>1, <2>2, <2>3, <2>4, <2>5 DEF Reissues
<1> QED BY <1>11, <1>12, ReissuesStep

\* A token that is no longer active.
LEMMA EndedStep ==
    ASSUME AccountsInv, NEW t \in 1..tokens, NEW s \in {"revoked", "expired"},
           token' = [token EXCEPT ![t].state = s],
           UNCHANGED <<user, otp, codes, tokens, requests, fresh>>,
           shared \subseteq shared', shared' \subseteq Token,
           req' \in [Client -> Request \cup {Idle}],
           \A a \in Client : req'[a] = req[a] \/ req'[a] = Idle
    PROVE  AccountsInv'
<1> DEFINE new == [token[t] EXCEPT !.state = s]
<1>1. /\ new \in RefreshToken /\ new.state = s /\ new.login = token[t].login /\ new.next = token[t].next
  BY TokenTypes DEF RefreshToken
<1>2. t \in Token /\ ~(t > tokens) BY TokenTypes
<1>3. token'[t] = new /\ \A u \in Token \ {t} : token'[u] = token[u] BY <1>2, TokenTypes
<1>4. token' = [token EXCEPT ![t] = new] BY TokenTypes
<1> HIDE DEF new
<1>5. \A u \in 1..tokens :
         /\ token'[u].login = token[u].login /\ token'[u].next = token[u].next
         /\ token'[u].state = "active" => token[u].state = "active"
  BY <1>1, <1>3, TokenTypes
<1>6. TokensOK' BY <1>5 DEF AccountsInv, TokensOK
<1>7. Reissues
  <2>1. token' \in [Token -> RefreshToken] BY <1>1, <1>2, <1>4, TokenTypes
  <2>2. \A u \in Token : u > tokens' <=> token'[u].state = "none"
    BY <1>1, <1>2, <1>3, TokenTypes
  <2> QED BY <1>5, <2>1, <2>2, TokenTypes DEF Reissues
<1> QED BY <1>6, <1>7, ReissuesStep

LEMMA LogoutStep ==
    ASSUME AccountsInv, NEW a \in Client, Logout(a)
    PROVE  AccountsInv'
<1>1. req[a].on \in 1..tokens BY DEF Logout, AccountsInv, RequestsOK, RequestOK
<1>2. shared \subseteq shared' /\ shared' \subseteq Token BY <1>1, TogetherMarks DEF Logout
<1>3. /\ token' = [token EXCEPT ![req[a].on].state = "revoked"] /\ req' = [req EXCEPT ![a] = Idle]
      /\ UNCHANGED <<user, otp, codes, tokens, requests, fresh>>
  BY DEF Logout, Ends
<1> QED BY <1>1, <1>2, <1>3, TokenTypes, EndedStep

LEMMA ExpireTokenStep ==
    ASSUME AccountsInv, NEW t \in Token, ExpireToken(t)
    PROVE  AccountsInv'
<1>1. t \in 1..tokens BY TokenTypes DEF ExpireToken, Token
<1> QED BY <1>1, TokenTypes, EndedStep DEF ExpireToken

----------------------------------------------------------------------------
(* Accounts: the invariant, and what a step may do to a code.              *)

LEMMA AccountsStep == AccountsInv /\ [Next]_vars => AccountsInv'
<1> SUFFICES ASSUME AccountsInv, [Next]_vars PROVE AccountsInv' OBVIOUS
<1>1. user \in User BY DEF AccountsInv, TypeOK
<1>2. ASSUME NEW a \in Client, Write(a) PROVE AccountsInv'
  <2>1. CASE CreateUser(a)
    <3>1. user' \in User BY <1>1, <2>1 DEF CreateUser, User
    <3> QED BY <2>1, <3>1, GoesStep DEF CreateUser
  <2>2. CASE GetOrCreateOAuthUser(a)
    <3>1. user' \in User BY <1>1, <2>2 DEF GetOrCreateOAuthUser, User
    <3> QED BY <2>2, <3>1, GoesStep DEF GetOrCreateOAuthUser
  <2>3. CASE SoftDelete(a)
    <3>1. user' \in User BY <1>1, <2>3 DEF SoftDelete, User
    <3> QED BY <2>3, <3>1, EndsStep DEF SoftDelete
  <2> QED
    BY <1>2, <2>1, <2>2, <2>3, InvalidateActiveStep, IssueAndSendStep, CommitCodeStep, VerifyStep,
       IssuePairStep, RotateStep, LogoutStep DEF Write
<1>3. ASSUME NEW a \in Client, Fails(a) PROVE AccountsInv'
  BY <1>1, <1>3, EndsStep DEF Fails
<1>4. CASE UNCHANGED vars
  BY <1>4 DEF vars, AccountsInv, TypeOK, CodesOK, TokensOK, RequestsOK, RequestOK
<1> QED BY <1>2, <1>3, <1>4, CheckStep, ExpireCodeStep, ExpireTokenStep DEF Next

LEMMA AccountsInit == Init => AccountsInv
<1> SUFFICES ASSUME Init PROVE AccountsInv OBVIOUS
<1> USE DEF Init
<1>1. /\ {MaxCodes, MaxTokens, MaxAttempts} \subseteq Nat \ {0} /\ MaxRequests \in Nat
      /\ 0 \in 0..MaxCodes /\ 0 \in 0..MaxTokens /\ 0 \in 0..MaxAttempts /\ 0 \in 0..MaxRequests
  BY ConstAssumption
<1>2. user \in User BY DEF User
<1>3. [state |-> "none", attempts |-> 0] \in Otp BY <1>1 DEF Otp
<1>4. [login |-> 0, state |-> "none", next |-> 0] \in RefreshToken BY <1>1 DEF RefreshToken
<1>5. TypeOK BY <1>1, <1>2, <1>3, <1>4 DEF TypeOK, Token, Code
<1>6. CodesOK BY DEF CodesOK
<1>7. TokensOK BY DEF TokensOK
<1>8. RequestsOK BY IdleIsIdle DEF RequestsOK, RequestOK, IdleFact
<1> QED BY <1>5, <1>6, <1>7, <1>8 DEF AccountsInv

\* What OnlyFreshCodeConfirms says of a step.
FreshNow ==
    \A a \in Client : req[a].kind = "verify" /\ otp[req[a].on] # otp'[req[a].on]
        /\ otp'[req[a].on].attempts > otp[req[a].on].attempts
        => req[a].on \in fresh /\ otp[req[a].on].attempts = 0

LEMMA FreshStep ==
    ASSUME AccountsInv, Next
    PROVE  FreshNow
<1>1. \A a \in Client : req[a].kind = "verify" => req[a].on \in Code
  BY ConstAssumption DEF AccountsInv, TypeOK, RequestsOK, RequestOK, Code
<1>2. otp \in [Code -> Otp] /\ \A k \in Code : otp[k].attempts \in Nat
  BY ConstAssumption DEF AccountsInv, TypeOK, Otp
<1>3. CASE \A k \in Code : otp'[k].attempts = otp[k].attempts
  BY <1>1, <1>2, <1>3 DEF FreshNow
<1>4. ASSUME NEW b \in Client, Verify(b) PROVE FreshNow
  <2>1. req[b].on \in Code /\ otp[req[b].on].state = "live"
    BY <1>1, <1>4 DEF Verify, ConsumeAttempt
  <2>2. req[b].on \in fresh /\ otp[req[b].on].attempts = 0 BY <2>1 DEF AccountsInv, CodesOK
  <2>3. \A k \in Code \ {req[b].on} : otp'[k] = otp[k] BY <1>2, <1>4 DEF Verify
  <2> QED BY <1>1, <2>2, <2>3 DEF FreshNow
<1>5. ASSUME NEW b \in Client, CommitCode(b)
      PROVE  \A k \in Code : otp'[k].attempts = otp[k].attempts
  <2> SUFFICES ASSUME NEW k \in Code PROVE otp'[k].attempts = otp[k].attempts OBVIOUS
  <2>1. otp'[k] = CASE k = req[b].on -> [otp[k] EXCEPT !.state = "live"]
                    [] k \in req[b].rows -> [otp[k] EXCEPT !.state = "used"]
                    [] OTHER -> otp[k]
    BY <1>5 DEF CommitCode
  <2>2. otp[k] \in Otp BY <1>2
  <2>3. CASE k = req[b].on BY <2>1, <2>2, <2>3 DEF Otp
  <2>4. CASE k # req[b].on /\ k \in req[b].rows BY <2>1, <2>2, <2>4 DEF Otp
  <2>5. CASE k # req[b].on /\ k \notin req[b].rows BY <2>1, <2>5
  <2> QED BY <2>3, <2>4, <2>5
<1>6. ASSUME NEW j \in Code, ExpireCode(j)
      PROVE  \A k \in Code : otp'[k].attempts = otp[k].attempts
  BY <1>2, <1>6 DEF ExpireCode, Otp
<1>7. ASSUME UNCHANGED otp PROVE \A k \in Code : otp'[k].attempts = otp[k].attempts
  BY <1>7
<1> QED
  BY <1>3, <1>4, <1>5, <1>6, <1>7
  DEF Next, Check, Write, Fails, ExpireToken, RegisterCheck, ResendCheck, LoginCheck, OAuthCheck,
      DeleteCheck, VerifyCheck, TokenCheck, CreateUser, InvalidateActive, IssueAndSend,
      GetOrCreateOAuthUser, IssuePair, Rotate, Logout, SoftDelete

----------------------------------------------------------------------------
(* TwoFactor: the inductive invariant.                                     *)

\* Whose request is under way; each may accept one code.
Waiting == {a \in Session : session[a] # SecondFactor!Idle}

CountOK ==
    /\ IsFiniteSet(Waiting)
    /\ \A c \in SecondFactor!Code : accepted[c] + Cardinality(Waiting) <= steps

\* Nobody knows a secret that has not been generated; a rotation is one of the bounded runs.
SecretsOK ==
    /\ factor.secret <= secrets /\ rotating <= secrets
    /\ rotating # 0 => rotations < MaxRotations
    /\ \A a \in Session : session[a].user.secret <= secrets
    /\ cache # SecondFactor!NotCached => cache.secret <= secrets
    /\ \A c \in SecondFactor!Code : accepted[c] > 0 => c[1] <= secrets

\* The counter of the row covers every slice whose code was accepted for its secret.
CounterOK ==
    \A c \in SecondFactor!Code : c[1] \notin crossed =>
        /\ accepted[c] <= 1
        /\ accepted[c] > 0 /\ factor.secret = c[1] => c[2] <= factor.counter

FactorInv ==
    SecondFactor!TypeOK /\ CountOK /\ SecretsOK /\ CounterOK /\ SecondFactor!EnabledIsProven

----------------------------------------------------------------------------
(* TwoFactor: types and requests.                                          *)

LEMMA FactorTypes ==
    ASSUME FactorInv
    PROVE  /\ factor \in SecondFactor!User /\ factor.counter <= slice + 1
           /\ factor.secret \in 0..MaxSecrets /\ factor.counter \in 0..MaxSlice + 1
           /\ secrets \in 0..MaxSecrets /\ slice \in 2..MaxSlice
           /\ MaxSecrets \in Nat /\ MaxSlice \in Nat /\ MaxSteps \in Nat /\ MaxRotations \in Nat
           /\ cache \in SecondFactor!User \cup {SecondFactor!NotCached}
           /\ session \in [Session -> SecondFactor!Request \cup {SecondFactor!Idle}]
           /\ steps \in 0..MaxSteps
           /\ accepted \in [SecondFactor!Code -> 0..MaxSteps]
           /\ \A c \in SecondFactor!Code : c[1] \in 1..MaxSecrets /\ c[2] \in 1..MaxSlice + 1
BY SecondFactorAssumption
   DEF FactorInv, SecondFactor!TypeOK, SecondFactor!ConstantsOK, SecondFactor!User, SecondFactor!Code,
       SecondFactor!Secret

SessionIdleFact ==
    /\ SecondFactor!Idle.kind = "none" /\ SecondFactor!Idle.at = "idle"
    /\ SecondFactor!Idle.user = SecondFactor!Fresh
    /\ SecondFactor!Fresh \in SecondFactor!User
    /\ SecondFactor!Fresh.secret = 0 /\ SecondFactor!Fresh.counter = 0
    /\ SecondFactor!Fresh.enabled = FALSE /\ SecondFactor!Fresh.key = "old"

LEMMA SessionIdle == SessionIdleFact
<1>1. {MaxSecrets, MaxSlice, MaxRotations, MaxSteps} \subseteq Nat
  BY SecondFactorAssumption DEF SecondFactor!ConstantsOK
<1> QED
  BY <1>1 DEF SessionIdleFact, SecondFactor!Idle, SecondFactor!Fresh, SecondFactor!User, SecondFactor!Key

\* A request that is under way, and the copy of the user that it holds.
LEMMA SessionTyped ==
    ASSUME FactorInv, NEW a \in Session
    PROVE  /\ session[a].user \in SecondFactor!User /\ session[a].user.secret <= secrets
           /\ session[a].user.secret \in 0..MaxSecrets
           /\ a \in Waiting => session[a] \in SecondFactor!Request
<1>1. session[a] \in SecondFactor!Request \cup {SecondFactor!Idle} BY FactorTypes
<1>2. session[a].user \in SecondFactor!User
  BY <1>1, SessionIdle DEF SessionIdleFact, SecondFactor!Request
<1> QED BY <1>1, <1>2 DEF FactorInv, SecretsOK, SecondFactor!User, Waiting

LEMMA CountTypes ==
    ASSUME FactorInv
    PROVE  /\ IsFiniteSet(Waiting) /\ Cardinality(Waiting) \in Nat
           /\ \A c \in SecondFactor!Code :
                accepted[c] \in Nat /\ accepted[c] + Cardinality(Waiting) <= steps
<1>1. IsFiniteSet(Waiting) BY DEF FactorInv, CountOK
<1>2. Cardinality(Waiting) \in Nat BY <1>1, FS_CardinalityType
<1> QED BY <1>1, <1>2, FactorTypes DEF FactorInv, CountOK

\* One more request, one less, or as many as before.
LEMMA WaitingGrows ==
    ASSUME FactorInv, NEW a \in Session, NEW r, session[a] = SecondFactor!Idle, r # SecondFactor!Idle,
           session' = [session EXCEPT ![a] = r], accepted' = accepted, steps' = steps + 1
    PROVE  CountOK'
<1>1. \A b \in Session \ {a} : session'[b] = session[b] BY FactorTypes
<1>2. session'[a] = r BY FactorTypes
<1>3. a \notin Waiting BY DEF Waiting
<1> DEFINE W == {b \in Session : session'[b] # SecondFactor!Idle}
<1>4. W = Waiting \cup {a} BY <1>1, <1>2 DEF Waiting
<1> HIDE DEF W
<1>5. IsFiniteSet(W) /\ Cardinality(W) = Cardinality(Waiting) + 1
  BY <1>3, <1>4, CountTypes, FS_AddElement
<1>6. Waiting' = W BY DEF Waiting, W
<1>7. \A c \in SecondFactor!Code : accepted[c] + (Cardinality(Waiting) + 1) <= steps + 1
  BY CountTypes, FactorTypes
<1>8. \A c \in SecondFactor!Code : accepted'[c] + Cardinality(W) <= steps'
  BY <1>5, <1>7
<1> QED BY <1>5, <1>6, <1>8 DEF CountOK

LEMMA WaitingShrinks ==
    ASSUME FactorInv, NEW a \in Waiting, session' = [session EXCEPT ![a] = SecondFactor!Idle],
           \A c \in SecondFactor!Code : accepted'[c] \in {accepted[c], accepted[c] + 1},
           steps' = steps
    PROVE  CountOK' /\ \A c \in SecondFactor!Code : accepted'[c] \in 0..MaxSteps
<1> DEFINE W == {b \in Session : session'[b] # SecondFactor!Idle}
<1>1. a \in Session /\ \A b \in Session \ {a} : session'[b] = session[b] BY FactorTypes DEF Waiting
<1>2. session'[a] = SecondFactor!Idle BY <1>1, FactorTypes
<1>3. W = Waiting \ {a} BY <1>1, <1>2 DEF Waiting
<1> HIDE DEF W
<1>4. IsFiniteSet(W) /\ Cardinality(W) = Cardinality(Waiting) - 1
  BY <1>3, CountTypes, FS_RemoveElement
<1>5. Cardinality(W) \in Nat BY <1>4, FS_CardinalityType
<1>6. Waiting' = W BY DEF Waiting, W
<1>7. \A c \in SecondFactor!Code :
         accepted'[c] \in Nat /\ accepted'[c] + (Cardinality(Waiting) - 1) <= steps
  BY CountTypes, FactorTypes
<1>8. \A c \in SecondFactor!Code : accepted'[c] + Cardinality(W) <= steps' BY <1>4, <1>7
<1>9. \A c \in SecondFactor!Code : accepted'[c] \in 0..MaxSteps BY <1>5, <1>7, <1>8, FactorTypes
<1> QED BY <1>4, <1>6, <1>8, <1>9 DEF CountOK

LEMMA WaitingSame ==
    ASSUME FactorInv, accepted' = accepted, steps' = steps,
           \A a \in Session : session'[a] = SecondFactor!Idle <=> session[a] = SecondFactor!Idle
    PROVE  CountOK'
<1>1. Waiting' = Waiting BY DEF Waiting
<1> QED BY <1>1 DEF FactorInv, CountOK

\* A step that neither changes the row nor accepts a code.
Quiet == UNCHANGED <<factor, secrets, accepted, crossed>>

LEMMA QuietStep ==
    ASSUME FactorInv, Quiet, CountOK',
           slice' \in 2..MaxSlice, slice <= slice',
           cache' \in SecondFactor!User \cup {SecondFactor!NotCached},
           cache' # SecondFactor!NotCached => cache'.secret <= secrets,
           keys' \in [Session -> SecondFactor!Key], rotating' \in 0..MaxSecrets, rotating' <= secrets,
           rotations' \in 0..MaxRotations, rotating' # 0 => rotations' < MaxRotations,
           session' \in [Session -> SecondFactor!Request \cup {SecondFactor!Idle}],
           \A a \in Session : session'[a].user.secret <= secrets,
           steps' \in 0..MaxSteps
    PROVE  FactorInv'
<1>1. factor.counter <= slice' + 1 BY FactorTypes
<1>2. SecondFactor!TypeOK' BY <1>1 DEF FactorInv, SecondFactor!TypeOK, Quiet
<1>3. SecretsOK' BY DEF FactorInv, SecretsOK, Quiet
<1>4. CounterOK' BY DEF FactorInv, CounterOK, Quiet
<1>5. SecondFactor!EnabledIsProven' BY DEF FactorInv, SecondFactor!EnabledIsProven, Quiet
<1> QED BY <1>2, <1>3, <1>4, <1>5 DEF FactorInv

----------------------------------------------------------------------------
(* TwoFactor: each kind of step keeps the invariant.                       *)

LEMMA SessionBegins ==
    ASSUME FactorInv, NEW a \in Session, NEW kind \in SecondFactor!Kind, NEW at \in {"loaded", "known"},
           NEW u \in SecondFactor!User, u.secret <= secrets, SecondFactor!Begins(a, kind, at, u),
           UNCHANGED <<factor, secrets, slice, cache, accepted, crossed, keys, rotating, rotations>>
    PROVE  FactorInv'
<1> DEFINE r == [kind |-> kind, at |-> at, user |-> u]
<1>1. r \in SecondFactor!Request /\ r.kind = kind /\ r.user = u BY DEF SecondFactor!Request
<1>2. r # SecondFactor!Idle
  <2>1. kind # "none" BY DEF SecondFactor!Kind
  <2> QED BY <1>1, <2>1, SessionIdle DEF SessionIdleFact
<1>3. /\ session[a] = SecondFactor!Idle /\ steps < MaxSteps /\ steps' = steps + 1
      /\ session' = [session EXCEPT ![a] = r]
  BY DEF SecondFactor!Begins
<1> HIDE DEF r
<1>4. CountOK' BY <1>2, <1>3, WaitingGrows
<1>5. session' \in [Session -> SecondFactor!Request \cup {SecondFactor!Idle}]
  BY <1>1, <1>3, FactorTypes
<1>6. \A b \in Session : session'[b].user.secret <= secrets
  BY <1>1, <1>3, SessionTyped, FactorTypes
<1>7. steps' \in 0..MaxSteps BY <1>3, FactorTypes
<1>8. Quiet BY DEF Quiet
<1> QED BY <1>4, <1>5, <1>6, <1>7, <1>8, FactorTypes, QuietStep
        DEF FactorInv, SecondFactor!TypeOK, SecretsOK

LEMMA CacheUserStep ==
    ASSUME FactorInv, NEW a \in Session, SecondFactor!CacheUser(a)
    PROVE  FactorInv'
<1> DEFINE r == [session[a] EXCEPT !.at = "known"]
<1>1. /\ session[a].at = "loaded" /\ cache' \in {session[a].user, cache}
      /\ session' = [session EXCEPT ![a] = r]
      /\ UNCHANGED <<factor, secrets, slice, steps, accepted, crossed, keys, rotating, rotations>>
  BY DEF SecondFactor!CacheUser, SecondFactor!rotation
<1>2. a \in Waiting BY <1>1, SessionIdle DEF Waiting, SessionIdleFact
<1>3. r \in SecondFactor!Request /\ r.kind = session[a].kind /\ r.user = session[a].user
  BY <1>2, SessionTyped DEF SecondFactor!Request
<1>4. r.kind # "none" BY <1>2, <1>3, SessionTyped DEF SecondFactor!Request, SecondFactor!Kind
<1> HIDE DEF r
<1>5. r # SecondFactor!Idle BY <1>4, SessionIdle DEF SessionIdleFact
<1>6. \A b \in Session : session'[b] = SecondFactor!Idle <=> session[b] = SecondFactor!Idle
  BY <1>1, <1>2, <1>5, FactorTypes DEF Waiting
<1>7. CountOK' BY <1>1, <1>6, WaitingSame
<1>8. session' \in [Session -> SecondFactor!Request \cup {SecondFactor!Idle}]
  BY <1>1, <1>3, FactorTypes
<1>9. \A b \in Session : session'[b].user.secret <= secrets
  BY <1>1, <1>3, SessionTyped, FactorTypes
<1>10. /\ cache' \in SecondFactor!User \cup {SecondFactor!NotCached}
       /\ cache' # SecondFactor!NotCached => cache'.secret <= secrets
  BY <1>1, SessionTyped, FactorTypes DEF FactorInv, SecretsOK
<1>11. Quiet BY <1>1 DEF Quiet
<1> QED BY <1>1, <1>7, <1>8, <1>9, <1>10, <1>11, FactorTypes, QuietStep
        DEF FactorInv, SecondFactor!TypeOK, SecretsOK

LEMMA SessionEnds ==
    ASSUME FactorInv, NEW a \in Session, SecondFactor!Ends(a)
    PROVE  FactorInv'
<1>1. /\ a \in Waiting /\ session' = [session EXCEPT ![a] = SecondFactor!Idle]
      /\ UNCHANGED <<factor, secrets, slice, cache, steps, accepted, crossed, keys, rotating, rotations>>
  BY DEF SecondFactor!Ends, SecondFactor!rotation, Waiting
<1>2. CountOK' BY <1>1, WaitingShrinks
<1>3. session' \in [Session -> SecondFactor!Request \cup {SecondFactor!Idle}] BY <1>1, FactorTypes
<1>4. \A b \in Session : session'[b].user.secret <= secrets
  BY <1>1, SessionTyped, FactorTypes, SessionIdle DEF SessionIdleFact
<1>5. Quiet BY <1>1 DEF Quiet
<1> QED BY <1>1, <1>2, <1>3, <1>4, <1>5, FactorTypes, QuietStep
        DEF FactorInv, SecondFactor!TypeOK, SecretsOK

\* Steps that leave the row and the requests alone.
LEMMA AsideStep ==
    ASSUME FactorInv,
           \/ SecondFactor!Tick \/ SecondFactor!CacheExpires
           \/ SecondFactor!RotateSelect \/ SecondFactor!RotateFails
           \/ \E a \in Session : SecondFactor!Roll(a)
    PROVE  FactorInv'
<1>1. UNCHANGED <<factor, secrets, session, steps, accepted, crossed>>
  BY DEF SecondFactor!Tick, SecondFactor!CacheExpires, SecondFactor!RotateSelect,
         SecondFactor!RotateFails, SecondFactor!Roll
<1>2. CountOK' BY <1>1, WaitingSame
<1>3. slice' \in 2..MaxSlice /\ slice <= slice'
  BY FactorTypes
  DEF SecondFactor!Tick, SecondFactor!CacheExpires, SecondFactor!RotateSelect,
      SecondFactor!RotateFails, SecondFactor!Roll, SecondFactor!rotation
<1>4. cache' \in {cache, SecondFactor!NotCached}
  BY DEF SecondFactor!Tick, SecondFactor!CacheExpires, SecondFactor!RotateSelect,
         SecondFactor!RotateFails, SecondFactor!Roll
<1>5. /\ keys \in [Session -> SecondFactor!Key] /\ rotating \in 0..MaxSecrets
      /\ rotations \in 0..MaxRotations /\ rotating <= secrets /\ 0 <= secrets /\ 0 \in 0..MaxSecrets
  BY FactorTypes DEF FactorInv, SecondFactor!TypeOK, SecretsOK
<1>6. keys' \in [Session -> SecondFactor!Key] /\ rotations' = rotations
  BY <1>5
  DEF SecondFactor!Tick, SecondFactor!CacheExpires, SecondFactor!RotateSelect,
      SecondFactor!RotateFails, SecondFactor!Roll, SecondFactor!rotation, SecondFactor!Key
<1>7. rotating' \in {rotating, 0, factor.secret}
  BY DEF SecondFactor!Tick, SecondFactor!CacheExpires, SecondFactor!RotateSelect,
         SecondFactor!RotateFails, SecondFactor!Roll, SecondFactor!rotation
<1>8. rotating' \in 0..MaxSecrets /\ rotating' <= secrets
  BY <1>5, <1>7, FactorTypes DEF FactorInv, SecretsOK
<1>11. rotating' # 0 => rotations < MaxRotations
  BY DEF SecondFactor!Tick, SecondFactor!CacheExpires, SecondFactor!RotateSelect,
         SecondFactor!RotateFails, SecondFactor!Roll, SecondFactor!rotation, FactorInv, SecretsOK
<1>9. Quiet BY <1>1 DEF Quiet
<1>10. /\ cache' \in SecondFactor!User \cup {SecondFactor!NotCached}
       /\ cache' # SecondFactor!NotCached => cache'.secret <= secrets
  BY <1>4, FactorTypes DEF FactorInv, SecretsOK
<1> QED
  BY <1>1, <1>2, <1>3, <1>5, <1>6, <1>8, <1>9, <1>10, <1>11, FactorTypes, SessionTyped, QuietStep

\* A new secret: nobody has shown a code of it.
LEMMA SetupStep ==
    ASSUME FactorInv, NEW a \in Session, SecondFactor!Setup(a)
    PROVE  FactorInv'
<1> DEFINE n == secrets + 1
           row == SecondFactor!SetupRow(n, keys[a])
<1>1. /\ session[a].kind = "setup" /\ secrets < MaxSecrets /\ secrets' = n /\ factor' = row
      /\ session' = [session EXCEPT ![a] = SecondFactor!Idle]
      /\ UNCHANGED <<slice, cache, steps, accepted, crossed, keys, rotating, rotations>>
  BY DEF SecondFactor!Setup, SecondFactor!rotation
<1>2. n \in 0..MaxSecrets /\ n > secrets /\ keys[a] \in SecondFactor!Key /\ 0 \in 0..MaxSlice + 1
  BY <1>1, FactorTypes DEF FactorInv, SecondFactor!TypeOK
<1>3. row \in SecondFactor!User /\ row.secret = n /\ row.counter = 0 /\ row.enabled = FALSE
  BY <1>2 DEF SecondFactor!SetupRow, SecondFactor!User
<1>4. a \in Waiting BY <1>1, SessionIdle DEF Waiting, SessionIdleFact
<1>5. CountOK' BY <1>1, <1>4, WaitingShrinks
<1>6. session' \in [Session -> SecondFactor!Request \cup {SecondFactor!Idle}] BY <1>1, FactorTypes
<1> HIDE DEF row
<1>7. SecondFactor!TypeOK'
  <2>1. 0 <= slice + 1 BY FactorTypes
  <2> QED BY <1>1, <1>2, <1>3, <1>6, <2>1 DEF FactorInv, SecondFactor!TypeOK
<1>8. SecretsOK'
  <2>1. \A m \in Nat : m <= secrets => m <= n BY FactorTypes
  <2>2. \A b \in Session : session'[b].user.secret <= n
    BY <1>1, <2>1, SessionTyped, FactorTypes, SessionIdle DEF SessionIdleFact
  <2>3. rotating <= n BY <2>1, FactorTypes DEF FactorInv, SecretsOK, SecondFactor!TypeOK
  <2>4. cache # SecondFactor!NotCached => cache.secret <= n
    BY <2>1, FactorTypes DEF FactorInv, SecretsOK, SecondFactor!User
  <2>5. \A c \in SecondFactor!Code : accepted[c] > 0 => c[1] <= n
    BY <2>1, FactorTypes DEF FactorInv, SecretsOK
  <2>6. n <= n /\ (rotating # 0 => rotations < MaxRotations) BY <1>2 DEF FactorInv, SecretsOK
  <2> QED BY <1>1, <1>3, <2>2, <2>3, <2>4, <2>5, <2>6 DEF SecretsOK
<1>9. CounterOK'
  <2>1. \A c \in SecondFactor!Code : accepted[c] > 0 => c[1] # n
    BY <1>2, FactorTypes DEF FactorInv, SecretsOK
  <2> QED BY <1>1, <1>3, <2>1 DEF FactorInv, CounterOK
<1>10. SecondFactor!EnabledIsProven' BY <1>1, <1>3 DEF SecondFactor!EnabledIsProven
<1> QED BY <1>5, <1>7, <1>8, <1>9, <1>10 DEF FactorInv

\* A code is accepted, and the row gets its slice as counter, or forgets the secret.
Remembers(c) ==
    \/ factor' = SecondFactor!Fresh
    \/ /\ factor' \in SecondFactor!User
       /\ factor'.secret = factor.secret /\ factor'.counter = c

LEMMA AcceptStep ==
    ASSUME FactorInv, NEW a \in Waiting, NEW c \in SecondFactor!Matching(a),
           SecondFactor!Consumed(a, c), Remembers(c)
    PROVE  FactorInv'
<1> DEFINE u == session[a].user
           d == <<u.secret, c>>
           Same == u = [factor EXCEPT !.key = u.key]
<1>1. /\ accepted' = [accepted EXCEPT ![d] = accepted[d] + 1]
      /\ crossed' = IF Same THEN crossed ELSE crossed \cup {u.secret, factor.secret}
      /\ session' = [session EXCEPT ![a] = SecondFactor!Idle]
      /\ UNCHANGED <<secrets, slice, cache, steps, keys, rotating, rotations>>
  BY DEF SecondFactor!Consumed, SecondFactor!rotation
<1>2. /\ u.secret # 0 /\ c \in slice - 1..slice + 1 /\ c > u.counter
  BY DEF SecondFactor!Matching, SecondFactor!Readable, SecondFactor!VerifyTotp
<1>3. a \in Session /\ u \in SecondFactor!User /\ u.secret \in 1..secrets /\ u.secret \in 1..MaxSecrets
      /\ u.counter \in Nat
  <2>1. a \in Session BY DEF Waiting
  <2>2. u \in SecondFactor!User /\ u.secret \in 0..MaxSecrets /\ u.secret <= secrets BY <2>1, SessionTyped
  <2>3. u.counter \in Nat BY <2>2, FactorTypes DEF SecondFactor!User
  <2> QED BY <1>2, <2>1, <2>2, <2>3, FactorTypes
<1>4. c \in 1..MaxSlice + 1 /\ c \in Nat /\ c <= slice + 1 BY <1>2, FactorTypes
<1>5. d \in SecondFactor!Code /\ d[1] = u.secret /\ d[2] = c
  BY <1>3, <1>4 DEF SecondFactor!Code, SecondFactor!Secret
<1>6. \A e \in SecondFactor!Code : accepted'[e] = IF e = d THEN accepted[e] + 1 ELSE accepted[e]
  BY <1>1, <1>5, FactorTypes
<1>7. Same => u.secret = factor.secret /\ u.counter = factor.counter
  BY <1>3, FactorTypes DEF SecondFactor!User
<1>8. ~Same => u.secret \in crossed' /\ factor.secret \in crossed' BY <1>1
<1>9. crossed \subseteq crossed' BY <1>1
<1>10. /\ factor' \in SecondFactor!User
       /\ factor'.secret = 0 \/ (factor'.secret = factor.secret /\ factor'.counter = c)
       /\ factor'.counter = 0 \/ factor'.counter = c
       /\ factor'.enabled => factor'.secret = factor.secret
  BY SessionIdle DEF Remembers, SessionIdleFact
<1> HIDE DEF d, u, Same
<1>11. CountOK' /\ \A e \in SecondFactor!Code : accepted'[e] \in 0..MaxSteps
  <2>1. \A e \in SecondFactor!Code : accepted'[e] \in {accepted[e], accepted[e] + 1} BY <1>6
  <2> QED BY <1>1, <2>1, WaitingShrinks
<1>12. SecondFactor!TypeOK'
  <2>1. accepted' \in [SecondFactor!Code -> 0..MaxSteps] BY <1>1, <1>11, FactorTypes
  <2>2. factor'.counter <= slice' + 1 BY <1>1, <1>4, <1>10, FactorTypes
  <2>3. crossed' \subseteq 0..MaxSecrets
    <3>1. crossed \subseteq 0..MaxSecrets BY DEF FactorInv, SecondFactor!TypeOK
    <3>2. u.secret \in 0..MaxSecrets /\ factor.secret \in 0..MaxSecrets BY <1>3, FactorTypes
    <3> QED BY <1>1, <3>1, <3>2
  <2>4. session' \in [Session -> SecondFactor!Request \cup {SecondFactor!Idle}] BY <1>1, FactorTypes
  <2> QED BY <1>1, <1>10, <2>1, <2>2, <2>3, <2>4 DEF FactorInv, SecondFactor!TypeOK
<1>13. SecretsOK'
  <2>1. factor'.secret <= secrets BY <1>10, FactorTypes DEF FactorInv, SecretsOK
  <2>2. \A b \in Session : session'[b].user.secret <= secrets
    BY <1>1, SessionTyped, FactorTypes, SessionIdle DEF SessionIdleFact
  <2>3. \A e \in SecondFactor!Code : accepted'[e] > 0 => e[1] <= secrets
    BY <1>3, <1>5, <1>6, FactorTypes DEF FactorInv, SecretsOK
  <2> QED BY <1>1, <2>1, <2>2, <2>3 DEF FactorInv, SecretsOK
<1>14. CounterOK'
  <2> SUFFICES ASSUME NEW e \in SecondFactor!Code, e[1] \notin crossed'
               PROVE  /\ accepted'[e] <= 1
                      /\ accepted'[e] > 0 /\ factor'.secret = e[1] => e[2] <= factor'.counter
    BY DEF CounterOK
  <2>1. /\ e[1] \notin crossed /\ e[1] # 0 /\ accepted[e] \in Nat /\ accepted[e] <= 1
        /\ accepted[e] > 0 /\ factor.secret = e[1] => e[2] <= factor.counter
    BY <1>9, FactorTypes DEF FactorInv, CounterOK
  <2>2. CASE ~Same
    <3>1. e # d /\ e[1] # factor.secret BY <1>5, <1>8, <2>2
    <3>2. accepted'[e] = accepted[e] BY <1>6, <3>1
    <3> QED BY <1>10, <2>1, <3>1, <3>2
  <2>3. CASE Same /\ e = d
    <3>1. e[1] = factor.secret /\ e[2] = c /\ c > factor.counter BY <1>2, <1>5, <1>7, <2>3 DEF u
    <3>2. accepted[e] = 0 BY <1>4, <2>1, <3>1, FactorTypes
    <3>3. accepted'[e] = 1 BY <1>6, <2>3, <3>2
    <3>4. factor'.secret = e[1] => factor'.counter = c BY <1>10, <2>1
    <3> QED BY <1>4, <3>1, <3>3, <3>4
  <2>4. CASE Same /\ e # d
    <3>1. accepted'[e] = accepted[e] BY <1>6, <2>4
    <3>2. c > factor.counter BY <1>2, <1>7, <2>4 DEF u
    <3>3. factor'.secret = e[1] => factor.secret = e[1] /\ factor'.counter = c BY <1>10, <2>1
    <3> QED BY <1>4, <2>1, <3>1, <3>2, <3>3, FactorTypes
  <2> QED BY <2>2, <2>3, <2>4
<1>15. SecondFactor!EnabledIsProven'
  <2> SUFFICES ASSUME factor'.enabled, factor'.secret \notin crossed'
               PROVE  \E e \in SecondFactor!Code : e[1] = factor'.secret /\ accepted'[e] > 0
    BY DEF SecondFactor!EnabledIsProven
  <2>1. Same /\ factor'.secret = u.secret BY <1>7, <1>8, <1>10
  <2>2. accepted'[d] > 0 BY <1>5, <1>6, FactorTypes
  <2> QED BY <1>5, <2>1, <2>2
<1> QED BY <1>11, <1>12, <1>13, <1>14, <1>15 DEF FactorInv

\* Enabling, disabling and a login accept a code.
LEMMA ConsumeStep ==
    ASSUME FactorInv, NEW a \in Session,
           SecondFactor!Enable(a) \/ SecondFactor!Disable(a) \/ SecondFactor!Login2FA(a)
    PROVE  FactorInv'
<1>1. a \in Waiting
  BY SessionIdle DEF Waiting, SessionIdleFact, SecondFactor!Enable, SecondFactor!Disable, SecondFactor!Login2FA
<1>2. \A c \in SecondFactor!Matching(a) : c \in 0..MaxSlice + 1
  BY FactorTypes DEF SecondFactor!Matching, SecondFactor!VerifyTotp
<1>3. PICK c \in SecondFactor!Matching(a) :
         /\ SecondFactor!Consumed(a, c)
         /\ factor' \in {SecondFactor!Fresh, [factor EXCEPT !.counter = c],
                         [factor EXCEPT !.enabled = TRUE, !.counter = c]}
  BY DEF SecondFactor!Enable, SecondFactor!Disable, SecondFactor!Login2FA
<1>4. Remembers(c) BY <1>2, <1>3, FactorTypes DEF Remembers, SecondFactor!User
<1> QED BY <1>1, <1>3, <1>4, AcceptStep

\* The secret that a rotation read is written back, over another one or not.
LEMMA RotateUpdateStep ==
    ASSUME FactorInv, SecondFactor!RotateUpdate
    PROVE  FactorInv'
<1>1. /\ factor' = [factor EXCEPT !.secret = rotating, !.key = "new"]
      /\ crossed' = IF factor.secret = rotating THEN crossed ELSE crossed \cup {rotating, factor.secret}
      /\ rotating # 0 /\ rotating' = 0 /\ rotations' = rotations + 1
      /\ UNCHANGED <<secrets, slice, cache, keys, session, steps, accepted>>
  BY DEF SecondFactor!RotateUpdate
<1>2. /\ rotating \in 0..MaxSecrets /\ rotating <= secrets
      /\ rotations \in 0..MaxRotations /\ rotations < MaxRotations
      /\ keys \in [Session -> SecondFactor!Key] /\ crossed \subseteq 0..MaxSecrets
  BY <1>1 DEF FactorInv, SecondFactor!TypeOK, SecretsOK
<1>3. /\ factor' \in SecondFactor!User /\ factor'.secret = rotating
      /\ factor'.counter = factor.counter /\ factor'.enabled = factor.enabled
  BY <1>1, <1>2, FactorTypes DEF SecondFactor!User, SecondFactor!Key
<1>4. factor.secret = rotating \/ (rotating \in crossed' /\ crossed \subseteq crossed') BY <1>1
<1>5. crossed \subseteq crossed' BY <1>1
<1>6. CountOK' BY <1>1, WaitingSame
<1>7. SecondFactor!TypeOK'
  <2>1. rotating' \in 0..MaxSecrets /\ rotations' \in 0..MaxRotations BY <1>1, <1>2, FactorTypes
  <2>2. crossed' \subseteq 0..MaxSecrets BY <1>1, <1>2, FactorTypes
  <2> QED BY <1>1, <1>3, <2>1, <2>2 DEF FactorInv, SecondFactor!TypeOK
<1>8. SecretsOK' BY <1>1, <1>2, <1>3, FactorTypes DEF FactorInv, SecretsOK
<1>9. CounterOK' BY <1>1, <1>3, <1>4, <1>5 DEF FactorInv, CounterOK
<1>10. SecondFactor!EnabledIsProven'
  BY <1>1, <1>3, <1>4, <1>5 DEF FactorInv, SecondFactor!EnabledIsProven
<1> QED BY <1>6, <1>7, <1>8, <1>9, <1>10 DEF FactorInv

LEMMA SessionStep ==
    ASSUME FactorInv, NEW a \in Session, SecondFactor!Step(a)
    PROVE  FactorInv'
<1>1. ASSUME NEW kind \in SecondFactor!Kind, SecondFactor!UserFromToken(a, kind) PROVE FactorInv'
  <2>1. UNCHANGED <<factor, secrets, slice, cache, accepted, crossed, keys, rotating, rotations>>
    BY <1>1 DEF SecondFactor!UserFromToken, SecondFactor!rotation
  <2>2. CASE cache = SecondFactor!NotCached /\ SecondFactor!Begins(a, kind, "loaded", factor)
    BY <2>1, <2>2, FactorTypes, SessionBegins DEF FactorInv, SecretsOK
  <2>3. CASE cache # SecondFactor!NotCached /\ SecondFactor!Begins(a, kind, "known", cache)
    <3>1. cache \in SecondFactor!User /\ cache.secret <= secrets
      BY <2>3, FactorTypes DEF FactorInv, SecretsOK
    <3> QED BY <2>1, <2>3, <3>1, SessionBegins
  <2> QED BY <1>1, <2>2, <2>3 DEF SecondFactor!UserFromToken
<1>2. CASE SecondFactor!LoginCheck(a)
  <2>1. UNCHANGED <<factor, secrets, slice, cache, accepted, crossed, keys, rotating, rotations>>
    BY <1>2 DEF SecondFactor!LoginCheck, SecondFactor!rotation
  <2>2. "login" \in SecondFactor!Kind BY DEF SecondFactor!Kind
  <2>3. SecondFactor!Begins(a, "login", "known", factor) BY <1>2 DEF SecondFactor!LoginCheck
  <2> QED BY <2>1, <2>2, <2>3, FactorTypes, SessionBegins DEF FactorInv, SecretsOK
<1> QED BY <1>1, <1>2, CacheUserStep, SessionEnds, SetupStep, ConsumeStep DEF SecondFactor!Step

LEMMA FactorStep == FactorInv /\ [SecondFactor!Next]_second => FactorInv'
<1> SUFFICES ASSUME FactorInv, [SecondFactor!Next]_second PROVE FactorInv' OBVIOUS
<1>1. CASE UNCHANGED second
  <2>1. CountOK' BY <1>1, WaitingSame DEF second
  <2>2. Quiet BY <1>1 DEF second, Quiet
  <2>3. SecondFactor!TypeOK' BY <1>1 DEF second, FactorInv, SecondFactor!TypeOK
  <2>4. SecretsOK' BY <1>1 DEF second, FactorInv, SecretsOK
  <2>5. CounterOK' BY <1>1 DEF second, FactorInv, CounterOK
  <2>6. SecondFactor!EnabledIsProven' BY <1>1 DEF second, FactorInv, SecondFactor!EnabledIsProven
  <2> QED BY <2>1, <2>3, <2>4, <2>5, <2>6 DEF FactorInv
<1> QED
  BY <1>1, AsideStep, RotateUpdateStep, SessionStep DEF SecondFactor!Next, SecondFactor!Rotate

LEMMA FactorInit == SecondFactor!Init => FactorInv
<1> SUFFICES ASSUME SecondFactor!Init PROVE FactorInv OBVIOUS
<1> USE DEF SecondFactor!Init
<1>1. {MaxSecrets, MaxSlice, MaxRotations, MaxSteps} \subseteq Nat /\ MaxSlice >= 2
  BY SecondFactorAssumption DEF SecondFactor!ConstantsOK
<1>2. /\ factor \in SecondFactor!User /\ factor.secret = 0 /\ factor.counter = 0
      /\ factor.enabled = FALSE
  BY SessionIdle DEF SessionIdleFact
<1>3. Waiting = {} BY DEF Waiting
<1>4. CountOK BY <1>3, FS_EmptySet DEF CountOK
<1>5. SecondFactor!TypeOK BY <1>1, <1>2 DEF SecondFactor!TypeOK, SecondFactor!Key
<1>6. SecretsOK BY <1>2, SessionIdle DEF SecretsOK, SessionIdleFact
<1>7. CounterOK BY DEF CounterOK
<1>8. SecondFactor!EnabledIsProven BY <1>2 DEF SecondFactor!EnabledIsProven
<1> QED BY <1>4, <1>5, <1>6, <1>7, <1>8 DEF FactorInv

----------------------------------------------------------------------------
(* Both together.                                                          *)

\* Neither module sees what the other one does.
THEOREM AuthenticationInductive == AuthenticationSpec => [](AccountsInv /\ FactorInv)
<1>1. AuthenticationInit => AccountsInv /\ FactorInv
  BY AccountsInit, FactorInit DEF AuthenticationInit
<1>2. AccountsInv /\ FactorInv /\ [AuthenticationNext]_<<vars, second>> => (AccountsInv /\ FactorInv)'
  <2>1. [AuthenticationNext]_<<vars, second>> => [Next]_vars /\ [SecondFactor!Next]_second
    BY DEF AuthenticationNext
  <2> QED BY <2>1, AccountsStep, FactorStep
<1> QED BY <1>1, <1>2, PTL DEF AuthenticationSpec

\* Both modules keep their types, with the limits of attempts and of the time window.
THEOREM TypesCorrect == AuthenticationSpec => []AuthenticationTypeOK
<1>1. AccountsInv /\ FactorInv => AuthenticationTypeOK
  BY DEF AccountsInv, FactorInv, AuthenticationTypeOK
<1> QED BY <1>1, AuthenticationInductive, PTL

\* models.py 20-23: of the tokens that rotation has made of one login at most one is
\* active, unless two requests with the same token overlapped.
THEOREM OneActiveToken == AuthenticationSpec => []OneActivePerLogin
<1>1. AccountsInv => OneActivePerLogin
  <2> SUFFICES ASSUME AccountsInv, NEW t \in Token, NEW u \in Token,
                      token[t].state = "active", token[u].state = "active",
                      token[t].login = token[u].login, token[t].login \notin shared
               PROVE  t = u
    BY DEF OneActivePerLogin
  <2>1. t \in 1..tokens /\ u \in 1..tokens BY TokenTypes DEF Token
  <2> QED BY <2>1 DEF AccountsInv, TokensOK
<1> QED BY <1>1, AuthenticationInductive, PTL

\* repository.py 88-91 and 114-117: a code confirms the address at its first attempt, and
\* only as long as no resend that saw it has come after it.
THEOREM FreshCodeConfirms == AuthenticationSpec => OnlyFreshCodeConfirms
<1>1. AccountsInv /\ [AuthenticationNext]_<<vars, second>> => [FreshNow]_vars
  <2>1. [AuthenticationNext]_<<vars, second>> => [Next]_vars BY DEF AuthenticationNext
  <2> QED BY <2>1, FreshStep
<1> QED
  BY <1>1, AuthenticationInductive, PTL DEF AuthenticationSpec, OnlyFreshCodeConfirms, FreshNow

\* _two_factor.py 105-107: the code of a secret and a slice is accepted once, however
\* enabling, disabling, logins and a rotation of the key overlap, unless an outdated copy
\* of the user took part.
THEOREM NoCodeTwice == AuthenticationSpec => []CodeAcceptedOnce
<1>1. FactorInv => CodeAcceptedOnce
  BY DEF FactorInv, CounterOK, CodeAcceptedOnce, SecondFactor!CodeAcceptedOnce
<1> QED BY <1>1, AuthenticationInductive, PTL

\* _two_factor.py 52: 2FA is on only for a secret that the user has shown a code of, with
\* the same exception.
THEOREM OnlyProvenSecrets == AuthenticationSpec => []EnabledIsProven
<1>1. FactorInv => EnabledIsProven BY DEF FactorInv, EnabledIsProven
<1> QED BY <1>1, AuthenticationInductive, PTL

=============================================================================
