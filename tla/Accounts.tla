------------------------------- MODULE Accounts -------------------------------
(***************************************************************************)
(* One account from registration to deletion: the codes that confirm the   *)
(* address (apps/auth/services/_email_verification.py), Google sign-in     *)
(* (_oauth.py), the users row (apps/user/services.py) and the refresh      *)
(* tokens (_tokens.py).                                                    *)
(*                                                                         *)
(* A request reads and checks, then writes; the writes of one transaction  *)
(* and its commit are one step, since the first of them locks the row.     *)
(* What an exception rolls back is a step that only ends the request.      *)
(***************************************************************************)
EXTENDS Naturals, FiniteSets

CONSTANTS
    Client,       \* sessions that may have a request under way
    MaxCodes,     \* bound on one-time codes
    MaxTokens,    \* bound on refresh tokens
    MaxAttempts,  \* otp_max_attempts
    MaxRequests   \* bound on requests

ASSUME ConstAssumption ==
    /\ IsFiniteSet(Client)
    /\ {MaxCodes, MaxTokens, MaxAttempts} \subseteq Nat \ {0}
    /\ MaxRequests \in Nat

VARIABLES
    user,      \* the users row
    otp,       \* email_verifications
    codes,     \* how many codes have been generated, in this order
    token,     \* refresh_tokens
    tokens,    \* how many tokens have been issued
    req,       \* what each client's request is doing
    requests,
    fresh,     \* observer: code k came after every code that was committed then
    shared     \* observer: logins whose tokens were used by two requests at once

vars == <<user, otp, codes, token, tokens, req, requests, fresh, shared>>

Code == 1..MaxCodes
Token == 1..MaxTokens
User == [there : BOOLEAN, active : BOOLEAN, gone : BOOLEAN]

\* state: not committed, usable, used, past expires_at.
Otp == [state : {"none", "live", "used", "expired"}, attempts : 0..MaxAttempts]
RefreshToken == [login : 0..MaxTokens, state : {"none", "active", "revoked", "expired"}, next : 0..MaxTokens]

Kind == {"register", "resend", "verify", "login", "oauth", "refresh", "logout", "delete"}
Place == {"checked", "created", "selected", "mailed", "found", "linked"}

\* on: the code or token the request is about; rows: the codes an UPDATE has matched.
Request == [kind : Kind, at : Place, on : 0..MaxCodes \cup 0..MaxTokens, rows : SUBSET Code]
Idle == [kind |-> "none", at |-> "idle", on |-> 0, rows |-> {}]

Init ==
    /\ user = [there |-> FALSE, active |-> FALSE, gone |-> FALSE]
    /\ otp = [k \in Code |-> [state |-> "none", attempts |-> 0]] /\ codes = 0
    /\ token = [t \in Token |-> [login |-> 0, state |-> "none", next |-> 0]] /\ tokens = 0
    /\ req = [a \in Client |-> Idle] /\ requests = 0
    /\ fresh = {} /\ shared = {}

----------------------------------------------------------------------------
Live == {k \in Code : otp[k].state = "live"}
Newest(ks) == {k \in ks : \A j \in ks : j <= k}

\* find_by_email_or_username and find_by_id leave out deleted users.
Found == user.there /\ ~user.gone

Begins(a, r) == req[a] = Idle /\ requests < MaxRequests
                /\ req' = [req EXCEPT ![a] = r] /\ requests' = requests + 1
Goes(a, at) == req[a].at # "idle" /\ req' = [req EXCEPT ![a].at = at] /\ UNCHANGED requests
Ends(a) == req' = [req EXCEPT ![a] = Idle] /\ UNCHANGED requests

Asks(k, at) == [kind |-> k, at |-> at, on |-> 0, rows |-> {}]

\* Rolled back, or nothing to do.
Fails(a) ==
    /\ req[a] # Idle /\ Ends(a)
    /\ UNCHANGED <<user, otp, codes, token, tokens, fresh, shared>>

----------------------------------------------------------------------------
(* Registration and one-time codes.                                        *)

RegisterCheck(a) ==
    /\ ~Found
    /\ Begins(a, Asks("register", "checked"))
    /\ UNCHANGED <<user, otp, codes, token, tokens, fresh, shared>>

\* The user is committed on its own: the request has no transaction yet.  The unique
\* address counts deleted users too.
CreateUser(a) ==
    /\ req[a].kind = "register" /\ req[a].at = "checked"
    /\ ~user.there
    /\ user' = [user EXCEPT !.there = TRUE]
    /\ Goes(a, "created")
    /\ UNCHANGED <<otp, codes, token, tokens, fresh, shared>>

\* resend answers nothing of whom it knows; it has work to do for an unverified user.
ResendCheck(a) ==
    /\ Found /\ ~user.active
    /\ Begins(a, Asks("resend", "checked"))
    /\ UNCHANGED <<user, otp, codes, token, tokens, fresh, shared>>

\* invalidate_active_for_user: the rows the UPDATE sees when it starts.
InvalidateActive(a) ==
    /\ req[a].kind = "resend" /\ req[a].at = "checked"
    /\ req' = [req EXCEPT ![a].at = "selected", ![a].rows = Live]
    /\ UNCHANGED <<user, otp, codes, token, tokens, requests, fresh, shared>>

Locked(a) == IF req[a].at = "mailed" THEN req[a].rows ELSE {}
IsFree(k, a) == \A b \in Client \ {a} : k \notin Locked(b)

\* issue_and_send: the code is generated, flushed and mailed, and not yet committed.
IssueAndSend(a) ==
    /\ req[a].at \in {"created", "selected"}
    /\ \A k \in req[a].rows : IsFree(k, a)
    /\ codes < MaxCodes /\ codes' = codes + 1
    /\ req' = [req EXCEPT ![a].at = "mailed", ![a].on = codes + 1, ![a].rows = @ \cap Live]
    /\ UNCHANGED <<user, otp, token, tokens, requests, fresh, shared>>

\* Faulty variant: resend leaves the codes from before as they are.
CommitCodeOnly(a) ==
    /\ req[a].at = "mailed"
    /\ otp' = [otp EXCEPT ![req[a].on].state = "live"]
    /\ fresh' = {req[a].on} \cup {k \in fresh : otp[k].state = "live" /\ k \notin req[a].rows}
    /\ Ends(a)
    /\ UNCHANGED <<user, codes, token, tokens, shared>>

\* The commit of a registration's or a resend's code, with the invalidation.  fresh
\* forgets what this resend has invalidated.
CommitCode(a) ==
    /\ req[a].at = "mailed"
    /\ otp' = [k \in Code |->
         CASE k = req[a].on -> [otp[k] EXCEPT !.state = "live"]
           [] k \in req[a].rows -> [otp[k] EXCEPT !.state = "used"]
           [] OTHER -> otp[k]]
    /\ fresh' = {req[a].on} \cup {k \in fresh : otp[k].state = "live" /\ k \notin req[a].rows}
    /\ Ends(a)
    /\ UNCHANGED <<user, codes, token, tokens, shared>>

\* find_active_for_user: the newest usable code.
VerifyCheck(a, k) ==
    /\ Found /\ k \in Newest(Live)
    /\ Begins(a, [Asks("verify", "found") EXCEPT !.on = k])
    /\ UNCHANGED <<user, otp, codes, token, tokens, fresh, shared>>

\* Faulty variant: neither used_at nor the limit is in the WHERE.
ConsumeAlways(k) == otp[k].state # "none"

\* consume_attempt_atomic: what the UPDATE asks of the row once it has the lock.
ConsumeAttempt(k) == otp[k].state = "live" /\ otp[k].attempts < MaxAttempts

\* The right code: the attempt, the mark and the activation are one transaction.  A
\* wrong one ends in an exception, which rolls its attempt back (Fails).
Verify(a) ==
    LET k == req[a].on IN
    /\ req[a].kind = "verify" /\ IsFree(k, a)
    /\ ConsumeAttempt(k)
    /\ otp' = [otp EXCEPT ![k] = [state |-> "used", attempts |-> otp[k].attempts + 1]]
    /\ user' = [user EXCEPT !.active = @ \/ ~user.gone]
    /\ Ends(a)
    /\ UNCHANGED <<codes, token, tokens, fresh, shared>>

ExpireCode(k) ==
    /\ otp[k].state = "live"
    /\ otp' = [otp EXCEPT ![k].state = "expired"]
    /\ UNCHANGED <<user, codes, token, tokens, req, requests, fresh, shared>>

----------------------------------------------------------------------------
(* Sign-in.                                                                *)

LoginCheck(a) ==
    /\ Found /\ user.active
    /\ Begins(a, Asks("login", "found"))
    /\ UNCHANGED <<user, otp, codes, token, tokens, fresh, shared>>

OAuthCheck(a) ==
    /\ Begins(a, Asks("oauth", "checked"))
    /\ UNCHANGED <<user, otp, codes, token, tokens, fresh, shared>>

\* get_or_create_oauth_user, committed on its own: Google has verified the address.
GetOrCreateOAuthUser(a) ==
    /\ req[a].kind = "oauth" /\ req[a].at = "checked"
    /\ ~user.gone
    /\ user' = [user EXCEPT !.there = TRUE, !.active = TRUE]
    /\ Goes(a, "linked")
    /\ UNCHANGED <<otp, codes, token, tokens, fresh, shared>>

\* A token of a new login.
IssuePair(a) ==
    /\ \/ req[a].kind = "login"
       \/ req[a].kind = "oauth" /\ req[a].at = "linked"
    /\ tokens < MaxTokens /\ tokens' = tokens + 1
    /\ token' = [token EXCEPT ![tokens + 1] =
                    [login |-> tokens + 1, state |-> "active", next |-> 0]]
    /\ Ends(a)
    /\ UNCHANGED <<user, otp, codes, fresh, shared>>

Together(a, t) ==
    IF \E b \in Client \ {a} : req[b].kind \in {"refresh", "logout"} /\ req[b].on = t
    THEN shared' = shared \cup {token[t].login} ELSE UNCHANGED shared

\* find_active_by_hash, and for a refresh the user.  A token that is known and not
\* active makes refresh revoke the user's tokens and raise, which rolls that back.
TokenCheck(a, kind, t) ==
    /\ kind \in {"refresh", "logout"} /\ token[t].state = "active"
    /\ kind = "refresh" => Found
    /\ Begins(a, [Asks(kind, "found") EXCEPT !.on = t])
    /\ UNCHANGED <<user, otp, codes, token, tokens, fresh, shared>>

\* Faulty variant: the old token is linked to its successor and stays active.
RotateKeepsOld(a) ==
    LET t == req[a].on IN
    /\ req[a].kind = "refresh" /\ tokens < MaxTokens
    /\ tokens' = tokens + 1
    /\ token' = [token EXCEPT ![tokens + 1] = [login |-> token[t].login, state |-> "active", next |-> 0],
                              ![t].next = tokens + 1]
    /\ Together(a, t) /\ Ends(a)
    /\ UNCHANGED <<user, otp, codes, fresh>>

\* The successor and the revocation commit together; the UPDATE takes the old row
\* whatever has become of it.
Rotate(a) ==
    LET t == req[a].on IN
    /\ req[a].kind = "refresh" /\ tokens < MaxTokens
    /\ tokens' = tokens + 1
    /\ token' = [token EXCEPT ![tokens + 1] = [login |-> token[t].login, state |-> "active", next |-> 0],
                              ![t].state = "revoked", ![t].next = tokens + 1]
    /\ Together(a, t) /\ Ends(a)
    /\ UNCHANGED <<user, otp, codes, fresh>>

Logout(a) ==
    LET t == req[a].on IN
    /\ req[a].kind = "logout"
    /\ token' = [token EXCEPT ![t].state = "revoked"]
    /\ Together(a, t) /\ Ends(a)
    /\ UNCHANGED <<user, otp, codes, tokens, fresh>>

ExpireToken(t) ==
    /\ token[t].state = "active"
    /\ token' = [token EXCEPT ![t].state = "expired"]
    /\ UNCHANGED <<user, otp, codes, tokens, req, requests, fresh, shared>>

----------------------------------------------------------------------------
DeleteCheck(a) ==
    /\ Found
    /\ Begins(a, Asks("delete", "found"))
    /\ UNCHANGED <<user, otp, codes, token, tokens, fresh, shared>>

\* repository.update matches no row that is deleted already.
SoftDelete(a) ==
    /\ req[a].kind = "delete" /\ ~user.gone
    /\ user' = [user EXCEPT !.gone = TRUE]
    /\ Ends(a)
    /\ UNCHANGED <<otp, codes, token, tokens, fresh, shared>>

----------------------------------------------------------------------------
Check(a) ==
    \/ RegisterCheck(a) \/ ResendCheck(a) \/ LoginCheck(a) \/ OAuthCheck(a) \/ DeleteCheck(a)
    \/ \E k \in Code : VerifyCheck(a, k)
    \/ \E t \in Token, kind \in {"refresh", "logout"} : TokenCheck(a, kind, t)

Write(a) ==
    \/ CreateUser(a) \/ InvalidateActive(a) \/ IssueAndSend(a) \/ CommitCode(a) \/ Verify(a)
    \/ GetOrCreateOAuthUser(a) \/ IssuePair(a) \/ Rotate(a) \/ Logout(a) \/ SoftDelete(a)

Next ==
    \/ \E a \in Client : Check(a) \/ Write(a) \/ Fails(a)
    \/ \E k \in Code : ExpireCode(k)
    \/ \E t \in Token : ExpireToken(t)

Spec == Init /\ [][Next]_vars

----------------------------------------------------------------------------
(* Properties.                                                             *)

\* Every variable has its type; codes and tokens exist as far as they were generated.
TypeOK ==
    /\ user \in User
    /\ otp \in [Code -> Otp] /\ codes \in 0..MaxCodes
    /\ token \in [Token -> RefreshToken] /\ tokens \in 0..MaxTokens
    /\ req \in [Client -> Request \cup {Idle}] /\ requests \in 0..MaxRequests
    /\ fresh \subseteq Code /\ shared \subseteq Token
    /\ \A k \in Code : k > codes => otp[k].state = "none"
    /\ \A t \in Token : t > tokens <=> token[t].state = "none"

\* repository.py 88-91 and 114-117: a code confirms the address once, and not after the
\* user was sent a fresh one, however verifications and resends overlap (two resends
\* at once, neither of which saw the other's code, leave both codes valid).
OnlyFreshCodeConfirms ==
    [][\A a \in Client : req[a].kind = "verify" /\ otp[req[a].on] # otp'[req[a].on]
         /\ otp'[req[a].on].attempts > otp[req[a].on].attempts
         => req[a].on \in fresh /\ otp[req[a].on].attempts = 0]_vars

\* models.py 20-23: rotation leaves at most one active token of each login, unless two
\* requests with the same token overlapped.
OneActivePerLogin ==
    \A t, u \in Token :
        /\ token[t].state = "active" /\ token[u].state = "active"
        /\ token[t].login = token[u].login /\ token[t].login \notin shared
        => t = u
=============================================================================
