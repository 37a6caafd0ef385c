------------------------------ MODULE TwoFactor ------------------------------
(***************************************************************************)
(* The second factor of one account: setup, enabling, disabling and the    *)
(* second step of a login (apps/auth/services/_two_factor.py, _auth.py),   *)
(* with the replay guard of security/otp.py.                               *)
(*                                                                         *)
(* The first three work on the user that the request's access token led    *)
(* to, which may come from Redis (_tokens.py): a copy up to a TTL old, or  *)
(* older than that when it was stored late.  A login reads the row.  The   *)
(* UPDATEs of a request and its commit are one step: the first of them     *)
(* locks the row.  rotate_secret_storage re-encrypts the secret under a    *)
(* new key while the requests go on; the workers get the key afterwards.   *)
(***************************************************************************)
EXTENDS Naturals

CONSTANTS
    Client,       \* sessions that may have a request under way
    MaxSecrets,   \* bound on secrets
    MaxSlice,     \* bound on time, in slices of 30 seconds
    MaxRotations, \* bound on runs of rotate_secret_storage
    MaxRequests   \* bound on requests

\* What the constants are; the modules that give them values assume it.
ConstantsOK == {MaxSecrets, MaxSlice, MaxRotations, MaxRequests} \subseteq Nat /\ MaxSlice >= 2

VARIABLES
    user,      \* the columns of the users row that matter here
    secrets,   \* how many secrets have been generated
    slice,     \* the current time slice
    cache,     \* auth:user in Redis
    keys,      \* AUTH_TOTP_ENCRYPTION_KEY of the worker that serves a client
    rotating,  \* the secret that a rotation has read, or 0
    rotations, \* how many have committed
    req,       \* what each client's request is doing
    requests,
    accepted,  \* observer: how often the code of a secret and slice was accepted
    crossed    \* observer: secrets that an outdated copy was used to write over or to accept

rotation == <<keys, rotating, rotations>>
vars == <<user, secrets, slice, cache, rotation, req, requests, accepted, crossed>>

\* Secret 0 and counter 0 are NULL.  The clock starts late enough for that.
Secret == 1..MaxSecrets
Code == Secret \X (1..MaxSlice + 1)
Key == {"old", "new"}
User == [secret : 0..MaxSecrets, key : Key, enabled : BOOLEAN, counter : 0..MaxSlice + 1]
Fresh == [secret |-> 0, key |-> "old", enabled |-> FALSE, counter |-> 0]
NotCached == [gone |-> TRUE]

Kind == {"setup", "enable", "disable", "login"}
Request == [kind : Kind, at : {"loaded", "known"}, user : User]
Idle == [kind |-> "none", at |-> "idle", user |-> Fresh]

Init ==
    /\ user = Fresh /\ secrets = 0
    /\ slice = 2
    /\ cache = NotCached
    /\ keys = [a \in Client |-> "old"] /\ rotating = 0 /\ rotations = 0
    /\ req = [a \in Client |-> Idle] /\ requests = 0
    /\ accepted = [c \in Code |-> 0] /\ crossed = {}

----------------------------------------------------------------------------
(* Who asks.                                                               *)

Begins(a, kind, at, u) ==
    /\ req[a] = Idle /\ requests < MaxRequests /\ requests' = requests + 1
    /\ req' = [req EXCEPT ![a] = [kind |-> kind, at |-> at, user |-> u]]

\* user_from_access_token: a hit is taken as it is, a miss reads the row.
UserFromToken(a, kind) ==
    /\ kind # "login"
    /\ IF cache = NotCached THEN Begins(a, kind, "loaded", user) ELSE Begins(a, kind, "known", cache)
    /\ UNCHANGED <<user, secrets, slice, cache, accepted, crossed, rotation>>

\* What was read is stored, even if the row has changed since; a set that Redis does not
\* answer is passed over.
CacheUser(a) ==
    /\ req[a].at = "loaded"
    /\ cache' \in {req[a].user, cache}
    /\ req' = [req EXCEPT ![a].at = "known"]
    /\ UNCHANGED <<user, secrets, slice, requests, accepted, crossed, rotation>>

\* The only way out of the cache: no caller of invalidate_user_cache exists.
CacheExpires ==
    /\ cache # NotCached /\ cache' = NotCached
    /\ UNCHANGED <<user, secrets, slice, req, requests, accepted, crossed, rotation>>

\* login_2fa, with a challenge of any age.
LoginCheck(a) ==
    /\ Begins(a, "login", "known", user)
    /\ UNCHANGED <<user, secrets, slice, cache, accepted, crossed, rotation>>

\* An exception, or a route that only wanted to know the user.
Ends(a) ==
    /\ req[a] # Idle /\ req' = [req EXCEPT ![a] = Idle]
    /\ UNCHANGED <<user, secrets, slice, cache, requests, accepted, crossed, rotation>>

----------------------------------------------------------------------------
(* What it does.                                                           *)

\* Faulty variant: the last accepted slice is accepted again.
VerifyTotpInclusive(u, c) == c \in slice - 1..slice + 1 /\ c >= u.counter

\* decrypt_totp_secret raises when the worker has another key.
Readable(a) == req[a].user.secret # 0 /\ req[a].user.key = keys[a]

\* verify_totp_with_replay_guard, for the code that slice c gives with u's secret.
VerifyTotp(u, c) == c \in slice - 1..slice + 1 /\ c > u.counter

Matching(a) == {c \in slice - 2..slice + 2 : Readable(a) /\ VerifyTotp(req[a].user, c)}

\* The request is done, having accepted the code of slice c for the copy it holds.
Consumed(a, c) ==
    /\ accepted' = [accepted EXCEPT ![<<req[a].user.secret, c>>] = @ + 1]
    /\ crossed' = IF req[a].user = [user EXCEPT !.key = req[a].user.key] THEN crossed
                  ELSE crossed \cup {req[a].user.secret, user.secret}
    /\ req' = [req EXCEPT ![a] = Idle]
    /\ UNCHANGED <<secrets, slice, cache, requests, rotation>>

\* Faulty variant: 2FA stays as it was while the new secret is unconfirmed.
SetupRowKeepsEnabled(s, k) == [user EXCEPT !.secret = s, !.key = k, !.counter = 0]

SetupRow(s, k) == [secret |-> s, key |-> k, enabled |-> FALSE, counter |-> 0]

\* setup asks nothing of the copy it was given.
Setup(a) ==
    /\ req[a].kind = "setup" /\ req[a].at = "known"
    /\ secrets < MaxSecrets /\ secrets' = secrets + 1
    /\ user' = SetupRow(secrets + 1, keys[a])
    /\ req' = [req EXCEPT ![a] = Idle]
    /\ UNCHANGED <<slice, cache, requests, accepted, crossed, rotation>>

\* The counter and the flag are set, whatever secret the row has by now.
Enable(a) ==
    /\ req[a].kind = "enable" /\ req[a].at = "known"
    /\ \E c \in Matching(a) :
         user' = [user EXCEPT !.enabled = TRUE, !.counter = c] /\ Consumed(a, c)

Disable(a) ==
    /\ req[a].kind = "disable" /\ req[a].at = "known"
    /\ req[a].user.enabled
    /\ \E c \in Matching(a) : user' = Fresh /\ Consumed(a, c)

Login2FA(a) ==
    /\ req[a].kind = "login" /\ req[a].user.enabled
    /\ \E c \in Matching(a) : user' = [user EXCEPT !.counter = c] /\ Consumed(a, c)

Tick ==
    /\ slice < MaxSlice /\ slice' = slice + 1
    /\ UNCHANGED <<user, secrets, cache, req, requests, accepted, crossed, rotation>>

----------------------------------------------------------------------------
(* rotate_secret_storage: read a batch, UPDATE each row, commit at the end. *)

\* Rows that the new key opens are left as they are.
RotateSelect ==
    /\ rotating = 0 /\ rotations < MaxRotations
    /\ user.secret # 0 /\ user.key = "old"
    /\ rotating' = user.secret
    /\ UNCHANGED <<user, secrets, slice, cache, keys, rotations, req, requests, accepted, crossed>>

\* What was read is written back under the new key, whatever the row has by now.
RotateUpdate ==
    /\ rotating # 0
    /\ user' = [user EXCEPT !.secret = rotating, !.key = "new"]
    /\ crossed' = IF user.secret = rotating THEN crossed ELSE crossed \cup {rotating, user.secret}
    /\ rotating' = 0 /\ rotations' = rotations + 1
    /\ UNCHANGED <<secrets, slice, cache, keys, req, requests, accepted>>

\* The script dies, and may be run again.
RotateFails ==
    /\ rotating # 0 /\ rotating' = 0
    /\ UNCHANGED <<user, secrets, slice, cache, keys, rotations, req, requests, accepted, crossed>>

\* A worker restarts with the new key (auth-totp-rotation.md 3.5).
Roll(a) ==
    /\ rotations > 0 /\ keys[a] = "old" /\ req[a] = Idle
    /\ keys' = [keys EXCEPT ![a] = "new"]
    /\ UNCHANGED <<user, secrets, slice, cache, rotating, rotations, req, requests, accepted, crossed>>

----------------------------------------------------------------------------
Step(a) ==
    \/ \E kind \in Kind : UserFromToken(a, kind)
    \/ CacheUser(a) \/ LoginCheck(a) \/ Ends(a)
    \/ Setup(a) \/ Enable(a) \/ Disable(a) \/ Login2FA(a)

Rotate == RotateSelect \/ RotateUpdate \/ RotateFails

Next == Tick \/ CacheExpires \/ Rotate \/ \E a \in Client : Step(a) \/ Roll(a)

Spec == Init /\ [][Next]_vars

----------------------------------------------------------------------------
(* Properties.                                                             *)

\* Every variable has its type; a counter is at most one slice ahead of the clock
\* (otp.py 247: valid_window = 1).
TypeOK ==
    /\ user \in User /\ user.counter <= slice + 1
    /\ secrets \in 0..MaxSecrets /\ slice \in 2..MaxSlice
    /\ cache \in User \cup {NotCached}
    /\ keys \in [Client -> Key] /\ rotating \in 0..MaxSecrets /\ rotations \in 0..MaxRotations
    /\ req \in [Client -> Request \cup {Idle}] /\ requests \in 0..MaxRequests
    /\ accepted \in [Code -> 0..MaxRequests] /\ crossed \subseteq 0..MaxSecrets

\* _two_factor.py 105-107: a code is accepted once, over all of enable, disable and
\* login, and over a change of the key, as long as no request that held an outdated copy
\* accepted one of the same secret or wrote its counter into the row of this one, and
\* no rotation wrote a secret over another one.
CodeAcceptedOnce == \A c \in Code : c[1] \notin crossed => accepted[c] <= 1

\* _two_factor.py 52: 2FA is on only for a secret that the user has shown a code of, with
\* the same exceptions.
EnabledIsProven ==
    user.enabled /\ user.secret \notin crossed =>
        \E c \in Code : c[1] = user.secret /\ accepted[c] > 0
=============================================================================
