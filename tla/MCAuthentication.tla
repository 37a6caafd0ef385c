---------------------------- MODULE MCAuthentication ----------------------------
(***************************************************************************)
(* Up to three requests at a time of one account, and two sessions of an   *)
(* account with a second factor.  The two modules share no column of the   *)
(* users row, so one is explored while the other rests.                    *)
(***************************************************************************)
EXTENDS Accounts

CONSTANTS c1, c2, c3
CONSTANTS Session, MaxSecrets, MaxSlice, MaxRotations, MaxSteps

VARIABLES factor, secrets, slice, cache, keys, rotating, rotations, session, steps, accepted, crossed

second == <<factor, secrets, slice, cache, keys, rotating, rotations, session, steps, accepted, crossed>>

SecondFactor == INSTANCE TwoFactor
    WITH Client <- Session, MaxRequests <- MaxSteps,
         user <- factor, req <- session, requests <- steps

ASSUME SecondFactorAssumption == SecondFactor!ConstantsOK

AuthenticationInit == Init /\ SecondFactor!Init

AuthenticationNext ==
    \/ steps = 0 /\ slice = 2 /\ Next /\ UNCHANGED second
    \/ requests = 0 /\ SecondFactor!Next /\ UNCHANGED vars

AuthenticationSpec == AuthenticationInit /\ [][AuthenticationNext]_<<vars, second>>

\* Both type invariants, with the limits of attempts and of the time window.
AuthenticationTypeOK == TypeOK /\ SecondFactor!TypeOK

\* TwoFactor: no code is accepted twice.
CodeAcceptedOnce == SecondFactor!CodeAcceptedOnce

\* TwoFactor: the second factor is on only for a secret that was proven.
EnabledIsProven == SecondFactor!EnabledIsProven
=============================================================================
