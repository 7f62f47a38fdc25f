----------------------------- MODULE LoginLock -----------------------------
(***************************************************************************)
(* Signing in with a password (internal/application/identity): wrong       *)
(* passwords are counted in the user's row, and the fifth of them locks    *)
(* the account for fifteen minutes.  The row is read when a request begins *)
(* and the new count, one more than was read, is written later.  The       *)
(* tokens that a sign-in ends with are in RefreshTokens.                   *)
(***************************************************************************)
EXTENDS Clock

CONSTANTS
    LockAt,            \* wrong passwords that lock the account: 5
    LockTime,          \* for how long: 15 minutes
    MaxTries           \* bound: wrong passwords in a row

ASSUME LoginAssumption ==
    LockAt \in Nat \ {0} /\ LockTime \in Nat \ {0} /\ MaxTries \in Nat

VARIABLES
    failedLoginCount,  \* users.failed_login_count
    lockedUntil,       \* users.locked_until, 0 for NULL
    tried,             \* wrong passwords since the last sign-in
    excused            \* sign-in requests that began while another one was in
                       \* progress, and locks that ran out, since then

loginVars == <<failedLoginCount, lockedUntil, tried, excused>>

LoginMethod == {"wrongPassword", "rightPassword"}

LoginInit == failedLoginCount = 0 /\ lockedUntil = 0 /\ tried = 0 /\ excused = 0

IsLocked == clock < lockedUntil

\* The sixth one locks.
WrongLocks(count) == count > LockAt

Locks(count) == count >= LockAt

\* An overlapping request may write over what this one writes.
BeginSignIn(q, method, count, calls) ==
    /\ ~IsLocked
    /\ Begin(q, method, calls, [count |-> count])
    /\ excused' = IF Doing(LoginMethod) = {} THEN excused ELSE excused + 1
    /\ UNCHANGED <<clock, failedLoginCount, lockedUntil>>

WrongPassword(q) ==
    LET count == failedLoginCount + 1 IN
    /\ tried < MaxTries /\ failedLoginCount < MaxTries
    /\ BeginSignIn(q, "wrongPassword", count,
                   <<"updateCount">> \o (IF Locks(count) THEN <<"updateLock">> ELSE <<>>))
    /\ tried' = tried + 1

RightPassword(q) ==
    /\ BeginSignIn(q, "rightPassword", 0, <<"updateCount", "updateLock">>)
    /\ UNCHANGED tried

UpdateFailedLoginCount(q) ==
    LET count == req[q].own.count IN
    /\ Makes(q, "updateCount")
    /\ failedLoginCount' = count
    /\ IF count = 0 THEN tried' = 0 /\ excused' = 0 ELSE UNCHANGED <<tried, excused>>
    /\ Continue(q)
    /\ UNCHANGED <<clock, lockedUntil>>

UpdateLockedUntil(q) ==
    /\ Makes(q, "updateLock")
    /\ lockedUntil' = IF req[q].own.count = 0 THEN 0 ELSE clock + LockTime
    /\ Continue(q)
    /\ UNCHANGED <<clock, failedLoginCount, tried, excused>>

LockRunsOut ==
    /\ Passes
    /\ excused' = IF lockedUntil = clock' THEN excused + 1 ELSE excused
    /\ UNCHANGED <<failedLoginCount, lockedUntil, tried>>

\* Both calls may fail, and the request goes on.
LoginNext ==
    \/ \E q \in Request :
        \/ WrongPassword(q) \/ RightPassword(q)
        \/ UpdateFailedLoginCount(q) \/ UpdateLockedUntil(q)
        \/ CallFails(q, {"updateCount", "updateLock"}) /\ UNCHANGED <<clock, loginVars>>
    \/ Crash /\ UNCHANGED <<clock, loginVars>>
    \/ LockRunsOut

LoginSpec ==
    /\ RequestsInit /\ clock = 0 /\ LoginInit
    /\ [][LoginNext]_<<requestVars, clock, loginVars>>

-----------------------------------------------------------------------------
(* Properties                                                              *)

LoginTypeOK ==
    /\ req \in [Request -> RequestOf(LoginMethod, {"updateCount", "updateLock"}, [count : Nat])]
    /\ failedLoginCount \in Nat /\ lockedUntil \in 0 .. LastTick + LockTime
    /\ tried \in Nat /\ excused \in Nat

\* The account is locked in time: after LockAt wrong passwords in a row no other
\* one is looked at, but for one more for each lock that ran out, each request
\* that overlapped another one, and each failure.
LockLimitsTries == tried <= LockAt + excused + failures
=============================================================================
