---------------------------- MODULE AccessProofs ----------------------------
(***************************************************************************)
(* What a sign-in may begin with, a password behind the login lock or a    *)
(* one-time code, and the rate limit in front of it; and the types of the  *)
(* four parts of Access.  For any number of requests, codes and failures,  *)
(* and for any limit.                                                      *)
(*                                                                         *)
(* The login lock limits the wrong passwords that are looked at.  The      *)
(* argument is about the Debt: the wrong passwords in a row that nothing   *)
(* excuses.  The count in the row, and every count about to be written, is *)
(* at least the debt, which grows only when a request begins alone.        *)
(*                                                                         *)
(* A code signs in once, once more for each verification that overlaps an  *)
(* earlier one, and once more for each failure.  As long as a code is      *)
(* stored, either a request that found it is still to delete it, or each   *)
(* verification that found it was one that overlapped or was followed by a *)
(* delete that failed.  Each of them signs in under a number of its own,   *)
(* so that there are no more sign-ins than verifications.                  *)
(*                                                                         *)
(* The rate limiter counts the stamps it holds.  Of the requests it let    *)
(* through lately it misses at most one for each failure, and it holds at  *)
(* most one too many for each failure: the key outlives its stamps.        *)
(***************************************************************************)
EXTENDS Access, RefreshTokensProofs

-----------------------------------------------------------------------------
(* The login lock                                                          *)

Debt == tried - excused - failures

\* What a sign-in request may still have to do.
C  == <<"updateCount">>
CL == <<"updateCount", "updateLock">>
L  == <<"updateLock">>

SignIns == [method : LoginMethod, todo : {C, CL, L}, wrote : BOOLEAN, own : [count : Nat]]

\* A request that counts LockAt or more goes on to lock the account.
Fits(r) ==
    /\ r.method = "wrongPassword" => (r.own.count >= LockAt <=> r.todo # C) /\ r.own.count > 0
    /\ r.method = "rightPassword" => r.own.count = 0 /\ r.todo # C

ReqInv ==
    \A q \in Request : req[q] = NoRequest \/ (req[q] \in SignIns /\ Fits(req[q]))

LoginTyped ==
    /\ req \in [Request -> {NoRequest} \union SignIns]
    /\ failures \in Nat /\ clock \in 0 .. LastTick
    /\ failedLoginCount \in Nat /\ lockedUntil \in 0 .. LastTick + LockTime
    /\ tried \in Nat /\ excused \in Nat

Counting(q) == req[q].todo \in {C, CL}

\* What is about to be written is no less than the debt.
CountsInv ==
    \A q \in Request : Counting(q) /\ req[q].method = "wrongPassword" => Debt <= req[q].own.count

\* Neither is what was written, but for one request that began alone.
RowInv ==
    \/ Debt <= failedLoginCount
    \/ Debt <= failedLoginCount + 1 /\ \E q \in Request : Counting(q)

\* A request that is about to lift the lock has paid the debt, or failed.
LiftInv ==
    \A q \in Request : req[q].method = "rightPassword" /\ req[q].todo = L => Debt < LockAt

\* A count that locks the account has locked it, will do so, or was excused.
LockInv ==
    failedLoginCount >= LockAt =>
        \/ IsLocked
        \/ Debt < LockAt
        \/ \E q \in Request : req[q].method = "wrongPassword" /\ req[q].todo \in {CL, L}

DebtInv == Debt <= LockAt

LoginInv == LoginTyped /\ ReqInv /\ CountsInv /\ RowInv /\ LiftInv /\ LockInv /\ DebtInv

-----------------------------------------------------------------------------
(* Requests                                                                *)

LEMMA LoginTodos ==
    /\ C # CL /\ C # L /\ CL # L /\ C # <<>> /\ CL # <<>> /\ L # <<>>
    /\ Head(C) = "updateCount" /\ Head(CL) = "updateCount" /\ Head(L) = "updateLock"
    /\ Len(C) = 1 /\ Len(CL) = 2 /\ Len(L) = 1 /\ Tail(CL) = L
    /\ C = <<"updateCount">> \o <<>> /\ CL = <<"updateCount">> \o <<"updateLock">>
  BY DEF C, CL, L

LEMMA LoginNoRequest ==
    NoRequest.method = "none" /\ NoRequest.todo = <<>> /\ NoRequest \notin SignIns
  BY DEF NoRequest, SignIns, LoginMethod

\* What a request is after its next call, made or ignored.
LEMMA LoginAdvanced ==
    ASSUME LoginTyped, NEW q \in Request, req[q] \in SignIns
    PROVE  LET next == Advanced(q, req[q].own) IN
           /\ req[q].todo \in {C, L} => next = NoRequest
           /\ req[q].todo = CL => /\ next \in SignIns
                                  /\ next.method = req[q].method
                                  /\ next.todo = L
                                  /\ next.own = req[q].own
<1>1. CASE req[q].todo \in {C, L}
  BY <1>1, LoginTodos DEF Advanced
<1>2. ASSUME req[q].todo = CL
      PROVE  LET next == Advanced(q, req[q].own) IN
             next \in SignIns /\ next.method = req[q].method /\ next.todo = L /\ next.own = req[q].own
  <2>1. Advanced(q, req[q].own) = [req[q] EXCEPT !.todo = L, !.wrote = TRUE, !.own = req[q].own]
    <3>1. Len(req[q].todo) # 1 /\ Tail(req[q].todo) = L
      BY <1>2, LoginTodos
    <3>2. QED
      BY <3>1, Zenon DEF Advanced
  <2>2. PICK r \in SignIns : r = req[q]
    OBVIOUS
  <2>3. [r EXCEPT !.todo = L, !.wrote = TRUE, !.own = r.own] \in SignIns
    BY <2>2 DEF SignIns
  <2>4. QED
    BY <2>1, <2>2, <2>3 DEF SignIns
<1>3. QED
  BY <1>1, <1>2, LoginTodos

\* One request changes and the others stay.
LEMMA PutFacts ==
    ASSUME LoginTyped, ReqInv, NEW q \in Request,
           NEW r \in {NoRequest} \union SignIns, r = NoRequest \/ Fits(r),
           req' = [req EXCEPT ![q] = r]
    PROVE  /\ req' \in [Request -> {NoRequest} \union SignIns]
           /\ ReqInv'
           /\ req'[q] = r
           /\ \A p \in Request : p # q => req'[p] = req[p]
<1>1. /\ req' \in [Request -> {NoRequest} \union SignIns]
      /\ req'[q] = r
      /\ \A p \in Request : p # q => req'[p] = req[p]
  BY DEF LoginTyped
<1>2. ReqInv'
  BY <1>1 DEF ReqInv, Fits
<1>3. QED
  BY <1>1, <1>2

\* A request that begins, and one in progress, as their first calls show them.
LEMMA IdleFacts ==
    ASSUME ReqInv, NEW q \in Request
    PROVE  /\ Idle(q) => req[q] = NoRequest
           /\ ~Idle(q) => req[q] \in SignIns /\ Fits(req[q])
           /\ Makes(q, "updateCount") => req[q] \in SignIns /\ Counting(q)
           /\ Makes(q, "updateLock") => req[q] \in SignIns /\ req[q].todo = L
<1>1. req[q] = NoRequest => req[q].todo = <<>>
  BY LoginNoRequest
<1>2. req[q] \in SignIns => req[q].todo \in {C, CL, L}
  BY DEF SignIns
<1>3. QED
  BY <1>1, <1>2, LoginTodos DEF ReqInv, Idle, Makes, Counting

LEMMA DebtFacts ==
    ASSUME LoginTyped
    PROVE  Debt \in Int
  BY DEF LoginTyped, Debt

LEMMA DebtMoves ==
    ASSUME NEW t \in Nat, NEW e \in Nat, NEW f \in Nat, NEW new \in {t, t + 1}
    PROVE  new - e - f <= (t - e - f) + 1 /\ new - (e + 1) - f <= t - e - f
  OBVIOUS

\* Nobody in progress, nobody counting.
LEMMA AloneFacts ==
    ASSUME ReqInv, Doing(LoginMethod) = {}, NEW q \in Request
    PROVE  req[q] = NoRequest /\ ~Counting(q)
<1>1. req[q] \notin SignIns
  BY DEF Doing, SignIns
<1>2. QED
  BY <1>1, LoginNoRequest, LoginTodos DEF ReqInv, Counting

-----------------------------------------------------------------------------
(* Steps                                                                   *)

LEMMA LoginBegins ==
    RequestsInit /\ clock = 0 /\ LoginInit => LoginInv
<1> SUFFICES ASSUME RequestsInit, clock = 0, LoginInit
             PROVE  LoginInv
  OBVIOUS
<1>1. \A q \in Request : req[q] = NoRequest
  BY DEF RequestsInit
<1>2. failedLoginCount = 0 /\ Debt = 0 /\ LoginTyped
  BY ClockAssumption, LoginAssumption DEF RequestsInit, LoginInit, Debt, LoginTyped
<1>3. ReqInv /\ CountsInv /\ LiftInv
  BY <1>1, LoginNoRequest DEF ReqInv, CountsInv, LiftInv
<1>4. RowInv /\ LockInv /\ DebtInv
  BY <1>2, LoginAssumption DEF RowInv, LockInv, DebtInv
<1>5. QED
  BY <1>2, <1>3, <1>4 DEF LoginInv

\* A request that begins alone finds an account that is not locked: the debt is
\* below LockAt, and grows by one at most.
LEMMA BeginStep ==
    ASSUME LoginInv, NEW q \in Request, WrongPassword(q) \/ RightPassword(q)
    PROVE  LoginInv'
<1> USE DEF LoginInv
<1>1. Idle(q) /\ ~IsLocked
  BY DEF WrongPassword, RightPassword, BeginSignIn, Begin
<1>2. req[q] = NoRequest
  BY <1>1, IdleFacts
<1>3. /\ UNCHANGED <<clock, failedLoginCount, lockedUntil, failures>>
      /\ excused' = IF Doing(LoginMethod) = {} THEN excused ELSE excused + 1
      /\ tried' \in {tried, tried + 1}
  BY DEF WrongPassword, RightPassword, BeginSignIn, Begin
<1>4. PICK r \in SignIns :
        /\ req' = [req EXCEPT ![q] = r] /\ Fits(r) /\ r.todo \in {C, CL}
        /\ r.method = "wrongPassword" => r.own.count = failedLoginCount + 1
        /\ r.method = "rightPassword" => tried' = tried
  <2>1. CASE WrongPassword(q)
    <3> DEFINE n == failedLoginCount + 1
               r == [method |-> "wrongPassword", todo |-> IF Locks(n) THEN CL ELSE C,
                     wrote |-> FALSE, own |-> [count |-> n]]
    <3>1. n \in Nat /\ n > 0
      BY DEF LoginTyped
    <3>2. r \in SignIns
      BY <3>1 DEF SignIns, LoginMethod
    <3>3. Fits(r) /\ r.todo \in {C, CL}
      BY <3>1, LoginTodos, LoginAssumption DEF Fits, Locks
    <3>4. <<"updateCount">> \o (IF Locks(n) THEN <<"updateLock">> ELSE <<>>) = r.todo
      BY LoginTodos
    <3>5. req' = [req EXCEPT ![q] = r]
      BY <2>1, <3>4, Zenon DEF WrongPassword, BeginSignIn, Begin
    <3>6. QED
      BY <3>2, <3>3, <3>5
  <2>2. CASE RightPassword(q)
    <3> DEFINE r == [method |-> "rightPassword", todo |-> CL,
                     wrote |-> FALSE, own |-> [count |-> 0]]
    <3>1. r \in SignIns
      BY DEF SignIns, LoginMethod
    <3>2. Fits(r)
      BY LoginTodos DEF Fits
    <3>3. req' = [req EXCEPT ![q] = r]
      BY <2>2, Zenon DEF RightPassword, BeginSignIn, Begin, CL
    <3>4. QED
      BY <2>2, <3>1, <3>2, <3>3 DEF RightPassword
  <2>3. QED
    BY <2>1, <2>2
<1>5. /\ req' \in [Request -> {NoRequest} \union SignIns] /\ ReqInv'
      /\ req'[q] = r /\ \A p \in Request : p # q => req'[p] = req[p]
  BY <1>4, PutFacts
<1>6. LoginTyped' /\ Debt \in Int /\ Debt' \in Int /\ LockAt \in Nat /\ failedLoginCount \in Nat
  <2>1. LoginTyped'
    BY <1>3, <1>5 DEF LoginTyped
  <2>2. QED
    BY <2>1, DebtFacts, LoginAssumption DEF LoginTyped, Debt
<1>7. /\ Debt' <= Debt + 1
      /\ Doing(LoginMethod) # {} \/ r.method = "rightPassword" => Debt' <= Debt
  <2>1. tried \in Nat /\ excused \in Nat /\ failures \in Nat /\ failures' = failures
    BY <1>3 DEF LoginTyped
  <2>2. CASE Doing(LoginMethod) = {}
    <3>1. excused' = excused /\ (r.method = "rightPassword" => tried' = tried)
      BY <1>3, <1>4, <2>2
    <3>2. Debt' <= Debt + 1
      BY <1>3, <2>1, <3>1, DebtMoves DEF Debt
    <3>3. r.method = "rightPassword" => Debt' <= Debt
      BY <2>1, <3>1 DEF Debt
    <3>4. QED
      BY <2>2, <3>2, <3>3
  <2>3. CASE Doing(LoginMethod) # {}
    <3>1. excused' = excused + 1
      BY <1>3, <2>3
    <3>2. Debt' <= Debt
      BY <1>3, <2>1, <3>1, DebtMoves DEF Debt
    <3>3. QED
      BY <1>6, <3>2
  <2>4. QED
    BY <2>2, <2>3
<1>8. IsLocked' = IsLocked
  BY <1>3 DEF IsLocked
<1>9. Doing(LoginMethod) = {} => Debt <= failedLoginCount /\ Debt < LockAt
  <2> SUFFICES ASSUME Doing(LoginMethod) = {}
               PROVE  Debt <= failedLoginCount /\ Debt < LockAt
    OBVIOUS
  <2>1. \A p \in Request : req[p] = NoRequest /\ ~Counting(p)
    BY AloneFacts
  <2>2. Debt <= failedLoginCount
    BY <2>1 DEF RowInv
  <2>3. failedLoginCount >= LockAt => Debt < LockAt
    BY <1>1, <2>1, LoginNoRequest DEF LockInv
  <2>4. QED
    BY <1>6, <2>2, <2>3
<1>10. Debt' <= failedLoginCount + 1
  <2>1. Debt <= failedLoginCount + 1
    BY <1>6 DEF RowInv
  <2>2. QED
    BY <1>6, <1>7, <1>9, <2>1
<1>11. CountsInv'
  <2> SUFFICES ASSUME NEW p \in Request, Counting(p)', req'[p].method = "wrongPassword"
               PROVE  Debt' <= req'[p].own.count
    BY DEF CountsInv
  <2>1. CASE p = q
    BY <1>4, <1>5, <1>10, <2>1
  <2>2. CASE p # q
    <3>1. Counting(p) /\ req[p] = req'[p]
      BY <1>5, <2>2 DEF Counting
    <3>2. Doing(LoginMethod) # {}
      BY <3>1, AloneFacts
    <3>3. Debt <= req[p].own.count /\ req[p].own.count \in Nat
      <4>1. Debt <= req[p].own.count
        BY <3>1 DEF CountsInv
      <4>2. req[p] \in SignIns
        BY <3>1, LoginNoRequest, LoginTodos DEF ReqInv, Counting
      <4>3. QED
        BY <4>1, <4>2 DEF SignIns
    <3>4. QED
      BY <1>6, <1>7, <3>1, <3>2, <3>3
  <2>3. QED
    BY <2>1, <2>2
<1>12. RowInv'
  BY <1>3, <1>4, <1>5, <1>10 DEF RowInv, Counting
<1>13. LiftInv'
  <2> SUFFICES ASSUME NEW p \in Request, req'[p].method = "rightPassword", req'[p].todo = L
               PROVE  Debt' < LockAt
    BY DEF LiftInv
  <2>1. p # q /\ req[p] = req'[p]
    BY <1>4, <1>5, LoginTodos
  <2>2. Doing(LoginMethod) # {} /\ Debt < LockAt
    BY <2>1 DEF Doing, LoginMethod, LiftInv
  <2>3. QED
    BY <1>6, <1>7, <2>2
<1>14. LockInv'
  <2> SUFFICES ASSUME failedLoginCount >= LockAt, ~(Debt' < LockAt)
               PROVE  \E p \in Request : req'[p].method = "wrongPassword" /\ req'[p].todo \in {CL, L}
    BY <1>3 DEF LockInv
  <2>1. CASE Doing(LoginMethod) = {}
    <3>1. r.method = "wrongPassword"
      BY <1>4, <1>6, <1>7, <1>9, <2>1 DEF SignIns, LoginMethod
    <3>2. r.todo = CL
      BY <1>4, <1>6, <3>1 DEF Fits
    <3>3. QED
      BY <1>5, <3>1, <3>2
  <2>2. CASE Doing(LoginMethod) # {}
    <3>1. ~(Debt < LockAt)
      BY <1>6, <1>7, <2>2
    <3>2. PICK p \in Request : req[p].method = "wrongPassword" /\ req[p].todo \in {CL, L}
      BY <1>1, <3>1 DEF LockInv
    <3>3. p # q
      BY <1>2, <3>2, LoginNoRequest
    <3>4. QED
      BY <1>5, <3>2, <3>3
  <2>3. QED
    BY <2>1, <2>2
<1>15. DebtInv'
  BY <1>6, <1>7, <1>9 DEF DebtInv
<1>16. QED
  BY <1>5, <1>6, <1>11, <1>12, <1>13, <1>14, <1>15

\* The request goes on to its next call, or ends.
LEMMA LoginContinues ==
    ASSUME LoginTyped, ReqInv, NEW q \in Request, req[q] \in SignIns,
           req' = [req EXCEPT ![q] = Advanced(q, req[q].own)]
    PROVE  /\ req' \in [Request -> {NoRequest} \union SignIns] /\ ReqInv'
           /\ \A p \in Request : p # q => req'[p] = req[p]
           /\ req[q].todo \in {C, L} => req'[q] = NoRequest
           /\ req[q].todo = CL => /\ req'[q] \in SignIns /\ req'[q].method = req[q].method
                                  /\ req'[q].todo = L /\ req'[q].own = req[q].own
<1> DEFINE next == Advanced(q, req[q].own)
<1>1. /\ req[q].todo \in {C, L} => next = NoRequest
      /\ req[q].todo = CL => /\ next \in SignIns /\ next.method = req[q].method
                             /\ next.todo = L /\ next.own = req[q].own
  BY LoginAdvanced
<1>2. req[q].todo \in {C, CL, L} /\ Fits(req[q])
  BY LoginNoRequest DEF ReqInv, SignIns
<1>3. next \in {NoRequest} \union SignIns /\ (next = NoRequest \/ Fits(next))
  BY <1>1, <1>2, LoginTodos DEF Fits
<1>4. req' = [req EXCEPT ![q] = next]
  OBVIOUS
<1> HIDE DEF next
<1>5. QED
  BY <1>1, <1>3, <1>4, PutFacts

\* After a failure nothing can be owed but what was owed before.
LEMMA CountedStep ==
    ASSUME LoginInv, NEW q \in Request, UpdateFailedLoginCount(q)
    PROVE  LoginInv'
<1> USE DEF LoginInv
<1> DEFINE count == req[q].own.count
<1>1. req[q] \in SignIns /\ Counting(q) /\ count \in Nat /\ Fits(req[q])
  <2>1. Makes(q, "updateCount")
    BY DEF UpdateFailedLoginCount
  <2>2. req[q] \in SignIns /\ Counting(q)
    BY <2>1, IdleFacts
  <2>3. QED
    BY <2>2, LoginNoRequest DEF ReqInv, SignIns
<1>2. /\ failedLoginCount' = count
      /\ IF count = 0 THEN tried' = 0 /\ excused' = 0 ELSE UNCHANGED <<tried, excused>>
      /\ UNCHANGED <<clock, lockedUntil, failures>>
      /\ req' = [req EXCEPT ![q] = Advanced(q, req[q].own)]
  BY DEF UpdateFailedLoginCount, Continue, GoOn
<1>3. /\ req' \in [Request -> {NoRequest} \union SignIns] /\ ReqInv'
      /\ \A p \in Request : p # q => req'[p] = req[p]
      /\ req[q].todo = C => req'[q] = NoRequest
      /\ req[q].todo = CL => req'[q].method = req[q].method /\ req'[q].todo = L
  BY <1>1, <1>2, LoginContinues
<1>4. ~Counting(q)'
  BY <1>1, <1>3, LoginNoRequest, LoginTodos DEF Counting
<1>5. LoginTyped' /\ Debt \in Int /\ Debt' \in Int /\ LockAt \in Nat \ {0}
  <2>1. LoginTyped'
    BY <1>1, <1>2, <1>3 DEF LoginTyped
  <2>2. QED
    BY <2>1, DebtFacts, LoginAssumption DEF LoginTyped, Debt
<1>6. CASE count = 0
  <2>1. Debt' <= 0
    BY <1>2, <1>6 DEF Debt, LoginTyped
  <2>2. CountsInv' /\ RowInv' /\ LiftInv' /\ DebtInv'
    <3>1. \A p \in Request : req'[p] \in SignIns => req'[p].own.count \in Nat
      BY DEF SignIns
    <3>2. \A p \in Request : Counting(p)' => req'[p] \in SignIns
      BY <1>3, LoginNoRequest, LoginTodos DEF ReqInv, Counting
    <3>3. CountsInv'
      BY <1>5, <2>1, <3>1, <3>2 DEF CountsInv
    <3>4. QED
      BY <1>2, <1>5, <1>6, <2>1, <3>3 DEF RowInv, LiftInv, DebtInv
  <2>3. LockInv'
    BY <1>5, <2>1 DEF LockInv
  <2>4. QED
    BY <1>3, <1>5, <2>2, <2>3
<1>7. CASE count # 0
  <2>1. Debt' = Debt
    BY <1>2, <1>7 DEF Debt
  <2>2. req[q].method = "wrongPassword"
    BY <1>1, <1>7 DEF SignIns, LoginMethod, Fits
  <2>3. CountsInv'
    BY <1>3, <1>4, <2>1 DEF CountsInv, Counting
  <2>4. RowInv'
    BY <1>1, <1>2, <2>1, <2>2 DEF RowInv, CountsInv
  <2>5. LiftInv'
    BY <1>1, <1>3, <2>1, <2>2, LoginNoRequest DEF LiftInv, Counting
  <2>6. LockInv'
    <3> SUFFICES ASSUME count >= LockAt
                 PROVE  \E p \in Request : req'[p].method = "wrongPassword" /\ req'[p].todo \in {CL, L}
      BY <1>2 DEF LockInv
    <3>1. req[q].todo = CL
      BY <1>1, <2>2 DEF Fits, Counting
    <3>2. QED
      BY <1>3, <2>2, <3>1
  <2>7. DebtInv'
    BY <2>1 DEF DebtInv
  <2>8. QED
    BY <1>3, <1>5, <2>3, <2>4, <2>5, <2>6, <2>7
<1>8. QED
  BY <1>6, <1>7

\* What a request leaves behind that is not counting any more, while the count
\* and the lock stay: nothing, unless it was to lock the account.
LEMMA LeaveStep ==
    ASSUME LoginInv, LoginTyped', ReqInv',
           UNCHANGED failedLoginCount, Debt' <= Debt,
           \A p \in Request : req'[p] = req[p] \/ req'[p] = NoRequest,
           RowInv', LockInv'
    PROVE  LoginInv'
<1> USE DEF LoginInv
<1>1. Debt \in Int /\ Debt' \in Int /\ LockAt \in Nat
  BY DebtFacts, LoginAssumption DEF LoginTyped, Debt
<1>2. \A p \in Request : req'[p].method \in LoginMethod => req'[p] = req[p] /\ req[p] \in SignIns
  BY LoginNoRequest DEF LoginMethod, ReqInv
<1>3. CountsInv'
  BY <1>1, <1>2 DEF CountsInv, Counting, LoginMethod, SignIns
<1>4. LiftInv'
  BY <1>1, <1>2 DEF LiftInv, LoginMethod
<1>5. DebtInv'
  BY <1>1 DEF DebtInv
<1>6. QED
  BY <1>3, <1>4, <1>5

LEMMA LockedStep ==
    ASSUME LoginInv, NEW q \in Request, UpdateLockedUntil(q)
    PROVE  LoginInv'
<1> USE DEF LoginInv
<1>1. req[q] \in SignIns /\ req[q].todo = L /\ Fits(req[q])
  BY IdleFacts, LoginNoRequest DEF UpdateLockedUntil, ReqInv
<1>2. /\ lockedUntil' = IF req[q].own.count = 0 THEN 0 ELSE clock + LockTime
      /\ UNCHANGED <<clock, failedLoginCount, failures, tried, excused>>
      /\ req' = [req EXCEPT ![q] = Advanced(q, req[q].own)]
  BY DEF UpdateLockedUntil, Continue, GoOn
<1>3. /\ req' \in [Request -> {NoRequest} \union SignIns] /\ ReqInv'
      /\ \A p \in Request : p # q => req'[p] = req[p]
      /\ req'[q] = NoRequest
  BY <1>1, <1>2, LoginContinues
<1>4. LoginTyped' /\ Debt' = Debt /\ Debt \in Int
  <2>1. lockedUntil' \in 0 .. LastTick + LockTime
    BY <1>2, LoginAssumption, ClockAssumption DEF LoginTyped
  <2>2. LoginTyped'
    BY <1>2, <1>3, <2>1 DEF LoginTyped
  <2>3. QED
    BY <1>2, <2>2, DebtFacts DEF Debt
<1>5. RowInv'
  BY <1>1, <1>2, <1>3, <1>4, LoginTodos DEF RowInv, Counting
<1>6. LockInv'
  <2>1. CASE req[q].own.count = 0
    <3>1. req[q].method = "rightPassword"
      BY <1>1, <2>1 DEF SignIns, LoginMethod, Fits
    <3>2. QED
      BY <1>1, <1>4, <3>1 DEF LiftInv, LockInv
  <2>2. CASE req[q].own.count # 0
    BY <1>2, <2>2, LoginAssumption DEF LoginTyped, LockInv, IsLocked
  <2>3. QED
    BY <2>1, <2>2
<1>7. QED
  BY <1>2, <1>3, <1>4, <1>5, <1>6, LeaveStep

\* A failure pays for whatever is left undone.
LEMMA LoginFailure ==
    ASSUME LoginInv, UNCHANGED <<clock, loginVars>>, failures' = failures + 1,
           \/ Crash
           \/ \E q \in Request : CallFails(q, {"updateCount", "updateLock"})
    PROVE  LoginInv'
<1> USE DEF LoginInv
<1>1. UNCHANGED <<clock, failedLoginCount, lockedUntil, tried, excused>>
  BY DEF loginVars
<1>2. /\ Debt \in Int /\ Debt' = Debt - 1 /\ Debt' < LockAt
      /\ LockAt \in Nat /\ failedLoginCount \in Nat
  <2>1. Debt \in Int /\ Debt' = Debt - 1
    BY <1>1 DEF LoginTyped, Debt
  <2>2. QED
    BY <2>1, LoginAssumption DEF DebtInv, LoginTyped
<1>3. RowInv'
  BY <1>1, <1>2 DEF RowInv
<1>4. LockInv' /\ LiftInv' /\ DebtInv'
  BY <1>2 DEF LockInv, LiftInv, DebtInv
<1>5. ASSUME req' \in [Request -> {NoRequest} \union SignIns], ReqInv',
             \A p \in Request : Counting(p)' => req'[p] = req[p]
      PROVE  LoginInv'
  <2>1. LoginTyped'
    BY <1>1, <1>5 DEF LoginTyped
  <2>2. \A p \in Request : Counting(p)' => Counting(p) /\ req[p] \in SignIns
    BY <1>5, LoginNoRequest, LoginTodos DEF Counting, ReqInv
  <2>3. CountsInv'
    BY <1>2, <1>5, <2>2 DEF CountsInv, SignIns
  <2>4. QED
    BY <1>3, <1>4, <1>5, <2>1, <2>3
<1>6. CASE Crash
  <2>1. \A p \in Request : req'[p] = NoRequest
    BY <1>6 DEF Crash
  <2>2. req' \in [Request -> {NoRequest} \union SignIns]
    BY <1>6 DEF Crash
  <2>3. QED
    BY <1>5, <2>1, <2>2, LoginNoRequest, LoginTodos DEF ReqInv, Counting
<1>7. ASSUME NEW q \in Request, CallFails(q, {"updateCount", "updateLock"})
      PROVE  LoginInv'
  <2>1. req[q] \in SignIns
    BY <1>7, IdleFacts DEF CallFails
  <2>2. Head(req[q].todo) \in {"updateCount", "updateLock"}
    BY <2>1, LoginTodos DEF SignIns
  <2>3. req' = [req EXCEPT ![q] = Advanced(q, req[q].own)]
    BY <1>7, <2>2 DEF CallFails
  <2>4. ~Counting(q)'
    BY <2>1, <2>3, LoginContinues, LoginNoRequest, LoginTodos DEF Counting, SignIns
  <2>5. QED
    BY <1>5, <2>1, <2>3, <2>4, LoginContinues
<1>8. QED
  BY <1>6, <1>7

\* The end of a lock is excused.
LEMMA TimeStep ==
    ASSUME LoginInv, LockRunsOut
    PROVE  LoginInv'
<1> USE DEF LoginInv
<1>1. /\ UNCHANGED <<req, failures, failedLoginCount, lockedUntil, tried>>
      /\ clock' = clock + 1
      /\ excused' = IF lockedUntil = clock' THEN excused + 1 ELSE excused
  BY DEF LockRunsOut, Passes, requestVars
<1>2. LoginTyped' /\ ReqInv'
  <2>1. clock' \in 0 .. LastTick /\ excused' \in Nat
    BY <1>1, ClockAssumption DEF LoginTyped, LockRunsOut, Passes
  <2>2. QED
    BY <1>1, <2>1 DEF LoginTyped, ReqInv
<1>3. Debt \in Int /\ LockAt \in Nat /\ failedLoginCount \in Nat
  BY DebtFacts, LoginAssumption DEF LoginTyped
<1>4. CASE lockedUntil = clock'
  <2>1. Debt' = Debt - 1
    BY <1>1, <1>4 DEF LoginTyped, Debt
  <2>2. RowInv'
    BY <1>1, <1>3, <2>1 DEF RowInv, Counting
  <2>3. LockInv'
    BY <1>3, <2>1 DEF LockInv, DebtInv
  <2>4. QED
    BY <1>1, <1>2, <1>3, <2>1, <2>2, <2>3, LeaveStep
<1>5. CASE lockedUntil # clock'
  <2>1. Debt' = Debt
    BY <1>1, <1>5 DEF Debt
  <2>2. IsLocked => IsLocked'
    BY <1>1, <1>5 DEF IsLocked, LoginTyped
  <2>3. RowInv' /\ LockInv'
    BY <1>1, <2>1, <2>2 DEF RowInv, LockInv, Counting
  <2>4. QED
    BY <1>1, <1>2, <1>3, <2>1, <2>3, LeaveStep
<1>6. QED
  BY <1>4, <1>5

LEMMA LoginStep ==
    ASSUME LoginInv, [LoginNext]_<<requestVars, clock, loginVars>>
    PROVE  LoginInv'
<1>1. ASSUME NEW q \in Request, WrongPassword(q) \/ RightPassword(q)
      PROVE  LoginInv'
  BY <1>1, BeginStep
<1>2. ASSUME NEW q \in Request, UpdateFailedLoginCount(q)
      PROVE  LoginInv'
  BY <1>2, CountedStep
<1>3. ASSUME NEW q \in Request, UpdateLockedUntil(q)
      PROVE  LoginInv'
  BY <1>3, LockedStep
<1>4. ASSUME UNCHANGED <<clock, loginVars>>,
             Crash \/ \E q \in Request : CallFails(q, {"updateCount", "updateLock"})
      PROVE  LoginInv'
  <2>1. failures' = failures + 1
    BY <1>4 DEF Crash, CallFails
  <2>2. QED
    BY <1>4, <2>1, LoginFailure
<1>5. CASE LockRunsOut
  BY <1>5, TimeStep
<1>6. CASE UNCHANGED <<requestVars, clock, loginVars>>
  BY <1>6 DEF LoginInv, LoginTyped, ReqInv, CountsInv, RowInv, LiftInv, LockInv, DebtInv, Debt,
              Counting, IsLocked, requestVars, loginVars
<1>7. QED
  BY <1>1, <1>2, <1>3, <1>4, <1>5, <1>6 DEF LoginNext

-----------------------------------------------------------------------------
(* Theorems                                                                *)

LEMMA LoginTyping == LoginInv => LoginTypeOK
<1>1. C \in Seq({"updateCount", "updateLock"}) /\ CL \in Seq({"updateCount", "updateLock"})
      /\ L \in Seq({"updateCount", "updateLock"})
  BY DEF C, CL, L
<1>2. SignIns \subseteq RequestOf(LoginMethod, {"updateCount", "updateLock"}, [count : Nat])
  BY <1>1 DEF SignIns, RequestOf
<1>3. NoRequest \in RequestOf(LoginMethod, {"updateCount", "updateLock"}, [count : Nat])
  BY DEF RequestOf
<1>4. QED
  BY <1>2, <1>3 DEF LoginInv, LoginTyped, LoginTypeOK

\* The types of the login lock's rows, and of the requests that are signing in
\* (LoginWithEmail in internal/application/identity/service.go).
THEOREM LoginTypes == LoginSpec => []LoginTypeOK
<1>1. LoginInv /\ [LoginNext]_<<requestVars, clock, loginVars>> => LoginInv'
  BY LoginStep
<1>2. QED
  BY <1>1, LoginTyping, LoginBegins, PTL DEF LoginSpec

\* However sign-ins overlap and fail, no more wrong passwords in a row are looked
\* at than LockAt and those that are excused (LoginWithEmail).
THEOREM LockLimits == LoginSpec => []LockLimitsTries
<1>1. LoginInv => LockLimitsTries
  <2> SUFFICES ASSUME LoginInv
               PROVE  LockLimitsTries
    OBVIOUS
  <2>1. tried \in Nat /\ excused \in Nat /\ failures \in Nat /\ LockAt \in Nat
    BY LoginAssumption DEF LoginInv, LoginTyped
  <2>2. tried - excused - failures <= LockAt
    BY DEF LoginInv, DebtInv, Debt
  <2>3. QED
    BY <2>1, <2>2 DEF LockLimitsTries
<1>2. LoginInv /\ [LoginNext]_<<requestVars, clock, loginVars>> => LoginInv'
  BY LoginStep
<1>3. QED
  BY <1>1, <1>2, LoginBegins, PTL DEF LoginSpec

-----------------------------------------------------------------------------
(* One-time codes                                                          *)

\* What a request may still have to do.
SS  == <<"set", "send">>
S   == <<"send">>
DFC == <<"delete", "findByPhone", "createUser">>
FC  == <<"findByPhone", "createUser">>
U   == <<"createUser">>

Sends    == [method : {"requestOTP"}, todo : {SS, S}, wrote : BOOLEAN, own : [code : Code, try : Nat]]
Verifies == [method : {"verifyOTP"}, todo : {DFC, FC, U}, wrote : BOOLEAN, own : [code : Code, try : Nat]]
CodeReqs == Sends \union Verifies

CodeTyped ==
    /\ req \in [Request -> {NoRequest} \union CodeReqs]
    /\ failures \in Nat /\ clock \in 0 .. LastTick
    /\ otp \in [code : Code \union {0}, until : 0 .. LastTick + CodeTime]
    /\ phoneAccount \in {"none", "active", "deleted"}
    /\ requested \in 0 .. MaxCodes /\ sent \subseteq Code
    /\ checked \in [Code -> Nat] /\ overlapped \in [Code -> Nat]
    /\ signIns \in [Code -> SUBSET Nat]

\* A code has one request, which stores it before it is sent.
SendInv ==
    /\ \A q \in Request : req[q] \in Sends => req[q].own.code <= requested
    /\ \A p, q \in Request :
         req[p] \in Sends /\ req[q] \in Sends /\ req[p].own.code = req[q].own.code => p = q
    /\ \A q \in Request : req[q].todo = SS => req[q].own.code \notin sent
    /\ \A c \in sent : c <= requested

\* Only codes that were sent are found.
UsedInv == \A c \in Code : checked[c] > 0 => c \in sent

ToDelete(c) == \E q \in Request : req[q].todo = DFC /\ req[q].own.code = c

StoredInv == \A c \in Code : otp.code = c /\ ~ToDelete(c) => checked[c] <= overlapped[c] + failures

CheckedInv == \A c \in Code : checked[c] <= 1 + overlapped[c] + failures

\* A verification signs in under the number it has in checked.
NumbersInv ==
    /\ \A c \in Code : signIns[c] \subseteq 1 .. checked[c]
    /\ \A q \in Request : req[q] \in Verifies => req[q].own.try \in 1 .. checked[req[q].own.code]

CodesInv == CodeTyped /\ SendInv /\ UsedInv /\ StoredInv /\ CheckedInv /\ NumbersInv

-----------------------------------------------------------------------------
(* Requests                                                                *)

LEMMA CodeTodos ==
    /\ SS # S /\ SS # DFC /\ SS # FC /\ SS # U /\ S # DFC /\ S # FC /\ S # U
    /\ DFC # FC /\ DFC # U /\ FC # U
    /\ SS # <<>> /\ S # <<>> /\ DFC # <<>> /\ FC # <<>> /\ U # <<>>
    /\ Head(SS) = "set" /\ Head(S) = "send"
    /\ Head(DFC) = "delete" /\ Head(FC) = "findByPhone" /\ Head(U) = "createUser"
    /\ Len(SS) # 1 /\ Len(S) = 1 /\ Len(DFC) # 1 /\ Len(FC) # 1 /\ Len(U) = 1
    /\ Tail(SS) = S /\ Tail(DFC) = FC /\ Tail(FC) = U
  BY DEF SS, S, DFC, FC, U

LEMMA CodeNoRequest ==
    NoRequest.method = "none" /\ NoRequest.todo = <<>> /\ NoRequest \notin CodeReqs
  BY DEF NoRequest, CodeReqs, Sends, Verifies

\* What a request may do next.
LEMMA KindFacts ==
    ASSUME CodeTyped, NEW q \in Request
    PROVE  /\ Idle(q) => req[q] = NoRequest
           /\ ~Idle(q) => req[q] \in CodeReqs /\ req[q].own.code \in Code /\ req[q].own.try \in Nat
           /\ Makes(q, "set") => req[q] \in Sends /\ req[q].todo = SS
           /\ Makes(q, "send") => req[q] \in Sends /\ req[q].todo = S
           /\ Makes(q, "delete") => req[q] \in Verifies /\ req[q].todo = DFC
           /\ Makes(q, "findByPhone") => req[q] \in Verifies /\ req[q].todo = FC
           /\ Makes(q, "createUser") => req[q] \in Verifies /\ req[q].todo = U
<1>1. req[q] \in {NoRequest} \union CodeReqs
  BY DEF CodeTyped
<1>2. req[q] = NoRequest => Idle(q)
  BY CodeNoRequest DEF Idle
<1>3. req[q] \in Sends => req[q].todo \in {SS, S} /\ req[q].own.code \in Code /\ req[q].own.try \in Nat
  BY DEF Sends
<1>4. req[q] \in Verifies => req[q].todo \in {DFC, FC, U} /\ req[q].own.code \in Code /\ req[q].own.try \in Nat
  BY DEF Verifies
<1>5. QED
  BY <1>1, <1>2, <1>3, <1>4, CodeTodos DEF Idle, Makes, CodeReqs

LEMMA CodeAdvanced ==
    ASSUME CodeTyped, NEW q \in Request, req[q] \in CodeReqs
    PROVE  LET next == Advanced(q, req[q].own) IN
           /\ next \in {NoRequest} \union CodeReqs
           /\ next # NoRequest => next.own = req[q].own /\ next.todo \in {S, FC, U}
           /\ next \in Sends => req[q] \in Sends
           /\ next \in Verifies => req[q] \in Verifies
<1> DEFINE next == Advanced(q, req[q].own)
<1>1. CASE Len(req[q].todo) = 1
  BY <1>1, CodeNoRequest DEF Advanced, CodeReqs
<1>2. CASE Len(req[q].todo) # 1
  <2>1. next = [req[q] EXCEPT !.todo = Tail(req[q].todo), !.wrote = TRUE, !.own = req[q].own]
    BY <1>2, Zenon DEF Advanced
  <2>2. PICK r \in CodeReqs : r = req[q]
    OBVIOUS
  <2>3. CASE r \in Sends
    <3>1. Tail(r.todo) = S
      BY <1>2, <2>2, <2>3, CodeTodos DEF Sends
    <3>2. [r EXCEPT !.todo = S, !.wrote = TRUE, !.own = r.own] \in Sends
      BY <2>3 DEF Sends
    <3>3. next = [r EXCEPT !.todo = S, !.wrote = TRUE, !.own = r.own]
      BY <2>1, <2>2, <3>1
    <3>4. next.own = r.own /\ next.todo = S /\ next \notin Verifies
      BY <2>3, <3>3 DEF Sends, Verifies
    <3>5. QED
      BY <2>2, <2>3, <3>2, <3>3, <3>4 DEF CodeReqs
  <2>4. CASE r \in Verifies
    <3>1. PICK t \in {FC, U} : Tail(r.todo) = t
      BY <1>2, <2>2, <2>4, CodeTodos DEF Verifies
    <3>2. [r EXCEPT !.todo = t, !.wrote = TRUE, !.own = r.own] \in Verifies
      BY <2>4 DEF Verifies
    <3>3. next = [r EXCEPT !.todo = t, !.wrote = TRUE, !.own = r.own]
      BY <2>1, <2>2, <3>1
    <3>4. next.own = r.own /\ next.todo = t /\ next \notin Sends
      BY <2>4, <3>3 DEF Verifies, Sends
    <3>5. req[q] \in Verifies /\ next \in CodeReqs
      BY <2>2, <2>4, <3>2, <3>3 DEF CodeReqs
    <3>6. QED
      BY <3>4, <3>5, <2>2
  <2>5. QED
    BY <2>2, <2>3, <2>4 DEF CodeReqs
<1>3. QED
  BY <1>1, <1>2

\* One request ends or goes on, and the others stay.
LEMMA LaterFacts ==
    ASSUME CodeTyped, NEW q \in Request, req[q] \in CodeReqs,
           \/ req' = [req EXCEPT ![q] = Advanced(q, req[q].own)]
           \/ req' = [req EXCEPT ![q] = NoRequest]
    PROVE  /\ req' \in [Request -> {NoRequest} \union CodeReqs]
           /\ \A p \in Request : p # q => req'[p] = req[p]
           /\ req'[q].todo \notin {SS, DFC}
           /\ req'[q] \in Sends => req[q] \in Sends /\ req'[q].own = req[q].own
           /\ req'[q] \in Verifies => req[q] \in Verifies /\ req'[q].own = req[q].own
<1>1. PICK r \in {NoRequest} \union CodeReqs :
        /\ req' = [req EXCEPT ![q] = r] /\ r.todo \notin {SS, DFC}
        /\ r \in Sends => req[q] \in Sends /\ r.own = req[q].own
        /\ r \in Verifies => req[q] \in Verifies /\ r.own = req[q].own
  <2>1. CASE req' = [req EXCEPT ![q] = Advanced(q, req[q].own)]
    <3> DEFINE r == Advanced(q, req[q].own)
    <3>1. /\ r \in {NoRequest} \union CodeReqs /\ r.todo \notin {SS, DFC}
          /\ r \in Sends => req[q] \in Sends /\ r.own = req[q].own
          /\ r \in Verifies => req[q] \in Verifies /\ r.own = req[q].own
      BY CodeAdvanced, CodeNoRequest, CodeTodos DEF CodeReqs
    <3>2. QED
      BY <2>1, <3>1
  <2>2. CASE req' = [req EXCEPT ![q] = NoRequest]
    BY <2>2, CodeNoRequest, CodeTodos DEF CodeReqs
  <2>3. QED
    BY <2>1, <2>2
<1>2. QED
  BY <1>1 DEF CodeTyped

\* A request that has its code to store is a request for a code.
LEMMA TodoKinds ==
    ASSUME CodeTyped, NEW q \in Request
    PROVE  /\ req[q].todo = SS => req[q] \in Sends
           /\ req[q].todo = DFC => req[q] \in Verifies
  BY CodeNoRequest, CodeTodos DEF CodeTyped, CodeReqs, Sends, Verifies

LEMMA SendKept ==
    ASSUME CodeTyped, SendInv, NEW q \in Request, req[q] \in CodeReqs,
           \/ req' = [req EXCEPT ![q] = Advanced(q, req[q].own)]
           \/ req' = [req EXCEPT ![q] = NoRequest],
           requested' = requested,
           sent' = sent \/ (sent' = sent \union {req[q].own.code} /\ req[q] \in Sends)
    PROVE  SendInv'
<1>1. \A p \in Request : req'[p] \in Sends => req[p] \in Sends /\ req'[p].own = req[p].own
  BY LaterFacts
<1>2. \A p \in Request : req'[p].todo = SS => p # q /\ req'[p] = req[p] /\ req[p] \in Sends
  BY LaterFacts, TodoKinds
<1>3. \A p \in Request : req'[p] \in Sends => req'[p].own.code <= requested'
  BY <1>1 DEF SendInv
<1>4. \A p, r \in Request :
        req'[p] \in Sends /\ req'[r] \in Sends /\ req'[p].own.code = req'[r].own.code => p = r
  BY <1>1 DEF SendInv
<1>5. \A p \in Request : req'[p].todo = SS => req'[p].own.code \notin sent'
  BY <1>2 DEF SendInv
<1>6. \A c \in sent' : c <= requested'
  BY DEF SendInv
<1>7. QED
  BY <1>3, <1>4, <1>5, <1>6 DEF SendInv

\* What has to be deleted is what the next verification overlaps.
LEMMA DeletingSame == ASSUME CodeTyped, NEW c PROVE Deleting(c) <=> ToDelete(c)
  BY KindFacts, CodeTodos DEF Deleting, ToDelete, Makes, Idle

\* What is numbered stays numbered, and what is new has a number of its own.
LEMMA NumbersKept ==
    ASSUME CodeTyped, NumbersInv, NEW q \in Request, req[q] \in CodeReqs,
           \/ req' = [req EXCEPT ![q] = Advanced(q, req[q].own)]
           \/ req' = [req EXCEPT ![q] = NoRequest],
           checked' = checked, signIns' = signIns \/ (SignsIn(q) /\ req[q] \in Verifies)
    PROVE  NumbersInv' /\ signIns' \in [Code -> SUBSET Nat]
<1>1. \A p \in Request : req'[p] \in Verifies => req[p] \in Verifies /\ req'[p].own = req[p].own
  BY LaterFacts
<1>2. \A p \in Request :
        req'[p] \in Verifies => req'[p].own.try \in 1 .. checked'[req'[p].own.code]
  BY <1>1 DEF NumbersInv
<1>3. CASE signIns' = signIns
  BY <1>2, <1>3 DEF NumbersInv, CodeTyped
<1>4. CASE SignsIn(q) /\ req[q] \in Verifies
  <2>1. PICK c \in Code, t \in Nat :
          /\ c = req[q].own.code /\ t = req[q].own.try /\ t \in 1 .. checked[c]
    BY <1>4 DEF Verifies, NumbersInv
  <2>2. signIns' = [signIns EXCEPT ![c] = @ \union {t}]
    BY <1>4, <2>1 DEF SignsIn
  <2>3. /\ signIns' \in [Code -> SUBSET Nat]
        /\ \A k \in Code : signIns'[k] \subseteq signIns[k] \union (IF k = c THEN {t} ELSE {})
    BY <2>2 DEF CodeTyped
  <2>4. \A k \in Code : signIns'[k] \subseteq 1 .. checked'[k]
    BY <2>1, <2>3 DEF NumbersInv
  <2>5. QED
    BY <1>2, <2>3, <2>4 DEF NumbersInv
<1>5. QED
  BY <1>3, <1>4

\* While q makes a call no request but q stops being about to delete its code.
LEMMA DeletingKept ==
    ASSUME CodeTyped, NEW q \in Request, req[q] \in CodeReqs, req[q].todo # DFC,
           \/ req' = [req EXCEPT ![q] = Advanced(q, req[q].own)]
           \/ req' = [req EXCEPT ![q] = NoRequest],
           NEW c, ToDelete(c)
    PROVE  ToDelete(c)'
  BY LaterFacts DEF ToDelete

-----------------------------------------------------------------------------
(* Steps                                                                   *)

LEMMA CodeBegins == RequestsInit /\ clock = 0 /\ CodesInit => CodesInv
<1> SUFFICES ASSUME RequestsInit, clock = 0, CodesInit
             PROVE  CodesInv
  OBVIOUS
<1>1. \A q \in Request : req[q] = NoRequest
  BY DEF RequestsInit
<1>2. CodeTyped
  BY CodesAssumption, ClockAssumption DEF CodeTyped, RequestsInit, CodesInit, NoCode, Code
<1>3. SendInv
  BY <1>1, CodeNoRequest, CodeTodos DEF SendInv, CodesInit, CodeReqs
<1>4. UsedInv /\ StoredInv /\ CheckedInv
  BY DEF UsedInv, StoredInv, CheckedInv, CodesInit, RequestsInit
<1>5. NumbersInv
  BY <1>1, CodeNoRequest DEF NumbersInv, CodesInit, CodeReqs
<1>6. QED
  BY <1>2, <1>3, <1>4, <1>5 DEF CodesInv

LEMMA RequestStep ==
    ASSUME CodesInv, NEW q \in Request, RequestOTP(q)
    PROVE  CodesInv'
<1> USE DEF CodesInv
<1> DEFINE c == requested + 1
           r == [method |-> "requestOTP", todo |-> SS, wrote |-> FALSE, own |-> [code |-> c, try |-> 0]]
<1>1. req[q] = NoRequest /\ c \in Code
  <2>1. Idle(q) /\ requested < MaxCodes
    BY DEF RequestOTP, Begin
  <2>2. QED
    BY <2>1, KindFacts, CodesAssumption DEF CodeTyped, Code
<1>2. /\ req' = [req EXCEPT ![q] = r] /\ requested' = c
      /\ UNCHANGED <<clock, otp, phoneAccount, sent, checked, overlapped, signIns, failures>>
  BY DEF RequestOTP, Begin, RequestCalls, SS, codeGhosts
<1>3. r \in Sends /\ r \notin Verifies
  BY <1>1 DEF Sends, Verifies
<1>4. req'[q] = r /\ \A p \in Request : p # q => req'[p] = req[p]
  BY <1>2 DEF CodeTyped
<1>5. CodeTyped'
  BY <1>1, <1>2, <1>3 DEF CodeTyped, CodeReqs, Code
<1>6. SendInv'
  <2>1. requested \in Nat /\ \A p \in Request : req[p] \in Sends => req[p].own.code \in Nat
    BY DEF CodeTyped, Sends, Code
  <2>2. r.own.code = c /\ c \notin sent /\ \A p \in Request : req[p] \in Sends => req[p].own.code # c
    BY <2>1 DEF SendInv
  <2>3. \A p \in Request : req'[p] \in Sends => req'[p].own.code <= c
    BY <1>4, <2>1, <2>2 DEF SendInv
  <2>4. \A p, s \in Request :
          req'[p] \in Sends /\ req'[s] \in Sends /\ req'[p].own.code = req'[s].own.code => p = s
    BY <1>4, <2>2 DEF SendInv
  <2>5. \A p \in Request : req'[p].todo = SS => req'[p].own.code \notin sent
    BY <1>4, <2>2 DEF SendInv
  <2>6. \A k \in sent : k <= c
    <3>1. \A k \in sent : k \in Nat /\ k <= requested
      <4>1. \A k \in sent : k \in Code
        BY DEF CodeTyped
      <4>2. QED
        BY <4>1, CodesAssumption DEF SendInv, Code
    <3>2. QED
      BY <2>1, <3>1
  <2>7. QED
    BY <1>2, <2>3, <2>4, <2>5, <2>6 DEF SendInv
<1>7. StoredInv'
  <2>1. \A k : ToDelete(k) => ToDelete(k)'
    BY <1>1, <1>4, CodeNoRequest, CodeTodos DEF ToDelete
  <2>2. QED
    BY <1>2, <2>1 DEF StoredInv
<1>8. UsedInv' /\ CheckedInv'
  BY <1>2 DEF UsedInv, CheckedInv
<1>9. NumbersInv'
  BY <1>2, <1>3, <1>4 DEF NumbersInv
<1>10. QED
  BY <1>5, <1>6, <1>7, <1>8, <1>9

\* The code is stored: unless another request is about to delete it, each earlier
\* verification overlapped or was followed by a failure.
LEMMA VerifyStep ==
    ASSUME CodesInv, NEW q \in Request, VerifyOTP(q)
    PROVE  CodesInv'
<1> USE DEF CodesInv
<1> DEFINE c == otp.code
           r == [method |-> "verifyOTP", todo |-> DFC, wrote |-> FALSE,
            own |-> [code |-> c, try |-> checked[c] + 1]]
<1>1. req[q] = NoRequest /\ c \in sent /\ c \in Code
  <2>1. Idle(q) /\ c \in sent
    BY DEF VerifyOTP, Begin
  <2>2. QED
    BY <2>1, KindFacts DEF CodeTyped
<1>2. /\ req' = [req EXCEPT ![q] = r]
      /\ checked' = [checked EXCEPT ![c] = @ + 1]
      /\ overlapped' = IF Deleting(c) THEN [overlapped EXCEPT ![c] = @ + 1] ELSE overlapped
      /\ UNCHANGED <<clock, otp, phoneAccount, requested, sent, signIns, failures>>
  BY DEF VerifyOTP, Begin, VerifyCalls, DFC
<1>3. r \in Verifies /\ r \notin Sends
  <2>1. checked[c] + 1 \in Nat
    BY <1>1 DEF CodeTyped
  <2>2. QED
    BY <1>1, <2>1 DEF Verifies, Sends
<1>4. req'[q] = r /\ \A p \in Request : p # q => req'[p] = req[p]
  BY <1>2 DEF CodeTyped
<1>5. CodeTyped'
  <2>1. checked' \in [Code -> Nat] /\ overlapped' \in [Code -> Nat]
    BY <1>1, <1>2 DEF CodeTyped
  <2>2. QED
    BY <1>2, <1>3, <2>1 DEF CodeTyped, CodeReqs
<1>6. SendInv'
  <2>1. \A p \in Request : req'[p] \in Sends \/ req'[p].todo = SS => p # q /\ req'[p] = req[p]
    BY <1>3, <1>4, CodeTodos
  <2>2. \A p \in Request : req'[p] \in Sends => req'[p].own.code <= requested
    BY <2>1 DEF SendInv
  <2>3. \A p, s \in Request :
          req'[p] \in Sends /\ req'[s] \in Sends /\ req'[p].own.code = req'[s].own.code => p = s
    BY <2>1 DEF SendInv
  <2>4. \A p \in Request : req'[p].todo = SS => req'[p].own.code \notin sent
    BY <2>1 DEF SendInv
  <2>5. QED
    BY <1>2, <2>2, <2>3, <2>4 DEF SendInv
<1>7. \A k \in Code : k # c => checked'[k] = checked[k] /\ overlapped'[k] = overlapped[k]
  BY <1>2 DEF CodeTyped
<1>8. checked'[c] <= 1 + overlapped'[c] + failures
  <2>1. /\ checked[c] \in Nat /\ overlapped[c] \in Nat /\ failures \in Nat
        /\ checked'[c] = checked[c] + 1
    BY <1>1, <1>2 DEF CodeTyped
  <2>2. CASE ToDelete(c)
    <3>1. overlapped'[c] = overlapped[c] + 1
      BY <1>1, <1>2, <2>2, DeletingSame DEF CodeTyped
    <3>2. checked[c] <= 1 + overlapped[c] + failures
      BY <1>1 DEF CheckedInv
    <3>3. QED
      BY <2>1, <3>1, <3>2
  <2>3. CASE ~ToDelete(c)
    <3>1. overlapped'[c] = overlapped[c]
      BY <1>2, <2>3, DeletingSame
    <3>2. checked[c] <= overlapped[c] + failures
      BY <1>1, <2>3 DEF StoredInv
    <3>3. QED
      BY <2>1, <3>1, <3>2
  <2>4. QED
    BY <2>2, <2>3
<1>9. CheckedInv'
  BY <1>2, <1>7, <1>8 DEF CheckedInv
<1>10. UsedInv'
  BY <1>1, <1>2, <1>7 DEF UsedInv
<1>11. StoredInv'
  <2>1. ToDelete(c)'
    BY <1>2, <1>4 DEF ToDelete
  <2>2. \A k : ToDelete(k) => ToDelete(k)'
    BY <1>1, <1>4, CodeNoRequest, CodeTodos DEF ToDelete
  <2>3. QED
    BY <1>2, <1>7, <2>1, <2>2 DEF StoredInv
<1>12. NumbersInv'
  <2>1. \A k \in Code : checked[k] \in Nat /\ checked'[k] \in Nat /\ checked[k] <= checked'[k]
    BY <1>1, <1>2 DEF CodeTyped
  <2>2. \A k \in Code : 1 .. checked[k] \subseteq 1 .. checked'[k]
    BY <2>1
  <2>3. \A k \in Code : signIns'[k] \subseteq 1 .. checked'[k]
    BY <1>2, <2>2 DEF NumbersInv
  <2>4. r.own.code = c /\ r.own.try \in 1 .. checked'[c]
    BY <1>1, <1>2, <2>1 DEF CodeTyped
  <2>5. \A p \in Request : req'[p] \in Verifies => req'[p].own.try \in 1 .. checked'[req'[p].own.code]
    <3> SUFFICES ASSUME NEW p \in Request, req'[p] \in Verifies
                 PROVE  req'[p].own.try \in 1 .. checked'[req'[p].own.code]
      OBVIOUS
    <3>1. CASE p = q
      BY <1>4, <2>4, <3>1
    <3>2. CASE p # q
      <4>1. req[p] \in Verifies /\ req'[p] = req[p] /\ req[p].own.code \in Code
        BY <1>4, <3>2 DEF Verifies
      <4>2. QED
        BY <2>2, <4>1 DEF NumbersInv
    <3>3. QED
      BY <3>1, <3>2
  <2>6. QED
    BY <2>3, <2>5 DEF NumbersInv
<1>13. QED
  BY <1>5, <1>6, <1>9, <1>10, <1>11, <1>12

\* Calls of requests that are in progress.
LEMMA CallStep ==
    ASSUME CodesInv, NEW q \in Request,
           SetCode(q) \/ SendCode(q) \/ DeleteCode(q) \/ FindByPhone(q) \/ CreateUser(q)
    PROVE  CodesInv'
<1> USE DEF CodesInv
<1>1. /\ UNCHANGED <<clock, requested, checked, overlapped, failures>>
      /\ \/ req' = [req EXCEPT ![q] = Advanced(q, req[q].own)]
         \/ req' = [req EXCEPT ![q] = NoRequest]
      /\ ~Idle(q)
  BY DEF SetCode, SendCode, DeleteCode, FindByPhone, CreateUser, Continue, GoOn, Makes, codeVars, codeGhosts
<1>2. req[q] \in CodeReqs /\ req[q].own.code \in Code
  BY <1>1, KindFacts
<1>3. req' \in [Request -> {NoRequest} \union CodeReqs]
  BY <1>1, <1>2, LaterFacts
<1>4. sent' = sent \/ (sent' = sent \union {req[q].own.code} /\ req[q] \in Sends)
  BY KindFacts DEF SetCode, SendCode, DeleteCode, FindByPhone, CreateUser, codeVars
<1>5. SendInv'
  BY <1>1, <1>2, <1>4, SendKept
<1>6. UsedInv' /\ CheckedInv'
  BY <1>1, <1>4 DEF UsedInv, CheckedInv
<1>7. otp' \in [code : Code \union {0}, until : 0 .. LastTick + CodeTime]
  BY <1>2, CodesAssumption, ClockAssumption
     DEF SetCode, SendCode, DeleteCode, FindByPhone, CreateUser, codeVars, NoCode, CodeTyped
<1>8. signIns' = signIns \/ (SignsIn(q) /\ req[q] \in Verifies)
  BY KindFacts DEF SetCode, SendCode, DeleteCode, FindByPhone, CreateUser, codeVars, codeGhosts
<1>9. NumbersInv' /\ signIns' \in [Code -> SUBSET Nat]
  BY <1>1, <1>2, <1>8, NumbersKept
<1>10. CodeTyped'
  BY <1>1, <1>2, <1>3, <1>4, <1>7, <1>9
     DEF SetCode, SendCode, DeleteCode, FindByPhone, CreateUser, codeVars, CodeTyped
<1>11. StoredInv'
  <2>1. CASE DeleteCode(q)
    BY <2>1, CodesAssumption DEF DeleteCode, StoredInv, NoCode, Code
  <2>2. CASE SetCode(q)
    <3>1. req[q].todo = SS /\ otp'.code = req[q].own.code
      BY <2>2, KindFacts DEF SetCode
    <3>2. ~(checked[req[q].own.code] > 0)
      BY <1>2, <3>1 DEF SendInv, UsedInv
    <3>3. checked[req[q].own.code] <= overlapped[req[q].own.code] + failures
      BY <1>2, <3>2 DEF CodeTyped
    <3>4. QED
      BY <1>1, <3>1, <3>3 DEF StoredInv
  <2>3. CASE SendCode(q) \/ FindByPhone(q) \/ CreateUser(q)
    <3>1. otp' = otp
      BY <2>3 DEF SendCode, FindByPhone, CreateUser, codeVars
    <3>2. req[q].todo # DFC
      BY <2>3, KindFacts, CodeTodos DEF SendCode, FindByPhone, CreateUser
    <3>3. \A c : ToDelete(c) => ToDelete(c)'
      BY <1>1, <1>2, <3>2, DeletingKept
    <3>4. QED
      BY <1>1, <3>1, <3>3 DEF StoredInv
  <2>4. QED
    BY <2>1, <2>2, <2>3
<1>12. QED
  BY <1>5, <1>6, <1>10, <1>11, <1>9

\* What was not deleted for a failure may be found once more.
LEMMA CodeFailure ==
    ASSUME CodesInv, UNCHANGED <<clock, codeVars>>,
           Crash \/ \E q \in Request : CallFails(q, {"delete", "findByPhone"})
    PROVE  CodesInv'
<1> USE DEF CodesInv
<1>1. /\ UNCHANGED <<clock, otp, phoneAccount, requested, sent, checked, overlapped, signIns>>
      /\ failures' = failures + 1
  BY DEF codeVars, Crash, CallFails
<1>2. UsedInv' /\ CheckedInv' /\ StoredInv'
  <2>1. failures \in Nat /\ \A c \in Code : checked[c] \in Nat /\ overlapped[c] \in Nat
    BY DEF CodeTyped
  <2>2. \A c \in Code : checked[c] <= overlapped[c] + (failures + 1)
    BY <2>1 DEF CheckedInv
  <2>3. \A c \in Code : checked[c] <= 1 + overlapped[c] + (failures + 1)
    BY <2>1, <2>2
  <2>4. QED
    BY <1>1, <2>2, <2>3 DEF UsedInv, CheckedInv, StoredInv
<1>3. CASE Crash
  <2>1. req' \in [Request -> {NoRequest} \union CodeReqs] /\ \A q \in Request : req'[q] = NoRequest
    BY <1>3 DEF Crash
  <2>2. CodeTyped'
    BY <1>1, <2>1 DEF CodeTyped
  <2>3. SendInv'
    BY <1>1, <2>1, CodeNoRequest, CodeTodos DEF SendInv, CodeReqs
  <2>4. NumbersInv'
    BY <1>1, <2>1, CodeNoRequest DEF NumbersInv, CodeReqs
  <2>5. QED
    BY <1>2, <2>2, <2>3, <2>4
<1>4. ASSUME NEW q \in Request, CallFails(q, {"delete", "findByPhone"})
      PROVE  CodesInv'
  <2>1. \/ req' = [req EXCEPT ![q] = Advanced(q, req[q].own)]
        \/ req' = [req EXCEPT ![q] = NoRequest]
    BY <1>4 DEF CallFails
  <2>2. req[q] \in CodeReqs
    BY <1>4, KindFacts DEF CallFails
  <2>3. CodeTyped'
    BY <1>1, <2>1, <2>2, LaterFacts DEF CodeTyped
  <2>4. SendInv'
    BY <1>1, <2>1, <2>2, SendKept
  <2>5. NumbersInv'
    BY <1>1, <2>1, <2>2, NumbersKept
  <2>6. QED
    BY <1>2, <2>3, <2>4, <2>5
<1>5. QED
  BY <1>3, <1>4

LEMMA OtherStep ==
    ASSUME CodesInv, DeletePhoneAccount \/ CodeExpires
    PROVE  CodesInv'
<1> USE DEF CodesInv
<1>1. /\ UNCHANGED <<req, failures, requested, sent, checked, overlapped, signIns>>
      /\ otp' \in {otp, NoCode} /\ phoneAccount' \in {phoneAccount, "deleted"}
      /\ clock' = clock \/ (clock < LastTick /\ clock' = clock + 1)
  BY DEF DeletePhoneAccount, CodeExpires, Passes, requestVars, codeGhosts
<1>2. CodeTyped'
  <2>1. clock' \in 0 .. LastTick
    BY <1>1, ClockAssumption DEF CodeTyped
  <2>2. otp' \in [code : Code \union {0}, until : 0 .. LastTick + CodeTime]
    BY <1>1, CodesAssumption, ClockAssumption DEF CodeTyped, NoCode
  <2>3. QED
    BY <1>1, <2>1, <2>2 DEF CodeTyped
<1>3. StoredInv'
  BY <1>1, CodesAssumption DEF StoredInv, ToDelete, NoCode, Code
<1>4. QED
  BY <1>1, <1>2, <1>3 DEF SendInv, UsedInv, CheckedInv, NumbersInv

LEMMA CodesStep ==
    ASSUME CodesInv, [CodesNext]_<<requestVars, clock, codeVars>>
    PROVE  CodesInv'
<1>1. ASSUME NEW q \in Request,
             SetCode(q) \/ SendCode(q) \/ DeleteCode(q) \/ FindByPhone(q) \/ CreateUser(q)
      PROVE  CodesInv'
  BY <1>1, CallStep
<1>2. CASE UNCHANGED <<requestVars, clock, codeVars>>
  BY <1>2 DEF CodesInv, CodeTyped, SendInv, UsedInv, StoredInv, CheckedInv, NumbersInv,
              ToDelete, requestVars, codeVars
<1>3. QED
  BY <1>1, <1>2, RequestStep, VerifyStep, CodeFailure, OtherStep DEF CodesNext

-----------------------------------------------------------------------------
(* Theorems                                                                *)

LEMMA CodesTyping == CodesInv => CodesTypeOK
<1>1. {SS, S, DFC, FC, U} \subseteq Seq(CodeCall)
  BY DEF SS, S, DFC, FC, U, CodeCall
<1>2. CodeReqs \subseteq RequestOf(CodeMethod, CodeCall, [code : Code, try : Nat])
  BY <1>1 DEF CodeReqs, Sends, Verifies, RequestOf, CodeMethod
<1>3. NoRequest \in RequestOf(CodeMethod, CodeCall, [code : Code, try : Nat])
  BY DEF RequestOf
<1>4. QED
  BY <1>2, <1>3 DEF CodesInv, CodeTyped, CodesTypeOK

\* The types of one-time codes and of the requests that ask for them and use
\* them (RequestOTP, VerifyOTP in internal/application/identity/service.go).
THEOREM CodesTypes == CodesSpec => []CodesTypeOK
<1>1. CodesInv /\ [CodesNext]_<<requestVars, clock, codeVars>> => CodesInv'
  BY CodesStep
<1>2. QED
  BY <1>1, CodesTyping, CodeBegins, PTL DEF CodesSpec

\* There are no more sign-ins than verifications that found the code.
LEMMA SignInsCounted == CodesInv => CodeUsedOnce
<1> SUFFICES ASSUME CodesInv, NEW c \in Code
             PROVE  Cardinality(signIns[c]) <= 1 + overlapped[c] + failures
  BY DEF CodeUsedOnce
<1>1. checked[c] \in Nat /\ overlapped[c] \in Nat /\ failures \in Nat
  BY DEF CodesInv, CodeTyped
<1>2. IsFiniteSet(1 .. checked[c]) /\ Cardinality(1 .. checked[c]) = checked[c]
  <2>1. 1 \in Int /\ checked[c] \in Int
    BY <1>1
  <2>2. IsFiniteSet(1 .. checked[c]) /\ Cardinality(1 .. checked[c]) =
          IF 1 > checked[c] THEN 0 ELSE checked[c] - 1 + 1
    BY <2>1, FS_Interval, Zenon
  <2>3. QED
    BY <1>1, <2>2
<1>3. signIns[c] \subseteq 1 .. checked[c]
  BY DEF CodesInv, NumbersInv
<1>4. IsFiniteSet(signIns[c]) /\ Cardinality(signIns[c]) <= Cardinality(1 .. checked[c])
  BY <1>2, <1>3, FS_Subset
<1>5. Cardinality(signIns[c]) \in Nat
  BY <1>4, FS_CardinalityType
<1>6. checked[c] <= 1 + overlapped[c] + failures
  BY DEF CodesInv, CheckedInv
<1>7. QED
  BY <1>1, <1>2, <1>4, <1>5, <1>6

\* A code that is read, compared and deleted in separate calls signs in once, once
\* more for each verification that begins before an earlier one has deleted it,
\* and once more for each failure (VerifyOTP): not for codes requested meanwhile,
\* whatever the order of their calls.
THEOREM CodesUsedOnce == CodesSpec => []CodeUsedOnce
<1>1. CodesInv => CodeUsedOnce
  BY SignInsCounted
<1>2. CodesInv /\ [CodesNext]_<<requestVars, clock, codeVars>> => CodesInv'
  BY CodesStep
<1>3. QED
  BY <1>1, <1>2, CodeBegins, PTL DEF CodesSpec

-----------------------------------------------------------------------------
(* The rate limiter                                                        *)

\* The requests a rate limiter has in progress.
Asks == [method : {"allow"}, todo : {<<"script">>}, wrote : {FALSE}, own : [now : 0 .. LastTick]]

RateTyped ==
    /\ req \in [Request -> {NoRequest} \union Asks]
    /\ failures \in Nat /\ clock \in 0 .. LastTick
    /\ stamps \subseteq 0 .. clock /\ keyUntil \in 0 .. LastTick + Window
    /\ passed \subseteq 0 .. clock

\* A request is not slower than MaxDelay.
DelayInv ==
    \A q \in Request : req[q] \in Asks =>
        req[q].own.now <= clock /\ clock <= req[q].own.now + MaxDelay

\* The key outlives what it holds.
KeyInv == \A s \in stamps : s + Window <= keyUntil

\* Of the requests that were let through within a Window, one is missing from
\* the set for each failure; and it holds one too many for each failure.
Recent      == {s \in passed : s > clock - Window}
MissingInv  == Cardinality(Recent \ stamps) <= failures
SurplusInv  == Cardinality(stamps \ passed) <= failures

RateInv == RateTyped /\ DelayInv /\ KeyInv /\ MissingInv /\ SurplusInv /\ RateBounded

InWindow(t) == {s \in passed : t <= s /\ s < t + Window - MaxDelay}

LEMMA TickFacts ==
    ASSUME NEW n \in Nat, NEW Ticks \in SUBSET (0 .. n)
    PROVE  IsFiniteSet(Ticks) /\ Cardinality(Ticks) \in Nat
<1>1. IsFiniteSet(0 .. n)
  BY FS_Interval
<1>2. QED
  BY <1>1, FS_Subset, FS_CardinalityType

\* Fewer members, and one more.
LEMMA FewerMembers ==
    ASSUME NEW Ticks, IsFiniteSet(Ticks), NEW R, R \subseteq Ticks
    PROVE  IsFiniteSet(R) /\ Cardinality(R) \in Nat /\ Cardinality(R) <= Cardinality(Ticks)
  BY FS_Subset, FS_CardinalityType

LEMMA OneMore ==
    ASSUME NEW Ticks, IsFiniteSet(Ticks), NEW e, NEW R, R \subseteq Ticks \union {e}
    PROVE  Cardinality(R) <= Cardinality(Ticks) + 1
<1>1. IsFiniteSet(Ticks \union {e}) /\ Cardinality(Ticks \union {e}) <= Cardinality(Ticks) + 1
  <2>1. /\ IsFiniteSet(Ticks \union {e})
        /\ Cardinality(Ticks \union {e}) = IF e \in Ticks THEN Cardinality(Ticks) ELSE Cardinality(Ticks) + 1
    BY FS_AddElement
  <2>2. Cardinality(Ticks) \in Nat
    BY FS_CardinalityType
  <2>3. QED
    BY <2>1, <2>2
<1>2. Cardinality(R) <= Cardinality(Ticks \union {e})
  BY <1>1, FewerMembers
<1>3. QED
  BY <1>1, <1>2, FS_CardinalityType, FewerMembers

LEMMA RateNumbers ==
    ASSUME RateTyped
    PROVE  /\ LastTick \in Nat /\ Window \in Nat /\ Window > 0 /\ RateLimit \in Nat /\ RateLimit > 0
           /\ MaxDelay \in 0 .. Window /\ clock \in Nat /\ clock <= LastTick
           /\ stamps \subseteq Nat /\ passed \subseteq Nat
           /\ \A s \in stamps \union passed : s \in Nat /\ s <= clock
           /\ IsFiniteSet(stamps) /\ IsFiniteSet(passed) /\ IsFiniteSet(0 .. LastTick)
<1>1. LastTick \in Nat /\ Window \in Nat /\ Window > 0 /\ RateLimit \in Nat /\ RateLimit > 0
      /\ MaxDelay \in 0 .. Window
  BY RateAssumption, ClockAssumption
<1>2. clock \in Nat /\ clock <= LastTick /\ \A s \in stamps \union passed : s \in 0 .. clock
  BY <1>1 DEF RateTyped
<1>3. IsFiniteSet(stamps) /\ IsFiniteSet(passed)
  BY <1>2, TickFacts DEF RateTyped
<1>4. IsFiniteSet(0 .. LastTick)
  BY <1>1, FS_Interval
<1>5. QED
  BY <1>1, <1>2, <1>3, <1>4

LEMMA AskFacts ==
    ASSUME RateTyped, NEW q \in Request
    PROVE  /\ ~Idle(q) => req[q] \in Asks /\ req[q].own.now \in 0 .. LastTick
                          /\ Advanced(q, req[q].own) = NoRequest
           /\ Idle(q) => req[q] = NoRequest
           /\ NoRequest \notin Asks
<1>1. NoRequest \notin Asks /\ NoRequest.todo = <<>>
  BY DEF NoRequest, Asks
<1>2. ASSUME req[q] \in Asks
      PROVE  req[q].own.now \in 0 .. LastTick /\ Len(req[q].todo) = 1 /\ req[q].todo # <<>>
  <2>1. req[q].todo = <<"script">> /\ req[q].own.now \in 0 .. LastTick
    BY <1>2 DEF Asks
  <2>2. Len(<<"script">>) = 1 /\ <<"script">> # <<>>
    OBVIOUS
  <2>3. QED
    BY <2>1, <2>2
<1>3. ~Idle(q) <=> req[q] \in Asks
  BY <1>1, <1>2 DEF Idle, RateTyped
<1>4. req[q] \in Asks => Advanced(q, req[q].own) = NoRequest
  BY <1>2 DEF Advanced
<1>5. QED
  BY <1>1, <1>2, <1>3, <1>4 DEF RateTyped

-----------------------------------------------------------------------------
(* One lemma for each part of a step                                       *)

\* Requests that end leave the others in time.
LEMMA DelaysKept ==
    ASSUME RateTyped, DelayInv, clock' = clock,
           \A p \in Request : req'[p] = req[p] \/ req'[p] = NoRequest
    PROVE  DelayInv'
  BY AskFacts DEF DelayInv

\* What a script leaves of the set, and what may be missing from it.
LEMMA ScriptFacts ==
    ASSUME RateInv, NEW now \in 0 .. LastTick, now <= clock, clock <= now + MaxDelay,
           stamps' = Recorded(now), keyUntil' = clock + Window, clock' = clock
    PROVE  /\ stamps' \subseteq 0 .. clock /\ keyUntil' \in 0 .. LastTick + Window /\ KeyInv'
           /\ \A s \in stamps : s > clock - Window => s \in stamps'
           /\ stamps' \subseteq stamps \union {now} /\ (Admits(now) => now \in stamps')
           /\ ~Admits(now) => stamps' \subseteq stamps
<1>1. RateTyped /\ KeyInv
  BY DEF RateInv
<1>2. Within(now) \subseteq stamps /\ stamps' \subseteq Within(now) \union {now}
      /\ Within(now) \subseteq stamps' /\ (Admits(now) => now \in stamps')
      /\ (~Admits(now) => stamps' \subseteq Within(now))
  BY DEF Recorded, Within
<1>3. \A s \in stamps : s > clock - Window => s \in Within(now)
  BY <1>1, RateNumbers DEF Within
<1>4. stamps' \subseteq 0 .. clock
  BY <1>1, <1>2, RateNumbers
<1>5. keyUntil' \in 0 .. LastTick + Window
  BY <1>1, RateNumbers
<1>6. KeyInv'
  BY <1>1, <1>4, RateNumbers DEF KeyInv
<1>7. QED
  BY <1>2, <1>3, <1>4, <1>5, <1>6

\* When a request is let through, those of its window are in the set, but for
\* one for each failure.
LEMMA WindowFacts ==
    ASSUME RateInv, NEW now \in 0 .. LastTick, now <= clock, clock <= now + MaxDelay, Admits(now),
           NEW t \in 0 .. LastTick, t <= now, now < t + Window - MaxDelay
    PROVE  Cardinality(InWindow(t) \union {now}) <= RateLimit + failures
<1>1. RateTyped
  BY DEF RateInv
<1> DEFINE A == InWindow(t) \intersect Within(now)
           B == Recent \ stamps
<1>2. InWindow(t) \subseteq A \union B
  <2>1. ASSUME NEW s \in InWindow(t)
        PROVE  s \in A \union B
    <3>1. s \in passed /\ t <= s /\ s < t + Window - MaxDelay /\ s \in Nat /\ t \in Nat /\ now \in Nat
      BY <1>1, RateNumbers DEF InWindow
    <3>2. s > clock - Window /\ s > now - Window
      BY <1>1, <3>1, RateNumbers
    <3>3. QED
      BY <3>1, <3>2 DEF Within, Recent
  <2>2. QED
    BY <2>1
<1>3. IsFiniteSet(Within(now)) /\ Cardinality(Within(now)) < RateLimit /\ Cardinality(Within(now)) \in Nat
  <2>1. Within(now) \subseteq stamps
    BY DEF Within
  <2>2. QED
    BY <1>1, <2>1, RateNumbers, FewerMembers DEF Admits
<1>4. IsFiniteSet(A) /\ Cardinality(A) <= Cardinality(Within(now)) /\ Cardinality(A) \in Nat
  BY <1>3, FewerMembers
<1>5. IsFiniteSet(B) /\ Cardinality(B) <= failures /\ Cardinality(B) \in Nat
  <2>1. B \subseteq passed
    BY DEF Recent
  <2>2. QED
    BY <1>1, <2>1, RateNumbers, FewerMembers DEF RateInv, MissingInv
<1> HIDE DEF A, B
<1>6. IsFiniteSet(A \union B) /\ Cardinality(A \union B) <= Cardinality(A) + Cardinality(B)
      /\ Cardinality(A \union B) \in Nat
  <2>1. IsFiniteSet(A \union B)
    BY <1>4, <1>5, FS_Union
  <2>2. IsFiniteSet(A \intersect B)
    BY <1>4, FS_Intersection
  <2>3. Cardinality(A \union B) = Cardinality(A) + Cardinality(B) - Cardinality(A \intersect B)
    BY <1>4, <1>5, FS_Union
  <2>4. QED
    BY <1>4, <1>5, <2>1, <2>2, <2>3, FS_CardinalityType
<1>7. Cardinality(InWindow(t) \union {now}) <= Cardinality(A \union B) + 1
  BY <1>2, <1>6, OneMore
<1>8. InWindow(t) \union {now} \subseteq passed \union {now} /\ IsFiniteSet(passed \union {now})
  BY <1>1, RateNumbers, FS_AddElement DEF InWindow
<1>9. Cardinality(InWindow(t) \union {now}) \in Nat
  BY <1>8, FewerMembers
<1>10. failures \in Nat /\ RateLimit \in Nat
  BY <1>1, RateNumbers DEF RateTyped
<1>11. QED
  BY <1>3, <1>4, <1>5, <1>6, <1>7, <1>9, <1>10

\* A script that is not the last of its request, or whose answer lets it through.
LEMMA Records ==
    ASSUME RateInv, NEW q \in Request, Script(q)
    PROVE  \E now \in 0 .. LastTick : now = req[q].own.now /\ now <= clock /\ clock <= now + MaxDelay
  BY AskFacts DEF RateInv, DelayInv, Script, Makes

\* A request is let through, by the script or because Redis failed.
LEMMA PassKept ==
    ASSUME RateTyped, RateTyped', RateBounded, NEW now \in 0 .. LastTick,
           passed' = passed \union {now},
           \A t \in 0 .. LastTick : t <= now /\ now < t + Window - MaxDelay =>
               Cardinality(InWindow(t) \union {now}) <= RateLimit + failures',
           failures' >= failures
    PROVE  RateBounded'
<1>1. ASSUME NEW t \in 0 .. LastTick
      PROVE  Cardinality(InWindow(t)') <= RateLimit + failures'
  <2>1. CASE t <= now /\ now < t + Window - MaxDelay
    <3>1. InWindow(t)' = InWindow(t) \union {now}
      BY <2>1 DEF InWindow
    <3>2. QED
      BY <2>1, <3>1
  <2>2. CASE ~(t <= now /\ now < t + Window - MaxDelay)
    <3>1. InWindow(t)' = InWindow(t)
      BY <2>2 DEF InWindow
    <3>2. Cardinality(InWindow(t)) <= RateLimit + failures
      BY DEF RateBounded, InWindow
    <3>3. InWindow(t) \subseteq passed
      BY DEF InWindow
    <3>4. Cardinality(InWindow(t)) \in Nat
      BY <3>3, RateNumbers, FewerMembers
    <3>5. failures \in Nat /\ failures' \in Nat /\ RateLimit \in Nat
      BY RateNumbers DEF RateTyped
    <3>6. QED
      BY <3>1, <3>2, <3>4, <3>5
  <2>3. QED
    BY <2>1, <2>2
<1>2. QED
  BY <1>1 DEF RateBounded, InWindow

\* Nothing is let through.
LEMMA BoundStays ==
    ASSUME RateTyped, RateBounded, passed' = passed, failures' \in Nat, failures' >= failures
    PROVE  RateBounded'
<1>1. ASSUME NEW t \in 0 .. LastTick
      PROVE  Cardinality(InWindow(t)') <= RateLimit + failures'
  <2>1. InWindow(t)' = InWindow(t) /\ InWindow(t) \subseteq passed
    BY DEF InWindow
  <2>2. Cardinality(InWindow(t)) <= RateLimit + failures
    BY DEF RateBounded, InWindow
  <2>3. Cardinality(InWindow(t)) \in Nat
    BY <2>1, RateNumbers, FewerMembers
  <2>4. failures \in Nat /\ RateLimit \in Nat
    BY RateNumbers DEF RateTyped
  <2>5. QED
    BY <2>1, <2>2, <2>3, <2>4
<1>2. QED
  BY <1>1 DEF RateBounded, InWindow

LEMMA Arrives ==
    ASSUME RateInv, NEW q \in Request, Arrive(q)
    PROVE  RateInv'
<1> DEFINE r == [method |-> "allow", todo |-> <<"script">>, wrote |-> FALSE, own |-> [now |-> clock]]
<1>1. /\ RateTyped /\ req' = [req EXCEPT ![q] = r]
      /\ UNCHANGED <<failures, clock, stamps, keyUntil, passed>>
  BY DEF RateInv, Arrive, Begin, rateVars
<1>2. r \in Asks /\ r.own.now = clock
  BY <1>1 DEF Asks, RateTyped
<1> HIDE DEF r
<1>3. req' \in [Request -> {NoRequest} \union Asks] /\ req'[q] = r
      /\ \A p \in Request : p # q => req'[p] = req[p]
  BY <1>1, <1>2 DEF RateTyped
<1>4. RateTyped'
  BY <1>1, <1>3 DEF RateTyped
<1>5. clock <= clock + MaxDelay /\ clock <= clock
  BY <1>1, RateNumbers
<1>6. DelayInv'
  BY <1>1, <1>2, <1>3, <1>5 DEF RateInv, DelayInv
<1>7. KeyInv' /\ MissingInv' /\ SurplusInv' /\ RateBounded'
  BY <1>1 DEF RateInv, KeyInv, MissingInv, SurplusInv, Recent, RateBounded
<1>8. QED
  BY <1>4, <1>6, <1>7 DEF RateInv

\* What the script changes, for a request that ends with it and for one that
\* sends it again.
LEMMA ScriptKept ==
    ASSUME RateInv, NEW q \in Request, Script(q), NEW now \in 0 .. LastTick, now = req[q].own.now,
           now <= clock, clock <= now + MaxDelay,
           \A p \in Request : req'[p] = req[p] \/ req'[p] = NoRequest,
           req' \in [Request -> {NoRequest} \union Asks],
           \/ passed' = passed /\ failures' = failures + 1
           \/ passed' = passed /\ failures' = failures /\ ~Admits(now)
           \/ passed' = passed \union {now} /\ failures' = failures /\ Admits(now)
    PROVE  RateInv'
<1>1. RateTyped /\ clock' = clock /\ failures \in Nat /\ failures' \in Nat /\ failures' >= failures
  BY DEF RateInv, RateTyped, Script
<1>2. /\ stamps' \subseteq 0 .. clock /\ keyUntil' \in 0 .. LastTick + Window /\ KeyInv'
      /\ \A s \in stamps : s > clock - Window => s \in stamps'
      /\ stamps' \subseteq stamps \union {now} /\ (Admits(now) => now \in stamps')
      /\ ~Admits(now) => stamps' \subseteq stamps
  BY ScriptFacts DEF Script
<1>3. passed' \subseteq 0 .. clock /\ now \in 0 .. clock
  <2>1. now \in 0 .. clock
    BY <1>1, RateNumbers
  <2>2. passed \subseteq 0 .. clock
    BY <1>1 DEF RateTyped
  <2>3. QED
    BY <2>1, <2>2
<1>4. RateTyped'
  BY <1>1, <1>2, <1>3 DEF RateTyped
<1>5. DelayInv'
  BY <1>1, DelaysKept DEF RateInv
<1>6. MissingInv'
  <2>1. (Recent \ stamps)' \subseteq Recent \ stamps
    BY <1>1, <1>2 DEF Recent
  <2>2. Recent \ stamps \subseteq passed
    BY DEF Recent
  <2>3. IsFiniteSet(Recent \ stamps)
    BY <1>1, <2>2, RateNumbers, FewerMembers
  <2>4. Cardinality((Recent \ stamps)') <= Cardinality(Recent \ stamps)
        /\ Cardinality((Recent \ stamps)') \in Nat /\ Cardinality(Recent \ stamps) \in Nat
    BY <2>1, <2>3, FewerMembers
  <2>5. QED
    BY <1>1, <2>4 DEF RateInv, MissingInv
<1>7. SurplusInv'
  <2>1. IsFiniteSet(stamps \ passed)
    BY <1>1, RateNumbers, FewerMembers
  <2>2. CASE passed' = passed /\ failures' = failures + 1
    <3>1. (stamps \ passed)' \subseteq (stamps \ passed) \union {now}
      BY <1>2, <2>2
    <3>2. Cardinality((stamps \ passed)') <= Cardinality(stamps \ passed) + 1
      BY <2>1, <3>1, OneMore
    <3>3. Cardinality(stamps \ passed) \in Nat /\ Cardinality((stamps \ passed)') \in Nat
      <4>1. IsFiniteSet((stamps \ passed) \union {now})
        BY <2>1, FS_AddElement
      <4>2. QED
        BY <2>1, <3>1, <4>1, FewerMembers
    <3>4. QED
      BY <1>1, <2>2, <3>2, <3>3 DEF RateInv, SurplusInv
  <2>3. CASE failures' = failures
    <3>1. (stamps \ passed)' \subseteq stamps \ passed
      <4>1. \/ passed' = passed /\ ~Admits(now)
            \/ passed' = passed \union {now}
        BY <1>1, <2>3
      <4>2. CASE passed' = passed /\ ~Admits(now)
        BY <1>2, <4>2
      <4>3. CASE passed' = passed \union {now}
        BY <1>2, <4>3
      <4>4. QED
        BY <4>1, <4>2, <4>3
    <3>2. Cardinality((stamps \ passed)') <= Cardinality(stamps \ passed)
          /\ Cardinality((stamps \ passed)') \in Nat /\ Cardinality(stamps \ passed) \in Nat
      BY <2>1, <3>1, FewerMembers
    <3>3. QED
      BY <1>1, <2>3, <3>2 DEF RateInv, SurplusInv
  <2>4. QED
    BY <2>2, <2>3
<1>8. RateBounded'
  <2>1. CASE passed' = passed
    BY <1>1, <2>1, BoundStays DEF RateInv
  <2>2. CASE passed' = passed \union {now} /\ failures' = failures /\ Admits(now)
    <3>1. \A t \in 0 .. LastTick : t <= now /\ now < t + Window - MaxDelay =>
               Cardinality(InWindow(t) \union {now}) <= RateLimit + failures'
      BY <2>2, WindowFacts
    <3>2. QED
      BY <1>1, <1>4, <2>2, <3>1, PassKept DEF RateInv
  <2>3. QED
    BY <2>1, <2>2
<1>9. QED
  BY <1>2, <1>4, <1>5, <1>6, <1>7, <1>8 DEF RateInv

LEMMA Allows ==
    ASSUME RateInv, NEW q \in Request, Allow(q) \/ SendAgain(q)
    PROVE  RateInv'
<1>1. RateTyped /\ Script(q) /\ ~Idle(q)
  BY DEF RateInv, Allow, SendAgain, Script, Makes
<1>2. PICK now \in 0 .. LastTick : now = req[q].own.now /\ now <= clock /\ clock <= now + MaxDelay
  BY <1>1, Records
<1>3. CASE Allow(q)
  <2>1. req' = [req EXCEPT ![q] = NoRequest] /\ failures' = failures
    BY <1>1, <1>3, AskFacts, Zenon DEF Allow, Continue, GoOn
  <2>2. (\A p \in Request : req'[p] = req[p] \/ req'[p] = NoRequest)
        /\ req' \in [Request -> {NoRequest} \union Asks]
    BY <1>1, <2>1 DEF RateTyped
  <2>3. \/ passed' = passed /\ ~Admits(now)
        \/ passed' = passed \union {now} /\ Admits(now)
    BY <1>2, <1>3 DEF Allow
  <2>4. QED
    BY <1>1, <1>2, <2>1, <2>2, <2>3, ScriptKept
<1>4. CASE SendAgain(q)
  <2>1. req' = req /\ failures' = failures + 1 /\ passed' = passed
    BY <1>4 DEF SendAgain
  <2>2. req' \in [Request -> {NoRequest} \union Asks]
    BY <1>1, <2>1 DEF RateTyped
  <2>3. QED
    BY <1>1, <1>2, <2>1, <2>2, ScriptKept
<1>5. QED
  BY <1>3, <1>4

\* A failure, or a crash: stamps are as they were.
LEMMA RateFails ==
    ASSUME RateInv,
           (\E q \in Request : FailOpen(q)) \/ (Crash /\ UNCHANGED <<clock, rateVars>>)
    PROVE  RateInv'
<1>1. RateTyped /\ failures \in Nat
  BY DEF RateInv, RateTyped
<1>2. /\ UNCHANGED <<clock, stamps, keyUntil>> /\ failures' = failures + 1
      /\ \A p \in Request : req'[p] = req[p] \/ req'[p] = NoRequest
      /\ req' \in [Request -> {NoRequest} \union Asks]
      /\ passed' = passed \/ \E now \in 0 .. clock : passed' = passed \union {now}
  <2>1. ASSUME NEW q \in Request, FailOpen(q)
        PROVE  /\ UNCHANGED <<clock, stamps, keyUntil>> /\ failures' = failures + 1
               /\ \A p \in Request : req'[p] = req[p] \/ req'[p] = NoRequest
               /\ req' \in [Request -> {NoRequest} \union Asks]
               /\ passed' = passed \/ \E now \in 0 .. clock : passed' = passed \union {now}
    <3>1. ~Idle(q) /\ req' = [req EXCEPT ![q] = NoRequest] /\ failures' = failures + 1
      BY <2>1, Zenon DEF FailOpen, CallFails
    <3>2. req[q].own.now \in 0 .. clock
      BY <1>1, <3>1, AskFacts, RateNumbers DEF RateInv, DelayInv
    <3>3. QED
      BY <1>1, <2>1, <3>1, <3>2 DEF FailOpen, RateTyped
  <2>2. ASSUME Crash, UNCHANGED <<clock, rateVars>>
        PROVE  /\ UNCHANGED <<clock, stamps, keyUntil, passed>> /\ failures' = failures + 1
               /\ \A p \in Request : req'[p] = req[p] \/ req'[p] = NoRequest
               /\ req' \in [Request -> {NoRequest} \union Asks]
    BY <2>2 DEF Crash, rateVars
  <2>3. QED
    BY <2>1, <2>2
<1>3. RateTyped'
  <2>1. passed' \subseteq 0 .. clock
    <3>1. passed \subseteq 0 .. clock
      BY <1>1 DEF RateTyped
    <3>2. QED
      BY <1>2, <3>1
  <2>2. failures' \in Nat
    BY <1>1, <1>2
  <2>3. QED
    BY <1>1, <1>2, <2>1, <2>2 DEF RateTyped
<1>4. DelayInv' /\ KeyInv'
  BY <1>1, <1>2, DelaysKept DEF RateInv, KeyInv
<1>5. \E now \in 0 .. clock : passed' \subseteq passed \union {now} /\ passed \subseteq passed'
  <2>1. 0 \in 0 .. clock
    BY <1>1, RateNumbers
  <2>2. QED
    BY <1>2, <2>1
<1>6. PICK now \in 0 .. clock : passed' \subseteq passed \union {now} /\ passed \subseteq passed'
  BY <1>5
<1>7. MissingInv'
  <2>1. (Recent \ stamps)' \subseteq (Recent \ stamps) \union {now} /\ Recent \ stamps \subseteq passed
    BY <1>2, <1>6 DEF Recent
  <2>2. IsFiniteSet(Recent \ stamps)
    BY <1>1, <2>1, RateNumbers, FewerMembers
  <2>3. IsFiniteSet((Recent \ stamps) \union {now})
    BY <2>2, FS_AddElement
  <2>4. Cardinality((Recent \ stamps)') <= Cardinality(Recent \ stamps) + 1
    BY <2>1, <2>2, OneMore
  <2>5. Cardinality((Recent \ stamps)') \in Nat /\ Cardinality(Recent \ stamps) \in Nat
    BY <2>1, <2>2, <2>3, FewerMembers
  <2>6. QED
    BY <1>1, <1>2, <2>4, <2>5 DEF RateInv, MissingInv
<1>8. SurplusInv'
  <2>1. (stamps \ passed)' \subseteq stamps \ passed
    BY <1>2, <1>6
  <2>2. IsFiniteSet(stamps \ passed)
    BY <1>1, RateNumbers, FewerMembers
  <2>3. Cardinality((stamps \ passed)') <= Cardinality(stamps \ passed)
        /\ Cardinality((stamps \ passed)') \in Nat /\ Cardinality(stamps \ passed) \in Nat
    BY <2>1, <2>2, FewerMembers
  <2>4. QED
    BY <1>1, <1>2, <2>3 DEF RateInv, SurplusInv
<1>9. RateBounded'
  <2>1. CASE passed' = passed
    BY <1>1, <1>2, <2>1, BoundStays DEF RateInv
  <2>2. ASSUME NEW n \in 0 .. clock, passed' = passed \union {n}
        PROVE  RateBounded'
    <3>1. n \in 0 .. LastTick
      BY <1>1, RateNumbers
    <3>2. ASSUME NEW t \in 0 .. LastTick
          PROVE  Cardinality(InWindow(t) \union {n}) <= RateLimit + failures'
      <4>1. InWindow(t) \subseteq passed /\ Cardinality(InWindow(t)) <= RateLimit + failures
        BY DEF RateInv, RateBounded, InWindow
      <4>2. IsFiniteSet(InWindow(t)) /\ Cardinality(InWindow(t)) \in Nat
        BY <1>1, <4>1, RateNumbers, FewerMembers
      <4>3. Cardinality(InWindow(t) \union {n}) <= Cardinality(InWindow(t)) + 1
        BY <4>2, OneMore
      <4>4. IsFiniteSet(InWindow(t) \union {n})
        BY <4>2, FS_AddElement
      <4>5. Cardinality(InWindow(t) \union {n}) \in Nat
        BY <4>4, FS_CardinalityType
      <4>6. RateLimit \in Nat
        BY <1>1, RateNumbers
      <4>7. QED
        BY <1>1, <1>2, <4>1, <4>2, <4>3, <4>5, <4>6
    <3>3. QED
      BY <1>1, <1>2, <1>3, <2>2, <3>1, <3>2, PassKept DEF RateInv
  <2>3. QED
    BY <1>2, <2>1, <2>2
<1>10. QED
  BY <1>3, <1>4, <1>7, <1>8, <1>9 DEF RateInv

LEMMA WindowSlides ==
    ASSUME RateInv, WindowMoves
    PROVE  RateInv'
<1>1. /\ RateTyped /\ clock < LastTick /\ clock' = clock + 1
      /\ UNCHANGED <<req, failures, keyUntil, passed>>
      /\ stamps' = IF clock' >= keyUntil THEN {} ELSE stamps
      /\ \A q \in Doing({"allow"}) : clock < req[q].own.now + MaxDelay
  BY DEF RateInv, WindowMoves, Passes, requestVars
<1>2. stamps' \subseteq stamps
  BY <1>1
<1>3. clock' \in 0 .. LastTick /\ 0 .. clock \subseteq 0 .. clock'
  BY <1>1, RateNumbers
<1>4. RateTyped'
  BY <1>1, <1>2, <1>3 DEF RateTyped
<1>5. DelayInv'
  <2>1. ASSUME NEW q \in Request, req[q] \in Asks
        PROVE  req[q].own.now <= clock' /\ clock' <= req[q].own.now + MaxDelay
    <3>1. q \in Doing({"allow"}) /\ req[q].own.now \in 0 .. LastTick /\ req[q].own.now <= clock
      BY <2>1 DEF Doing, Asks, RateInv, DelayInv
    <3>2. clock < req[q].own.now + MaxDelay
      BY <1>1, <3>1
    <3>3. QED
      BY <1>1, <3>1, <3>2, RateNumbers
  <2>2. QED
    BY <1>1, <2>1 DEF DelayInv
<1>6. KeyInv'
  BY <1>1, <1>2 DEF RateInv, KeyInv
<1>7. MissingInv'
  <2>1. (Recent \ stamps)' \subseteq Recent \ stamps
    <3>1. ASSUME NEW s \in (Recent \ stamps)'
          PROVE  s \in Recent \ stamps
      <4>1. s \in passed /\ s > clock' - Window /\ s \notin stamps' /\ s \in Nat
        BY <1>1, <3>1, RateNumbers DEF Recent
      <4>2. s > clock - Window
        BY <1>1, <4>1, RateNumbers
      <4>3. ASSUME s \in stamps
            PROVE  FALSE
        <5>1. clock' >= keyUntil /\ s + Window <= keyUntil /\ keyUntil \in Nat
          BY <1>1, <4>1, <4>3, RateNumbers DEF RateInv, KeyInv, RateTyped
        <5>2. QED
          BY <1>1, <4>1, <5>1, RateNumbers
      <4>4. QED
        BY <4>1, <4>2, <4>3 DEF Recent
    <3>2. QED
      BY <3>1
  <2>2. Recent \ stamps \subseteq passed
    BY DEF Recent
  <2>3. IsFiniteSet(Recent \ stamps)
    BY <1>1, <2>2, RateNumbers, FewerMembers
  <2>4. Cardinality((Recent \ stamps)') <= Cardinality(Recent \ stamps)
        /\ Cardinality((Recent \ stamps)') \in Nat /\ Cardinality(Recent \ stamps) \in Nat
    BY <2>1, <2>3, FewerMembers
  <2>5. failures \in Nat
    BY <1>1 DEF RateTyped
  <2>6. QED
    BY <1>1, <2>4, <2>5 DEF RateInv, MissingInv
<1>8. SurplusInv'
  <2>1. (stamps \ passed)' \subseteq stamps \ passed
    BY <1>1, <1>2
  <2>2. IsFiniteSet(stamps \ passed)
    BY <1>1, RateNumbers, FewerMembers
  <2>3. Cardinality((stamps \ passed)') <= Cardinality(stamps \ passed)
        /\ Cardinality((stamps \ passed)') \in Nat /\ Cardinality(stamps \ passed) \in Nat
    BY <2>1, <2>2, FewerMembers
  <2>4. failures \in Nat
    BY <1>1 DEF RateTyped
  <2>5. QED
    BY <1>1, <2>3, <2>4 DEF RateInv, SurplusInv
<1>9. RateBounded'
  BY <1>1, BoundStays DEF RateInv, RateTyped
<1>10. QED
  BY <1>4, <1>5, <1>6, <1>7, <1>8, <1>9 DEF RateInv

-----------------------------------------------------------------------------
(* The behaviours of the rate limiter                                      *)

LEMMA RateBegins ==
    ASSUME RequestsInit, clock = 0, RateInit
    PROVE  RateInv
<1>1. RateTyped
  BY RateAssumption, ClockAssumption DEF RequestsInit, RateInit, RateTyped
<1>2. DelayInv
  BY <1>1, AskFacts DEF RequestsInit, DelayInv
<1>3. Recent \ stamps = {} /\ stamps \ passed = {} /\ \A t : InWindow(t) = {}
  BY DEF RateInit, Recent, InWindow
<1>4. Cardinality({}) = 0
  BY FS_EmptySet
<1>5. MissingInv /\ SurplusInv
  BY <1>3, <1>4 DEF MissingInv, SurplusInv, RequestsInit
<1>6. RateBounded
  <2>1. \A t \in 0 .. LastTick : Cardinality(InWindow(t)) = 0
    BY <1>3, <1>4
  <2>2. failures = 0 /\ RateLimit \in Nat
    BY <1>1, RateNumbers DEF RequestsInit
  <2>3. QED
    BY <2>1, <2>2 DEF RateBounded, InWindow
<1>7. KeyInv
  BY DEF KeyInv, RateInit
<1>8. QED
  BY <1>1, <1>2, <1>5, <1>6, <1>7 DEF RateInv

LEMMA RateStep ==
    ASSUME RateInv, [RateNext]_<<requestVars, clock, rateVars>>
    PROVE  RateInv'
<1>1. ASSUME NEW q \in Request, Arrive(q) \/ Allow(q) \/ SendAgain(q)
      PROVE  RateInv'
  BY <1>1, Arrives, Allows
<1>2. ASSUME (\E q \in Request : FailOpen(q)) \/ (Crash /\ UNCHANGED <<clock, rateVars>>)
      PROVE  RateInv'
  BY <1>2, RateFails
<1>3. ASSUME UNCHANGED <<requestVars, clock, rateVars>>
      PROVE  RateInv'
  <2>1. UNCHANGED <<req, failures, clock, stamps, keyUntil, passed>>
    BY <1>3 DEF requestVars, rateVars
  <2>2. RateTyped' /\ DelayInv' /\ KeyInv' /\ RateBounded'
    BY <2>1 DEF RateInv, RateTyped, DelayInv, KeyInv, RateBounded
  <2>3. MissingInv' /\ SurplusInv'
    BY <2>1 DEF RateInv, MissingInv, SurplusInv, Recent
  <2>4. QED
    BY <2>2, <2>3 DEF RateInv
<1>4. QED
  BY <1>1, <1>2, <1>3, WindowSlides, Zenon DEF RateNext

\* What a refusal is based on.
LEMMA RefusedFacts ==
    ASSUME RateInv, NEW now \in 0 .. LastTick, ~Admits(now)
    PROVE  Cardinality({s \in passed : s > now - Window}) >= RateLimit - failures
<1>1. RateTyped
  BY DEF RateInv
<1> DEFINE W == Within(now)
           P == {s \in passed : s > now - Window}
           X == stamps \ passed
<1>2. /\ IsFiniteSet(W) /\ IsFiniteSet(P) /\ IsFiniteSet(X)
      /\ Cardinality(W) \in Nat /\ Cardinality(P) \in Nat /\ Cardinality(X) \in Nat
  <2>1. W \subseteq stamps /\ P \subseteq passed /\ X \subseteq stamps
    BY DEF Within
  <2>2. QED
    BY <1>1, <2>1, RateNumbers, FewerMembers
<1>3. W \subseteq P \union X
  BY DEF Within
<1>4. Cardinality(X) <= failures
  BY DEF RateInv, SurplusInv
<1>5. Cardinality(W) >= RateLimit
  BY <1>1, <1>2, RateNumbers DEF Admits
<1> HIDE DEF W, P, X
<1>6. IsFiniteSet(P \union X) /\ Cardinality(P \union X) <= Cardinality(P) + Cardinality(X)
      /\ Cardinality(P \union X) \in Nat
  <2>1. IsFiniteSet(P \union X)
    BY <1>2, FS_Union
  <2>2. IsFiniteSet(P \intersect X)
    BY <1>2, FS_Intersection
  <2>3. Cardinality(P \union X) = Cardinality(P) + Cardinality(X) - Cardinality(P \intersect X)
    BY <1>2, FS_Union
  <2>4. QED
    BY <1>2, <2>1, <2>2, <2>3, FS_CardinalityType
<1>7. Cardinality(W) <= Cardinality(P \union X)
  BY <1>3, <1>6, FewerMembers
<1>8. failures \in Nat /\ RateLimit \in Nat
  BY <1>1, RateNumbers DEF RateTyped
<1>9. Cardinality(P) >= RateLimit - failures
  BY <1>2, <1>4, <1>5, <1>6, <1>7, <1>8
<1>10. QED
  BY <1>9 DEF P

LEMMA StarvesNobody ==
    ASSUME RateInv, RateNext, NEW q \in Request,
           ~Idle(q), req'[q] = NoRequest, passed' = passed, failures' = failures,
           req[q].own.now \notin passed
    PROVE  Cardinality({s \in passed : s > req[q].own.now - Window}) >= RateLimit - failures
<1>1. RateTyped /\ req[q] \in Asks /\ req[q] # NoRequest
  BY AskFacts DEF RateInv
<1>2. failures + 1 # failures
  BY <1>1 DEF RateTyped
<1>3. \E p \in Request : Arrive(p) \/ Allow(p)
  <2>1. ~\E p \in Request : SendAgain(p) \/ FailOpen(p)
    BY <1>2 DEF SendAgain, FailOpen, CallFails
  <2>2. ~Crash
    BY <1>2 DEF Crash
  <2>3. ~WindowMoves
    BY <1>1 DEF WindowMoves, Passes, requestVars
  <2>4. QED
    BY <2>1, <2>2, <2>3, Zenon DEF RateNext
<1>4. PICK p \in Request : Arrive(p) \/ Allow(p)
  BY <1>3
<1>5. p = q
  <2>1. \E r : req' = [req EXCEPT ![p] = r]
    BY <1>4, Zenon DEF Arrive, Allow, Begin, Continue, GoOn
  <2>2. PICK r : req' = [req EXCEPT ![p] = r]
    BY <2>1
  <2>3. p # q => req'[q] = req[q]
    BY <1>1, <2>2 DEF RateTyped
  <2>4. QED
    BY <1>1, <2>3
<1>6. Allow(q)
  BY <1>4, <1>5 DEF Arrive, Begin
<1>7. PICK now \in 0 .. LastTick : now = req[q].own.now
  BY <1>6, Records DEF Allow
<1>8. ~Admits(now)
  BY <1>6, <1>7 DEF Allow
<1>9. QED
  BY <1>7, <1>8, RefusedFacts

\* The requests let through in a window are at most the limit, and one more for
\* each failure (RateLimitMiddleware and the script of Allow), although the
\* time of a request is older than its script's.
THEOREM RateLimits == RateSpec => []RateBounded
<1>1. RequestsInit /\ clock = 0 /\ RateInit => RateInv
  BY RateBegins
<1>2. RateInv /\ [RateNext]_<<requestVars, clock, rateVars>> => RateInv'
  BY RateStep
<1>3. RateInv => RateBounded
  BY DEF RateInv
<1>4. QED
  BY <1>1, <1>2, <1>3, PTL DEF RateSpec

\* A request is refused only after as many were let through as the limit allows,
\* but for one for each failure: refused ones take nobody's place.
THEOREM NobodyStarved == RateSpec => NeverStarved
<1>1. RequestsInit /\ clock = 0 /\ RateInit => RateInv
  BY RateBegins
<1>2. RateInv /\ [RateNext]_<<requestVars, clock, rateVars>> => RateInv'
  BY RateStep
<1> DEFINE Step == \A q \in Request :
        ~Idle(q) /\ req'[q] = NoRequest /\ passed' = passed /\ failures' = failures
        /\ req[q].method = "allow" /\ req[q].own.now \notin passed =>
        Cardinality({s \in passed : s > req[q].own.now - Window}) >= RateLimit - failures
<1>3. RateInv /\ [RateNext]_<<requestVars, clock, rateVars>>
      => [Step]_<<requestVars, clock, rateVars>>
  <2>1. RateInv /\ RateNext => Step
    BY StarvesNobody
  <2>2. QED
    BY <2>1
<1>4. QED
  BY <1>1, <1>2, <1>3, PTL DEF RateSpec, NeverStarved

LEMMA RateTyping == RateInv => RateTypeOK
<1> SUFFICES ASSUME RateInv PROVE RateTypeOK
  OBVIOUS
<1>1. Asks \union {NoRequest} \subseteq RequestOf({"allow"}, {"script"}, [now : 0 .. LastTick])
  <2>1. <<"script">> \in Seq({"script"})
    OBVIOUS
  <2>2. QED
    BY <2>1 DEF Asks, RequestOf
<1>2. clock \in Nat /\ clock <= LastTick /\ LastTick \in Nat
  BY RateNumbers DEF RateInv
<1>3. 0 .. clock \subseteq 0 .. LastTick
  BY <1>2
<1>4. req \in [Request -> RequestOf({"allow"}, {"script"}, [now : 0 .. LastTick])]
  BY <1>1 DEF RateInv, RateTyped
<1>5. QED
  BY <1>3, <1>4 DEF RateInv, RateTyped, RateTypeOK

-----------------------------------------------------------------------------
(* The parts together                                                      *)

AccessInv ==
    /\ part \in {"tokens", "password", "code", "limiter"}
    /\ part = "tokens" => BaseInv /\ GhostTypes
    /\ part = "password" => LoginInv
    /\ part = "code" => CodesInv
    /\ part = "limiter" => RateInv

LEMMA AccessBegins == Init => AccessInv
<1>1. Init => BaseInv /\ GhostTypes
  BY BaseInit DEF Init, TokensInit, GhostTypes
<1>2. Init => LoginInv /\ CodesInv /\ RateInv
  BY LoginBegins, CodeBegins, RateBegins DEF Init
<1>3. QED
  BY <1>1, <1>2 DEF Init, AccessInv

LEMMA AccessStep ==
    ASSUME AccessInv, [Next]_accessVars
    PROVE  AccessInv'
<1>1. part' = part
  BY DEF Next, accessVars
<1>2. ASSUME part = "tokens"
      PROVE  (BaseInv /\ GhostTypes)'
  <2>1. [TokensNext]_vars
    BY <1>2 DEF Next, accessVars, vars
  <2>2. QED
    BY <1>2, <2>1, BaseStep, GhostStep, TokensAssumption DEF AccessInv
<1>3. ASSUME part = "password"
      PROVE  LoginInv'
  <2>1. [LoginNext]_<<requestVars, clock, loginVars>>
    BY <1>3 DEF Next, accessVars
  <2>2. QED
    BY <1>3, <2>1, LoginStep DEF AccessInv
<1>4. ASSUME part = "code"
      PROVE  CodesInv'
  <2>1. [CodesNext]_<<requestVars, clock, codeVars>>
    BY <1>4 DEF Next, accessVars
  <2>2. QED
    BY <1>4, <2>1, CodesStep DEF AccessInv
<1>5. ASSUME part = "limiter"
      PROVE  RateInv'
  <2>1. [RateNext]_<<requestVars, clock, rateVars>>
    BY <1>5 DEF Next, accessVars
  <2>2. QED
    BY <1>5, <2>1, RateStep DEF AccessInv
<1>6. QED
  BY <1>1, <1>2, <1>3, <1>4, <1>5 DEF AccessInv

\* Whichever part is at work, its rows, keys and requests keep their types: no
\* count becomes negative, and no time lies beyond the clock's and a lock, a
\* code or a window (the identity service, RateLimitMiddleware and Allow).
THEOREM AccessTypes == Spec => []TypeOK
<1>1. AccessInv => TypeOK
  BY TokensTyped, LoginTyping, CodesTyping, RateTyping DEF AccessInv, TypeOK
<1>2. AccessInv /\ [Next]_accessVars => AccessInv'
  BY AccessStep
<1>3. QED
  BY <1>1, <1>2, AccessBegins, PTL DEF Spec
=============================================================================
