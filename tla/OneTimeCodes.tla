---------------------------- MODULE OneTimeCodes ----------------------------
(***************************************************************************)
(* Signing in with a one-time code (internal/application/identity): the    *)
(* code is kept in Redis under the phone number, where each new one takes  *)
(* the place of the one before, and sent over WhatsApp.  The first sign-in *)
(* with a phone number makes its account.  Codes are numbered as they are  *)
(* requested, and no two of them are equal.                                *)
(***************************************************************************)
EXTENDS Clock

CONSTANTS
    CodeTime,      \* how long a code is good: 5 minutes
    MaxCodes       \* bound: codes requested in a behaviour

ASSUME CodesAssumption == CodeTime \in Nat \ {0} /\ MaxCodes \in Nat

VARIABLES
    otp,           \* what is stored under otp:{phone}
    phoneAccount,  \* account_status of the row with the phone number
    requested,     \* codes requested so far
    sent,          \* codes that were sent
    checked,       \* checked[c], verifications that found code c stored
    overlapped,    \* overlapped[c], those that began while another one was
                   \* still to delete c
    signIns        \* signIns[c], the verifications that signed in with c, each
                   \* by its number in checked[c]

codeVars == <<otp, phoneAccount, requested, sent, checked, overlapped, signIns>>
codeGhosts == <<checked, overlapped, signIns>>

CodeMethod == {"requestOTP", "verifyOTP"}
CodeCall   == {"set", "send", "delete", "findByPhone", "createUser"}
Code       == 1 .. MaxCodes
NoCode     == [code |-> 0, until |-> 0]

CodesInit ==
    /\ otp = NoCode /\ phoneAccount = "none"
    /\ requested = 0 /\ sent = {}
    /\ checked = [c \in Code |-> 0] /\ overlapped = [c \in Code |-> 0]
    /\ signIns = [c \in Code |-> {}]

RequestCalls == <<"set", "send">>

RequestOTP(q) ==
    LET c == requested + 1 IN
    /\ requested < MaxCodes /\ requested' = c
    /\ Begin(q, "requestOTP", RequestCalls, [code |-> c, try |-> 0])
    /\ UNCHANGED <<clock, otp, phoneAccount, sent, codeGhosts>>

\* The code is left to expire.
WrongVerifyCalls == <<"findByPhone", "createUser">>

VerifyCalls == <<"delete", "findByPhone", "createUser">>

\* A verification has found c equal to the code that is stored, which it is
\* still to delete.
Deleting(c) == \E q \in Request : Makes(q, "delete") /\ req[q].own.code = c

\* The code that is stored is the code that was given.
VerifyOTP(q) ==
    LET c == otp.code IN
    /\ c \in sent
    /\ Begin(q, "verifyOTP", VerifyCalls, [code |-> c, try |-> checked[c] + 1])
    /\ checked' = [checked EXCEPT ![c] = @ + 1]
    /\ overlapped' = IF Deleting(c) THEN [overlapped EXCEPT ![c] = @ + 1] ELSE overlapped
    /\ UNCHANGED <<clock, otp, phoneAccount, requested, sent, signIns>>

SetCode(q) ==
    /\ Makes(q, "set")
    /\ otp' = [code |-> req[q].own.code, until |-> clock + CodeTime]
    /\ Continue(q)
    /\ UNCHANGED <<clock, phoneAccount, requested, sent, codeGhosts>>

SendCode(q) ==
    /\ Makes(q, "send")
    /\ sent' = sent \union {req[q].own.code}
    /\ Continue(q)
    /\ UNCHANGED <<clock, otp, phoneAccount, requested, codeGhosts>>

\* By the phone number, whichever code is stored under it by now.
DeleteCode(q) ==
    /\ Makes(q, "delete")
    /\ otp' = NoCode
    /\ Continue(q)
    /\ UNCHANGED <<clock, phoneAccount, requested, sent, codeGhosts>>

\* A token pair is issued to request q.
SignsIn(q) ==
    signIns' = [signIns EXCEPT ![req[q].own.code] = @ \union {req[q].own.try}]

\* With an account the request signs in here.
FindByPhone(q) ==
    /\ Makes(q, "findByPhone")
    /\ IF phoneAccount = "active"
       THEN /\ req' = [req EXCEPT ![q] = NoRequest] /\ UNCHANGED <<cut, failures>>
            /\ SignsIn(q)
       ELSE Continue(q) /\ UNCHANGED signIns
    /\ UNCHANGED <<clock, otp, phoneAccount, requested, sent, checked, overlapped>>

\* The unique index refuses a second row with the number, one of a deleted
\* account too, and the request ends without a sign-in.
CreateUser(q) ==
    /\ Makes(q, "createUser")
    /\ IF phoneAccount = "none" THEN phoneAccount' = "active" /\ SignsIn(q)
       ELSE UNCHANGED <<phoneAccount, signIns>>
    /\ Continue(q)
    /\ UNCHANGED <<clock, otp, requested, sent, checked, overlapped>>

\* SoftDeleteUser, with what it does to the tokens in RefreshTokens.
DeletePhoneAccount ==
    /\ phoneAccount = "active" /\ phoneAccount' = "deleted"
    /\ UNCHANGED <<requestVars, clock, otp, requested, sent, codeGhosts>>

\* Redis drops the key when its time is over.
CodeExpires ==
    /\ Passes
    /\ IF otp.until = clock' THEN otp' = NoCode ELSE UNCHANGED otp
    /\ UNCHANGED <<phoneAccount, requested, sent, codeGhosts>>

\* Delete may fail, and the request goes on; so it does when FindByPhone fails.
CodesNext ==
    \/ \E q \in Request :
        \/ RequestOTP(q) \/ VerifyOTP(q)
        \/ SetCode(q) \/ SendCode(q) \/ DeleteCode(q) \/ FindByPhone(q) \/ CreateUser(q)
        \/ CallFails(q, {"delete", "findByPhone"}) /\ UNCHANGED <<clock, codeVars>>
    \/ Crash /\ UNCHANGED <<clock, codeVars>>
    \/ DeletePhoneAccount \/ CodeExpires

CodesSpec ==
    /\ RequestsInit /\ clock = 0 /\ CodesInit
    /\ [][CodesNext]_<<requestVars, clock, codeVars>>

-----------------------------------------------------------------------------
(* Properties                                                              *)

CodesTypeOK ==
    /\ req \in [Request -> RequestOf(CodeMethod, CodeCall, [code : Code, try : Nat])]
    /\ otp \in [code : Code \union {0}, until : 0 .. LastTick + CodeTime]
    /\ phoneAccount \in {"none", "active", "deleted"}
    /\ requested \in 0 .. MaxCodes /\ sent \subseteq Code
    /\ checked \in [Code -> Nat] /\ overlapped \in [Code -> Nat]
    /\ signIns \in [Code -> SUBSET Nat]

\* A code signs in once, once more for each verification that begins while another
\* one that found it is still to delete it, and once more for each failure: not for
\* requests that store a new code meanwhile, and not for verifications that begin
\* after one of them has deleted it (VerifyOTP).
CodeUsedOnce == \A c \in Code : Cardinality(signIns[c]) <= 1 + overlapped[c] + failures

\* What the design says of a code: it is single-use.
CodeSingleUse == \A c \in Code : Cardinality(signIns[c]) <= 1
=============================================================================
