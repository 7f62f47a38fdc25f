------------------------------- MODULE Access -------------------------------
(***************************************************************************)
(* How a request gets access: the limit on requests, the password and the  *)
(* one-time code that a sign-in may begin with, and the refresh tokens it  *)
(* ends with.  Each of them has tables, or keys, of its own, and looks at  *)
(* nobody else's, so that a behaviour is one of one of them.               *)
(***************************************************************************)
EXTENDS RefreshTokens, LoginLock, OneTimeCodes, RateLimiter

VARIABLE part    \* the part that is at work

accessVars == <<part, requestVars, clock, tokenVars, loginVars, codeVars, rateVars>>

Init ==
    /\ part \in {"tokens", "password", "code", "limiter"}
    /\ RequestsInit /\ clock = 0
    /\ TokensInit /\ LoginInit /\ CodesInit /\ RateInit

Next ==
    /\ part' = part
    /\ \/ /\ part = "tokens" /\ TokensNext
          /\ UNCHANGED <<clock, loginVars, codeVars, rateVars>>
       \/ /\ part = "password" /\ LoginNext
          /\ UNCHANGED <<tokenVars, codeVars, rateVars>>
       \/ /\ part = "code" /\ CodesNext
          /\ UNCHANGED <<tokenVars, loginVars, rateVars>>
       \/ /\ part = "limiter" /\ RateNext
          /\ UNCHANGED <<tokenVars, loginVars, codeVars>>

Spec == Init /\ [][Next]_accessVars

\* Every part keeps its tables, and its requests, within their types.
TypeOK ==
    /\ part = "tokens" => TokensTypeOK
    /\ part = "password" => LoginTypeOK
    /\ part = "code" => CodesTypeOK
    /\ part = "limiter" => RateTypeOK
=============================================================================
