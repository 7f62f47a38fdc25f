-------------------------- MODULE LimitCheckProofs --------------------------
(* What LimitCheck promises holds for every limit and every number of      *)
(* requests, and so does it for whatever is shown to be a LimitCheck.      *)
EXTENDS LimitCheck, TLAPS

LimitTypeOK == counted \in Nat /\ admitted \in Nat /\ crowd \in Nat

\* Those admitted now were admitted at the same time.
LimitInv == LimitTypeOK /\ admitted <= crowd /\ Bounded

\* The loss of an admitted request only takes from what the limit allows.
LEMMA FewerAdmitted ==
    ASSUME NEW max \in Int, NEW used \in Nat, NEW many \in Nat, NEW few \in 0 .. many - 1,
           used + many <= max \/ used + many = 0
    PROVE  few \in Nat /\ few <= many /\ used + few <= max
  OBVIOUS

LEMMA LimitStep ==
    ASSUME Limit \in Int, LimitInv, [LimitNext]_limitVars
    PROVE  LimitInv'
<1> USE DEF LimitInv, LimitTypeOK, Bounded
<1>1. CASE Admit
  BY <1>1 DEF Admit
<1>2. CASE Count
  BY <1>2 DEF Count
<1>3. ASSUME GiveUp PROVE LimitInv'
  <2>1. admitted' \in 0 .. admitted - 1 /\ counted' = counted /\ crowd' = crowd
    BY <1>3 DEF GiveUp
  <2>2. Limit - 1 + crowd \in Int
    OBVIOUS
  <2>3. admitted' \in Nat /\ admitted' <= admitted /\ counted + admitted' <= Limit - 1 + crowd
    BY <2>1, <2>2, FewerAdmitted
  <2>4. admitted' <= crowd
    BY <2>3
  <2>5. QED
    BY <2>1, <2>3, <2>4
<1>4. CASE Release
  BY <1>4 DEF Release
<1>5. CASE UNCHANGED limitVars
  BY <1>5 DEF limitVars
<1>6. QED
  BY <1>1, <1>2, <1>3, <1>4, <1>5 DEF LimitNext

\* A limit that is compared before and counted after what it limits is exceeded
\* by at most one for each request admitted together with another one
\* (IsWithinLimit, Increment and their like in internal/application).
THEOREM LimitHolds == ASSUME Limit \in Int PROVE LimitSpec => []Bounded
<1>1. LimitInit => LimitInv
  BY DEF LimitInit, LimitInv, LimitTypeOK, Bounded
<1>2. LimitInv /\ [LimitNext]_limitVars => LimitInv'
  BY LimitStep
<1>3. LimitInv => Bounded
  BY DEF LimitInv
<1>4. QED
  BY <1>1, <1>2, <1>3, PTL DEF LimitSpec
=============================================================================
