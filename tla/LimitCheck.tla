----------------------------- MODULE LimitCheck -----------------------------
(***************************************************************************)
(* What a plan limit promises when it is compared before, and counted      *)
(* after, the thing it limits is made: not the limit, but the limit and    *)
(* those that were admitted at the same time.                              *)
(***************************************************************************)
EXTENDS Integers

CONSTANT Limit

VARIABLES
    counted,    \* what the check looks at
    admitted,   \* requests that passed the check and are not counted yet
    crowd       \* the most there ever were of them at the same time

limitVars == <<counted, admitted, crowd>>

LimitInit == counted = 0 /\ admitted = 0 /\ crowd = 0

Admit ==
    /\ counted < Limit
    /\ admitted' = admitted + 1
    /\ crowd' = IF admitted' > crowd THEN admitted' ELSE crowd
    /\ counted' = counted

Count ==
    /\ admitted > 0 /\ admitted' = admitted - 1
    /\ counted' = counted + 1
    /\ crowd' = crowd

\* Requests end without being counted: a call failed, or the process died.
GiveUp ==
    /\ admitted' \in 0 .. admitted - 1
    /\ UNCHANGED <<counted, crowd>>

Release ==
    /\ counted > 0 /\ counted' = counted - 1
    /\ UNCHANGED <<admitted, crowd>>

LimitNext == Admit \/ Count \/ GiveUp \/ Release
LimitSpec == LimitInit /\ [][LimitNext]_limitVars

\* Each request that overlaps another one's check may exceed the limit by one,
\* and nothing else makes the counter exceed it.  Whether the things themselves
\* are bounded depends on how the counter follows them.
Bounded ==
    counted + admitted <= Limit - 1 + crowd \/ counted + admitted = 0
=============================================================================
