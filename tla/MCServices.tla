----------------------------- MODULE MCServices -----------------------------
(* Small instances of the services: values of the constants, and bounds.   *)
EXTENDS Services, TLC

MonthStarts == <<0, 62, 118, 180>>    \* January, February, March, in half days

\* Bound: a behaviour is followed until a subscription was given another date.
Followed == redated = {}

Symmetry ==
    Permutations(Request) \union Permutations(Member) \union Permutations(Subscription)
=============================================================================
