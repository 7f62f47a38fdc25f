------------------------------- MODULE Clock -------------------------------
(***************************************************************************)
(* Requests and the time that passes while they are in progress.           *)
(***************************************************************************)
EXTENDS Requests

CONSTANT LastTick      \* bound: the time that passes in a behaviour

ASSUME ClockAssumption == LastTick \in Nat

VARIABLE clock         \* the current time

\* A request in progress may take any time.
Passes ==
    /\ clock < LastTick /\ clock' = clock + 1
    /\ UNCHANGED requestVars
=============================================================================
