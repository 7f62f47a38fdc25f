------------------------------ MODULE Requests ------------------------------
(***************************************************************************)
(* The API process as every service sees it: requests that run at the same *)
(* time, each in its own goroutine, each making one call of a repository   *)
(* after another without a transaction.  A call may fail, which the method *)
(* returns or ignores, and the process may die between two calls.          *)
(*                                                                         *)
(* A service module extends this one and says which calls its methods make *)
(* and what each call does to its tables.                                  *)
(***************************************************************************)
EXTENDS Integers, Sequences, FiniteSets

CONSTANTS
    Request,       \* places for requests in progress at the same time
    Watched,       \* calls of which a property asks whether one was lost
    MaxFailures    \* bound: failed calls and crashes in a behaviour

ASSUME RequestsAssumption == IsFiniteSet(Request) /\ MaxFailures \in Nat

VARIABLES
    req,       \* req[q], the request in progress at place q
    cut,       \* watched calls that were due and were never made
    failures   \* failed calls and crashes so far

requestVars == <<req, cut, failures>>

\* own: the local variables of the method; wrote: it has changed something.
NoRequest == [method |-> "none", todo |-> <<>>, wrote |-> FALSE, own |-> <<>>]
RequestOf(methods, call, own) ==
    {NoRequest} \union [method : methods, todo : Seq(call), wrote : BOOLEAN, own : own]

RequestsInit == req = [q \in Request |-> NoRequest] /\ cut = {} /\ failures = 0

Idle(q) == req[q].todo = <<>>
Doing(methods) == {q \in Request : req[q].method \in methods}

Begin(q, method, calls, own) ==
    /\ Idle(q)
    /\ req' = [req EXCEPT ![q] = [method |-> method, todo |-> calls,
                                  wrote |-> FALSE, own |-> own]]
    /\ UNCHANGED <<cut, failures>>

\* Request q makes its next call, c.
Makes(q, c) == ~Idle(q) /\ Head(req[q].todo) = c

Advanced(q, own) ==
    IF Len(req[q].todo) = 1 THEN NoRequest
    ELSE [req[q] EXCEPT !.todo = Tail(@), !.wrote = TRUE, !.own = own]

\* Having made its call q goes on to the next one, or ends.
GoOn(q, own) ==
    /\ req' = [req EXCEPT ![q] = Advanced(q, own)]
    /\ UNCHANGED <<cut, failures>>
Continue(q) == GoOn(q, req[q].own)

\* What q still has to do is lost; before its first change nothing is.
Lost(q) ==
    IF req[q].wrote THEN {req[q].todo[i] : i \in DOMAIN req[q].todo} \intersect Watched ELSE {}

\* The next call of q fails and changes nothing.
CallFails(q, ignored) ==
    /\ ~Idle(q)
    /\ failures < MaxFailures /\ failures' = failures + 1
    /\ IF Head(req[q].todo) \in ignored
       THEN /\ req' = [req EXCEPT ![q] = Advanced(q, req[q].own)]
            /\ cut' = cut \union ({Head(req[q].todo)} \intersect Watched)
       ELSE /\ req' = [req EXCEPT ![q] = NoRequest]
            /\ cut' = cut \union Lost(q)

\* The API process dies, and with it every request in progress.
Crash ==
    /\ \E q \in Request : ~Idle(q)
    /\ failures < MaxFailures /\ failures' = failures + 1
    /\ req' = [q \in Request |-> NoRequest]
    /\ cut' = cut \union UNION {Lost(q) : q \in Request}
=============================================================================
