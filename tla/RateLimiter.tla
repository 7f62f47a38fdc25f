---------------------------- MODULE RateLimiter ----------------------------
(***************************************************************************)
(* The limit on the requests of one address to one endpoint                *)
(* (http_fiber/middleware/rate_limit_middleware.go and redis/              *)
(* rate_limiter.go): a sorted set of the times of the requests that were   *)
(* let through, looked at and added to by a script in Redis.  The time of  *)
(* a request is read in the API process, some time before the script runs. *)
(* An error of Redis lets the request through; a lost answer may also make *)
(* the client library send the script again.                               *)
(***************************************************************************)
EXTENDS Clock

CONSTANTS
    RateLimit,     \* requests in a window: 10
    Window,        \* a minute
    MaxDelay       \* bound: from the reading of the time to the script's end

ASSUME RateAssumption ==
    RateLimit \in Nat \ {0} /\ Window \in Nat \ {0} /\ MaxDelay \in 0 .. Window

VARIABLES
    stamps,        \* the sorted set
    keyUntil,      \* when Redis drops it
    passed         \* the times of the requests that were let through

rateVars == <<stamps, keyUntil, passed>>

RateInit == stamps = {} /\ keyUntil = 0 /\ passed = {}

\* RateLimitMiddleware, as far as time.Now() in Allow.
Arrive(q) ==
    /\ Begin(q, "allow", <<"script">>, [now |-> clock])
    /\ UNCHANGED <<clock, rateVars>>

Within(now) == {s \in stamps : s > now - Window}

\* One request too many.
WrongAdmits(now) == Cardinality(Within(now)) <= RateLimit

Admits(now) == Cardinality(Within(now)) < RateLimit

\* What is refused is recorded too.
WrongRecorded(now) == Within(now) \union {now}

Recorded(now) == IF Admits(now) THEN Within(now) \union {now} ELSE Within(now)

\* The script; two requests with the same time are one member of the set, and
\* its numbers tell times apart by some 256 nanoseconds.
Script(q) ==
    LET now == req[q].own.now IN
    /\ Makes(q, "script")
    /\ stamps' = Recorded(now) /\ keyUntil' = clock + Window
    /\ clock' = clock

Allow(q) ==
    /\ Script(q)
    /\ passed' = IF Admits(req[q].own.now) THEN passed \union {req[q].own.now} ELSE passed
    /\ Continue(q)

\* The answer is lost and the script is sent again.
SendAgain(q) ==
    /\ Script(q)
    /\ failures < MaxFailures /\ failures' = failures + 1
    /\ UNCHANGED <<req, cut, passed>>

\* Redis answers with an error, or not at all.
FailOpen(q) ==
    /\ CallFails(q, {})
    /\ passed' = passed \union {req[q].own.now}
    /\ UNCHANGED <<clock, stamps, keyUntil>>

WindowMoves ==
    /\ Passes
    /\ \A q \in Doing({"allow"}) : clock < req[q].own.now + MaxDelay
    /\ stamps' = IF clock' >= keyUntil THEN {} ELSE stamps
    /\ UNCHANGED <<keyUntil, passed>>

RateNext ==
    \/ \E q \in Request :
        Arrive(q) \/ Allow(q) \/ SendAgain(q) \/ FailOpen(q)
    \/ Crash /\ UNCHANGED <<clock, rateVars>>
    \/ WindowMoves

RateSpec ==
    /\ RequestsInit /\ clock = 0 /\ RateInit
    /\ [][RateNext]_<<requestVars, clock, rateVars>>

-----------------------------------------------------------------------------
(* Properties                                                              *)

RateTypeOK ==
    /\ req \in [Request -> RequestOf({"allow"}, {"script"}, [now : 0 .. LastTick])]
    /\ stamps \subseteq 0 .. LastTick /\ keyUntil \in 0 .. LastTick + Window
    /\ passed \subseteq 0 .. LastTick

\* The requests let through in a window have no more than RateLimit different
\* times, and one more for each failure; the window is shorter than Window by
\* what a script may be late, as a newer one may have removed its set by then.
RateBounded ==
    \A t \in 0 .. LastTick :
        Cardinality({s \in passed : t <= s /\ s < t + Window - MaxDelay}) <= RateLimit + failures

\* A request is refused only when RateLimit requests in the window before it were
\* let through, refused ones not among them; one of them may be missing for
\* each failure, the request itself whose script was sent again among them.
NeverStarved ==
    [][\A q \in Request :
        ~Idle(q) /\ req'[q] = NoRequest /\ passed' = passed /\ failures' = failures
        /\ req[q].method = "allow" /\ req[q].own.now \notin passed =>
        Cardinality({s \in passed : s > req[q].own.now - Window}) >= RateLimit - failures
      ]_<<requestVars, clock, rateVars>>
=============================================================================
