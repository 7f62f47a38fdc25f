------------------------- MODULE DeliveryContract -------------------------
(***************************************************************************)
(* What notification delivery promises about each notification, without    *)
(* processes, queue or claims: an at-least-once contract that becomes      *)
(* exactly-once for a notification no failure makes the system handle      *)
(* again.  NotificationDelivery is shown to implement it.                  *)
(***************************************************************************)
EXTENDS Naturals

CONSTANTS Notification, MaxRetries

VARIABLES
    outcome,     \* "pending", or the outcome recorded for the notification
    accepted,    \* how often the provider accepted it
    rejections,  \* rejections counted so far
    again        \* how often a failure made it be handled again

vars == <<outcome, accepted, rejections, again>>

Init ==
    /\ outcome = [n \in Notification |-> "pending"]
    /\ accepted = [n \in Notification |-> 0]
    /\ rejections = [n \in Notification |-> 0]
    /\ again = [n \in Notification |-> 0]

\* The provider accepts n: once, and once more per failure.
Accept(n) ==
    /\ accepted[n] <= again[n]
    /\ accepted' = [accepted EXCEPT ![n] = @ + 1]
    /\ UNCHANGED <<outcome, rejections, again>>

\* A rejection is counted: MaxRetries of them, and one more per failure.
Reject(n) ==
    /\ rejections[n] < MaxRetries + again[n]
    /\ rejections' = [rejections EXCEPT ![n] = @ + 1]
    /\ UNCHANGED <<outcome, accepted, again>>

\* "sent" is recorded only after an acceptance, "failed" only after
\* MaxRetries rejections; without failures an outcome is final.
Record(n, o) ==
    /\ \/ o = "sent" /\ accepted[n] > 0
       \/ o = "failed" /\ rejections[n] >= MaxRetries
    /\ outcome[n] = "pending" \/ again[n] > 0
    /\ outcome' = [outcome EXCEPT ![n] = o]
    /\ UNCHANGED <<accepted, rejections, again>>

\* A recorded outcome is taken back: only after a failure.
Reopen(n) ==
    /\ again[n] > 0
    /\ outcome' = [outcome EXCEPT ![n] = "pending"]
    /\ UNCHANGED <<accepted, rejections, again>>

\* A failure makes n be handled again, possibly after an acceptance that was
\* not reported.
HandleAgain(n) ==
    /\ again' = [again EXCEPT ![n] = @ + 1]
    /\ \/ UNCHANGED accepted
       \/ /\ accepted[n] <= again[n]
          /\ accepted' = [accepted EXCEPT ![n] = @ + 1]
    /\ UNCHANGED <<outcome, rejections>>

Next == \E n \in Notification :
            \/ Accept(n) \/ Reject(n) \/ Reopen(n) \/ HandleAgain(n)
            \/ \E o \in {"sent", "failed"} : Record(n, o)

Spec == Init /\ [][Next]_vars

=============================================================================
