----------------------- MODULE NotificationDelivery -----------------------
(***************************************************************************)
(* How a notification row reaches the WhatsApp provider: the schedulers    *)
(* (cmd/scheduler) claim due rows in PostgreSQL and publish one            *)
(* notification.send_requested message per row; the notification workers   *)
(* (cmd/notification_worker) consume the messages, call the provider and   *)
(* write the outcome back.  Any number of scheduler and worker processes   *)
(* run against one database and one RabbitMQ queue.                        *)
(*                                                                         *)
(* Every repository call, provider call and publish is a step of its own,  *)
(* so the steps of all processes interleave.  A failure is a step too, and *)
(* is counted against the notification it hits:                            *)
(*   lost[n]  a failure after which the code does not carry on with n: a   *)
(*            database error, a publish that does not arrive, a scheduler  *)
(*            that dies between its claim and its publish (a claim whose   *)
(*            COMMIT is applied but reported as failed looks the same);    *)
(*   dup[n]   a failure after which n is handled again: a worker that dies *)
(*            or loses its connection with the message unacknowledged,     *)
(*            which RabbitMQ redelivers, and a send the provider accepted  *)
(*            but reported as failed.                                      *)
(* A SIGTERM cancels the context of the running handler, so it is a series *)
(* of database errors (lost), not a separate kind of failure.              *)
(*                                                                         *)
(* The row's scheduled_at is reduced to whether it has passed (due), the   *)
(* queue to the number of ready messages per notification (competing       *)
(* consumers and redelivery leave no useful order).  Nothing in the        *)
(* program moves a row to "canceled" (see README), so it has no action.    *)
(*                                                                         *)
(* This is the code as it runs once its repositories and its sender are    *)
(* given to it.  The two main functions of the repository leave that to a  *)
(* wiring that is not there ("inject ... via DI / wire",                   *)
(* cmd/scheduler/main.go:33, cmd/notification_worker/main.go:37): as       *)
(* committed they pass nil, with which the scheduler skips every poll      *)
(* (:55) and the worker returns before it looks at the notification (:69), *)
(* so that of this module only the passing of time and the                 *)
(* acknowledgements are left.                                              *)
(*                                                                         *)
(* Definitions named Wrong... are slips the code could have made; each is  *)
(* used in the place of the definition after it to see a property fail.    *)
(***************************************************************************)
EXTENDS Naturals, FiniteSets

CONSTANTS
    Notification,   \* rows of the notifications table
    Scheduler,      \* scheduler processes
    Worker,         \* notification worker processes (one message at a time)
    None,           \* "no notification"
    MaxRetries,     \* maxRetries of the worker
    BatchSize,      \* batchSize of the scheduler
    MaxDups,        \* bound: failures of kind dup per notification
    MaxLosses       \* bound: failures of kind lost per notification

ASSUME NoneAssumption == None \notin Notification
ASSUME BoundsAssumption == /\ MaxRetries \in Nat \ {0}
                           /\ BatchSize \in Nat \ {0}
                           /\ MaxDups \in Nat
                           /\ MaxLosses \in Nat
ASSUME ProcessAssumption == IsFiniteSet(Scheduler) /\ IsFiniteSet(Worker)

VARIABLES
    status,      \* status[n], the status column
    retryCount,  \* retryCount[n], the retry_count column
    due,         \* the rows whose scheduled_at has passed
    queue,       \* queue[n], ready messages for n in notification_send_queue
    results,     \* events published to notification_result_queue
    todo,        \* todo[s], rows claimed by s and not yet published
    marked,      \* marked[s], the row s has marked and is about to publish
    pc,          \* pc[w], where worker w is in handleSendRequested
    cur,         \* cur[w], the notification of the message w is handling
    cutOff,      \* the workers that have lost the connection their message
                 \* came over and are still handling it
    sends,       \* sends[n], how often the provider accepted n
    dup, lost,   \* failures so far, by kind (see above)
    exposed      \* the rows hit by a failure that may repeat a send

dbVars     == <<status, retryCount, due>>
schedVars  == <<todo, marked>>
workerVars == <<pc, cur, cutOff>>
ghostVars  == <<sends, dup, lost, exposed>>
vars == <<dbVars, queue, results, schedVars, workerVars, ghostVars>>

Status  == {"scheduled", "sending", "sent", "failed"}
Settled == {"sent", "failed"}
Event   == [type : {"notification.sent", "notification.failed"}, n : Notification]

\* The points of handleSendRequested at which the send has not been reported
\* as accepted and the outcome is not written yet.
Unresolved == {"send", "rejected", "refetch", "reschedule", "fail"}
WorkerPC   == Unresolved \union
              {"idle", "accepted", "announceSent", "announceFailed", "ack"}

Init ==
    /\ status = [n \in Notification |-> "scheduled"]
    /\ retryCount = [n \in Notification |-> 0]
    /\ due = {}
    /\ queue = [n \in Notification |-> 0]
    /\ results = {}
    /\ todo = [s \in Scheduler |-> {}]
    /\ marked = [s \in Scheduler |-> None]
    /\ pc = [w \in Worker |-> "idle"]
    /\ cur = [w \in Worker |-> None]
    /\ cutOff = {}
    /\ sends = [n \in Notification |-> 0]
    /\ dup = [n \in Notification |-> 0]
    /\ lost = [n \in Notification |-> 0]
    /\ exposed = {}

Lose(n) == /\ lost[n] < MaxLosses
           /\ lost' = [lost EXCEPT ![n] = @ + 1]

\* NotificationRepo.UpdateStatus: unconditional, and every caller but the
\* scheduler carries on the same way when it fails.
UpdateStatus(n, to) ==
    \/ status' = [status EXCEPT ![n] = to] /\ UNCHANGED lost
    \/ Lose(n) /\ UNCHANGED status

-----------------------------------------------------------------------------
(* Time and the scheduler process: runOnce, at start and on every tick.    *)

BecomeDue(n) ==
    /\ n \notin due
    /\ due' = due \union {n}
    /\ UNCHANGED <<status, retryCount, queue, results, schedVars, workerVars, ghostVars>>

\* Rows stuck in "sending" are claimed again.
WrongClaimable == {n \in due : status[n] \in {"scheduled", "sending"}}

Claimable == {n \in due : status[n] = "scheduled"}

\* A transaction of its own.  SKIP LOCKED may pass over rows that another
\* transaction holds, so any non-empty part of the claimable rows may result.
ClaimDue(s) ==
    /\ todo[s] = {}
    /\ \E batch \in SUBSET Claimable :
         /\ batch # {} /\ Cardinality(batch) <= BatchSize
         /\ status' = [n \in Notification |->
                         IF n \in batch THEN "sending" ELSE status[n]]
         /\ todo' = [todo EXCEPT ![s] = batch]
    /\ UNCHANGED <<retryCount, due, queue, results, marked, workerVars, ghostVars>>

\* The scheduler's second, unconditional write of "sending".
MarkSending(s, n) ==
    /\ marked[s] = None /\ n \in todo[s]
    /\ status' = [status EXCEPT ![n] = "sending"]
    /\ marked' = [marked EXCEPT ![s] = n]
    /\ UNCHANGED <<retryCount, due, queue, results, todo, workerVars, ghostVars>>

\* That write fails: the loop continues with the next row.
MarkSendingFails(s, n) ==
    /\ marked[s] = None /\ n \in todo[s]
    /\ Lose(n)
    /\ todo' = [todo EXCEPT ![s] = @ \ {n}]
    /\ UNCHANGED <<dbVars, queue, results, marked, workerVars, sends, dup, exposed>>

\* A publish that fails, or that the broker drops, is only logged.
Publish(s) ==
    LET n == marked[s] IN
    /\ n # None
    /\ \/ queue' = [queue EXCEPT ![n] = @ + 1] /\ UNCHANGED lost
       \/ Lose(n) /\ UNCHANGED queue
    /\ todo' = [todo EXCEPT ![s] = @ \ {n}]
    /\ marked' = [marked EXCEPT ![s] = None]
    /\ UNCHANGED <<dbVars, results, workerVars, sends, dup, exposed>>

SchedulerCrash(s) ==
    /\ todo[s] # {}
    /\ \A n \in todo[s] : lost[n] < MaxLosses
    /\ lost' = [n \in Notification |->
                  IF n \in todo[s] THEN lost[n] + 1 ELSE lost[n]]
    /\ todo' = [todo EXCEPT ![s] = {}]
    /\ marked' = [marked EXCEPT ![s] = None]
    /\ UNCHANGED <<dbVars, queue, results, workerVars, sends, dup, exposed>>

-----------------------------------------------------------------------------
(* The notification worker: handleSendRequested, one call at a time.       *)

Take(n) == /\ queue[n] > 0
           /\ queue' = [queue EXCEPT ![n] = @ - 1]

Goto(w, label) == pc' = [pc EXCEPT ![w] = label]

\* No status check.
WrongReceive(w, n) ==
    /\ pc[w] = "idle"
    /\ Take(n)
    /\ Goto(w, "send") /\ cur' = [cur EXCEPT ![w] = n] /\ UNCHANGED cutOff
    /\ UNCHANGED <<dbVars, results, schedVars, ghostVars>>

\* FindByID and the status check: anything but "sending" is acknowledged and
\* forgotten.
Receive(w, n) ==
    /\ pc[w] = "idle"
    /\ Take(n)
    /\ IF status[n] = "sending"
         THEN Goto(w, "send") /\ cur' = [cur EXCEPT ![w] = n] /\ UNCHANGED cutOff
         ELSE UNCHANGED workerVars
    /\ UNCHANGED <<dbVars, results, schedVars, ghostVars>>

\* FindByID fails, for whatever reason: acknowledged as "not found".
LookupFails(w, n) ==
    /\ pc[w] = "idle"
    /\ Take(n)
    /\ Lose(n)
    /\ UNCHANGED <<dbVars, results, schedVars, workerVars, sends, dup, exposed>>

\* SendMessage: accepted, refused, or accepted with the answer lost.
SendMessage(w) ==
    LET n == cur[w] IN
    /\ pc[w] = "send"
    /\ \/ /\ Goto(w, "accepted")
          /\ sends' = [sends EXCEPT ![n] = @ + 1]
          /\ UNCHANGED <<dup, exposed>>
       \/ /\ Goto(w, "rejected")
          /\ UNCHANGED <<sends, dup, exposed>>
       \/ /\ Goto(w, "rejected")
          /\ dup[n] < MaxDups
          /\ dup' = [dup EXCEPT ![n] = @ + 1]
          /\ exposed' = exposed \union {n}
          /\ sends' = [sends EXCEPT ![n] = @ + 1]
    /\ UNCHANGED <<dbVars, queue, results, schedVars, cur, cutOff, lost>>

MarkSent(w) ==
    /\ pc[w] = "accepted"
    /\ UpdateStatus(cur[w], "sent")
    /\ Goto(w, "announceSent")
    /\ UNCHANGED <<retryCount, due, queue, results, schedVars, cur, cutOff, sends, dup, exposed>>

IncrementRetry(w) ==
    LET n == cur[w] IN
    /\ pc[w] = "rejected"
    /\ \/ retryCount' = [retryCount EXCEPT ![n] = @ + 1] /\ UNCHANGED lost
       \/ Lose(n) /\ UNCHANGED retryCount
    /\ Goto(w, "refetch")
    /\ UNCHANGED <<status, due, queue, results, schedVars, cur, cutOff, sends, dup, exposed>>

\* One retry too many.
WrongRefetch(w) ==
    LET n == cur[w] IN
    /\ pc[w] = "refetch"
    /\ Goto(w, IF retryCount[n] <= MaxRetries THEN "reschedule" ELSE "fail")
    /\ UNCHANGED <<dbVars, queue, results, schedVars, cur, cutOff, ghostVars>>

\* One retry too few: the count read before the increment is compared.
WrongEarlyRefetch(w) ==
    LET n == cur[w] IN
    /\ pc[w] = "refetch"
    /\ Goto(w, IF retryCount[n] + 1 < MaxRetries THEN "reschedule" ELSE "fail")
    /\ UNCHANGED <<dbVars, queue, results, schedVars, cur, cutOff, ghostVars>>

\* The second FindByID decides; when it fails the handler returns at once.
Refetch(w) ==
    LET n == cur[w] IN
    /\ pc[w] = "refetch"
    /\ \/ /\ Goto(w, IF retryCount[n] < MaxRetries THEN "reschedule" ELSE "fail")
          /\ UNCHANGED lost
       \/ Lose(n) /\ Goto(w, "ack")
    /\ UNCHANGED <<dbVars, queue, results, schedVars, cur, cutOff, sends, dup, exposed>>

\* The row is left in "sending".
WrongReschedule(w) ==
    /\ pc[w] = "reschedule"
    /\ Goto(w, "ack")
    /\ UNCHANGED <<dbVars, queue, results, schedVars, cur, cutOff, ghostVars>>

Reschedule(w) ==
    /\ pc[w] = "reschedule"
    /\ UpdateStatus(cur[w], "scheduled")
    /\ Goto(w, "ack")
    /\ UNCHANGED <<retryCount, due, queue, results, schedVars, cur, cutOff, sends, dup, exposed>>

MarkFailed(w) ==
    /\ pc[w] = "fail"
    /\ UpdateStatus(cur[w], "failed")
    /\ Goto(w, "announceFailed")
    /\ UNCHANGED <<retryCount, due, queue, results, schedVars, cur, cutOff, sends, dup, exposed>>

\* The outcome event, published whether or not the status write succeeded;
\* a failure to publish it is ignored.
Announce(w, label, type) ==
    LET n == cur[w] IN
    /\ pc[w] = label
    /\ \/ results' = results \union {[type |-> type, n |-> n]} /\ UNCHANGED lost
       \/ Lose(n) /\ UNCHANGED results
    /\ Goto(w, "ack")
    /\ UNCHANGED <<dbVars, queue, schedVars, cur, cutOff, sends, dup, exposed>>

AnnounceSent(w)   == Announce(w, "announceSent", "notification.sent")
AnnounceFailed(w) == Announce(w, "announceFailed", "notification.failed")

\* The delivery is not forgotten.
WrongAck(w) ==
    /\ pc[w] = "ack"
    /\ Goto(w, "idle")
    /\ UNCHANGED <<dbVars, queue, results, schedVars, cur, cutOff, ghostVars>>

\* Nothing is left of w's delivery.
Stop(w) == /\ Goto(w, "idle")
           /\ cur' = [cur EXCEPT ![w] = None]
           /\ cutOff' = cutOff \ {w}

\* The acknowledgement of a message of a lost connection fails and is only
\* logged; the process ends and is started again with no message.
Ack(w) ==
    /\ pc[w] = "ack"
    /\ Stop(w)
    /\ UNCHANGED <<dbVars, queue, results, schedVars, ghostVars>>

\* Consuming with auto-ack: the message is gone when the worker dies.
WrongWorkerCrash(w) ==
    /\ pc[w] # "idle" /\ w \notin cutOff
    /\ dup[cur[w]] < MaxDups
    /\ dup' = [dup EXCEPT ![cur[w]] = @ + 1]
    /\ Stop(w)
    /\ UNCHANGED <<dbVars, queue, results, schedVars, sends, lost, exposed>>

\* The process dies, or the acknowledgement is lost: the message is ready
\* again.  n may be sent once more unless its attempt had no outcome yet or
\* its row says that it is settled.
WorkerCrash(w) ==
    LET n == cur[w] IN
    /\ pc[w] # "idle" /\ w \notin cutOff
    /\ dup[n] < MaxDups
    /\ dup' = [dup EXCEPT ![n] = @ + 1]
    /\ exposed' = IF pc[w] \in Unresolved \/ status[n] \in Settled
                    THEN exposed ELSE exposed \union {n}
    /\ queue' = [queue EXCEPT ![n] = @ + 1]
    /\ Stop(w)
    /\ UNCHANGED <<dbVars, results, schedVars, sends, lost>>

\* The connection or the channel is lost while the handler runs: the broker
\* puts the message back at once, and the handler, which does not notice,
\* goes on beside whoever receives it next.  Only a row that is settled by
\* then keeps n from being sent twice.
ConnectionLost(w) ==
    LET n == cur[w] IN
    /\ pc[w] # "idle" /\ w \notin cutOff
    /\ dup[n] < MaxDups
    /\ dup' = [dup EXCEPT ![n] = @ + 1]
    /\ exposed' = IF status[n] \in Settled THEN exposed ELSE exposed \union {n}
    /\ queue' = [queue EXCEPT ![n] = @ + 1]
    /\ cutOff' = cutOff \union {w}
    /\ UNCHANGED <<dbVars, results, schedVars, pc, cur, sends, lost>>

\* A worker whose message has been put back already dies: nothing more
\* becomes of its attempt.
CutOffWorkerCrash(w) ==
    /\ w \in cutOff
    /\ Stop(w)
    /\ UNCHANGED <<dbVars, queue, results, schedVars, ghostVars>>

-----------------------------------------------------------------------------
SchedulerStep(s) ==
    \/ ClaimDue(s)
    \/ \E n \in Notification : MarkSending(s, n)
    \/ Publish(s)

WorkerStep(w) ==
    \/ \E n \in Notification : Receive(w, n)
    \/ SendMessage(w) \/ MarkSent(w)
    \/ IncrementRetry(w) \/ Refetch(w) \/ Reschedule(w) \/ MarkFailed(w)
    \/ AnnounceSent(w) \/ AnnounceFailed(w) \/ Ack(w)

Next ==
    \/ \E n \in Notification : BecomeDue(n)
    \/ \E s \in Scheduler : \/ SchedulerStep(s)
                            \/ SchedulerCrash(s)
                            \/ \E n \in Notification : MarkSendingFails(s, n)
    \/ \E w \in Worker : \/ WorkerStep(w)
                         \/ WorkerCrash(w) \/ ConnectionLost(w)
                         \/ CutOffWorkerCrash(w)
                         \/ \E n \in Notification : LookupFails(w, n)

Spec == Init /\ [][Next]_vars

\* Schedulers tick for ever and consumers run until they are stopped.
Fairness == /\ \A s \in Scheduler : WF_vars(SchedulerStep(s))
            /\ \A w \in Worker : WF_vars(WorkerStep(w))

FairSpec == Spec /\ Fairness

-----------------------------------------------------------------------------
(* Properties                                                              *)

TypeOK ==
    /\ status \in [Notification -> Status]
    /\ retryCount \in [Notification -> Nat]
    /\ due \subseteq Notification
    /\ queue \in [Notification -> Nat]
    /\ results \subseteq Event
    /\ todo \in [Scheduler -> SUBSET Notification]
    /\ marked \in [Scheduler -> Notification \union {None}]
    /\ \A s \in Scheduler : marked[s] # None => marked[s] \in todo[s]
    /\ pc \in [Worker -> WorkerPC]
    /\ cur \in [Worker -> Notification \union {None}]
    /\ \A w \in Worker : pc[w] = "idle" <=> cur[w] = None
    /\ cutOff \subseteq {w \in Worker : cur[w] # None}
    /\ sends \in [Notification -> Nat]
    /\ dup \in [Notification -> Nat]
    /\ lost \in [Notification -> Nat]
    /\ exposed \subseteq Notification

\* Each failure that makes n be handled again costs at most one extra send,
\* whatever the schedulers and workers do in between: a claim that loses a
\* race, a stale "sending" or a stale reset to "scheduled" never multiplies
\* the messages that can still be sent.
SendsBoundedByDups ==
    \A n \in Notification : sends[n] <= 1 + dup[n]

\* What the status check at the head of handleSendRequested ("double-check
\* status to prevent duplicate sends") is good for: n is sent at most once if
\* the only failures that make it be handled again are workers that die
\* before the provider answers or before a rejection is written down, and
\* connections and workers lost when the outcome is in the row.  All others
\* are counted in exposed: a worker that dies between the provider's answer
\* and the write of "sent", or between the reset to "scheduled" and the
\* acknowledgement; a connection lost under a running handler before the row
\* is settled; an acceptance whose answer is lost.
NoDuplicateOutsideWindow ==
    \A n \in Notification : n \notin exposed => sends[n] <= 1

\* While no step about n has failed, somebody is responsible for every row in
\* status "sending": a scheduler that will publish it, a queued message, or a
\* worker that still holds its message.  Lost workers and connections do not
\* break it.
Owned(n) ==
    \/ queue[n] > 0
    \/ \E s \in Scheduler : n \in todo[s]
    \/ \E w \in Worker \ cutOff :
         cur[w] = n /\ pc[w] \in Unresolved \union {"accepted"}
NothingStranded ==
    \A n \in Notification :
        lost[n] = 0 /\ status[n] = "sending" => Owned(n)

\* What the row and the result events say is true: "sent" only of a
\* notification the provider accepted, "failed" only after MaxRetries counted
\* rejections, in whatever order overlapping workers write.
OutcomesTruthful ==
    \A n \in Notification :
        /\ \/ status[n] = "sent"
           \/ [type |-> "notification.sent", n |-> n] \in results
           => sends[n] > 0
        /\ \/ status[n] = "failed"
           \/ [type |-> "notification.failed", n |-> n] \in results
           => retryCount[n] >= MaxRetries

\* Overlapping attempts count rejections on one row, but never more than one
\* beyond the limit for each time n was handled again.
RetriesBounded ==
    \A n \in Notification : retryCount[n] <= MaxRetries + dup[n]

\* The whole protocol is an implementation of the delivery contract: without a
\* failure that makes n be handled again, one acceptance at most and a final
\* outcome; one more acceptance and one more rejection for each such failure.
Contract == INSTANCE DeliveryContract WITH
    outcome <- [n \in Notification |->
                  IF status[n] \in Settled THEN status[n] ELSE "pending"],
    accepted <- sends,
    rejections <- retryCount,
    again <- dup
ImplementsContract == Contract!Spec

\* docs/system-design.md says: "The same notification occurrence should not be
\* sent twice unless explicitly retried after a failed attempt."  Refuted by
\* delivery_duplicate: a worker dies between SendMessage and UpdateStatus.
SentOnceUnlessRetried ==
    \A n \in Notification : sends[n] > 1 => retryCount[n] > 0

\* A due notification is settled in the end, and stays settled, however often
\* the workers crash or lose their connection, as long as no step about it is
\* lost.
EventuallySettled ==
    \A n \in Notification : (n \in due) ~> [](status[n] \in Settled)

=============================================================================
