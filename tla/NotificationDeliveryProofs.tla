-------------------- MODULE NotificationDeliveryProofs --------------------
(***************************************************************************)
(* Proofs about NotificationDelivery for any number of notifications,      *)
(* schedulers and workers, any retry limit and any number of failures.     *)
(*                                                                         *)
(* The argument counts, for a notification n, the chances that it is sent  *)
(* in the future: ready messages, schedulers that hold n, workers whose    *)
(* attempt can still be accepted, and the row itself while "scheduled".    *)
(* No step but a failure of kind dup creates a chance, and an acceptance   *)
(* uses one up.                                                            *)
(***************************************************************************)
EXTENDS NotificationDelivery, FiniteSetTheorems, TLAPS

Bit(b) == IF b THEN 1 ELSE 0

ChancePC == {"send", "rejected", "reschedule"}
SpentPC  == {"refetch", "fail"}

Holders(n) == {s \in Scheduler : n \in todo[s]}
Trying(n)  == {w \in Worker : cur[w] = n /\ pc[w] \in ChancePC}
Spent(n)   == {w \in Worker : cur[w] = n /\ pc[w] \in SpentPC}

held(n)   == Cardinality(Holders(n))
trying(n) == Cardinality(Trying(n))
spent(n)  == Cardinality(Spent(n))

Chances(n) == queue[n] + held(n) + trying(n) + Bit(status[n] = "scheduled")

\* Acceptances so far and all that can still come, a rejected attempt whose
\* row has not been reset and a row already given up included.
SendBudget ==
    \A n \in Notification :
        sends[n] + Chances(n) + spent(n) + Bit(status[n] = "failed") <= 1 + dup[n]

\* Once the limit is reached, every chance left costs one rejection more.
RetryBudget ==
    \A n \in Notification :
        retryCount[n] >= MaxRetries =>
            retryCount[n] + Chances(n) <= MaxRetries + dup[n]

\* What a worker knows at each point of the handler.
WorkerKnows ==
    \A w \in Worker :
        /\ pc[w] \in {"accepted", "announceSent"} => sends[cur[w]] > 0
        /\ pc[w] \in {"fail", "announceFailed"} => retryCount[cur[w]] >= MaxRetries

\* Without a failure in the window: one responsible party while "sending",
\* none before the claim, and only stale messages after the outcome.
Narrow(st, q, h, t, s, x) ==
    /\ x <= 1
    /\ st = "scheduled" => q + h + t + s + x = 0
    /\ st = "sending" => q + h + t + s + x <= 1
    /\ st \in Settled => h + t + s = 0
Window(n) ==
    Narrow(status[n], queue[n], held(n), trying(n), spent(n), sends[n])
WindowInv ==
    \A n \in Notification : n \notin exposed => Window(n)

IInv == /\ TypeOK
        /\ SendBudget
        /\ RetryBudget
        /\ WorkerKnows
        /\ OutcomesTruthful
        /\ WindowInv
        /\ NothingStranded

-----------------------------------------------------------------------------
(* Counting                                                                *)

\* Sets that differ in x at most: their cardinalities differ in x's share.
LEMMA DifferInOne ==
    ASSUME NEW S, IsFiniteSet(S), NEW x,
           NEW A \in SUBSET S, NEW B \in SUBSET S, A \ {x} = B \ {x}
    PROVE  /\ Cardinality(A) \in Nat /\ Cardinality(B) \in Nat
           /\ Cardinality(B) = Cardinality(A) - Bit(x \in A) + Bit(x \in B)
           /\ x \in A => Cardinality(A) >= 1
<1>1. IsFiniteSet(A) /\ IsFiniteSet(B)
  BY FS_Subset
<1>2. /\ IsFiniteSet(A \ {x})
      /\ Cardinality(A \ {x}) = IF x \in A THEN Cardinality(A) - 1 ELSE Cardinality(A)
      /\ Cardinality(B \ {x}) = IF x \in B THEN Cardinality(B) - 1 ELSE Cardinality(B)
  BY <1>1, FS_RemoveElement, Zenon
<1>3. /\ Cardinality(A) \in Nat
      /\ Cardinality(B) \in Nat
      /\ Cardinality(A \ {x}) \in Nat
  BY <1>1, <1>2, FS_CardinalityType
<1>4. Cardinality(A \ {x}) = Cardinality(B \ {x})
  OBVIOUS
<1>6. Cardinality(B) = Cardinality(A) - Bit(x \in A) + Bit(x \in B)
  BY <1>2, <1>3, <1>4 DEF Bit
<1>7. x \in A => Cardinality(A) >= 1
  BY <1>2, <1>3
<1>8. QED
  BY <1>3, <1>6, <1>7

LEMMA CountsAreNat ==
    ASSUME NEW n \in Notification
    PROVE  /\ held(n) \in Nat /\ trying(n) \in Nat /\ spent(n) \in Nat
           /\ \A s \in Scheduler : s \in Holders(n) => held(n) >= 1
           /\ \A w \in Worker : w \in Trying(n) => trying(n) >= 1
           /\ \A w \in Worker : w \in Spent(n) => spent(n) >= 1
<1>1. /\ Holders(n) \in SUBSET Scheduler
      /\ Trying(n) \in SUBSET Worker
      /\ Spent(n) \in SUBSET Worker
  BY DEF Holders, Trying, Spent
<1>2. IsFiniteSet(Holders(n)) /\ IsFiniteSet(Trying(n)) /\ IsFiniteSet(Spent(n))
  BY <1>1, FS_Subset, ProcessAssumption
<1>3. held(n) \in Nat /\ trying(n) \in Nat /\ spent(n) \in Nat
  BY <1>2, FS_CardinalityType DEF held, trying, spent
<1>4. \A s \in Scheduler : s \in Holders(n) => held(n) >= 1
  BY <1>1, ProcessAssumption, DifferInOne DEF held
<1>5. \A w \in Worker : w \in Trying(n) => trying(n) >= 1
  BY <1>1, ProcessAssumption, DifferInOne DEF trying
<1>6. \A w \in Worker : w \in Spent(n) => spent(n) >= 1
  BY <1>1, ProcessAssumption, DifferInOne DEF spent
<1>7. QED
  BY <1>3, <1>4, <1>5, <1>6

\* The same after a step.
LEMMA NextCountsAreNat ==
    ASSUME NEW n \in Notification
    PROVE  held(n)' \in Nat /\ trying(n)' \in Nat /\ spent(n)' \in Nat
<1>1. /\ Holders(n)' \in SUBSET Scheduler
      /\ Trying(n)' \in SUBSET Worker
      /\ Spent(n)' \in SUBSET Worker
  BY DEF Holders, Trying, Spent
<1>2. IsFiniteSet(Holders(n)') /\ IsFiniteSet(Trying(n)') /\ IsFiniteSet(Spent(n)')
  BY <1>1, FS_Subset, ProcessAssumption
<1>3. QED
  BY <1>2, FS_CardinalityType DEF held, trying, spent

\* A step that concerns the worker w alone.
LEMMA WorkerCounts ==
    ASSUME NEW w \in Worker,
           \A v \in Worker \ {w} : cur'[v] = cur[v] /\ pc'[v] = pc[v],
           UNCHANGED todo,
           NEW n \in Notification
    PROVE  /\ held(n)' = held(n)
           /\ trying(n)' = trying(n) - Bit(w \in Trying(n)) + Bit(w \in Trying(n)')
           /\ spent(n)' = spent(n) - Bit(w \in Spent(n)) + Bit(w \in Spent(n)')
<1>1. Holders(n)' = Holders(n)
  BY DEF Holders
<1>2. /\ Trying(n) \in SUBSET Worker /\ Trying(n)' \in SUBSET Worker
      /\ Spent(n) \in SUBSET Worker /\ Spent(n)' \in SUBSET Worker
  BY DEF Trying, Spent
<1>3. /\ Trying(n) \ {w} = Trying(n)' \ {w}
      /\ Spent(n) \ {w} = Spent(n)' \ {w}
  BY DEF Trying, Spent
<1>4. held(n)' = held(n)
  BY <1>1 DEF held
<1>5. trying(n)' = trying(n) - Bit(w \in Trying(n)) + Bit(w \in Trying(n)')
  BY <1>2, <1>3, ProcessAssumption, DifferInOne DEF trying
<1>6. spent(n)' = spent(n) - Bit(w \in Spent(n)) + Bit(w \in Spent(n)')
  BY <1>2, <1>3, ProcessAssumption, DifferInOne DEF spent
<1>7. QED
  BY <1>4, <1>5, <1>6

\* A step that concerns the scheduler s alone.
LEMMA SchedulerCounts ==
    ASSUME NEW s \in Scheduler,
           \A r \in Scheduler \ {s} : todo'[r] = todo[r],
           UNCHANGED workerVars,
           NEW n \in Notification
    PROVE  /\ held(n)' = held(n) - Bit(s \in Holders(n)) + Bit(s \in Holders(n)')
           /\ trying(n)' = trying(n)
           /\ spent(n)' = spent(n)
<1>1. Trying(n)' = Trying(n) /\ Spent(n)' = Spent(n)
  BY DEF Trying, Spent, workerVars
<1>2. Holders(n) \in SUBSET Scheduler /\ Holders(n)' \in SUBSET Scheduler
  BY DEF Holders
<1>3. Holders(n) \ {s} = Holders(n)' \ {s}
  BY DEF Holders
<1>4. trying(n)' = trying(n) /\ spent(n)' = spent(n)
  BY <1>1 DEF trying, spent
<1>5. held(n)' = held(n) - Bit(s \in Holders(n)) + Bit(s \in Holders(n)')
  BY <1>2, <1>3, ProcessAssumption, DifferInOne DEF held
<1>6. QED
  BY <1>4, <1>5

-----------------------------------------------------------------------------
(* Type correctness                                                        *)

LEMMA TypeInit == Init => TypeOK
  BY NoneAssumption DEF Init, TypeOK, Status, WorkerPC

LEMMA TypeNext == TypeOK /\ [Next]_vars => TypeOK'
<1> SUFFICES ASSUME TypeOK, [Next]_vars
             PROVE  TypeOK'
  OBVIOUS
<1> USE DEF TypeOK, Status, Settled, WorkerPC, Unresolved,
            dbVars, schedVars, workerVars, ghostVars
<1>1. ASSUME NEW n \in Notification, BecomeDue(n)
      PROVE  TypeOK'
  BY <1>1 DEF BecomeDue
<1>2. ASSUME NEW s \in Scheduler, ClaimDue(s)
      PROVE  TypeOK'
  BY <1>2, NoneAssumption DEF ClaimDue, Claimable
<1>3. ASSUME NEW s \in Scheduler, NEW n \in Notification, MarkSending(s, n)
      PROVE  TypeOK'
  BY <1>3 DEF MarkSending
<1>4. ASSUME NEW s \in Scheduler, NEW n \in Notification, MarkSendingFails(s, n)
      PROVE  TypeOK'
  BY <1>4, NoneAssumption DEF MarkSendingFails, Lose
<1>5. ASSUME NEW s \in Scheduler, Publish(s)
      PROVE  TypeOK'
  BY <1>5, NoneAssumption DEF Publish, Lose
<1>6. ASSUME NEW s \in Scheduler, SchedulerCrash(s)
      PROVE  TypeOK'
  BY <1>6 DEF SchedulerCrash
<1>7. ASSUME NEW w \in Worker, NEW n \in Notification, Receive(w, n)
      PROVE  TypeOK'
  BY <1>7, NoneAssumption DEF Receive, Take, Goto
<1>8. ASSUME NEW w \in Worker, NEW n \in Notification, LookupFails(w, n)
      PROVE  TypeOK'
  BY <1>8 DEF LookupFails, Take, Lose
<1>9. ASSUME NEW w \in Worker, SendMessage(w)
      PROVE  TypeOK'
  BY <1>9 DEF SendMessage, Goto
<1>10. ASSUME NEW w \in Worker, MarkSent(w)
       PROVE  TypeOK'
  BY <1>10 DEF MarkSent, UpdateStatus, Lose, Goto
<1>11. ASSUME NEW w \in Worker, IncrementRetry(w)
       PROVE  TypeOK'
  BY <1>11 DEF IncrementRetry, Lose, Goto
<1>12. ASSUME NEW w \in Worker, Refetch(w)
       PROVE  TypeOK'
  BY <1>12 DEF Refetch, Lose, Goto
<1>13. ASSUME NEW w \in Worker, Reschedule(w)
       PROVE  TypeOK'
  BY <1>13 DEF Reschedule, UpdateStatus, Lose, Goto
<1>14. ASSUME NEW w \in Worker, MarkFailed(w)
       PROVE  TypeOK'
  BY <1>14 DEF MarkFailed, UpdateStatus, Lose, Goto
<1>15. ASSUME NEW w \in Worker, AnnounceSent(w)
       PROVE  TypeOK'
  BY <1>15 DEF AnnounceSent, Announce, Event, Lose, Goto
<1>16. ASSUME NEW w \in Worker, AnnounceFailed(w)
       PROVE  TypeOK'
  BY <1>16 DEF AnnounceFailed, Announce, Event, Lose, Goto
<1>17. ASSUME NEW w \in Worker, Ack(w)
       PROVE  TypeOK'
  BY <1>17, NoneAssumption DEF Ack, Stop, Goto
<1>18. ASSUME NEW w \in Worker, WorkerCrash(w)
       PROVE  TypeOK'
  BY <1>18, NoneAssumption DEF WorkerCrash, Stop, Goto
<1>18a. ASSUME NEW w \in Worker, ConnectionLost(w)
       PROVE  TypeOK'
  BY <1>18a, NoneAssumption DEF ConnectionLost
<1>18b. ASSUME NEW w \in Worker, CutOffWorkerCrash(w)
       PROVE  TypeOK'
  BY <1>18b, NoneAssumption DEF CutOffWorkerCrash, Stop, Goto
<1>19. CASE UNCHANGED vars
  BY <1>19 DEF vars
<1>20. QED
  BY <1>1, <1>2, <1>3, <1>4, <1>5, <1>6, <1>7, <1>8, <1>9, <1>10, <1>11, <1>12,
     <1>13, <1>14, <1>15, <1>16, <1>17, <1>18, <1>18a, <1>18b, <1>19
  DEF Next, SchedulerStep, WorkerStep

\* Every value the processes reach has its type.
THEOREM TypeCorrect == Spec => []TypeOK
  BY TypeInit, TypeNext, PTL DEF Spec

-----------------------------------------------------------------------------
(* What each step does to the counts of a notification n                   *)

Same(n) == /\ status'[n] = status[n] /\ queue'[n] = queue[n]
           /\ sends'[n] = sends[n] /\ dup'[n] = dup[n]
           /\ retryCount'[n] = retryCount[n]
           /\ held(n)' = held(n) /\ trying(n)' = trying(n) /\ spent(n)' = spent(n)

LEMMA QuietEffect ==
    ASSUME TypeOK, NEW n \in Notification,
           \/ \E m \in Notification : BecomeDue(m)
           \/ \E w \in Worker : AnnounceSent(w) \/ AnnounceFailed(w) \/ Ack(w)
    PROVE  Same(n)
<1>1. CASE \E m \in Notification : BecomeDue(m)
  BY <1>1
  DEF BecomeDue, Same, held, trying, spent, Holders, Trying, Spent,
      schedVars, workerVars, ghostVars
<1>2. ASSUME NEW w \in Worker, AnnounceSent(w) \/ AnnounceFailed(w) \/ Ack(w)
      PROVE  Same(n)
  <2>1. /\ UNCHANGED <<status, retryCount, queue, todo, sends, dup>>
        /\ \A v \in Worker \ {w} : cur'[v] = cur[v] /\ pc'[v] = pc[v]
    BY <1>2
    DEF AnnounceSent, AnnounceFailed, Announce, Ack, Stop, Goto, TypeOK,
        dbVars, schedVars, ghostVars
  <2>2. /\ w \notin Trying(n) \union Spent(n)
        /\ w \notin Trying(n)' \union Spent(n)'
    BY <1>2
    DEF AnnounceSent, AnnounceFailed, Announce, Ack, Stop, Goto, TypeOK,
        Trying, Spent, ChancePC, SpentPC
  <2>3. /\ held(n)' = held(n)
        /\ trying(n)' = trying(n) - Bit(w \in Trying(n)) + Bit(w \in Trying(n)')
        /\ spent(n)' = spent(n) - Bit(w \in Spent(n)) + Bit(w \in Spent(n)')
    BY <2>1, WorkerCounts
  <2>4. QED
    BY <2>1, <2>2, <2>3, CountsAreNat DEF Same, Bit
<1>3. QED
  BY <1>1, <1>2

LEMMA ClaimDueEffect ==
    ASSUME TypeOK, NEW s \in Scheduler, ClaimDue(s), NEW n \in Notification
    PROVE  \/ Same(n)
           \/ /\ status[n] = "scheduled" /\ status'[n] = "sending"
              /\ held(n)' = held(n) + 1
              /\ trying(n)' = trying(n) /\ spent(n)' = spent(n)
              /\ UNCHANGED <<queue, sends, dup, retryCount>>
<1>1. /\ held(n)' = held(n) - Bit(s \in Holders(n)) + Bit(s \in Holders(n)')
      /\ trying(n)' = trying(n) /\ spent(n)' = spent(n)
  BY SchedulerCounts DEF ClaimDue, TypeOK
<1>2. s \notin Holders(n)
  BY DEF ClaimDue, Holders
<1>3. s \in Holders(n)' => status[n] = "scheduled" /\ status'[n] = "sending"
  BY DEF ClaimDue, Holders, TypeOK, Claimable
<1>4. s \notin Holders(n)' => status'[n] = status[n]
  BY DEF ClaimDue, Holders, TypeOK
<1>5. UNCHANGED <<queue, sends, dup, retryCount>>
  BY DEF ClaimDue, ghostVars
<1>6. QED
  BY <1>1, <1>2, <1>3, <1>4, <1>5, CountsAreNat DEF Bit, Same

LEMMA MarkSendingEffect ==
    ASSUME TypeOK, NEW s \in Scheduler, NEW m \in Notification, MarkSending(s, m),
           NEW n \in Notification
    PROVE  /\ n # m => Same(n)
           /\ held(m) >= 1 /\ status'[m] = "sending"
           /\ held(n)' = held(n) /\ trying(n)' = trying(n) /\ spent(n)' = spent(n)
           /\ UNCHANGED <<queue, sends, dup, retryCount>>
<1>1. UNCHANGED <<todo, workerVars, queue, sends, dup, retryCount>>
  BY DEF MarkSending, workerVars, ghostVars
<1>2. /\ held(n)' = held(n) /\ trying(n)' = trying(n) /\ spent(n)' = spent(n)
  BY <1>1 DEF held, trying, spent, Holders, Trying, Spent, workerVars
<1>3. held(m) >= 1
  BY CountsAreNat DEF MarkSending, Holders
<1>4. status'[m] = "sending" /\ (n # m => status'[n] = status[n])
  BY DEF MarkSending, TypeOK
<1>5. QED
  BY <1>1, <1>2, <1>3, <1>4 DEF Same

LEMMA MarkSendingFailsEffect ==
    ASSUME TypeOK, NEW s \in Scheduler, NEW m \in Notification,
           MarkSendingFails(s, m), NEW n \in Notification
    PROVE  /\ n # m => Same(n)
           /\ held(m) >= 1 /\ held(m)' = held(m) - 1
           /\ trying(m)' = trying(m) /\ spent(m)' = spent(m)
           /\ UNCHANGED <<status, queue, sends, dup, retryCount>>
<1>1. /\ UNCHANGED <<workerVars, status, queue, sends, dup, retryCount>>
      /\ \A r \in Scheduler \ {s} : todo'[r] = todo[r]
      /\ todo'[s] = todo[s] \ {m} /\ m \in todo[s]
  BY DEF MarkSendingFails, TypeOK, dbVars
<1>2. \A k \in Notification :
        /\ held(k)' = held(k) - Bit(s \in Holders(k)) + Bit(s \in Holders(k)')
        /\ trying(k)' = trying(k)
        /\ spent(k)' = spent(k)
  BY <1>1, SchedulerCounts
<1>3. /\ s \in Holders(m) /\ s \notin Holders(m)'
      /\ n # m => (s \in Holders(n) <=> s \in Holders(n)')
  BY <1>1 DEF Holders
<1>4. QED
  BY <1>1, <1>2, <1>3, CountsAreNat DEF Bit, Same

LEMMA PublishEffect ==
    ASSUME TypeOK, NEW s \in Scheduler, Publish(s), NEW n \in Notification
    PROVE  /\ marked[s] \in Notification
           /\ n # marked[s] => Same(n)
           /\ n = marked[s] =>
                /\ held(n) >= 1 /\ held(n)' = held(n) - 1
                /\ queue'[n] = queue[n] \/ queue'[n] = queue[n] + 1
                /\ trying(n)' = trying(n) /\ spent(n)' = spent(n)
           /\ UNCHANGED <<status, sends, dup, retryCount>>
<1> DEFINE m == marked[s]
<1>1. /\ UNCHANGED <<workerVars, status, sends, dup, retryCount>>
      /\ \A r \in Scheduler \ {s} : todo'[r] = todo[r]
      /\ todo'[s] = todo[s] \ {m} /\ m \in todo[s] /\ m \in Notification
      /\ n # m => queue'[n] = queue[n]
      /\ n = m => queue'[n] = queue[n] \/ queue'[n] = queue[n] + 1
  BY DEF Publish, TypeOK, dbVars
<1>2. /\ held(n)' = held(n) - Bit(s \in Holders(n)) + Bit(s \in Holders(n)')
      /\ trying(n)' = trying(n)
      /\ spent(n)' = spent(n)
  BY <1>1, SchedulerCounts
<1>3. /\ n = m => s \in Holders(n) /\ s \notin Holders(n)'
      /\ n # m => (s \in Holders(n) <=> s \in Holders(n)')
  BY <1>1 DEF Holders
<1>4. QED
  BY <1>1, <1>2, <1>3, CountsAreNat DEF Bit, Same

LEMMA SchedulerCrashEffect ==
    ASSUME TypeOK, NEW s \in Scheduler, SchedulerCrash(s), NEW n \in Notification
    PROVE  /\ held(n)' \in Nat /\ held(n)' <= held(n)
           /\ trying(n)' = trying(n) /\ spent(n)' = spent(n)
           /\ UNCHANGED <<status, queue, sends, dup, retryCount>>
<1>1. /\ UNCHANGED <<workerVars, status, queue, sends, dup, retryCount>>
      /\ \A r \in Scheduler \ {s} : todo'[r] = todo[r]
      /\ todo'[s] = {}
  BY DEF SchedulerCrash, TypeOK, dbVars
<1>2. /\ held(n)' = held(n) - Bit(s \in Holders(n)) + Bit(s \in Holders(n)')
      /\ trying(n)' = trying(n)
      /\ spent(n)' = spent(n)
  BY <1>1, SchedulerCounts
<1>3. s \notin Holders(n)'
  BY <1>1 DEF Holders
<1>4. QED
  BY <1>1, <1>2, <1>3, CountsAreNat DEF Bit

LEMMA ReceiveEffect ==
    ASSUME TypeOK, NEW w \in Worker, NEW m \in Notification, Receive(w, m),
           NEW n \in Notification
    PROVE  /\ m \in Notification
           /\ n # m => Same(n)
           /\ n = m =>
                /\ queue[n] >= 1 /\ queue'[n] = queue[n] - 1
                /\ held(n)' = held(n) /\ spent(n)' = spent(n)
                /\ trying(n)' = trying(n) + Bit(status[n] = "sending")
           /\ UNCHANGED <<status, sends, dup, retryCount>>
<1>1. /\ m \in Notification
      /\ UNCHANGED <<status, sends, dup, retryCount>> /\ UNCHANGED todo
      /\ \A v \in Worker \ {w} : cur'[v] = cur[v] /\ pc'[v] = pc[v]
  BY DEF Receive, TypeOK, Goto, Take, workerVars, dbVars, schedVars, ghostVars
<1>2. /\ held(n)' = held(n)
      /\ trying(n)' = trying(n) - Bit(w \in Trying(n)) + Bit(w \in Trying(n)')
      /\ spent(n)' = spent(n) - Bit(w \in Spent(n)) + Bit(w \in Spent(n)')
  BY <1>1, WorkerCounts
<1>3. CASE n # m
  <2>1. /\ w \notin Trying(n) \union Spent(n)
        /\ w \notin Trying(n)' \union Spent(n)'
    BY <1>1, <1>3, NoneAssumption
    DEF Receive, TypeOK, Goto, Trying, Spent, ChancePC, SpentPC, Take,
        workerVars, dbVars, schedVars, ghostVars
  <2>2. /\ status'[n] = status[n] /\ queue'[n] = queue[n] /\ sends'[n] = sends[n]
        /\ dup'[n] = dup[n] /\ retryCount'[n] = retryCount[n]
    BY <1>3
    DEF Receive, TypeOK, Goto, Take, workerVars, dbVars, schedVars, ghostVars
  <2>3. QED
    BY <1>1, <1>2, <1>3, <2>1, <2>2, CountsAreNat DEF Same, Bit
<1>4. CASE n = m
  <2>1. /\ w \notin Trying(n) \union Spent(n) \union Spent(n)'
        /\ w \in Trying(n)' <=> status[n] = "sending"
    BY <1>1, <1>4, NoneAssumption, BoundsAssumption
    DEF Receive, TypeOK, Goto, Trying, Spent, ChancePC, SpentPC, Take,
        workerVars, dbVars, schedVars, ghostVars
  <2>2. QED
    BY <1>1, <1>2, <1>4, <2>1, CountsAreNat
    DEF Receive, TypeOK, Goto, Bit, Take, workerVars, dbVars, schedVars,
        ghostVars
<1>5. QED
  BY <1>1, <1>3, <1>4

LEMMA LookupFailsEffect ==
    ASSUME TypeOK, NEW w \in Worker, NEW m \in Notification, LookupFails(w, m),
           NEW n \in Notification
    PROVE  /\ m \in Notification
           /\ n # m => Same(n)
           /\ n = m =>
                /\ queue[n] >= 1 /\ queue'[n] = queue[n] - 1
                /\ held(n)' = held(n) /\ spent(n)' = spent(n)
                /\ trying(n)' = trying(n)
           /\ UNCHANGED <<status, sends, dup, retryCount>>
<1>1. /\ m \in Notification
      /\ UNCHANGED <<status, sends, dup, retryCount>> /\ UNCHANGED todo
      /\ \A v \in Worker \ {w} : cur'[v] = cur[v] /\ pc'[v] = pc[v]
  BY DEF LookupFails, TypeOK, Goto, Take, Lose, workerVars, dbVars, schedVars,
     ghostVars
<1>2. /\ held(n)' = held(n)
      /\ trying(n)' = trying(n) - Bit(w \in Trying(n)) + Bit(w \in Trying(n)')
      /\ spent(n)' = spent(n) - Bit(w \in Spent(n)) + Bit(w \in Spent(n)')
  BY <1>1, WorkerCounts
<1>3. CASE n # m
  <2>1. /\ w \notin Trying(n) \union Spent(n)
        /\ w \notin Trying(n)' \union Spent(n)'
    BY <1>1, <1>3, NoneAssumption
    DEF LookupFails, TypeOK, Goto, Trying, Spent, ChancePC, SpentPC, Take,
        Lose, workerVars, dbVars, schedVars, ghostVars
  <2>2. /\ status'[n] = status[n] /\ queue'[n] = queue[n] /\ sends'[n] = sends[n]
        /\ dup'[n] = dup[n] /\ retryCount'[n] = retryCount[n]
    BY <1>3
    DEF LookupFails, TypeOK, Goto, Take, Lose, workerVars, dbVars, schedVars,
        ghostVars
  <2>3. QED
    BY <1>1, <1>2, <1>3, <2>1, <2>2, CountsAreNat DEF Same, Bit
<1>4. CASE n = m
  <2>1. /\ w \notin Trying(n) \union Spent(n)
        /\ w \notin Trying(n)' \union Spent(n)'
    BY <1>1, <1>4, NoneAssumption, BoundsAssumption
    DEF LookupFails, TypeOK, Goto, Trying, Spent, ChancePC, SpentPC, Take,
        Lose, workerVars, dbVars, schedVars, ghostVars
  <2>2. QED
    BY <1>1, <1>2, <1>4, <2>1, CountsAreNat
    DEF LookupFails, TypeOK, Goto, Bit, Take, Lose, workerVars, dbVars,
        schedVars, ghostVars
<1>5. QED
  BY <1>1, <1>3, <1>4

LEMMA SendMessageEffect ==
    ASSUME TypeOK, NEW w \in Worker, SendMessage(w),
           NEW n \in Notification
    PROVE  /\ cur[w] \in Notification
           /\ n # cur[w] => Same(n)
           /\ n = cur[w] =>
                /\ held(n)' = held(n) /\ spent(n)' = spent(n) /\ trying(n) >= 1
                /\ \/ /\ trying(n)' = trying(n) - 1
                      /\ sends'[n] = sends[n] + 1 /\ dup'[n] = dup[n]
                      /\ pc' = [pc EXCEPT ![w] = "accepted"]
                   \/ /\ trying(n)' = trying(n)
                      /\ sends'[n] = sends[n] /\ dup'[n] = dup[n]
                      /\ pc' = [pc EXCEPT ![w] = "rejected"]
                   \/ /\ trying(n)' = trying(n)
                      /\ sends'[n] = sends[n] + 1 /\ dup'[n] = dup[n] + 1
                      /\ n \in exposed'
                      /\ pc' = [pc EXCEPT ![w] = "rejected"]
           /\ UNCHANGED <<status, queue, retryCount, cur>>
<1> DEFINE m == cur[w]
<1>1. /\ m \in Notification
      /\ UNCHANGED <<status, queue, retryCount, cur>> /\ UNCHANGED todo
      /\ \A v \in Worker \ {w} : cur'[v] = cur[v] /\ pc'[v] = pc[v]
  BY DEF SendMessage, TypeOK, Goto, dbVars, schedVars, ghostVars
<1>2. /\ held(n)' = held(n)
      /\ trying(n)' = trying(n) - Bit(w \in Trying(n)) + Bit(w \in Trying(n)')
      /\ spent(n)' = spent(n) - Bit(w \in Spent(n)) + Bit(w \in Spent(n)')
  BY <1>1, WorkerCounts
<1>3. CASE n # m
  <2>1. /\ w \notin Trying(n) \union Spent(n)
        /\ w \notin Trying(n)' \union Spent(n)'
    BY <1>1, <1>3, NoneAssumption
    DEF SendMessage, TypeOK, Goto, Trying, Spent, ChancePC, SpentPC, dbVars,
        schedVars, ghostVars
  <2>2. /\ status'[n] = status[n] /\ queue'[n] = queue[n] /\ sends'[n] = sends[n]
        /\ dup'[n] = dup[n] /\ retryCount'[n] = retryCount[n]
    BY <1>3 DEF SendMessage, TypeOK, Goto, dbVars, schedVars, ghostVars
  <2>3. QED
    BY <1>1, <1>2, <1>3, <2>1, <2>2, CountsAreNat DEF Same, Bit
<1>4. CASE n = m
  <2>1. /\ w \in Trying(n) /\ w \notin Spent(n) \union Spent(n)'
        /\ w \in Trying(n)' <=> pc'[w] = "rejected"
    BY <1>1, <1>4, NoneAssumption, BoundsAssumption
    DEF SendMessage, TypeOK, Goto, Trying, Spent, ChancePC, SpentPC, dbVars,
        schedVars, ghostVars
  <2>2. QED
    BY <1>1, <1>2, <1>4, <2>1, CountsAreNat
    DEF SendMessage, TypeOK, Goto, Bit, dbVars, schedVars, ghostVars
<1>5. QED
  BY <1>1, <1>3, <1>4

LEMMA MarkSentEffect ==
    ASSUME TypeOK, NEW w \in Worker, MarkSent(w),
           NEW n \in Notification
    PROVE  /\ cur[w] \in Notification
           /\ n # cur[w] => Same(n)
           /\ n = cur[w] =>
                /\ held(n)' = held(n) /\ trying(n)' = trying(n)
                /\ spent(n)' = spent(n)
                /\ status'[n] = status[n] \/ status'[n] = "sent"
           /\ UNCHANGED <<queue, sends, dup, retryCount>>
<1> DEFINE m == cur[w]
<1>1. /\ m \in Notification
      /\ UNCHANGED <<queue, sends, dup, retryCount>> /\ UNCHANGED todo
      /\ \A v \in Worker \ {w} : cur'[v] = cur[v] /\ pc'[v] = pc[v]
  BY DEF MarkSent, TypeOK, Goto, UpdateStatus, Lose, dbVars, schedVars,
     ghostVars
<1>2. /\ held(n)' = held(n)
      /\ trying(n)' = trying(n) - Bit(w \in Trying(n)) + Bit(w \in Trying(n)')
      /\ spent(n)' = spent(n) - Bit(w \in Spent(n)) + Bit(w \in Spent(n)')
  BY <1>1, WorkerCounts
<1>3. CASE n # m
  <2>1. /\ w \notin Trying(n) \union Spent(n)
        /\ w \notin Trying(n)' \union Spent(n)'
    BY <1>1, <1>3, NoneAssumption
    DEF MarkSent, TypeOK, Goto, Trying, Spent, ChancePC, SpentPC,
        UpdateStatus, Lose, dbVars, schedVars, ghostVars
  <2>2. /\ status'[n] = status[n] /\ queue'[n] = queue[n] /\ sends'[n] = sends[n]
        /\ dup'[n] = dup[n] /\ retryCount'[n] = retryCount[n]
    BY <1>3
    DEF MarkSent, TypeOK, Goto, UpdateStatus, Lose, dbVars, schedVars,
        ghostVars
  <2>3. QED
    BY <1>1, <1>2, <1>3, <2>1, <2>2, CountsAreNat DEF Same, Bit
<1>4. CASE n = m
  <2>1. /\ w \notin Trying(n) \union Spent(n)
        /\ w \notin Trying(n)' \union Spent(n)'
    BY <1>1, <1>4, NoneAssumption, BoundsAssumption
    DEF MarkSent, TypeOK, Goto, Trying, Spent, ChancePC, SpentPC,
        UpdateStatus, Lose, dbVars, schedVars, ghostVars
  <2>2. QED
    BY <1>1, <1>2, <1>4, <2>1, CountsAreNat
    DEF MarkSent, TypeOK, Goto, Bit, UpdateStatus, Lose, dbVars, schedVars,
        ghostVars
<1>5. QED
  BY <1>1, <1>3, <1>4

LEMMA IncrementRetryEffect ==
    ASSUME TypeOK, NEW w \in Worker, IncrementRetry(w),
           NEW n \in Notification
    PROVE  /\ cur[w] \in Notification
           /\ n # cur[w] => Same(n)
           /\ n = cur[w] =>
                /\ held(n)' = held(n) /\ trying(n) >= 1
                /\ trying(n)' = trying(n) - 1 /\ spent(n)' = spent(n) + 1
                /\ \/ retryCount'[n] = retryCount[n]
                   \/ retryCount'[n] = retryCount[n] + 1
           /\ UNCHANGED <<status, queue, sends, dup>>
<1> DEFINE m == cur[w]
<1>1. /\ m \in Notification
      /\ UNCHANGED <<status, queue, sends, dup>> /\ UNCHANGED todo
      /\ \A v \in Worker \ {w} : cur'[v] = cur[v] /\ pc'[v] = pc[v]
  BY DEF IncrementRetry, TypeOK, Goto, Lose, dbVars, schedVars, ghostVars
<1>2. /\ held(n)' = held(n)
      /\ trying(n)' = trying(n) - Bit(w \in Trying(n)) + Bit(w \in Trying(n)')
      /\ spent(n)' = spent(n) - Bit(w \in Spent(n)) + Bit(w \in Spent(n)')
  BY <1>1, WorkerCounts
<1>3. CASE n # m
  <2>1. /\ w \notin Trying(n) \union Spent(n)
        /\ w \notin Trying(n)' \union Spent(n)'
    BY <1>1, <1>3, NoneAssumption
    DEF IncrementRetry, TypeOK, Goto, Trying, Spent, ChancePC, SpentPC, Lose,
        dbVars, schedVars, ghostVars
  <2>2. /\ status'[n] = status[n] /\ queue'[n] = queue[n] /\ sends'[n] = sends[n]
        /\ dup'[n] = dup[n] /\ retryCount'[n] = retryCount[n]
    BY <1>3 DEF IncrementRetry, TypeOK, Goto, Lose, dbVars, schedVars, ghostVars
  <2>3. QED
    BY <1>1, <1>2, <1>3, <2>1, <2>2, CountsAreNat DEF Same, Bit
<1>4. CASE n = m
  <2>1. /\ w \in Trying(n) /\ w \notin Spent(n)
        /\ w \notin Trying(n)' /\ w \in Spent(n)'
    BY <1>1, <1>4, NoneAssumption, BoundsAssumption
    DEF IncrementRetry, TypeOK, Goto, Trying, Spent, ChancePC, SpentPC, Lose,
        dbVars, schedVars, ghostVars
  <2>2. QED
    BY <1>1, <1>2, <1>4, <2>1, CountsAreNat
    DEF IncrementRetry, TypeOK, Goto, Bit, Lose, dbVars, schedVars, ghostVars
<1>5. QED
  BY <1>1, <1>3, <1>4

LEMMA RefetchEffect ==
    ASSUME TypeOK, NEW w \in Worker, Refetch(w),
           NEW n \in Notification
    PROVE  /\ cur[w] \in Notification
           /\ n # cur[w] => Same(n)
           /\ n = cur[w] =>
                /\ held(n)' = held(n) /\ spent(n) >= 1
                /\ \/ /\ retryCount[n] < MaxRetries
                      /\ trying(n)' = trying(n) + 1 /\ spent(n)' = spent(n) - 1
                   \/ /\ retryCount[n] >= MaxRetries
                      /\ trying(n)' = trying(n) /\ spent(n)' = spent(n)
                   \/ trying(n)' = trying(n) /\ spent(n)' = spent(n) - 1
           /\ UNCHANGED <<status, queue, sends, dup, retryCount>>
<1> DEFINE m == cur[w]
<1>1. /\ m \in Notification
      /\ UNCHANGED <<status, queue, sends, dup, retryCount>> /\ UNCHANGED todo
      /\ \A v \in Worker \ {w} : cur'[v] = cur[v] /\ pc'[v] = pc[v]
  BY DEF Refetch, TypeOK, Goto, Lose, dbVars, schedVars, ghostVars
<1>2. /\ held(n)' = held(n)
      /\ trying(n)' = trying(n) - Bit(w \in Trying(n)) + Bit(w \in Trying(n)')
      /\ spent(n)' = spent(n) - Bit(w \in Spent(n)) + Bit(w \in Spent(n)')
  BY <1>1, WorkerCounts
<1>3. CASE n # m
  <2>1. /\ w \notin Trying(n) \union Spent(n)
        /\ w \notin Trying(n)' \union Spent(n)'
    BY <1>1, <1>3, NoneAssumption
    DEF Refetch, TypeOK, Goto, Trying, Spent, ChancePC, SpentPC, Lose, dbVars,
        schedVars, ghostVars
  <2>2. /\ status'[n] = status[n] /\ queue'[n] = queue[n] /\ sends'[n] = sends[n]
        /\ dup'[n] = dup[n] /\ retryCount'[n] = retryCount[n]
    BY <1>3 DEF Refetch, TypeOK, Goto, Lose, dbVars, schedVars, ghostVars
  <2>3. QED
    BY <1>1, <1>2, <1>3, <2>1, <2>2, CountsAreNat DEF Same, Bit
<1>4. CASE n = m
  <2>1. /\ w \notin Trying(n) /\ w \in Spent(n)
        /\ \/ /\ retryCount[n] < MaxRetries
              /\ w \in Trying(n)' /\ w \notin Spent(n)'
           \/ /\ retryCount[n] >= MaxRetries
              /\ w \notin Trying(n)' /\ w \in Spent(n)'
           \/ w \notin Trying(n)' /\ w \notin Spent(n)'
    BY <1>1, <1>4, NoneAssumption, BoundsAssumption
    DEF Refetch, TypeOK, Goto, Trying, Spent, ChancePC, SpentPC, Lose, dbVars,
        schedVars, ghostVars
  <2>2. QED
    BY <1>1, <1>2, <1>4, <2>1, CountsAreNat
    DEF Refetch, TypeOK, Goto, Bit, Lose, dbVars, schedVars, ghostVars
<1>5. QED
  BY <1>1, <1>3, <1>4

LEMMA RescheduleEffect ==
    ASSUME TypeOK, NEW w \in Worker, Reschedule(w),
           NEW n \in Notification
    PROVE  /\ cur[w] \in Notification
           /\ n # cur[w] => Same(n)
           /\ n = cur[w] =>
                /\ held(n)' = held(n) /\ spent(n)' = spent(n) /\ trying(n) >= 1
                /\ trying(n)' = trying(n) - 1
                /\ status'[n] = status[n] \/ status'[n] = "scheduled"
           /\ UNCHANGED <<queue, sends, dup, retryCount>>
<1> DEFINE m == cur[w]
<1>1. /\ m \in Notification
      /\ UNCHANGED <<queue, sends, dup, retryCount>> /\ UNCHANGED todo
      /\ \A v \in Worker \ {w} : cur'[v] = cur[v] /\ pc'[v] = pc[v]
  BY DEF Reschedule, TypeOK, Goto, UpdateStatus, Lose, dbVars, schedVars,
     ghostVars
<1>2. /\ held(n)' = held(n)
      /\ trying(n)' = trying(n) - Bit(w \in Trying(n)) + Bit(w \in Trying(n)')
      /\ spent(n)' = spent(n) - Bit(w \in Spent(n)) + Bit(w \in Spent(n)')
  BY <1>1, WorkerCounts
<1>3. CASE n # m
  <2>1. /\ w \notin Trying(n) \union Spent(n)
        /\ w \notin Trying(n)' \union Spent(n)'
    BY <1>1, <1>3, NoneAssumption
    DEF Reschedule, TypeOK, Goto, Trying, Spent, ChancePC, SpentPC,
        UpdateStatus, Lose, dbVars, schedVars, ghostVars
  <2>2. /\ status'[n] = status[n] /\ queue'[n] = queue[n] /\ sends'[n] = sends[n]
        /\ dup'[n] = dup[n] /\ retryCount'[n] = retryCount[n]
    BY <1>3
    DEF Reschedule, TypeOK, Goto, UpdateStatus, Lose, dbVars, schedVars,
        ghostVars
  <2>3. QED
    BY <1>1, <1>2, <1>3, <2>1, <2>2, CountsAreNat DEF Same, Bit
<1>4. CASE n = m
  <2>1. /\ w \in Trying(n) /\ w \notin Trying(n)'
        /\ w \notin Spent(n) \union Spent(n)'
    BY <1>1, <1>4, NoneAssumption, BoundsAssumption
    DEF Reschedule, TypeOK, Goto, Trying, Spent, ChancePC, SpentPC,
        UpdateStatus, Lose, dbVars, schedVars, ghostVars
  <2>2. QED
    BY <1>1, <1>2, <1>4, <2>1, CountsAreNat
    DEF Reschedule, TypeOK, Goto, Bit, UpdateStatus, Lose, dbVars, schedVars,
        ghostVars
<1>5. QED
  BY <1>1, <1>3, <1>4

LEMMA MarkFailedEffect ==
    ASSUME TypeOK, NEW w \in Worker, MarkFailed(w),
           NEW n \in Notification
    PROVE  /\ cur[w] \in Notification
           /\ n # cur[w] => Same(n)
           /\ n = cur[w] =>
                /\ held(n)' = held(n) /\ trying(n)' = trying(n) /\ spent(n) >= 1
                /\ spent(n)' = spent(n) - 1
                /\ status'[n] = status[n] \/ status'[n] = "failed"
           /\ UNCHANGED <<queue, sends, dup, retryCount>>
<1> DEFINE m == cur[w]
<1>1. /\ m \in Notification
      /\ UNCHANGED <<queue, sends, dup, retryCount>> /\ UNCHANGED todo
      /\ \A v \in Worker \ {w} : cur'[v] = cur[v] /\ pc'[v] = pc[v]
  BY DEF MarkFailed, TypeOK, Goto, UpdateStatus, Lose, dbVars, schedVars,
     ghostVars
<1>2. /\ held(n)' = held(n)
      /\ trying(n)' = trying(n) - Bit(w \in Trying(n)) + Bit(w \in Trying(n)')
      /\ spent(n)' = spent(n) - Bit(w \in Spent(n)) + Bit(w \in Spent(n)')
  BY <1>1, WorkerCounts
<1>3. CASE n # m
  <2>1. /\ w \notin Trying(n) \union Spent(n)
        /\ w \notin Trying(n)' \union Spent(n)'
    BY <1>1, <1>3, NoneAssumption
    DEF MarkFailed, TypeOK, Goto, Trying, Spent, ChancePC, SpentPC,
        UpdateStatus, Lose, dbVars, schedVars, ghostVars
  <2>2. /\ status'[n] = status[n] /\ queue'[n] = queue[n] /\ sends'[n] = sends[n]
        /\ dup'[n] = dup[n] /\ retryCount'[n] = retryCount[n]
    BY <1>3
    DEF MarkFailed, TypeOK, Goto, UpdateStatus, Lose, dbVars, schedVars,
        ghostVars
  <2>3. QED
    BY <1>1, <1>2, <1>3, <2>1, <2>2, CountsAreNat DEF Same, Bit
<1>4. CASE n = m
  <2>1. /\ w \in Spent(n) /\ w \notin Spent(n)'
        /\ w \notin Trying(n) \union Trying(n)'
    BY <1>1, <1>4, NoneAssumption, BoundsAssumption
    DEF MarkFailed, TypeOK, Goto, Trying, Spent, ChancePC, SpentPC,
        UpdateStatus, Lose, dbVars, schedVars, ghostVars
  <2>2. QED
    BY <1>1, <1>2, <1>4, <2>1, CountsAreNat
    DEF MarkFailed, TypeOK, Goto, Bit, UpdateStatus, Lose, dbVars, schedVars,
        ghostVars
<1>5. QED
  BY <1>1, <1>3, <1>4

LEMMA ConnectionLostEffect ==
    ASSUME TypeOK, NEW w \in Worker, ConnectionLost(w),
           NEW n \in Notification
    PROVE  /\ cur[w] \in Notification
           /\ n # cur[w] => Same(n)
           /\ n = cur[w] =>
                /\ held(n)' = held(n) /\ trying(n)' = trying(n)
                /\ spent(n)' = spent(n)
                /\ queue'[n] = queue[n] + 1 /\ dup'[n] = dup[n] + 1
           /\ UNCHANGED <<status, sends, retryCount>>
<1>1. /\ cur[w] \in Notification
      /\ UNCHANGED <<status, sends, retryCount, todo, pc, cur>>
      /\ queue' = [queue EXCEPT ![cur[w]] = @ + 1]
      /\ dup' = [dup EXCEPT ![cur[w]] = @ + 1]
  BY DEF ConnectionLost, TypeOK, dbVars, schedVars
<1>2. held(n)' = held(n) /\ trying(n)' = trying(n) /\ spent(n)' = spent(n)
  BY <1>1 DEF held, trying, spent, Holders, Trying, Spent
<1>3. QED
  BY <1>1, <1>2 DEF Same, TypeOK

LEMMA CutOffCrashEffect ==
    ASSUME TypeOK, NEW w \in Worker, CutOffWorkerCrash(w),
           NEW n \in Notification
    PROVE  /\ UNCHANGED <<status, queue, sends, retryCount, dup>>
           /\ held(n)' = held(n)
           /\ \/ /\ trying(n) >= 1 /\ trying(n)' = trying(n) - 1
                 /\ spent(n)' = spent(n)
              \/ /\ spent(n) >= 1 /\ spent(n)' = spent(n) - 1
                 /\ trying(n)' = trying(n)
              \/ trying(n)' = trying(n) /\ spent(n)' = spent(n)
<1>1. /\ UNCHANGED <<status, queue, sends, retryCount, dup>> /\ UNCHANGED todo
      /\ \A v \in Worker \ {w} : cur'[v] = cur[v] /\ pc'[v] = pc[v]
  BY DEF CutOffWorkerCrash, Stop, TypeOK, Goto, dbVars, schedVars, ghostVars
<1>2. /\ held(n)' = held(n)
      /\ trying(n)' = trying(n) - Bit(w \in Trying(n)) + Bit(w \in Trying(n)')
      /\ spent(n)' = spent(n) - Bit(w \in Spent(n)) + Bit(w \in Spent(n)')
  BY <1>1, WorkerCounts
<1>3. /\ ~(w \in Trying(n) /\ w \in Spent(n))
      /\ w \notin Trying(n)' \union Spent(n)'
  BY NoneAssumption
  DEF CutOffWorkerCrash, Stop, TypeOK, Goto, Trying, Spent, ChancePC, SpentPC
<1>4. /\ w \in Trying(n) => trying(n) >= 1
      /\ w \in Spent(n) => spent(n) >= 1
  BY <1>2, <1>3, NextCountsAreNat, CountsAreNat, TypeNext
  DEF Bit, Next
<1>5. QED
  BY <1>1, <1>2, <1>3, <1>4, CountsAreNat DEF Bit

LEMMA WorkerCrashEffect ==
    ASSUME TypeOK, NEW w \in Worker, WorkerCrash(w),
           NEW n \in Notification
    PROVE  /\ cur[w] \in Notification
           /\ n # cur[w] => Same(n)
           /\ n = cur[w] =>
                /\ held(n)' = held(n)
                /\ queue'[n] = queue[n] + 1 /\ dup'[n] = dup[n] + 1
                /\ \/ /\ trying(n) >= 1 /\ trying(n)' = trying(n) - 1
                      /\ spent(n)' = spent(n)
                   \/ /\ spent(n) >= 1 /\ spent(n)' = spent(n) - 1
                      /\ trying(n)' = trying(n)
                   \/ /\ pc[w] \notin ChancePC \union SpentPC
                      /\ trying(n)' = trying(n) /\ spent(n)' = spent(n)
           /\ UNCHANGED <<status, sends, retryCount>>
<1> DEFINE m == cur[w]
<1>1. /\ m \in Notification
      /\ UNCHANGED <<status, sends, retryCount>> /\ UNCHANGED todo
      /\ \A v \in Worker \ {w} : cur'[v] = cur[v] /\ pc'[v] = pc[v]
  BY DEF WorkerCrash, Stop, TypeOK, Goto, dbVars, schedVars, ghostVars
<1>2. /\ held(n)' = held(n)
      /\ trying(n)' = trying(n) - Bit(w \in Trying(n)) + Bit(w \in Trying(n)')
      /\ spent(n)' = spent(n) - Bit(w \in Spent(n)) + Bit(w \in Spent(n)')
  BY <1>1, WorkerCounts
<1>3. CASE n # m
  <2>1. /\ w \notin Trying(n) \union Spent(n)
        /\ w \notin Trying(n)' \union Spent(n)'
    BY <1>1, <1>3, NoneAssumption
    DEF WorkerCrash, Stop, TypeOK, Goto, Trying, Spent, ChancePC, SpentPC, dbVars,
        schedVars, ghostVars
  <2>2. /\ status'[n] = status[n] /\ queue'[n] = queue[n] /\ sends'[n] = sends[n]
        /\ dup'[n] = dup[n] /\ retryCount'[n] = retryCount[n]
    BY <1>3 DEF WorkerCrash, Stop, TypeOK, Goto, dbVars, schedVars, ghostVars
  <2>3. QED
    BY <1>1, <1>2, <1>3, <2>1, <2>2, CountsAreNat DEF Same, Bit
<1>4. CASE n = m
  <2>1. /\ \/ w \in Trying(n) /\ w \notin Spent(n)
           \/ w \notin Trying(n) /\ w \in Spent(n)
           \/ /\ pc[w] \notin ChancePC \union SpentPC
              /\ w \notin Trying(n) \union Spent(n)
        /\ w \notin Trying(n)' \union Spent(n)'
    BY <1>1, <1>4, NoneAssumption, BoundsAssumption
    DEF WorkerCrash, Stop, TypeOK, Goto, Trying, Spent, ChancePC, SpentPC, dbVars,
        schedVars, ghostVars
  <2>2. QED
    BY <1>1, <1>2, <1>4, <2>1, CountsAreNat
    DEF WorkerCrash, Stop, TypeOK, Goto, Bit, dbVars, schedVars, ghostVars
<1>5. QED
  BY <1>1, <1>3, <1>4

-----------------------------------------------------------------------------
(* The budgets                                                             *)

\* No step takes more from the budget of n than it gives back.
LEMMA SendBudgetNext ==
    ASSUME TypeOK, SendBudget, [Next]_vars
    PROVE  SendBudget'
<1> SUFFICES ASSUME NEW n \in Notification
             PROVE  (sends[n] + Chances(n) + spent(n) + Bit(status[n] = "failed") <= 1 + dup[n])'
  BY DEF SendBudget
<1> DEFINE Goal == (sends[n] + Chances(n) + spent(n) + Bit(status[n] = "failed") <= 1 + dup[n])'
<1>a. /\ held(n) \in Nat /\ trying(n) \in Nat /\ spent(n) \in Nat
      /\ status[n] \in Status /\ queue[n] \in Nat /\ sends[n] \in Nat
      /\ dup[n] \in Nat /\ retryCount[n] \in Nat
  BY CountsAreNat DEF TypeOK
<1>b. sends[n] + Chances(n) + spent(n) + Bit(status[n] = "failed") <= 1 + dup[n]
  BY DEF SendBudget
<1> HIDE DEF Goal
<1>1. ASSUME NEW s \in Scheduler, ClaimDue(s)
      PROVE  Goal
  BY <1>1, <1>a, <1>b, ClaimDueEffect DEF Goal, Same, Bit, Chances, Status
<1>2. ASSUME NEW s \in Scheduler, NEW m \in Notification, MarkSending(s, m)
      PROVE  Goal
  BY <1>2, <1>a, <1>b, MarkSendingEffect DEF Goal, Same, Bit, Chances, Status
<1>3. ASSUME NEW s \in Scheduler, NEW m \in Notification, MarkSendingFails(s, m)
      PROVE  Goal
  BY <1>3, <1>a, <1>b, MarkSendingFailsEffect
  DEF Goal, Same, Bit, Chances, Status
<1>4. ASSUME NEW s \in Scheduler, Publish(s)
      PROVE  Goal
  BY <1>4, <1>a, <1>b, PublishEffect DEF Goal, Same, Bit, Chances, Status
<1>5. ASSUME NEW s \in Scheduler, SchedulerCrash(s)
      PROVE  Goal
  BY <1>5, <1>a, <1>b, SchedulerCrashEffect DEF Goal, Same, Bit, Chances, Status
<1>6. ASSUME NEW w \in Worker, NEW m \in Notification, Receive(w, m)
      PROVE  Goal
  BY <1>6, <1>a, <1>b, ReceiveEffect DEF Goal, Same, Bit, Chances, Status
<1>7. ASSUME NEW w \in Worker, NEW m \in Notification, LookupFails(w, m)
      PROVE  Goal
  BY <1>7, <1>a, <1>b, LookupFailsEffect DEF Goal, Same, Bit, Chances, Status
<1>8. ASSUME NEW w \in Worker, SendMessage(w)
      PROVE  Goal
  BY <1>8, <1>a, <1>b, SendMessageEffect DEF Goal, Same, Bit, Chances, Status
<1>9. ASSUME NEW w \in Worker, MarkSent(w)
      PROVE  Goal
  BY <1>9, <1>a, <1>b, MarkSentEffect DEF Goal, Same, Bit, Chances, Status
<1>10. ASSUME NEW w \in Worker, IncrementRetry(w)
       PROVE  Goal
  BY <1>10, <1>a, <1>b, IncrementRetryEffect
  DEF Goal, Same, Bit, Chances, Status
<1>11. ASSUME NEW w \in Worker, Refetch(w)
       PROVE  Goal
  BY <1>11, <1>a, <1>b, RefetchEffect DEF Goal, Same, Bit, Chances, Status
<1>12. ASSUME NEW w \in Worker, Reschedule(w)
       PROVE  Goal
  BY <1>12, <1>a, <1>b, RescheduleEffect DEF Goal, Same, Bit, Chances, Status
<1>13. ASSUME NEW w \in Worker, MarkFailed(w)
       PROVE  Goal
  BY <1>13, <1>a, <1>b, MarkFailedEffect DEF Goal, Same, Bit, Chances, Status
<1>14. ASSUME NEW w \in Worker, WorkerCrash(w)
       PROVE  Goal
  BY <1>14, <1>a, <1>b, WorkerCrashEffect DEF Goal, Same, Bit, Chances, Status
<1>14a. ASSUME NEW w \in Worker, ConnectionLost(w)
       PROVE  Goal
  BY <1>14a, <1>a, <1>b, ConnectionLostEffect
  DEF Goal, Same, Bit, Chances, Status
<1>14b. ASSUME NEW w \in Worker, CutOffWorkerCrash(w)
       PROVE  Goal
  BY <1>14b, <1>a, <1>b, CutOffCrashEffect
  DEF Goal, Bit, Chances, Status
<1>15. ASSUME NEW m \in Notification, BecomeDue(m)
       PROVE  Goal
  BY <1>15, <1>a, <1>b, QuietEffect DEF Goal, Same, Bit, Chances, Status
<1>16. ASSUME NEW w \in Worker, AnnounceSent(w)
       PROVE  Goal
  BY <1>16, <1>a, <1>b, QuietEffect DEF Goal, Same, Bit, Chances, Status
<1>17. ASSUME NEW w \in Worker, AnnounceFailed(w)
       PROVE  Goal
  BY <1>17, <1>a, <1>b, QuietEffect DEF Goal, Same, Bit, Chances, Status
<1>18. ASSUME NEW w \in Worker, Ack(w)
       PROVE  Goal
  BY <1>18, <1>a, <1>b, QuietEffect DEF Goal, Same, Bit, Chances, Status
<1>19. ASSUME UNCHANGED vars
       PROVE  Goal
  BY <1>19, <1>a, <1>b
  DEF Goal, Bit, Chances, held, trying, spent, Holders, Trying, Spent,
      vars, dbVars, schedVars, workerVars, ghostVars
<1>20. Goal
  BY <1>1, <1>2, <1>3, <1>4, <1>5, <1>6, <1>7, <1>8, <1>9, <1>10, <1>11,
     <1>12, <1>13, <1>14, <1>14a, <1>14b,
     <1>15, <1>16, <1>17, <1>18, <1>19
  DEF Next, SchedulerStep, WorkerStep
<1>21. QED
  BY <1>20 DEF Goal

\* Beyond the limit a rejection takes away a chance of n.
LEMMA RetryBudgetNext ==
    ASSUME TypeOK, SendBudget, RetryBudget, [Next]_vars
    PROVE  RetryBudget'
<1> SUFFICES ASSUME NEW n \in Notification
             PROVE  (retryCount[n] >= MaxRetries =>
                       retryCount[n] + Chances(n) <= MaxRetries + dup[n])'
  BY DEF RetryBudget
<1> DEFINE Goal == (retryCount[n] >= MaxRetries =>
                       retryCount[n] + Chances(n) <= MaxRetries + dup[n])'
<1>a. /\ held(n) \in Nat /\ trying(n) \in Nat /\ spent(n) \in Nat
      /\ status[n] \in Status /\ queue[n] \in Nat /\ sends[n] \in Nat
      /\ dup[n] \in Nat /\ retryCount[n] \in Nat
  BY CountsAreNat DEF TypeOK
<1>b. /\ sends[n] + Chances(n) + spent(n) + Bit(status[n] = "failed") <= 1 + dup[n]
      /\ retryCount[n] >= MaxRetries =>
           retryCount[n] + Chances(n) <= MaxRetries + dup[n]
  BY DEF SendBudget, RetryBudget
<1> HIDE DEF Goal
<1>1. ASSUME NEW s \in Scheduler, ClaimDue(s)
      PROVE  Goal
  BY <1>1, <1>a, <1>b, BoundsAssumption, ClaimDueEffect
  DEF Goal, Same, Bit, Chances, Status
<1>2. ASSUME NEW s \in Scheduler, NEW m \in Notification, MarkSending(s, m)
      PROVE  Goal
  BY <1>2, <1>a, <1>b, BoundsAssumption, MarkSendingEffect
  DEF Goal, Same, Bit, Chances, Status
<1>3. ASSUME NEW s \in Scheduler, NEW m \in Notification, MarkSendingFails(s, m)
      PROVE  Goal
  BY <1>3, <1>a, <1>b, BoundsAssumption, MarkSendingFailsEffect
  DEF Goal, Same, Bit, Chances, Status
<1>4. ASSUME NEW s \in Scheduler, Publish(s)
      PROVE  Goal
  BY <1>4, <1>a, <1>b, BoundsAssumption, PublishEffect
  DEF Goal, Same, Bit, Chances, Status
<1>5. ASSUME NEW s \in Scheduler, SchedulerCrash(s)
      PROVE  Goal
  BY <1>5, <1>a, <1>b, BoundsAssumption, SchedulerCrashEffect
  DEF Goal, Same, Bit, Chances, Status
<1>6. ASSUME NEW w \in Worker, NEW m \in Notification, Receive(w, m)
      PROVE  Goal
  BY <1>6, <1>a, <1>b, BoundsAssumption, ReceiveEffect
  DEF Goal, Same, Bit, Chances, Status
<1>7. ASSUME NEW w \in Worker, NEW m \in Notification, LookupFails(w, m)
      PROVE  Goal
  BY <1>7, <1>a, <1>b, BoundsAssumption, LookupFailsEffect
  DEF Goal, Same, Bit, Chances, Status
<1>8. ASSUME NEW w \in Worker, SendMessage(w)
      PROVE  Goal
  BY <1>8, <1>a, <1>b, BoundsAssumption, SendMessageEffect
  DEF Goal, Same, Bit, Chances, Status
<1>9. ASSUME NEW w \in Worker, MarkSent(w)
      PROVE  Goal
  BY <1>9, <1>a, <1>b, BoundsAssumption, MarkSentEffect
  DEF Goal, Same, Bit, Chances, Status
<1>10. ASSUME NEW w \in Worker, IncrementRetry(w)
       PROVE  Goal
  BY <1>10, <1>a, <1>b, BoundsAssumption, IncrementRetryEffect
  DEF Goal, Same, Bit, Chances, Status
<1>11. ASSUME NEW w \in Worker, Refetch(w)
       PROVE  Goal
  BY <1>11, <1>a, <1>b, BoundsAssumption, RefetchEffect
  DEF Goal, Same, Bit, Chances, Status
<1>12. ASSUME NEW w \in Worker, Reschedule(w)
       PROVE  Goal
  BY <1>12, <1>a, <1>b, BoundsAssumption, RescheduleEffect
  DEF Goal, Same, Bit, Chances, Status
<1>13. ASSUME NEW w \in Worker, MarkFailed(w)
       PROVE  Goal
  BY <1>13, <1>a, <1>b, BoundsAssumption, MarkFailedEffect
  DEF Goal, Same, Bit, Chances, Status
<1>14. ASSUME NEW w \in Worker, WorkerCrash(w)
       PROVE  Goal
  BY <1>14, <1>a, <1>b, BoundsAssumption, WorkerCrashEffect
  DEF Goal, Same, Bit, Chances, Status
<1>14a. ASSUME NEW w \in Worker, ConnectionLost(w)
       PROVE  Goal
  BY <1>14a, <1>a, <1>b, BoundsAssumption, ConnectionLostEffect
  DEF Goal, Same, Bit, Chances, Status
<1>14b. ASSUME NEW w \in Worker, CutOffWorkerCrash(w)
       PROVE  Goal
  BY <1>14b, <1>a, <1>b, BoundsAssumption, CutOffCrashEffect
  DEF Goal, Bit, Chances, Status
<1>15. ASSUME NEW m \in Notification, BecomeDue(m)
       PROVE  Goal
  BY <1>15, <1>a, <1>b, BoundsAssumption, QuietEffect
  DEF Goal, Same, Bit, Chances, Status
<1>16. ASSUME NEW w \in Worker, AnnounceSent(w)
       PROVE  Goal
  BY <1>16, <1>a, <1>b, BoundsAssumption, QuietEffect
  DEF Goal, Same, Bit, Chances, Status
<1>17. ASSUME NEW w \in Worker, AnnounceFailed(w)
       PROVE  Goal
  BY <1>17, <1>a, <1>b, BoundsAssumption, QuietEffect
  DEF Goal, Same, Bit, Chances, Status
<1>18. ASSUME NEW w \in Worker, Ack(w)
       PROVE  Goal
  BY <1>18, <1>a, <1>b, BoundsAssumption, QuietEffect
  DEF Goal, Same, Bit, Chances, Status
<1>19. ASSUME UNCHANGED vars
       PROVE  Goal
  BY <1>19, <1>a, <1>b, BoundsAssumption
  DEF Goal, Bit, Chances, held, trying, spent, Holders, Trying, Spent,
      vars, dbVars, schedVars, workerVars, ghostVars
<1>20. Goal
  BY <1>1, <1>2, <1>3, <1>4, <1>5, <1>6, <1>7, <1>8, <1>9, <1>10, <1>11,
     <1>12, <1>13, <1>14, <1>14a, <1>14b,
     <1>15, <1>16, <1>17, <1>18, <1>19
  DEF Next, SchedulerStep, WorkerStep
<1>21. QED
  BY <1>20 DEF Goal

-----------------------------------------------------------------------------
(* What the workers know and what the rows say                             *)

\* A worker only ever learns what is so, and writes only what it has learnt.
LEMMA TruthNext ==
    TypeOK /\ WorkerKnows /\ OutcomesTruthful /\ [Next]_vars
        => WorkerKnows' /\ OutcomesTruthful'
<1> SUFFICES ASSUME TypeOK, WorkerKnows, OutcomesTruthful, [Next]_vars
             PROVE  WorkerKnows' /\ OutcomesTruthful'
  OBVIOUS
<1> USE DEF WorkerKnows, OutcomesTruthful, TypeOK, Status, Settled, WorkerPC, Unresolved,
            dbVars, schedVars, workerVars, ghostVars
<1>1. ASSUME NEW m \in Notification, BecomeDue(m)
      PROVE  WorkerKnows' /\ OutcomesTruthful'
  BY <1>1, NoneAssumption, BoundsAssumption DEF BecomeDue
<1>2. ASSUME NEW s \in Scheduler, ClaimDue(s)
      PROVE  WorkerKnows' /\ OutcomesTruthful'
  BY <1>2, NoneAssumption, BoundsAssumption DEF ClaimDue, Claimable
<1>3. ASSUME NEW s \in Scheduler, NEW m \in Notification, MarkSending(s, m)
      PROVE  WorkerKnows' /\ OutcomesTruthful'
  BY <1>3, NoneAssumption, BoundsAssumption DEF MarkSending
<1>4. ASSUME NEW s \in Scheduler, NEW m \in Notification, MarkSendingFails(s, m)
      PROVE  WorkerKnows' /\ OutcomesTruthful'
  BY <1>4, NoneAssumption, BoundsAssumption DEF MarkSendingFails, Lose
<1>5. ASSUME NEW s \in Scheduler, Publish(s)
      PROVE  WorkerKnows' /\ OutcomesTruthful'
  BY <1>5, NoneAssumption, BoundsAssumption DEF Publish, Lose
<1>6. ASSUME NEW s \in Scheduler, SchedulerCrash(s)
      PROVE  WorkerKnows' /\ OutcomesTruthful'
  BY <1>6, NoneAssumption, BoundsAssumption DEF SchedulerCrash
<1>7. ASSUME NEW w \in Worker, NEW m \in Notification, Receive(w, m)
      PROVE  WorkerKnows' /\ OutcomesTruthful'
  BY <1>7, NoneAssumption, BoundsAssumption DEF Receive, Take, Goto
<1>8. ASSUME NEW w \in Worker, NEW m \in Notification, LookupFails(w, m)
      PROVE  WorkerKnows' /\ OutcomesTruthful'
  BY <1>8, NoneAssumption, BoundsAssumption DEF LookupFails, Take, Lose
<1>9. ASSUME NEW w \in Worker, SendMessage(w)
      PROVE  WorkerKnows' /\ OutcomesTruthful'
  BY <1>9, NoneAssumption, BoundsAssumption DEF SendMessage, Goto
<1>10. ASSUME NEW w \in Worker, MarkSent(w)
       PROVE  WorkerKnows' /\ OutcomesTruthful'
  BY <1>10, NoneAssumption, BoundsAssumption
  DEF MarkSent, UpdateStatus, Lose, Goto
<1>11. ASSUME NEW w \in Worker, IncrementRetry(w)
       PROVE  WorkerKnows' /\ OutcomesTruthful'
  BY <1>11, NoneAssumption, BoundsAssumption DEF IncrementRetry, Lose, Goto
<1>12. ASSUME NEW w \in Worker, Refetch(w)
       PROVE  WorkerKnows' /\ OutcomesTruthful'
  BY <1>12, NoneAssumption, BoundsAssumption DEF Refetch, Lose, Goto
<1>13. ASSUME NEW w \in Worker, Reschedule(w)
       PROVE  WorkerKnows' /\ OutcomesTruthful'
  BY <1>13, NoneAssumption, BoundsAssumption
  DEF Reschedule, UpdateStatus, Lose, Goto
<1>14. ASSUME NEW w \in Worker, MarkFailed(w)
       PROVE  WorkerKnows' /\ OutcomesTruthful'
  BY <1>14, NoneAssumption, BoundsAssumption
  DEF MarkFailed, UpdateStatus, Lose, Goto
<1>15. ASSUME NEW w \in Worker, AnnounceSent(w)
       PROVE  WorkerKnows' /\ OutcomesTruthful'
  BY <1>15, NoneAssumption, BoundsAssumption
  DEF AnnounceSent, Announce, Event, Lose, Goto
<1>16. ASSUME NEW w \in Worker, AnnounceFailed(w)
       PROVE  WorkerKnows' /\ OutcomesTruthful'
  BY <1>16, NoneAssumption, BoundsAssumption
  DEF AnnounceFailed, Announce, Event, Lose, Goto
<1>17. ASSUME NEW w \in Worker, Ack(w)
       PROVE  WorkerKnows' /\ OutcomesTruthful'
  BY <1>17, NoneAssumption, BoundsAssumption DEF Ack, Stop, Goto
<1>18. ASSUME NEW w \in Worker, WorkerCrash(w)
       PROVE  WorkerKnows' /\ OutcomesTruthful'
  BY <1>18, NoneAssumption, BoundsAssumption DEF WorkerCrash, Stop, Goto
<1>18a. ASSUME NEW w \in Worker, ConnectionLost(w)
       PROVE  WorkerKnows' /\ OutcomesTruthful'
  BY <1>18a, NoneAssumption, BoundsAssumption DEF ConnectionLost
<1>18b. ASSUME NEW w \in Worker, CutOffWorkerCrash(w)
       PROVE  WorkerKnows' /\ OutcomesTruthful'
  BY <1>18b, NoneAssumption, BoundsAssumption DEF CutOffWorkerCrash, Stop, Goto
<1>19. ASSUME UNCHANGED vars
       PROVE  WorkerKnows' /\ OutcomesTruthful'
  BY <1>19 DEF vars
<1>20. QED
  BY <1>1, <1>2, <1>3, <1>4, <1>5, <1>6, <1>7, <1>8, <1>9, <1>10, <1>11, <1>12,
     <1>13, <1>14, <1>15, <1>16, <1>17, <1>18, <1>18a, <1>18b, <1>19
  DEF Next, SchedulerStep, WorkerStep

-----------------------------------------------------------------------------
(* The failures that repeat a send                                         *)

LEMMA ExposedGrows == TypeOK /\ [Next]_vars => exposed \subseteq exposed'
<1> SUFFICES ASSUME TypeOK, [Next]_vars
             PROVE  exposed \subseteq exposed'
  OBVIOUS
<1> USE DEF dbVars, schedVars, workerVars, ghostVars
<1>1. ASSUME NEW s \in Scheduler, SchedulerStep(s) \/ SchedulerCrash(s)
      PROVE  exposed \subseteq exposed'
  BY <1>1
  DEF SchedulerStep, ClaimDue, MarkSending, Publish, SchedulerCrash
<1>2. ASSUME NEW w \in Worker,
             \/ WorkerStep(w) \/ WorkerCrash(w)
             \/ ConnectionLost(w) \/ CutOffWorkerCrash(w)
      PROVE  exposed \subseteq exposed'
  BY <1>2
  DEF WorkerStep, Receive, SendMessage, MarkSent, IncrementRetry, Refetch,
      Reschedule, MarkFailed, AnnounceSent, AnnounceFailed, Announce, Ack,
      WorkerCrash, ConnectionLost, CutOffWorkerCrash
<1>3. ASSUME NEW m \in Notification,
             \/ BecomeDue(m)
             \/ \E s \in Scheduler : MarkSendingFails(s, m)
             \/ \E w \in Worker : LookupFails(w, m)
      PROVE  exposed \subseteq exposed'
  BY <1>3 DEF BecomeDue, MarkSendingFails, LookupFails
<1>4. CASE UNCHANGED vars
  BY <1>4 DEF vars
<1>5. QED
  BY <1>1, <1>2, <1>3, <1>4 DEF Next

\* Every way in which a step moves the parties about keeps the window shut.
Moves(st, q, h, t, s, x) ==
    /\ st = "scheduled" => Narrow("sending", q, h + 1, t, s, x)
    /\ q >= 1 => /\ Narrow(st, q - 1, h, t, s, x)
                 /\ st = "sending" => Narrow(st, q - 1, h, t + 1, s, x)
    /\ h >= 1 => /\ st = "sending"
                 /\ Narrow(st, q, h - 1, t, s, x)
                 /\ Narrow(st, q + 1, h - 1, t, s, x)
    /\ t >= 1 => /\ Narrow(st, q, h, t - 1, s, x + 1)
                 /\ Narrow(st, q, h, t - 1, s + 1, x)
                 /\ Narrow(st, q, h, t - 1, s, x)
                 /\ Narrow("scheduled", q, h, t - 1, s, x)
                 /\ Narrow(st, q + 1, h, t - 1, s, x)
    /\ s >= 1 => /\ Narrow(st, q, h, t + 1, s - 1, x)
                 /\ Narrow(st, q, h, t, s - 1, x)
                 /\ Narrow("failed", q, h, t, s - 1, x)
                 /\ Narrow(st, q + 1, h, t, s - 1, x)
    /\ x >= 1 => Narrow("sent", q, h, t, s, x)
    /\ st \in Settled => Narrow(st, q + 1, h, t, s, x)
    /\ \A k \in Nat : k <= h => Narrow(st, q, k, t, s, x)

LEMMA Shut ==
    ASSUME NEW st \in Status, NEW q \in Nat, NEW h \in Nat, NEW t \in Nat,
           NEW s \in Nat, NEW x \in Nat, Narrow(st, q, h, t, s, x)
    PROVE  Moves(st, q, h, t, s, x)
  BY DEF Moves, Narrow, Status, Settled

\* Outside the window n has one responsible party while it is "sending", and
\* that party alone can settle it.
LEMMA WindowNext ==
    ASSUME TypeOK, WorkerKnows, WindowInv, [Next]_vars
    PROVE  WindowInv'
<1> SUFFICES ASSUME NEW n \in Notification, n \notin exposed'
             PROVE  Narrow(status'[n], queue'[n], held(n)', trying(n)', spent(n)', sends'[n])
  BY DEF WindowInv, Window, Narrow
<1> DEFINE Goal == Narrow(status'[n], queue'[n], held(n)', trying(n)', spent(n)', sends'[n])
<1>a. /\ held(n) \in Nat /\ trying(n) \in Nat /\ spent(n) \in Nat
      /\ status[n] \in Status /\ queue[n] \in Nat /\ sends[n] \in Nat
      /\ dup[n] \in Nat /\ retryCount[n] \in Nat
  BY CountsAreNat DEF TypeOK
<1>b. n \notin exposed /\ Window(n)
  BY ExposedGrows DEF WindowInv
<1>c. PICK st \in Status, q \in Nat, h \in Nat, t \in Nat, p \in Nat, x \in Nat :
        /\ st = status[n] /\ q = queue[n] /\ h = held(n)
        /\ t = trying(n) /\ p = spent(n) /\ x = sends[n]
  BY <1>a
<1>d. Narrow(st, q, h, t, p, x) /\ Moves(st, q, h, t, p, x)
  BY <1>b, <1>c, Shut DEF Window
<1> HIDE DEF Goal
<1>1. ASSUME NEW s \in Scheduler, ClaimDue(s)
      PROVE  Goal
  <2>1. \/ Same(n)
        \/ /\ status[n] = "scheduled"
           /\ status'[n] = "sending" /\ queue'[n] = queue[n]
           /\ held(n)' = held(n) + 1 /\ trying(n)' = trying(n)
           /\ spent(n)' = spent(n) /\ sends'[n] = sends[n]
    BY <1>1, ClaimDueEffect
  <2>2. QED
    BY <2>1, <1>c, <1>d DEF Goal, Moves, Same
<1>2. ASSUME NEW s \in Scheduler, NEW m \in Notification, MarkSending(s, m)
      PROVE  Goal
  <2>1. CASE n # m
    BY <1>2, <2>1, <1>c, <1>d, MarkSendingEffect DEF Goal, Same
  <2>2. CASE n = m
    <3>1. /\ held(n) >= 1
          /\ status'[n] = "sending" /\ queue'[n] = queue[n]
          /\ held(n)' = held(n) /\ trying(n)' = trying(n)
          /\ spent(n)' = spent(n) /\ sends'[n] = sends[n]
      BY <1>2, <2>2, <1>a, MarkSendingEffect
    <3>2. QED
      BY <3>1, <1>c, <1>d DEF Goal, Moves
  <2>3. QED
    BY <2>1, <2>2
<1>3. ASSUME NEW s \in Scheduler, NEW m \in Notification, MarkSendingFails(s, m)
      PROVE  Goal
  <2>1. CASE n # m
    BY <1>3, <2>1, <1>c, <1>d, MarkSendingFailsEffect DEF Goal, Same
  <2>2. CASE n = m
    <3>1. /\ held(n) >= 1
          /\ status'[n] = status[n] /\ queue'[n] = queue[n]
          /\ held(n)' = held(n) - 1 /\ trying(n)' = trying(n)
          /\ spent(n)' = spent(n) /\ sends'[n] = sends[n]
      BY <1>3, <2>2, <1>a, MarkSendingFailsEffect
    <3>2. QED
      BY <3>1, <1>c, <1>d DEF Goal, Moves
  <2>3. QED
    BY <2>1, <2>2
<1>4. ASSUME NEW s \in Scheduler, Publish(s)
      PROVE  Goal
  <2>1. CASE n # marked[s]
    BY <1>4, <2>1, <1>c, <1>d, PublishEffect DEF Goal, Same
  <2>2. CASE n = marked[s]
    <3>1. \/ /\ held(n) >= 1
             /\ status'[n] = status[n] /\ queue'[n] = queue[n]
             /\ held(n)' = held(n) - 1 /\ trying(n)' = trying(n)
             /\ spent(n)' = spent(n) /\ sends'[n] = sends[n]
          \/ /\ held(n) >= 1
             /\ status'[n] = status[n] /\ queue'[n] = queue[n] + 1
             /\ held(n)' = held(n) - 1 /\ trying(n)' = trying(n)
             /\ spent(n)' = spent(n) /\ sends'[n] = sends[n]
      BY <1>4, <2>2, <1>a, PublishEffect
    <3>2. QED
      BY <3>1, <1>c, <1>d DEF Goal, Moves
  <2>3. QED
    BY <2>1, <2>2
<1>5. ASSUME NEW s \in Scheduler, SchedulerCrash(s)
      PROVE  Goal
  <2>1. /\ held(n)' \in Nat /\ held(n)' <= held(n)
        /\ status'[n] = status[n] /\ queue'[n] = queue[n]
        /\ held(n)' = held(n)' /\ trying(n)' = trying(n)
        /\ spent(n)' = spent(n) /\ sends'[n] = sends[n]
    BY <1>5, SchedulerCrashEffect
  <2>2. QED
    BY <2>1, <1>c, <1>d DEF Goal, Moves
<1>6. ASSUME NEW w \in Worker, NEW m \in Notification, Receive(w, m)
      PROVE  Goal
  <2>1. CASE n # m
    BY <1>6, <2>1, <1>c, <1>d, ReceiveEffect DEF Goal, Same
  <2>2. CASE n = m
    <3>1. \/ /\ queue[n] >= 1
             /\ status'[n] = status[n] /\ queue'[n] = queue[n] - 1
             /\ held(n)' = held(n) /\ trying(n)' = trying(n)
             /\ spent(n)' = spent(n) /\ sends'[n] = sends[n]
          \/ /\ queue[n] >= 1 /\ status[n] = "sending"
             /\ status'[n] = status[n] /\ queue'[n] = queue[n] - 1
             /\ held(n)' = held(n) /\ trying(n)' = trying(n) + 1
             /\ spent(n)' = spent(n) /\ sends'[n] = sends[n]
      BY <1>6, <2>2, <1>a, ReceiveEffect
      DEF Bit
    <3>2. QED
      BY <3>1, <1>c, <1>d DEF Goal, Moves
  <2>3. QED
    BY <2>1, <2>2
<1>7. ASSUME NEW w \in Worker, NEW m \in Notification, LookupFails(w, m)
      PROVE  Goal
  <2>1. CASE n # m
    BY <1>7, <2>1, <1>c, <1>d, LookupFailsEffect DEF Goal, Same
  <2>2. CASE n = m
    <3>1. /\ queue[n] >= 1
          /\ status'[n] = status[n] /\ queue'[n] = queue[n] - 1
          /\ held(n)' = held(n) /\ trying(n)' = trying(n)
          /\ spent(n)' = spent(n) /\ sends'[n] = sends[n]
      BY <1>7, <2>2, <1>a, LookupFailsEffect
    <3>2. QED
      BY <3>1, <1>c, <1>d DEF Goal, Moves
  <2>3. QED
    BY <2>1, <2>2
<1>8. ASSUME NEW w \in Worker, SendMessage(w)
      PROVE  Goal
  <2>1. CASE n # cur[w]
    BY <1>8, <2>1, <1>c, <1>d, SendMessageEffect DEF Goal, Same
  <2>2. CASE n = cur[w]
    <3>1. \/ /\ trying(n) >= 1
             /\ status'[n] = status[n] /\ queue'[n] = queue[n]
             /\ held(n)' = held(n) /\ trying(n)' = trying(n) - 1
             /\ spent(n)' = spent(n) /\ sends'[n] = sends[n] + 1
          \/ /\ status'[n] = status[n] /\ queue'[n] = queue[n]
             /\ held(n)' = held(n) /\ trying(n)' = trying(n)
             /\ spent(n)' = spent(n) /\ sends'[n] = sends[n]
      BY <1>8, <2>2, <1>a, SendMessageEffect
    <3>2. QED
      BY <3>1, <1>c, <1>d DEF Goal, Moves
  <2>3. QED
    BY <2>1, <2>2
<1>9. ASSUME NEW w \in Worker, MarkSent(w)
      PROVE  Goal
  <2>1. CASE n # cur[w]
    BY <1>9, <2>1, <1>c, <1>d, MarkSentEffect DEF Goal, Same
  <2>2. CASE n = cur[w]
    <3>1. \/ /\ status'[n] = status[n] /\ queue'[n] = queue[n]
             /\ held(n)' = held(n) /\ trying(n)' = trying(n)
             /\ spent(n)' = spent(n) /\ sends'[n] = sends[n]
          \/ /\ sends[n] >= 1
             /\ status'[n] = "sent" /\ queue'[n] = queue[n]
             /\ held(n)' = held(n) /\ trying(n)' = trying(n)
             /\ spent(n)' = spent(n) /\ sends'[n] = sends[n]
      BY <1>9, <2>2, <1>a, MarkSentEffect
      DEF WorkerKnows, MarkSent
    <3>2. QED
      BY <3>1, <1>c, <1>d DEF Goal, Moves
  <2>3. QED
    BY <2>1, <2>2
<1>10. ASSUME NEW w \in Worker, IncrementRetry(w)
       PROVE  Goal
  <2>1. CASE n # cur[w]
    BY <1>10, <2>1, <1>c, <1>d, IncrementRetryEffect DEF Goal, Same
  <2>2. CASE n = cur[w]
    <3>1. /\ trying(n) >= 1
          /\ status'[n] = status[n] /\ queue'[n] = queue[n]
          /\ held(n)' = held(n) /\ trying(n)' = trying(n) - 1
          /\ spent(n)' = spent(n) + 1 /\ sends'[n] = sends[n]
      BY <1>10, <2>2, <1>a, IncrementRetryEffect
    <3>2. QED
      BY <3>1, <1>c, <1>d DEF Goal, Moves
  <2>3. QED
    BY <2>1, <2>2
<1>11. ASSUME NEW w \in Worker, Refetch(w)
       PROVE  Goal
  <2>1. CASE n # cur[w]
    BY <1>11, <2>1, <1>c, <1>d, RefetchEffect DEF Goal, Same
  <2>2. CASE n = cur[w]
    <3>1. \/ /\ spent(n) >= 1
             /\ status'[n] = status[n] /\ queue'[n] = queue[n]
             /\ held(n)' = held(n) /\ trying(n)' = trying(n) + 1
             /\ spent(n)' = spent(n) - 1 /\ sends'[n] = sends[n]
          \/ /\ status'[n] = status[n] /\ queue'[n] = queue[n]
             /\ held(n)' = held(n) /\ trying(n)' = trying(n)
             /\ spent(n)' = spent(n) /\ sends'[n] = sends[n]
          \/ /\ spent(n) >= 1
             /\ status'[n] = status[n] /\ queue'[n] = queue[n]
             /\ held(n)' = held(n) /\ trying(n)' = trying(n)
             /\ spent(n)' = spent(n) - 1 /\ sends'[n] = sends[n]
      BY <1>11, <2>2, <1>a, RefetchEffect
    <3>2. QED
      BY <3>1, <1>c, <1>d DEF Goal, Moves
  <2>3. QED
    BY <2>1, <2>2
<1>12. ASSUME NEW w \in Worker, Reschedule(w)
       PROVE  Goal
  <2>1. CASE n # cur[w]
    BY <1>12, <2>1, <1>c, <1>d, RescheduleEffect DEF Goal, Same
  <2>2. CASE n = cur[w]
    <3>1. \/ /\ trying(n) >= 1
             /\ status'[n] = status[n] /\ queue'[n] = queue[n]
             /\ held(n)' = held(n) /\ trying(n)' = trying(n) - 1
             /\ spent(n)' = spent(n) /\ sends'[n] = sends[n]
          \/ /\ trying(n) >= 1
             /\ status'[n] = "scheduled" /\ queue'[n] = queue[n]
             /\ held(n)' = held(n) /\ trying(n)' = trying(n) - 1
             /\ spent(n)' = spent(n) /\ sends'[n] = sends[n]
      BY <1>12, <2>2, <1>a, RescheduleEffect
    <3>2. QED
      BY <3>1, <1>c, <1>d DEF Goal, Moves
  <2>3. QED
    BY <2>1, <2>2
<1>13. ASSUME NEW w \in Worker, MarkFailed(w)
       PROVE  Goal
  <2>1. CASE n # cur[w]
    BY <1>13, <2>1, <1>c, <1>d, MarkFailedEffect DEF Goal, Same
  <2>2. CASE n = cur[w]
    <3>1. \/ /\ spent(n) >= 1
             /\ status'[n] = status[n] /\ queue'[n] = queue[n]
             /\ held(n)' = held(n) /\ trying(n)' = trying(n)
             /\ spent(n)' = spent(n) - 1 /\ sends'[n] = sends[n]
          \/ /\ spent(n) >= 1
             /\ status'[n] = "failed" /\ queue'[n] = queue[n]
             /\ held(n)' = held(n) /\ trying(n)' = trying(n)
             /\ spent(n)' = spent(n) - 1 /\ sends'[n] = sends[n]
      BY <1>13, <2>2, <1>a, MarkFailedEffect
    <3>2. QED
      BY <3>1, <1>c, <1>d DEF Goal, Moves
  <2>3. QED
    BY <2>1, <2>2
<1>14. ASSUME NEW w \in Worker, WorkerCrash(w)
       PROVE  Goal
  <2>1. CASE n # cur[w]
    BY <1>14, <2>1, <1>c, <1>d, WorkerCrashEffect DEF Goal, Same
  <2>2. CASE n = cur[w]
    <3>1. \/ /\ trying(n) >= 1
             /\ status'[n] = status[n] /\ queue'[n] = queue[n] + 1
             /\ held(n)' = held(n) /\ trying(n)' = trying(n) - 1
             /\ spent(n)' = spent(n) /\ sends'[n] = sends[n]
          \/ /\ spent(n) >= 1
             /\ status'[n] = status[n] /\ queue'[n] = queue[n] + 1
             /\ held(n)' = held(n) /\ trying(n)' = trying(n)
             /\ spent(n)' = spent(n) - 1 /\ sends'[n] = sends[n]
          \/ /\ status[n] \in Settled
             /\ status'[n] = status[n] /\ queue'[n] = queue[n] + 1
             /\ held(n)' = held(n) /\ trying(n)' = trying(n)
             /\ spent(n)' = spent(n) /\ sends'[n] = sends[n]
      BY <1>14, <2>2, <1>a, WorkerCrashEffect
      DEF Bit, WorkerCrash, Unresolved, ChancePC, SpentPC
    <3>2. QED
      BY <3>1, <1>c, <1>d DEF Goal, Moves
  <2>3. QED
    BY <2>1, <2>2
<1>14a. ASSUME NEW w \in Worker, ConnectionLost(w)
       PROVE  Goal
  <2>1. CASE n # cur[w]
    BY <1>14a, <2>1, <1>c, <1>d, ConnectionLostEffect DEF Goal, Same
  <2>2. CASE n = cur[w]
    <3>1. /\ status[n] \in Settled
          /\ status'[n] = status[n] /\ queue'[n] = queue[n] + 1
          /\ held(n)' = held(n) /\ trying(n)' = trying(n)
          /\ spent(n)' = spent(n) /\ sends'[n] = sends[n]
      BY <1>14a, <2>2, ConnectionLostEffect DEF ConnectionLost
    <3>2. QED
      BY <3>1, <1>c, <1>d DEF Goal, Moves
  <2>3. QED
    BY <2>1, <2>2
<1>14b. ASSUME NEW w \in Worker, CutOffWorkerCrash(w)
       PROVE  Goal
  BY <1>14b, <1>c, <1>d, CutOffCrashEffect DEF Goal, Moves
<1>15. ASSUME NEW m \in Notification, BecomeDue(m)
       PROVE  Goal
  BY <1>15, <1>a, <1>b, QuietEffect DEF Goal, Same, Window
<1>16. ASSUME NEW w \in Worker, AnnounceSent(w)
       PROVE  Goal
  BY <1>16, <1>a, <1>b, QuietEffect DEF Goal, Same, Window
<1>17. ASSUME NEW w \in Worker, AnnounceFailed(w)
       PROVE  Goal
  BY <1>17, <1>a, <1>b, QuietEffect DEF Goal, Same, Window
<1>18. ASSUME NEW w \in Worker, Ack(w)
       PROVE  Goal
  BY <1>18, <1>a, <1>b, QuietEffect DEF Goal, Same, Window
<1>19. ASSUME UNCHANGED vars
       PROVE  Goal
  BY <1>19, <1>a, <1>b
  DEF Goal, Window, held, trying, spent, Holders, Trying, Spent,
      vars, dbVars, schedVars, workerVars, ghostVars
<1>20. Goal
  BY <1>1, <1>2, <1>3, <1>4, <1>5, <1>6, <1>7, <1>8, <1>9, <1>10, <1>11,
     <1>12, <1>13, <1>14, <1>14a, <1>14b,
     <1>15, <1>16, <1>17, <1>18, <1>19
  DEF Next, SchedulerStep, WorkerStep
<1>21. QED
  BY <1>20 DEF Goal

-----------------------------------------------------------------------------
(* Who is responsible for a row in "sending"                               *)

\* Whoever gives up responsibility hands it on, settles the row or loses it.
LEMMA StrandedNext ==
    TypeOK /\ NothingStranded /\ [Next]_vars => NothingStranded'
<1> SUFFICES ASSUME TypeOK, NothingStranded, [Next]_vars,
                    NEW n \in Notification, lost'[n] = 0, status'[n] = "sending"
             PROVE  Owned(n)'
  BY DEF NothingStranded
<1> USE DEF NothingStranded, Owned, TypeOK, Status, Settled, WorkerPC, Unresolved,
            dbVars, schedVars, workerVars, ghostVars
<1>1. ASSUME NEW m \in Notification, BecomeDue(m)
      PROVE  Owned(n)'
  BY <1>1, NoneAssumption DEF BecomeDue
<1>2. ASSUME NEW s \in Scheduler, ClaimDue(s)
      PROVE  Owned(n)'
  BY <1>2, NoneAssumption DEF ClaimDue, Claimable
<1>3. ASSUME NEW s \in Scheduler, NEW m \in Notification, MarkSending(s, m)
      PROVE  Owned(n)'
  BY <1>3, NoneAssumption DEF MarkSending
<1>4. ASSUME NEW s \in Scheduler, NEW m \in Notification, MarkSendingFails(s, m)
      PROVE  Owned(n)'
  BY <1>4, NoneAssumption DEF MarkSendingFails, Lose
<1>5. ASSUME NEW s \in Scheduler, Publish(s)
      PROVE  Owned(n)'
  BY <1>5, NoneAssumption DEF Publish, Lose
<1>6. ASSUME NEW s \in Scheduler, SchedulerCrash(s)
      PROVE  Owned(n)'
  BY <1>6, NoneAssumption DEF SchedulerCrash
<1>7. ASSUME NEW w \in Worker, NEW m \in Notification, Receive(w, m)
      PROVE  Owned(n)'
  BY <1>7, NoneAssumption DEF Receive, Take, Goto
<1>8. ASSUME NEW w \in Worker, NEW m \in Notification, LookupFails(w, m)
      PROVE  Owned(n)'
  BY <1>8, NoneAssumption DEF LookupFails, Take, Lose
<1>9. ASSUME NEW w \in Worker, SendMessage(w)
      PROVE  Owned(n)'
  BY <1>9, NoneAssumption DEF SendMessage, Goto
<1>10. ASSUME NEW w \in Worker, MarkSent(w)
       PROVE  Owned(n)'
  BY <1>10, NoneAssumption DEF MarkSent, UpdateStatus, Lose, Goto
<1>11. ASSUME NEW w \in Worker, IncrementRetry(w)
       PROVE  Owned(n)'
  BY <1>11, NoneAssumption DEF IncrementRetry, Lose, Goto
<1>12. ASSUME NEW w \in Worker, Refetch(w)
       PROVE  Owned(n)'
  BY <1>12, NoneAssumption DEF Refetch, Lose, Goto
<1>13. ASSUME NEW w \in Worker, Reschedule(w)
       PROVE  Owned(n)'
  BY <1>13, NoneAssumption DEF Reschedule, UpdateStatus, Lose, Goto
<1>14. ASSUME NEW w \in Worker, MarkFailed(w)
       PROVE  Owned(n)'
  BY <1>14, NoneAssumption DEF MarkFailed, UpdateStatus, Lose, Goto
<1>15. ASSUME NEW w \in Worker, AnnounceSent(w)
       PROVE  Owned(n)'
  BY <1>15, NoneAssumption DEF AnnounceSent, Announce, Event, Lose, Goto
<1>16. ASSUME NEW w \in Worker, AnnounceFailed(w)
       PROVE  Owned(n)'
  BY <1>16, NoneAssumption DEF AnnounceFailed, Announce, Event, Lose, Goto
<1>17. ASSUME NEW w \in Worker, Ack(w)
       PROVE  Owned(n)'
  BY <1>17, NoneAssumption DEF Ack, Stop, Goto
<1>18. ASSUME NEW w \in Worker, WorkerCrash(w)
       PROVE  Owned(n)'
  BY <1>18, NoneAssumption DEF WorkerCrash, Stop, Goto
<1>18a. ASSUME NEW w \in Worker, ConnectionLost(w)
       PROVE  Owned(n)'
  BY <1>18a, NoneAssumption DEF ConnectionLost
<1>18b. ASSUME NEW w \in Worker, CutOffWorkerCrash(w)
       PROVE  Owned(n)'
  BY <1>18b, NoneAssumption DEF CutOffWorkerCrash, Stop, Goto
<1>19. ASSUME UNCHANGED vars
       PROVE  Owned(n)'
  BY <1>19 DEF vars
<1>20. QED
  BY <1>1, <1>2, <1>3, <1>4, <1>5, <1>6, <1>7, <1>8, <1>9, <1>10, <1>11, <1>12,
     <1>13, <1>14, <1>15, <1>16, <1>17, <1>18, <1>18a, <1>18b, <1>19
  DEF Next, SchedulerStep, WorkerStep

-----------------------------------------------------------------------------
(* The theorems                                                            *)

LEMMA NoCounts ==
    ASSUME Init, NEW n \in Notification
    PROVE  held(n) = 0 /\ trying(n) = 0 /\ spent(n) = 0
<1>1. Holders(n) = {} /\ Trying(n) = {} /\ Spent(n) = {}
  BY DEF Init, Holders, Trying, Spent, ChancePC, SpentPC
<1>2. QED
  BY <1>1, FS_EmptySet DEF held, trying, spent

LEMMA InitIInv == Init => IInv
<1> SUFFICES ASSUME Init PROVE IInv
  OBVIOUS
<1>1. TypeOK
  BY TypeInit
<1>2. \A n \in Notification :
        /\ held(n) = 0 /\ trying(n) = 0 /\ spent(n) = 0
        /\ status[n] = "scheduled" /\ queue[n] = 0 /\ sends[n] = 0
        /\ dup[n] = 0 /\ retryCount[n] = 0
  BY NoCounts DEF Init
<1>3. SendBudget
  BY <1>2 DEF SendBudget, Chances, Bit
<1>4. RetryBudget
  BY <1>2, BoundsAssumption DEF RetryBudget
<1>5. WorkerKnows
  BY DEF Init, WorkerKnows
<1>6. OutcomesTruthful
  BY DEF Init, OutcomesTruthful
<1>7. WindowInv
  BY <1>2 DEF WindowInv, Window, Narrow, Settled
<1>8. NothingStranded
  BY DEF Init, NothingStranded
<1>9. QED
  BY <1>1, <1>3, <1>4, <1>5, <1>6, <1>7, <1>8 DEF IInv

\* The conjunction is inductive: each part is preserved by the parts above it.
LEMMA NextIInv == IInv /\ [Next]_vars => IInv'
  BY TypeNext, SendBudgetNext, RetryBudgetNext, TruthNext, WindowNext,
     StrandedNext
  DEF IInv

\* The strengthened invariant holds in every behaviour.
THEOREM Inductive == Spec => []IInv
  BY InitIInv, NextIInv, PTL DEF Spec

\* Every failure that makes n be handled again costs one extra send at most.
THEOREM SendsBounded == Spec => []SendsBoundedByDups
<1>1. IInv => SendsBoundedByDups
  <2> SUFFICES ASSUME IInv, NEW n \in Notification
               PROVE  sends[n] <= 1 + dup[n]
    BY DEF SendsBoundedByDups
  <2>1. sends[n] + Chances(n) + spent(n) + Bit(status[n] = "failed") <= 1 + dup[n]
    BY DEF IInv, SendBudget
  <2>2. /\ held(n) \in Nat /\ trying(n) \in Nat /\ spent(n) \in Nat
        /\ queue[n] \in Nat /\ sends[n] \in Nat /\ dup[n] \in Nat
    BY CountsAreNat DEF IInv, TypeOK
  <2>3. QED
    BY <2>1, <2>2 DEF Chances, Bit
<1>2. QED
  BY Inductive, <1>1, PTL

\* Rejections stay within the limit, but for one per failure.
THEOREM RetriesAreBounded == Spec => []RetriesBounded
<1>1. IInv => RetriesBounded
  <2> SUFFICES ASSUME IInv, NEW n \in Notification
               PROVE  retryCount[n] <= MaxRetries + dup[n]
    BY DEF RetriesBounded
  <2>1. retryCount[n] >= MaxRetries =>
          retryCount[n] + Chances(n) <= MaxRetries + dup[n]
    BY DEF IInv, RetryBudget
  <2>2. /\ held(n) \in Nat /\ trying(n) \in Nat
        /\ queue[n] \in Nat /\ retryCount[n] \in Nat /\ dup[n] \in Nat
    BY CountsAreNat DEF IInv, TypeOK
  <2>3. QED
    BY <2>1, <2>2, BoundsAssumption DEF Chances, Bit
<1>2. QED
  BY Inductive, <1>1, PTL

\* What the row and the result events say is true.
THEOREM OutcomesAreTruthful == Spec => []OutcomesTruthful
<1>1. IInv => OutcomesTruthful
  BY DEF IInv
<1>2. QED
  BY Inductive, <1>1, PTL

\* A failure that exposed does not count does not repeat a send.
THEOREM WindowIsNarrow == Spec => []NoDuplicateOutsideWindow
<1>1. IInv => NoDuplicateOutsideWindow
  BY DEF IInv, WindowInv, Window, Narrow, NoDuplicateOutsideWindow
<1>2. QED
  BY Inductive, <1>1, PTL

\* A row in "sending" always has an owner while no step about it was lost.
THEOREM NeverStranded == Spec => []NothingStranded
<1>1. IInv => NothingStranded
  BY DEF IInv
<1>2. QED
  BY Inductive, <1>1, PTL

-----------------------------------------------------------------------------
(* The protocol implements the contract                                    *)

recorded(st) == IF st \in Settled THEN st ELSE "pending"

\* The state the contract sees is left alone.
LEMMA Stutter ==
    ASSUME UNCHANGED <<sends, retryCount, dup>>,
           \A n \in Notification : recorded(status'[n]) = recorded(status[n])
    PROVE  UNCHANGED Contract!vars
  BY DEF Contract!vars, recorded

\* A step that writes the status of m alone, and leaves the counts alone.
LEMMA StatusStep ==
    ASSUME TypeOK, SendBudget, WorkerKnows, OutcomesTruthful,
           NEW m \in Notification, NEW to \in Status,
           status' = [status EXCEPT ![m] = to],
           UNCHANGED <<sends, retryCount, dup>>,
           to = "sent" => sends[m] > 0,
           to = "failed" => retryCount[m] >= MaxRetries /\ spent(m) >= 1,
           to \in {"scheduled", "sending"} => held(m) + trying(m) >= 1
    PROVE  [Contract!Next]_(Contract!vars)
<1>1. /\ held(m) \in Nat /\ trying(m) \in Nat /\ spent(m) \in Nat
      /\ status[m] \in Status /\ queue[m] \in Nat /\ sends[m] \in Nat
      /\ dup[m] \in Nat /\ retryCount[m] \in Nat
  BY CountsAreNat DEF TypeOK
<1>2. sends[m] + Chances(m) + spent(m) + Bit(status[m] = "failed") <= 1 + dup[m]
  BY DEF SendBudget
<1>3. status[m] = "sent" => sends[m] > 0
  BY DEF OutcomesTruthful
<1>4. /\ \A n \in Notification \ {m} : status'[n] = status[n]
      /\ status'[m] = to
  BY DEF TypeOK
<1>5. CASE recorded(to) = recorded(status[m])
  BY <1>4, <1>5, Stutter
<1>6. CASE recorded(to) # recorded(status[m])
  <2>1. CASE status[m] \notin Settled
    <3>1. Contract!Record(m, to)
      BY <1>4, <1>6, <2>1 DEF Contract!Record, recorded, Status, Settled
    <3>2. QED
      BY <1>6, <2>1, <3>1 DEF Contract!Next, recorded, Settled
  <2>2. CASE status[m] \in Settled
    <3>1. dup[m] > 0
      <4>1. CASE to \in {"scheduled", "sending"}
        BY <1>1, <1>2, <1>3, <2>2, <4>1 DEF Chances, Bit, Settled
      <4>2. CASE to = "sent"
        BY <1>1, <1>2, <1>6, <2>2, <4>2 DEF Chances, Bit, Settled, recorded
      <4>3. CASE to = "failed"
        BY <1>1, <1>2, <1>3, <1>6, <2>2, <4>3
        DEF Chances, Bit, Settled, recorded
      <4>4. QED
        BY <4>1, <4>2, <4>3 DEF Status
    <3>2. CASE to \in Settled
      <4>1. Contract!Record(m, to)
        BY <1>4, <3>1, <3>2 DEF Contract!Record, recorded, Settled
      <4>2. QED
        BY <3>2, <4>1 DEF Contract!Next, Settled
    <3>3. CASE to \notin Settled
      <4>1. Contract!Reopen(m)
        BY <1>4, <3>1, <3>3 DEF Contract!Reopen, recorded, Settled
      <4>2. QED
        BY <4>1 DEF Contract!Next
    <3>4. QED
      BY <3>2, <3>3
  <2>3. QED
    BY <2>1, <2>2
<1>7. QED
  BY <1>5, <1>6

LEMMA ContractInit == Init => Contract!Init
  BY DEF Init, Contract!Init, Settled

LEMMA ContractNext == IInv /\ [Next]_vars => [Contract!Next]_(Contract!vars)
<1> SUFFICES ASSUME IInv, [Next]_vars
             PROVE  [Contract!Next]_(Contract!vars)
  OBVIOUS
<1>a. TypeOK /\ SendBudget /\ RetryBudget /\ WorkerKnows /\ OutcomesTruthful
  BY DEF IInv
<1>b. \A n \in Notification :
        /\ held(n) \in Nat /\ trying(n) \in Nat /\ spent(n) \in Nat
        /\ status[n] \in Status /\ queue[n] \in Nat /\ sends[n] \in Nat
        /\ dup[n] \in Nat /\ retryCount[n] \in Nat
        /\ sends[n] + Chances(n) + spent(n) + Bit(status[n] = "failed") <= 1 + dup[n]
        /\ retryCount[n] >= MaxRetries =>
             retryCount[n] + Chances(n) <= MaxRetries + dup[n]
  BY <1>a, CountsAreNat DEF TypeOK, SendBudget, RetryBudget
<1> DEFINE Goal == [Contract!Next]_(Contract!vars)
<1>c. \A w \in Worker : pc[w] # "idle" => cur[w] \in Notification
  BY <1>a DEF TypeOK
\* Steps the contract does not see.
<1>1. ASSUME UNCHANGED <<status, sends, retryCount, dup>>
      PROVE  Goal
  BY <1>1, Stutter DEF recorded
<1>2. ASSUME NEW s \in Scheduler, ClaimDue(s)
      PROVE  Goal
  <2>1. /\ UNCHANGED <<sends, retryCount, dup>>
        /\ \A n \in Notification :
             \/ status'[n] = status[n]
             \/ status[n] = "scheduled" /\ status'[n] = "sending"
    BY <1>2, <1>a DEF ClaimDue, Claimable, TypeOK, ghostVars
  <2>2. QED
    BY <2>1, Stutter DEF recorded, Settled
\* Writes of the status column.
<1>3. ASSUME NEW s \in Scheduler, NEW m \in Notification, MarkSending(s, m)
      PROVE  Goal
  <2>1. held(m) + trying(m) >= 1
    BY <1>3, <1>a, <1>b, MarkSendingEffect
  <2>2. QED
    BY <1>3, <1>a, <2>1, StatusStep DEF MarkSending, ghostVars, Status
<1>4. ASSUME NEW w \in Worker, MarkSent(w)
      PROVE  Goal
  <2>1. cur[w] \in Notification /\ sends[cur[w]] > 0
    BY <1>4, <1>a, <1>c DEF MarkSent, WorkerKnows
  <2>2. QED
    BY <1>1, <1>4, <1>a, <2>1, StatusStep DEF MarkSent, UpdateStatus, Status
<1>5. ASSUME NEW w \in Worker, Reschedule(w)
      PROVE  Goal
  <2>1. cur[w] \in Notification
    BY <1>5, <1>c DEF Reschedule
  <2>2. held(cur[w]) + trying(cur[w]) >= 1
    BY <1>5, <1>a, <1>b, <2>1, RescheduleEffect
  <2>3. QED
    BY <1>1, <1>5, <1>a, <2>1, <2>2, StatusStep
    DEF Reschedule, UpdateStatus, Status
<1>6. ASSUME NEW w \in Worker, MarkFailed(w)
      PROVE  Goal
  <2>1. cur[w] \in Notification /\ retryCount[cur[w]] >= MaxRetries
    BY <1>6, <1>a, <1>c DEF MarkFailed, WorkerKnows
  <2>2. spent(cur[w]) >= 1
    BY <1>6, <1>a, <2>1, MarkFailedEffect
  <2>3. QED
    BY <1>1, <1>6, <1>a, <2>1, <2>2, StatusStep
    DEF MarkFailed, UpdateStatus, Status
\* The provider's answers and the failures.
<1>7. ASSUME NEW w \in Worker, SendMessage(w)
      PROVE  Goal
  <2> DEFINE n == cur[w]
  <2>0. n \in Notification
    BY <1>7, <1>c DEF SendMessage
  <2>1. n \in Notification /\ trying(n) >= 1
    BY <1>7, <1>a, <2>0, SendMessageEffect
  <2>2. sends[n] <= dup[n]
    BY <1>b, <2>1 DEF Chances, Bit
  <2>3. UNCHANGED <<status, retryCount>>
    BY <1>7 DEF SendMessage, dbVars
  <2>4. CASE sends' = [sends EXCEPT ![n] = @ + 1] /\ UNCHANGED dup
    <3>1. Contract!Accept(n)
      BY <2>2, <2>3, <2>4 DEF Contract!Accept
    <3>2. QED
      BY <2>1, <3>1 DEF Contract!Next
  <2>5. CASE UNCHANGED <<sends, dup>>
    BY <1>1, <2>3, <2>5
  <2>6. CASE /\ sends' = [sends EXCEPT ![n] = @ + 1]
             /\ dup' = [dup EXCEPT ![n] = @ + 1]
    <3>1. Contract!HandleAgain(n)
      BY <2>2, <2>3, <2>6 DEF Contract!HandleAgain
    <3>2. QED
      BY <2>1, <3>1 DEF Contract!Next
  <2>7. QED
    BY <1>7, <2>4, <2>5, <2>6 DEF SendMessage
<1>8. ASSUME NEW w \in Worker, IncrementRetry(w)
      PROVE  Goal
  <2> DEFINE n == cur[w]
  <2>0. n \in Notification
    BY <1>8, <1>c DEF IncrementRetry
  <2>1. n \in Notification /\ trying(n) >= 1
    BY <1>8, <1>a, <2>0, IncrementRetryEffect
  <2>2. retryCount[n] < MaxRetries + dup[n]
    BY <1>b, <2>1, BoundsAssumption DEF Chances, Bit
  <2>3. UNCHANGED <<status, sends, dup>>
    BY <1>8 DEF IncrementRetry
  <2>4. CASE retryCount' = [retryCount EXCEPT ![n] = @ + 1]
    <3>1. Contract!Reject(n)
      BY <2>2, <2>3, <2>4 DEF Contract!Reject
    <3>2. QED
      BY <2>1, <3>1 DEF Contract!Next
  <2>5. CASE UNCHANGED retryCount
    BY <1>1, <2>3, <2>5
  <2>6. QED
    BY <1>8, <2>4, <2>5 DEF IncrementRetry
<1>9. ASSUME NEW w \in Worker, WorkerCrash(w)
      PROVE  Goal
  <2>1. cur[w] \in Notification
    BY <1>9, <1>c DEF WorkerCrash
  <2>2. Contract!HandleAgain(cur[w])
    BY <1>9 DEF WorkerCrash, Contract!HandleAgain, dbVars
  <2>3. QED
    BY <2>1, <2>2 DEF Contract!Next
<1>9a. ASSUME NEW w \in Worker, ConnectionLost(w)
      PROVE  Goal
  <2>1. cur[w] \in Notification
    BY <1>9a, <1>c DEF ConnectionLost
  <2>2. Contract!HandleAgain(cur[w])
    BY <1>9a DEF ConnectionLost, Contract!HandleAgain, dbVars
  <2>3. QED
    BY <2>1, <2>2 DEF Contract!Next
<1>10. ASSUME NEW m \in Notification,
              \/ BecomeDue(m)
              \/ \E s \in Scheduler : MarkSendingFails(s, m)
              \/ \E w \in Worker : Receive(w, m) \/ LookupFails(w, m)
       PROVE  Goal
  BY <1>1, <1>10
  DEF BecomeDue, MarkSendingFails, Receive, LookupFails, dbVars, ghostVars
<1>11. ASSUME NEW s \in Scheduler, Publish(s) \/ SchedulerCrash(s)
       PROVE  Goal
  BY <1>1, <1>11 DEF Publish, SchedulerCrash, dbVars
<1>12. ASSUME NEW w \in Worker,
              \/ Refetch(w) \/ AnnounceSent(w) \/ AnnounceFailed(w)
              \/ Ack(w) \/ CutOffWorkerCrash(w)
       PROVE  Goal
  BY <1>1, <1>12
  DEF Refetch, AnnounceSent, AnnounceFailed, Announce, Ack,
      CutOffWorkerCrash, dbVars, ghostVars
<1>13. ASSUME UNCHANGED vars
       PROVE  Goal
  BY <1>1, <1>13 DEF vars, dbVars, ghostVars
<1> HIDE DEF Goal
<1>14. Goal
  BY <1>2, <1>3, <1>4, <1>5, <1>6, <1>7, <1>8, <1>9, <1>9a, <1>10, <1>11, <1>12, <1>13
  DEF Next, SchedulerStep, WorkerStep
<1>15. QED
  BY <1>14 DEF Goal

\* Every behaviour of the protocol is one the contract allows.
THEOREM Refinement == Spec => ImplementsContract
<1>1. Init => Contract!Init
  BY ContractInit
<1>2. IInv /\ [Next]_vars => [Contract!Next]_(Contract!vars)
  BY ContractNext
<1>3. QED
  BY <1>1, <1>2, Inductive, PTL DEF Spec, ImplementsContract, Contract!Spec

=============================================================================
