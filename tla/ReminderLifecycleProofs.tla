---------------------- MODULE ReminderLifecycleProofs ----------------------
(***************************************************************************)
(* Proofs about ReminderLifecycle for any number of reminders, overlapping *)
(* requests, occurrences and failures.                                     *)
(*                                                                         *)
(* The first invariant, IInv, is about the requests alone: an insert is    *)
(* only ever a first call, an occurrence is marked done only after one was *)
(* listed, a row is updated only by a request that has read a live one,    *)
(* and no other request works on a reminder that is still to be inserted.  *)
(*                                                                         *)
(* The second, Promises, ties requests to tables.  A request is told by    *)
(* its method and the call it makes next: what is left of its calls        *)
(* follows from these.  For every reminder that no request overwrote with  *)
(* an outdated row it says who is to schedule its next occurrence and who  *)
(* is to announce its next run; and, whatever was overwritten, by how much *)
(* the counter may lag behind.                                             *)
(***************************************************************************)
EXTENDS ReminderLifecycle, FiniteSetTheorems, TLAPS

Ordered(calls) ==
    \A i \in 2 .. Len(calls) :
        /\ calls[i] # "insert"
        /\ calls[i] = "markDone" => calls[i - 1] = "list"

WellFormed(x) ==
    /\ x \in RequestState
    /\ Ordered(x.todo)
    /\ x.todo # <<>> =>
         /\ x.target \in Reminder
         /\ x.copy.status \in Live
         /\ x.todo[1] = "markDone" => x.mine \in Occurrence
         /\ x.read.status \notin Live =>
              \A i \in 1 .. Len(x.todo) : x.todo[i] # "update"

\* A reminder about to be inserted is nobody else's business.
InsertsFresh ==
    \A q \in Request :
        req[q].todo # <<>> /\ req[q].todo[1] = "insert" =>
            /\ rem[req[q].target].status = "absent"
            /\ \A p \in Request \ {q} :
                 req[p].todo # <<>> => req[p].target # req[q].target

IInv == /\ TypeOK
        /\ \A q \in Request : WellFormed(req[q])
        /\ InsertsFresh

-----------------------------------------------------------------------------
(* Facts about the calls of a request                                      *)

LEMMA CallsTable ==
    ASSUME NEW method \in Operation
    PROVE  /\ Calls[method] \in Seq(Call) /\ Calls[method] # <<>>
           /\ Ordered(Calls[method])
           /\ Calls[method][1] # "markDone"
           /\ Calls[method][1] = "insert" => method = "create"
           /\ method = "create" =>
                \A i \in 1 .. Len(Calls[method]) : Calls[method][i] # "update"
<1>1. method \in {"create", "edit", "reschedule", "pause", "resume",
                  "complete", "delete"}
  BY DEF Operation, Calls
<1>2. CASE method = "create"
  BY <1>2 DEF Calls, Call, Ordered
<1>3. CASE method = "edit"
  BY <1>3 DEF Calls, Call, Ordered
<1>4. CASE method = "reschedule"
  BY <1>4 DEF Calls, Call, Ordered
<1>5. CASE method = "pause"
  BY <1>5 DEF Calls, Call, Ordered
<1>6. CASE method = "resume"
  BY <1>6 DEF Calls, Call, Ordered
<1>7. CASE method = "complete"
  BY <1>7 DEF Calls, Call, Ordered
<1>8. CASE method = "delete"
  BY <1>8 DEF Calls, Call, Ordered
<1>9. QED
  BY <1>1, <1>2, <1>3, <1>4, <1>5, <1>6, <1>7, <1>8

\* Going on with the rest of its calls leaves a request well formed; one that
\* has just listed needs an occurrence to go on with.
LEMMA RestWellFormed ==
    ASSUME NEW x, WellFormed(x), x.todo # <<>>,
           NEW y \in RequestState, y.todo = Tail(x.todo),
           y.target = x.target, y.read = x.read, y.copy.status \in Live,
           x.todo[1] = "list" => y.mine \in Occurrence
    PROVE  WellFormed(y) /\ (y.todo # <<>> => y.todo[1] # "insert")
<1> DEFINE rest == y.todo
<1>1. x \in RequestState /\ x.todo \in Seq(Call)
  BY DEF WellFormed, RequestState
<1>2. /\ rest \in Seq(Call)
      /\ Len(rest) = Len(x.todo) - 1
      /\ \A i \in 1 .. Len(rest) : rest[i] = x.todo[i + 1]
  BY <1>1
<1> HIDE DEF rest
<1>3. Ordered(rest)
  <2> SUFFICES ASSUME NEW i \in 2 .. Len(rest)
               PROVE  /\ rest[i] # "insert"
                      /\ rest[i] = "markDone" => rest[i - 1] = "list"
    BY DEF Ordered
  <2>1. Len(x.todo) \in Nat /\ i + 1 \in 2 .. Len(x.todo)
    BY <1>1, <1>2
  <2>2. rest[i] = x.todo[i + 1] /\ rest[i - 1] = x.todo[i]
    <3>1. i \in 1 .. Len(rest) /\ i - 1 \in 1 .. Len(rest) /\ (i - 1) + 1 = i
      BY <1>2
    <3>2. rest[i - 1] = x.todo[(i - 1) + 1]
      BY <1>2, <3>1
    <3>3. QED
      BY <1>2, <3>1, <3>2
  <2>3. x.todo[i + 1] # "insert" /\ (x.todo[i + 1] = "markDone" => x.todo[i] = "list")
    BY <2>1 DEF WellFormed, Ordered
  <2>4. QED
    BY <2>2, <2>3
<1>4. rest # <<>> => rest[1] = x.todo[2] /\ 2 \in 2 .. Len(x.todo)
  BY <1>1, <1>2
<1>5. rest # <<>> => rest[1] # "insert"
  BY <1>4 DEF WellFormed, Ordered
<1>6. rest # <<>> /\ rest[1] = "markDone" => y.mine \in Occurrence
  BY <1>4 DEF WellFormed, Ordered
<1>7. x.read.status \notin Live =>
        \A i \in 1 .. Len(rest) : rest[i] # "update"
  BY <1>1, <1>2 DEF WellFormed
<1>8. QED
  BY <1>3, <1>5, <1>6, <1>7 DEF WellFormed, rest

LEMMA NoRequestWellFormed == WellFormed(NoRequest)
<1>1. NoRequest \in RequestState
  BY DEF NoRequest, RequestState, Operation, Calls, Row, NoReminder, Live
<1>2. QED
  BY <1>1 DEF WellFormed, NoRequest, Ordered

-----------------------------------------------------------------------------
(* The requests after a step                                               *)

ReqOK == /\ req \in [Request -> RequestState]
         /\ \A q \in Request : WellFormed(req[q])
         /\ InsertsFresh

\* The request q goes on as x, which concerns the same reminder, and no other
\* reminder changes.
LEMMA GoesOn ==
    ASSUME IInv, NEW q \in Request, req[q].todo # <<>>,
           NEW x, WellFormed(x), req' = [req EXCEPT ![q] = x],
           x.todo # <<>> => x.todo[1] # "insert" /\ x.target = req[q].target,
           \A r \in Reminder \ {req[q].target} : rem'[r] = rem[r]
    PROVE  ReqOK'
<1>1. req \in [Request -> RequestState] /\ x \in RequestState
  BY DEF IInv, TypeOK, WellFormed
<1>2. /\ req' \in [Request -> RequestState]
      /\ req'[q] = x
      /\ \A p \in Request \ {q} : req'[p] = req[p]
  BY <1>1
<1>3. \A p \in Request : WellFormed(req'[p])
  BY <1>2 DEF IInv
<1>4. InsertsFresh'
  <2> SUFFICES ASSUME NEW p \in Request, req'[p].todo # <<>>,
                      req'[p].todo[1] = "insert"
               PROVE  /\ rem'[req'[p].target].status = "absent"
                      /\ \A p2 \in Request \ {p} :
                           req'[p2].todo # <<>> => req'[p2].target # req'[p].target
    BY DEF InsertsFresh
  <2>1. p # q /\ req'[p] = req[p]
    BY <1>2
  <2>2. /\ rem[req[p].target].status = "absent"
        /\ \A p2 \in Request \ {p} :
             req[p2].todo # <<>> => req[p2].target # req[p].target
    BY <2>1 DEF IInv, InsertsFresh
  <2>3. req[p].target # req[q].target
    BY <2>1, <2>2
  <2>4. req[p].target \in Reminder
    BY <2>1 DEF IInv, WellFormed
  <2>5. rem'[req[p].target].status = "absent"
    BY <2>2, <2>3, <2>4
  <2>6. ASSUME NEW p2 \in Request \ {p}, req'[p2].todo # <<>>
        PROVE  req'[p2].target # req[p].target
    BY <1>2, <2>2, <2>3, <2>6
  <2>7. QED
    BY <2>1, <2>5, <2>6
<1>5. QED
  BY <1>2, <1>3, <1>4 DEF ReqOK

\* q ends.
LEMMA Ends ==
    ASSUME IInv, NEW q \in Request, req[q].todo # <<>>,
           NEW now, Advance(q, <<>>, now),
           \A r \in Reminder \ {req[q].target} : rem'[r] = rem[r]
    PROVE  ReqOK'
<1>1. req' = [req EXCEPT ![q] = NoRequest]
  BY DEF Advance
<1>2. NoRequest.todo = <<>>
  BY DEF NoRequest
<1>3. QED
  BY <1>1, <1>2, GoesOn, NoRequestWellFormed

\* q goes on with the rest of its calls, knowing now.
LEMMA GoesToNextCall ==
    ASSUME IInv, NEW q \in Request, req[q].todo # <<>>,
           NEW now \in RequestState,
           now.target = req[q].target, now.read = req[q].read,
           now.copy.status \in Live,
           req[q].todo[1] = "list" => now.mine \in Occurrence,
           Advance(q, Tail(req[q].todo), now),
           \A r \in Reminder \ {req[q].target} : rem'[r] = rem[r]
    PROVE  ReqOK'
<1> DEFINE rest == Tail(req[q].todo)
           y == [now EXCEPT !.todo = rest]
<1>1. CASE rest = <<>>
  BY <1>1, Ends
<1>2. CASE rest # <<>>
  <2>1. WellFormed(req[q]) /\ req[q] \in RequestState /\ rest \in Seq(Call)
    BY DEF IInv, WellFormed, RequestState
  <2>2. /\ y \in RequestState /\ y.todo = rest
        /\ y.target = now.target /\ y.read = now.read
        /\ y.copy = now.copy /\ y.mine = now.mine
    BY <2>1 DEF RequestState
  <2>3. req' = [req EXCEPT ![q] = y]
    BY <1>2 DEF Advance
  <2> HIDE DEF y
  <2>4. WellFormed(y) /\ (y.todo # <<>> => y.todo[1] # "insert")
    BY <2>1, <2>2, RestWellFormed
  <2>5. QED
    BY <2>2, <2>3, <2>4, GoesOn
<1>3. QED
  BY <1>1, <1>2

LEMMA ContinueOK ==
    ASSUME IInv, NEW q \in Request, req[q].todo # <<>>, req[q].todo[1] # "list",
           Continue(q),
           \A r \in Reminder \ {req[q].target} : rem'[r] = rem[r]
    PROVE  ReqOK'
<1>1. req[q] \in RequestState /\ req[q].copy.status \in Live
  BY DEF IInv, WellFormed
<1>2. QED
  BY <1>1, GoesToNextCall DEF Continue

\* A new request finds a live reminder or has the fresh one to itself.
LEMMA BeginOK ==
    ASSUME IInv, NEW q \in Request, NEW r \in Reminder,
           NEW method \in Operation, NEW before \in Row,
           NEW after \in Row, after.status \in Live,
           \/ method = "create" /\ rem[r].status = "absent" /\ ~Busy(r)
           \/ method # "create" /\ Found(r) /\ before = rem[r],
           Begin(q, r, method, before, after)
    PROVE  IInv'
<1> DEFINE x == [todo |-> Calls[method], method |-> method, target |-> r,
                 read |-> before, copy |-> after, mine |-> 0]
<1>1. /\ req \in [Request -> RequestState] /\ rem \in [Reminder -> Row]
      /\ req' = [req EXCEPT ![q] = x]
      /\ UNCHANGED <<tables, ghosts>>
  BY DEF IInv, TypeOK, Begin
<1>2. x \in RequestState
  BY CallsTable DEF RequestState
<1>3. method # "create" => before.status \in Live
  BY <1>1 DEF Found, Row
<1>4. WellFormed(x)
  BY <1>2, <1>3, CallsTable DEF WellFormed
<1>5. /\ req' \in [Request -> RequestState]
      /\ req'[q] = x
      /\ \A p \in Request \ {q} : req'[p] = req[p]
  BY <1>1, <1>2
<1>6. x.todo[1] = "insert" => rem[r].status = "absent" /\ ~Busy(r)
  BY CallsTable
<1>7. \A p \in Request \ {q} :
        req[p].todo # <<>> /\ req[p].todo[1] = "insert" => req[p].target # r
  BY DEF IInv, InsertsFresh, Found, Busy, Idle
<1>8. x.target = r /\ rem' = rem
  BY <1>1 DEF tables
<1> HIDE DEF x
<1>9. InsertsFresh'
  <2> SUFFICES ASSUME NEW p \in Request, req'[p].todo # <<>>,
                      req'[p].todo[1] = "insert"
               PROVE  /\ rem[req'[p].target].status = "absent"
                      /\ \A p2 \in Request \ {p} :
                           req'[p2].todo # <<>> => req'[p2].target # req'[p].target
    BY <1>8 DEF InsertsFresh
  <2>1. CASE p = q
    BY <2>1, <1>5, <1>6, <1>8 DEF Busy, Idle
  <2>2. CASE p # q
    BY <2>2, <1>5, <1>7, <1>8 DEF IInv, InsertsFresh
  <2>3. QED
    BY <2>1, <2>2
<1>10. \A p \in Request : WellFormed(req'[p])
  BY <1>4, <1>5 DEF IInv
<1>11. TypeOK'
  BY <1>1, <1>5 DEF IInv, TypeOK, tables, ghosts
<1>12. QED
  BY <1>9, <1>10, <1>11 DEF IInv

-----------------------------------------------------------------------------
(* Initial states and steps                                                *)

LEMMA InitIInv == Init => IInv
<1> SUFFICES ASSUME Init PROVE IInv
  OBVIOUS
<1>1. \A q \in Request : req[q] = NoRequest
  BY DEF Init
<1>2. \A q \in Request : WellFormed(req[q])
  BY <1>1, NoRequestWellFormed
<1>3. req \in [Request -> RequestState]
  BY NoRequestWellFormed DEF Init, WellFormed
<1>4. InsertsFresh
  BY <1>1 DEF InsertsFresh, NoRequest
<1>5. NoReminder \in Row /\ NoOccurrence \in OccurrenceRow
  BY DEF NoReminder, Row, Live, NoOccurrence, OccurrenceRow
<1>6. TypeOK
  BY <1>3, <1>5, NoneAssumption, BoundsAssumption DEF Init, TypeOK
<1>7. QED
  BY <1>2, <1>4, <1>6 DEF IInv

LEMMA HandleIInv ==
    ASSUME IInv, NEW q \in Request, NEW r \in Reminder, Handle(q, r)
    PROVE  IInv'
<1>1. rem[r] \in Row
  BY DEF IInv, TypeOK
<1>2. Found(r) => rem[r].status \in Live
  BY <1>1 DEF Found, Row
<1>3. CASE CreateReminder(q, r)
  <2>1. PICK recurrence \in Recurrence, next \in Time :
          Begin(q, r, "create", NoReminder,
                [status |-> "active", recurrence |-> recurrence, next |-> next])
    BY <1>3 DEF CreateReminder
  <2> DEFINE row == [status |-> "active", recurrence |-> recurrence, next |-> next]
  <2>2. row \in Row /\ row.status \in Live /\ NoReminder \in Row
    BY RequestAssumption DEF Row, Live, NoReminder
  <2>3. "create" \in Operation
    BY DEF Operation, Calls
  <2> HIDE DEF row
  <2>4. QED
    BY <1>3, <2>1, <2>2, <2>3, BeginOK DEF CreateReminder, row
<1>4. CASE EditReminder(q, r)
  <2>1. "edit" \in Operation
    BY DEF Operation, Calls
  <2>2. QED
    BY <1>1, <1>2, <1>4, <2>1, BeginOK DEF EditReminder
<1>5. CASE RescheduleReminder(q, r)
  <2>1. PICK recurrence \in Recurrence, next \in Time \union {rem[r].next} :
          Begin(q, r, "reschedule", rem[r],
                [rem[r] EXCEPT !.recurrence = recurrence, !.next = next])
    BY <1>5, Zenon DEF RescheduleReminder
  <2> DEFINE row == [rem[r] EXCEPT !.recurrence = recurrence, !.next = next]
  <2>2. rem[r].next \in Nat /\ Found(r)
    BY <1>1, <1>5 DEF Row, RescheduleReminder
  <2>3. row \in Row /\ row.status \in Live
    BY <1>1, <1>2, <2>2, RequestAssumption DEF Row
  <2>4. "reschedule" \in Operation
    BY DEF Operation, Calls
  <2> HIDE DEF row
  <2>5. QED
    BY <1>1, <2>1, <2>2, <2>3, <2>4, BeginOK DEF row
<1>6. CASE PauseReminder(q, r)
  <2> DEFINE row == [rem[r] EXCEPT !.status = "paused"]
  <2>1. row \in Row /\ row.status \in Live
    BY <1>1 DEF Row, Live
  <2>2. "pause" \in Operation
    BY DEF Operation, Calls
  <2> HIDE DEF row
  <2>3. QED
    BY <1>1, <1>6, <2>1, <2>2, BeginOK DEF PauseReminder, row
<1>7. CASE ResumeReminder(q, r)
  <2>1. PICK now \in Time :
          Begin(q, r, "resume", rem[r],
                [rem[r] EXCEPT !.status = "active",
                               !.next = CalculateNextRunAt(rem[r], now)])
    BY <1>7, Zenon DEF ResumeReminder
  <2> DEFINE row == [rem[r] EXCEPT !.status = "active",
                                   !.next = CalculateNextRunAt(rem[r], now)]
  <2>2. CalculateNextRunAt(rem[r], now) \in Nat
    BY <1>1, RequestAssumption DEF CalculateNextRunAt, Row
  <2>3. row \in Row /\ row.status \in Live
    BY <1>1, <2>2 DEF Row, Live
  <2>4. "resume" \in Operation
    BY DEF Operation, Calls
  <2> HIDE DEF row
  <2>5. QED
    BY <1>1, <1>7, <2>1, <2>3, <2>4, BeginOK DEF ResumeReminder, row
<1>8. CASE CompleteOccurrence(q, r)
  <2>1. "complete" \in Operation
    BY DEF Operation, Calls
  <2>2. QED
    BY <1>1, <1>2, <1>8, <2>1, BeginOK DEF CompleteOccurrence
<1>9. CASE DeleteReminder(q, r)
  <2>1. "delete" \in Operation
    BY DEF Operation, Calls
  <2>2. QED
    BY <1>1, <1>2, <1>9, <2>1, BeginOK DEF DeleteReminder
<1>10. QED
  BY <1>3, <1>4, <1>5, <1>6, <1>7, <1>8, <1>9 DEF Handle

\* What q has at hand when it makes the call c.
LEMMA AtCall ==
    ASSUME IInv, NEW q \in Request, NEW c, Makes(q, c)
    PROVE  /\ req[q] \in RequestState /\ req[q].todo # <<>>
           /\ req[q].todo[1] = c
           /\ req[q].target \in Reminder
           /\ req[q].copy \in Row /\ req[q].copy.status \in Live
           /\ req[q].read \in Row /\ req[q].mine \in Nat
           /\ c = "markDone" => req[q].mine \in Occurrence
           /\ c = "update" => req[q].read.status \in Live
           /\ c = "insert" => rem[req[q].target].status = "absent"
<1>1. req[q] \in RequestState /\ req[q].todo # <<>> /\ req[q].todo[1] = c
  BY DEF IInv, WellFormed, Makes, Idle, RequestState
<1>2. 1 \in 1 .. Len(req[q].todo)
  BY <1>1 DEF RequestState
<1>3. QED
  BY <1>1, <1>2 DEF IInv, WellFormed, RequestState, InsertsFresh

LEMMA CallIInv ==
    ASSUME IInv, NEW q \in Request, CallRepository(q)
    PROVE  IInv'
<1> USE DEF IInv, TypeOK, ReqOK
<1>1. CASE Insert(q)
  BY <1>1, AtCall, ContinueOK DEF Insert, ghosts
<1>2. CASE Increment(q)
  BY <1>2, AtCall, ContinueOK DEF Increment, ghosts
<1>3. CASE Update(q)
  BY <1>3, AtCall, ContinueOK, BoundsAssumption DEF Update, NoteStaleness, NoteLateWrite
<1>4. CASE List(q)
  <2> DEFINE found == ScheduledOf(req[q].target)
  <2>1. Makes(q, "list") /\ UNCHANGED <<tables, ghosts>>
    BY <1>4 DEF List
  <2>2. CASE Advance(q, <<>>, req[q])
    BY <2>1, <2>2, AtCall, Ends DEF tables, ghosts
  <2>3. ASSUME NEW i \in found,
               Advance(q, Tail(req[q].todo), [req[q] EXCEPT !.mine = i])
        PROVE  IInv'
    <3> DEFINE now == [req[q] EXCEPT !.mine = i]
    <3>1. i \in Occurrence /\ i \in Nat
      BY BoundsAssumption DEF ScheduledOf, Occurrence
    <3>2. /\ now \in RequestState /\ now.mine = i
          /\ now.target = req[q].target /\ now.read = req[q].read
          /\ now.copy = req[q].copy
      BY <2>1, <3>1, AtCall DEF RequestState
    <3>3. Advance(q, Tail(req[q].todo), now)
      BY <2>3
    <3> HIDE DEF now
    <3>4. ReqOK'
      BY <2>1, <3>1, <3>2, <3>3, AtCall, GoesToNextCall DEF tables
    <3>5. QED
      BY <2>1, <3>4 DEF tables, ghosts
  <2>4. QED
    BY <1>4, <2>2, <2>3, Zenon DEF List
<1>5. CASE MarkDone(q)
  <2> DEFINE i == req[q].mine
             next == CalculateNextRunAt(req[q].copy, occ[i].at)
             now == [req[q] EXCEPT !.copy.next = next]
  <2>1. /\ Makes(q, "markDone") /\ NoteStaleness(q)
        /\ occ' = [occ EXCEPT ![i].status = "done"]
        /\ UNCHANGED <<rem, notif, count, usage, slips, missed, failures>>
    BY <1>5 DEF MarkDone
  <2>2. i \in Occurrence /\ occ[i] \in OccurrenceRow /\ req[q].copy \in Row
    BY <2>1, AtCall
  <2>3. next \in Nat
    BY <2>2 DEF CalculateNextRunAt, OccurrenceRow, Row
  <2>4. /\ now \in RequestState /\ now.mine = i
        /\ now.target = req[q].target /\ now.read = req[q].read
        /\ now.copy.status = req[q].copy.status
    <3> DEFINE row == [req[q].copy EXCEPT !.next = next]
    <3>1. row \in Row /\ row.status = req[q].copy.status
      BY <2>2, <2>3 DEF Row
    <3>2. now = [req[q] EXCEPT !.copy = row]
      BY <2>1, AtCall DEF RequestState
    <3>3. req[q] \in RequestState
      BY <2>1, AtCall
    <3> HIDE DEF row
    <3>4. QED
      BY <3>1, <3>2, <3>3 DEF RequestState
  <2>5. occ' \in [Occurrence -> OccurrenceRow]
    BY <2>1, <2>2 DEF OccurrenceRow
  <2>6. stale' \subseteq Reminder
    BY <2>1, AtCall DEF NoteStaleness
  <2>7. \/ Advance(q, Tail(req[q].todo), now)
        \/ Advance(q, <<>>, req[q])
    BY <1>5, Zenon DEF MarkDone
  <2> HIDE DEF now, i
  <2>8. ReqOK'
    BY <2>1, <2>4, <2>7, AtCall, GoesToNextCall, Ends
  <2>9. QED
    BY <2>1, <2>5, <2>6, <2>8
<1>6. CASE CreateOccurrence(q)
  <2> DEFINE now == [req[q] EXCEPT !.mine = count + 1]
             row == [reminder |-> req[q].target, at |-> ScheduledAt(q),
                     status |-> "scheduled"]
  <2>1. /\ Makes(q, "createOccurrence")
        /\ count' = count + 1 /\ occ' = [occ EXCEPT ![count + 1] = row]
        /\ Advance(q, Tail(req[q].todo), now)
        /\ UNCHANGED <<rem, notif, usage, ghosts>>
    BY <1>6 DEF CreateOccurrence
  <2>2. row \in OccurrenceRow
    BY <2>1, AtCall DEF OccurrenceRow, ScheduledAt, Row
  <2>3. /\ now \in RequestState
        /\ now.target = req[q].target /\ now.read = req[q].read
        /\ now.copy = req[q].copy
    <3>1. req[q] \in RequestState /\ count + 1 \in Nat
      BY <2>1, AtCall
    <3>2. QED
      BY <3>1 DEF RequestState
  <2> HIDE DEF now, row
  <2>4. ReqOK'
    BY <2>1, <2>3, AtCall, GoesToNextCall
  <2>5. QED
    <3>1. occ \in [Occurrence -> OccurrenceRow] /\ count \in Nat
      OBVIOUS
    <3>2. \A i : [occ EXCEPT ![i] = row] \in [Occurrence -> OccurrenceRow]
      BY <2>2, <3>1, Zenon
    <3>3. occ' \in [Occurrence -> OccurrenceRow]
      BY <2>1, <3>2, Zenon
    <3>4. count' \in Nat
      BY <2>1, <3>1
    <3>5. QED
      BY <2>1, <2>4, <3>3, <3>4 DEF ghosts
<1>7. CASE CreateNotification(q)
  <2>1. notif' \in [Occurrence -> {"absent", "scheduled", "canceled"}]
    BY <1>7 DEF CreateNotification
  <2>2. ReqOK'
    BY <1>7, AtCall, ContinueOK DEF CreateNotification
  <2>3. QED
    BY <1>7, <2>1, <2>2 DEF CreateNotification, ghosts
<1>8. CASE CancelPending(q)
  BY <1>8, AtCall, ContinueOK DEF CancelPending, ghosts
<1>9. CASE SoftDelete(q)
  <2>1. rem' = [rem EXCEPT ![req[q].target].status = "archived"]
    BY <1>9 DEF SoftDelete
  <2>2. rem' \in [Reminder -> Row]
    BY <2>1 DEF Row
  <2>3. ReqOK'
    BY <1>9, <2>1, AtCall, ContinueOK DEF SoftDelete
  <2>4. slips' \in 0 .. MaxSlips
    BY <1>9, BoundsAssumption DEF SoftDelete, NoteLateWrite
  <2>5. QED
    BY <1>9, <2>2, <2>3, <2>4, AtCall DEF SoftDelete, NoteStaleness
<1>10. CASE Decrement(q)
  BY <1>10, AtCall, ContinueOK DEF Decrement, Decremented, ghosts
<1>11. QED
  BY <1>1, <1>2, <1>3, <1>4, <1>5, <1>6, <1>7, <1>8, <1>9, <1>10
  DEF CallRepository

LEMMA FailureIInv ==
    ASSUME IInv, NEW q \in Request, CallFails(q)
    PROVE  IInv'
<1> DEFINE calls == req[q].todo
<1>1. /\ calls # <<>> /\ failures < MaxFailures /\ failures' = failures + 1
      /\ UNCHANGED <<tables, stale, slips>>
  BY DEF CallFails, Idle
<1>2. Makes(q, Head(calls))
  BY <1>1 DEF Makes, Idle
<1>3. /\ req[q].target \in Reminder /\ calls \in Seq(Call)
      /\ calls[1] = Head(calls)
  BY <1>1, <1>2, AtCall DEF RequestState
<1>4. failures' \in 0 .. MaxFailures
  BY <1>1, BoundsAssumption DEF IInv, TypeOK
<1>5. rem' = rem
  BY <1>1 DEF tables
<1>6. CASE /\ Head(calls) \in Ignored(req[q].method)
           /\ Continue(q)
           /\ missed' = missed \union {<<req[q].target, Head(calls)>>}
  <2>1. Head(calls) # "list"
    BY <1>6 DEF Ignored
  <2>2. ReqOK'
    BY <1>1, <1>3, <1>5, <1>6, <2>1, ContinueOK
  <2>3. Head(calls) \in Call
    BY <1>1, <1>3
  <2>4. missed' \subseteq (Reminder \union {None}) \X Call
    BY <1>3, <1>6, <2>3 DEF IInv, TypeOK
  <2>5. QED
    BY <1>1, <1>4, <2>2, <2>4 DEF IInv, TypeOK, ReqOK, tables
<1>7. CASE /\ Advance(q, <<>>, req[q])
           /\ missed' = missed \union Missed(q, CallsIn(calls))
  <2>1. ReqOK'
    BY <1>1, <1>5, <1>7, Ends
  <2>2. CallsIn(calls) \subseteq Call
    BY <1>3 DEF CallsIn
  <2>3. missed' \subseteq (Reminder \union {None}) \X Call
    BY <1>3, <1>7, <2>2 DEF IInv, TypeOK, Missed
  <2>4. QED
    BY <1>1, <1>4, <2>1, <2>3 DEF IInv, TypeOK, ReqOK, tables
<1>8. QED
  BY <1>6, <1>7 DEF CallFails

LEMMA CrashIInv == IInv /\ Crash => IInv'
<1> SUFFICES ASSUME IInv, Crash PROVE IInv'
  OBVIOUS
<1>1. \A q \in Request : Missed(q, CallsIn(req[q].todo)) \subseteq (Reminder \union {None}) \X Call
  <2> SUFFICES ASSUME NEW q \in Request
               PROVE  Missed(q, CallsIn(req[q].todo)) \subseteq (Reminder \union {None}) \X Call
    OBVIOUS
  <2>1. req[q].todo \in Seq(Call) /\ req[q].target \in Reminder \union {None}
    BY DEF IInv, WellFormed, RequestState
  <2>2. CallsIn(req[q].todo) \subseteq Call
    BY <2>1 DEF CallsIn
  <2>3. QED
    BY <2>1, <2>2 DEF Missed
<1>2. missed' \subseteq (Reminder \union {None}) \X Call
  BY <1>1 DEF Crash, IInv, TypeOK
<1>3. failures' \in 0 .. MaxFailures
  BY BoundsAssumption DEF Crash, IInv, TypeOK
<1>4. /\ req' \in [Request -> RequestState]
      /\ \A q \in Request : req'[q] = NoRequest
  BY NoRequestWellFormed DEF Crash, WellFormed
<1>5. /\ \A q \in Request : WellFormed(req'[q])
      /\ InsertsFresh'
  BY <1>4, NoRequestWellFormed DEF InsertsFresh, NoRequest
<1>6. QED
  BY <1>2, <1>3, <1>4, <1>5 DEF Crash, IInv, TypeOK, tables

LEMMA NextIInv == IInv /\ [Next]_vars => IInv'
<1> SUFFICES ASSUME IInv, [Next]_vars PROVE IInv'
  OBVIOUS
<1>1. CASE UNCHANGED vars
  BY <1>1 DEF vars, tables, ghosts, IInv, TypeOK, InsertsFresh
<1>2. CASE Next
  BY <1>2, HandleIInv, CallIInv, FailureIInv, CrashIInv DEF Next
<1>3. QED
  BY <1>1, <1>2

-----------------------------------------------------------------------------
(* Theorems                                                                *)

\* The strengthened invariant holds in every behaviour.
THEOREM Inductive == Spec => []IInv
<1>1. QED
  BY InitIInv, NextIInv, PTL DEF Spec

\* Every variable keeps its type: in particular the usage counter stays a
\* natural number in whatever order increments and decrements arrive.
THEOREM TypeCorrect == Spec => []TypeOK
<1>1. IInv => TypeOK
  BY DEF IInv
<1>2. QED
  BY Inductive, <1>1, PTL

LEMMA StepRevives ==
    ASSUME IInv, Next, NEW r \in Reminder,
           rem[r].status = "archived", rem'[r].status # "archived"
    PROVE  \E q \in Request : req[q].target = r /\ req[q].read.status \in Live
<1>1. ASSUME NEW q \in Request, CallRepository(q)
      PROVE  req[q].target = r /\ req[q].read.status \in Live
  <2>1. rem \in [Reminder -> Row]
    BY DEF IInv, TypeOK
  <2>2. CASE Insert(q)
    BY <2>1, <2>2, AtCall DEF Insert
  <2>3. CASE Update(q)
    BY <2>1, <2>3, AtCall DEF Update
  <2>4. CASE SoftDelete(q)
    BY <2>1, <2>4, AtCall DEF SoftDelete, Row
  <2>5. CASE UNCHANGED rem
    BY <2>5
  <2>6. QED
    BY <1>1, <2>2, <2>3, <2>4, <2>5
    DEF CallRepository, Increment, List, MarkDone, CreateOccurrence,
        CreateNotification, CancelPending, Decrement, tables
<1>2. ASSUME NEW q \in Request, NEW s \in Reminder, Handle(q, s)
      PROVE  UNCHANGED rem
  <2>1. ASSUME NEW method, NEW before, NEW after, Begin(q, s, method, before, after)
        PROVE  UNCHANGED rem
    BY <2>1 DEF Begin, tables
  <2>2. CASE CreateReminder(q, s)
    BY <2>1, <2>2, Zenon DEF CreateReminder
  <2>3. CASE RescheduleReminder(q, s)
    BY <2>1, <2>3, Zenon DEF RescheduleReminder
  <2>4. CASE ResumeReminder(q, s)
    BY <2>1, <2>4, Zenon DEF ResumeReminder
  <2>5. CASE EditReminder(q, s) \/ CompleteOccurrence(q, s) \/ DeleteReminder(q, s)
    BY <2>1, <2>5, Zenon DEF EditReminder, CompleteOccurrence, DeleteReminder
  <2>6. CASE PauseReminder(q, s)
    BY <2>1, <2>6, Zenon DEF PauseReminder
  <2>7. QED
    BY <1>2, <2>2, <2>3, <2>4, <2>5, <2>6 DEF Handle
<1>3. QED
  BY <1>1, <1>2 DEF Next, CallFails, Crash, tables

\* Only a request that had read a reminder before it was deleted brings it
\* back.
THEOREM RevivedByInFlight == Spec => OnlyInFlightRevives
<1> DEFINE Revival == \A r \in Reminder :
      rem[r].status = "archived" /\ rem'[r].status # "archived" =>
        \E q \in Request : req[q].target = r /\ req[q].read.status \in Live
<1>1. IInv /\ [Next]_vars => [Revival]_vars
  BY StepRevives
<1>2. Spec => [][Revival]_vars
  BY Inductive, <1>1, PTL DEF Spec
<1>3. QED
  BY <1>2 DEF OnlyInFlightRevives

-----------------------------------------------------------------------------
(* What a request is in the middle of                                      *)

\* The methods that schedule an occurrence.
Scheduling == {"create", "reschedule", "resume", "complete"}

\* The call that comes after c, as far as the method has one.
Following(method, c) ==
    CASE c = "insert"           -> "increment"
      [] c = "increment"        -> "createOccurrence"
      [] c = "list"             -> "markDone"
      [] c = "markDone"         -> "update"
      [] c = "update"           -> IF method = "edit" THEN "end"
                                   ELSE IF method \in {"reschedule", "pause"}
                                        THEN "cancel" ELSE "createOccurrence"
      [] c = "softDelete"       -> "cancel"
      [] c = "cancel"           -> IF method = "reschedule" THEN "createOccurrence"
                                   ELSE IF method = "delete" THEN "decrement" ELSE "end"
      [] c = "createOccurrence" -> "createNotification"
      [] OTHER                  -> "end"

\* The calls a method consists of.
Own(method) ==
    CASE method = "create"     -> {"insert", "increment",
                                   "createOccurrence", "createNotification"}
      [] method = "edit"       -> {"update"}
      [] method = "reschedule" -> {"update", "cancel",
                                   "createOccurrence", "createNotification"}
      [] method = "pause"      -> {"update", "cancel"}
      [] method = "resume"     -> {"update", "createOccurrence", "createNotification"}
      [] method = "complete"   -> {"list", "markDone", "update",
                                   "createOccurrence", "createNotification"}
      [] method = "delete"     -> {"softDelete", "cancel", "decrement"}

\* todo is what is left of a method's calls from some call on.
Chain(method, todo) ==
    /\ todo \in Seq(Call) /\ todo # <<>>
    /\ \A i \in 1 .. Len(todo) : todo[i] \in Own(method)
    /\ \A i \in 2 .. Len(todo) : todo[i] = Following(method, todo[i - 1])
    /\ Following(method, todo[Len(todo)]) = "end"

\* What each method changes of the row it has read.
Form(x) ==
    x.todo # <<>> =>
      /\ Chain(x.method, x.todo)
      /\ x.method # "create" => x.read.status \in Live
      /\ x.method = "edit" => x.copy = x.read
      /\ x.method \in {"pause", "complete"} => x.copy.recurrence = x.read.recurrence
      /\ x.method = "pause" => x.copy.next = x.read.next

\* The next call of x is c, in a request of this method.
In(x, method, c) == x.todo # <<>> /\ x.method = method /\ x.todo[1] = c

-----------------------------------------------------------------------------
(* The invariant                                                           *)

\* The ids not given out belong to nobody, and are enough for the occurrences
\* that the requests in progress may still insert.
Creating == {q \in Request : /\ req[q].todo # <<>> /\ req[q].method \in Scheduling
                             /\ req[q].todo[1] # "createNotification"}
Room ==
    /\ count + Cardinality(Creating) <= MaxOccurrences
    /\ \A i \in Occurrence : i > count => occ[i].reminder = None

\* The occurrence a request has listed, or inserted, is one of its reminder.
Mine ==
    \A q \in Request :
        LET x == req[q] IN
        /\ x.todo # <<>> /\ x.todo[1] = "markDone" =>
             x.mine \in Occurrence /\ occ[x.mine].reminder = x.target
        /\ x.todo # <<>> /\ x.todo[1] = "createNotification" =>
             \/ <<x.target, "createOccurrence">> \in missed
             \/ /\ x.mine \in Occurrence
                /\ occ[x.mine].reminder = x.target /\ occ[x.mine].at = x.copy.next

Base == /\ IInv
        /\ \A q \in Request : Form(req[q])
        /\ Room /\ Mine

\* x has changed r, and is yet to insert an occurrence of it.
Schedules(x, r) ==
    /\ x.todo # <<>> /\ x.target = r /\ x.method \in Scheduling
    /\ \/ x.todo[1] \in {"increment", "cancel", "createOccurrence"}
       \/ In(x, "complete", "update")

Silent ==
    \A r \in Reminder \ stale :
        /\ rem[r].status \in Live /\ rem[r].recurrence # "one_time"
        /\ <<r, "createOccurrence">> \notin missed
        => \/ ScheduledOf(r) # {}
           \/ \E q \in Request : Schedules(req[q], r)

\* An occurrence announces the next run of r.
Shown(r) ==
    \E i \in Occurrence :
        occ[i].reminder = r /\ occ[i].at = rem[r].next /\ notif[i] # "absent"

\* x has written next as the next run of r, and is yet to announce it.
WillAnnounce(x, r, next) ==
    /\ x.todo # <<>> /\ x.target = r /\ x.method \in Scheduling
    /\ x.todo[1] \in {"increment", "cancel", "createOccurrence", "createNotification"}
    /\ x.copy.next = next

NextRun ==
    \A r \in Reminder \ stale :
        /\ rem[r].status # "absent"
        /\ <<r, "createOccurrence">> \notin missed
        /\ <<r, "createNotification">> \notin missed
        => \/ Shown(r)
           \/ \E q \in Request : WillAnnounce(req[q], r, rem[r].next)

Lives == {r \in Reminder : rem[r].status \in Live}
Uncounted == {q \in Request : In(req[q], "create", "increment")}
Undiscounted ==
    {q \in Request : /\ req[q].todo # <<>> /\ req[q].method = "delete"
                     /\ req[q].todo[1] # "softDelete"}

\* The counter and the late writes together lag behind by at most what requests
\* in progress will add, and leave room for what they will subtract.
Covered == usage + slips

Counted ==
    /\ IsFiniteSet(Lives)
    /\ /\ usage # NoRow
       /\ \A r \in Reminder : <<r, "increment">> \notin missed
       => Covered + Cardinality(Uncounted) >= Cardinality(Lives) + Cardinality(Undiscounted)

-----------------------------------------------------------------------------
(* Which call comes next                                                   *)

LEMMA CallsChain ==
    ASSUME NEW method \in Operation
    PROVE  /\ Chain(method, Calls[method])
           /\ method = "create" <=> Calls[method][1] = "insert"
           /\ method = "delete" <=> Calls[method][1] = "softDelete"
           /\ method = "complete" <=> Calls[method][1] = "list"
           /\ Calls[method][1] \in {"insert", "update", "list", "softDelete"}
<1>1. method \in {"create", "edit", "reschedule", "pause", "resume",
                  "complete", "delete"}
  BY DEF Operation, Calls
<1> USE DEF Calls, Chain, Following, Own, Call
<1>2. CASE method = "create"
  BY <1>2
<1>3. CASE method = "edit"
  BY <1>3
<1>4. CASE method = "reschedule"
  BY <1>4
<1>5. CASE method = "pause"
  BY <1>5
<1>6. CASE method = "resume"
  BY <1>6
<1>7. CASE method = "complete"
  BY <1>7
<1>8. CASE method = "delete"
  BY <1>8
<1>9. QED
  BY <1>1, <1>2, <1>3, <1>4, <1>5, <1>6, <1>7, <1>8

\* After its first call come those that follow it, or none.
LEMMA ChainGoesOn ==
    ASSUME NEW method \in Operation, NEW todo, Chain(method, todo)
    PROVE  /\ Tail(todo) \in Seq(Call)
           /\ Tail(todo) = <<>> <=> Following(method, todo[1]) = "end"
           /\ Tail(todo) # <<>> => /\ Chain(method, Tail(todo))
                                   /\ Tail(todo)[1] = Following(method, todo[1])
           /\ todo[1] \in CallsIn(todo) /\ todo[1] \in Own(method)
<1> DEFINE rest == Tail(todo)
<1>1. todo \in Seq(Call) /\ Len(todo) \in Nat \ {0} /\ 1 \in DOMAIN todo
  BY DEF Chain
<1>2. /\ rest \in Seq(Call)
      /\ Len(rest) = Len(todo) - 1
      /\ \A i \in 1 .. Len(rest) : rest[i] = todo[i + 1]
  BY <1>1
<1> HIDE DEF rest
<1>3. rest = <<>> <=> Len(todo) = 1
  BY <1>1, <1>2
<1>4. Len(todo) = 1 => Following(method, todo[1]) = "end"
  BY DEF Chain
<1>5. ASSUME Len(todo) # 1
      PROVE  /\ rest[1] = Following(method, todo[1]) /\ rest[1] # "end"
             /\ Chain(method, rest)
  <2>1. 1 \in 1 .. Len(rest) /\ 2 \in 2 .. Len(todo) /\ rest[1] = todo[2]
        /\ 2 \in DOMAIN todo /\ rest # <<>>
    BY <1>1, <1>2, <1>3, <1>5
  <2>2. rest[1] = Following(method, todo[1])
    BY <2>1 DEF Chain
  <2>3. rest[1] \in Call /\ rest[1] # "end"
    BY <1>2, <2>1 DEF Call
  <2>4. ASSUME NEW i \in 2 .. Len(rest)
        PROVE  rest[i] = Following(method, rest[i - 1])
    <3>1. i \in 1 .. Len(rest) /\ i - 1 \in 1 .. Len(rest)
          /\ i + 1 \in 2 .. Len(todo) /\ (i + 1) - 1 = i /\ (i - 1) + 1 = i
      BY <1>1, <1>2
    <3>2. rest[i] = todo[i + 1]
      BY <1>2, <3>1
    <3>3. rest[i - 1] = todo[(i - 1) + 1]
      BY <1>2, <3>1
    <3>4. todo[i + 1] = Following(method, todo[(i + 1) - 1])
      BY <3>1 DEF Chain
    <3>5. QED
      BY <3>1, <3>2, <3>3, <3>4
  <2>5. rest[Len(rest)] = todo[Len(todo)]
    <3>1. Len(rest) \in 1 .. Len(rest) /\ Len(rest) + 1 = Len(todo)
      BY <1>1, <1>2, <2>1
    <3>2. QED
      BY <1>2, <3>1
  <2>6. \A i \in 1 .. Len(rest) : rest[i] \in Own(method)
    <3>1. \A i \in 1 .. Len(rest) : i + 1 \in 1 .. Len(todo)
      BY <1>1, <1>2
    <3>2. QED
      BY <1>2, <3>1 DEF Chain
  <2>7. Chain(method, rest)
    BY <1>2, <2>1, <2>4, <2>5, <2>6 DEF Chain
  <2>8. QED
    BY <2>2, <2>3, <2>7
<1>6. todo[1] \in CallsIn(todo) /\ todo[1] \in Own(method)
  BY <1>1 DEF CallsIn, Chain
<1>7. QED
  BY <1>2, <1>3, <1>4, <1>5, <1>6 DEF rest

\* A method that schedules an occurrence ends with the notification of it.
LEMMA ChainEnds ==
    ASSUME NEW method \in Scheduling, NEW todo, Chain(method, todo)
    PROVE  /\ "createNotification" \in CallsIn(todo)
           /\ todo[1] # "createNotification" => "createOccurrence" \in CallsIn(todo)
<1>1. PICK n \in Nat \ {0} :
        /\ n = Len(todo) /\ DOMAIN todo = 1 .. n
        /\ Following(method, todo[n]) = "end"
        /\ \A i \in 1 .. n : todo[i] \in Own(method)
        /\ \A i \in 2 .. n : todo[i] = Following(method, todo[i - 1])
  BY DEF Chain
<1>2. todo[n] = "createNotification"
  <2>1. todo[n] \in Own(method)
    BY <1>1
  <2>2. QED
    BY <1>1, <2>1 DEF Scheduling, Own, Following
<1>3. CASE n = 1
  BY <1>1, <1>2, <1>3 DEF CallsIn
<1>4. CASE n # 1
  <2>1. n \in 2 .. n /\ n - 1 \in 1 .. n /\ n \in 1 .. n
    BY <1>4
  <2>2. todo[n] = Following(method, todo[n - 1]) /\ todo[n - 1] \in Own(method)
    BY <1>1, <2>1
  <2>3. todo[n - 1] = "createOccurrence"
    BY <1>2, <2>2 DEF Following, Own, Scheduling
  <2>4. QED
    BY <1>1, <1>2, <2>1, <2>3 DEF CallsIn
<1>5. QED
  BY <1>3, <1>4

\* What q, which makes the call c, has at hand beyond its well-formedness.
LEMMA AtCallForm ==
    ASSUME Base, NEW q \in Request, NEW c, Makes(q, c)
    PROVE  /\ req[q].todo # <<>> /\ req[q].todo[1] = c
           /\ req[q].target \in Reminder /\ req[q].method \in Operation
           /\ c \in Own(req[q].method) /\ Chain(req[q].method, req[q].todo)
           /\ c \in {"insert", "increment"} => req[q].method = "create"
           /\ c \in {"createOccurrence", "createNotification"} => req[q].method \in Scheduling
           /\ c = "update" => /\ req[q].method \in {"edit", "reschedule", "pause",
                                                    "resume", "complete"}
                              /\ req[q].read.status \in Live
           /\ c \in {"list", "markDone"} => req[q].method = "complete"
           /\ c = "cancel" => req[q].method \in {"reschedule", "pause", "delete"}
           /\ c \in {"softDelete", "decrement"} => /\ req[q].method = "delete"
                                                   /\ req[q].read.status \in Live
<1>1. /\ req[q].todo # <<>> /\ req[q].todo[1] = c /\ req[q].target \in Reminder
      /\ req[q] \in RequestState
  BY AtCall DEF Base
<1>2. /\ Chain(req[q].method, req[q].todo)
      /\ req[q].method # "create" => req[q].read.status \in Live
  BY <1>1 DEF Base, Form
<1>3. req[q].method \in Operation /\ c \in Own(req[q].method)
  <2>1. req[q].method \in Operation
    BY <1>1 DEF RequestState
  <2>2. QED
    BY <1>1, <1>2, <2>1, ChainGoesOn
<1> DEFINE m == req[q].method
<1>4. m \in {"create", "edit", "reschedule", "pause", "resume", "complete", "delete"}
  BY <1>3 DEF Operation, Calls
<1>5. /\ c \in {"insert", "increment"} => m = "create"
      /\ c \in {"createOccurrence", "createNotification"} => m \in Scheduling
      /\ c = "update" => m \in {"edit", "reschedule", "pause", "resume", "complete"}
      /\ c \in {"list", "markDone"} => m = "complete"
      /\ c = "cancel" => m \in {"reschedule", "pause", "delete"}
      /\ c \in {"softDelete", "decrement"} => m = "delete"
  <2> HIDE DEF m
  <2>1. c \in Own(m)
    BY <1>3 DEF m
  <2>2. QED
    BY <1>4, <2>1 DEF Own, Scheduling
<1>6. QED
  BY <1>1, <1>2, <1>3, <1>5

-----------------------------------------------------------------------------
(* Counting                                                                *)

One(b) == IF b THEN 1 ELSE 0

\* A set that gains or loses at most the element e.
LEMMA SizeButOne ==
    ASSUME NEW S, NEW T, NEW e, IsFiniteSet(S), S \ {e} = T \ {e}
    PROVE  /\ IsFiniteSet(T) /\ Cardinality(S) \in Nat /\ Cardinality(T) \in Nat
           /\ Cardinality(T) + One(e \in S) = Cardinality(S) + One(e \in T)
<1> DEFINE R == S \ {e}
<1>1. IsFiniteSet(R)
  BY FS_Subset
<1>2. Cardinality(R) \in Nat
  BY <1>1, FS_CardinalityType
<1>3. /\ S = IF e \in S THEN R \union {e} ELSE R
      /\ T = IF e \in T THEN R \union {e} ELSE R
  OBVIOUS
<1>4. e \notin R
  OBVIOUS
<1> HIDE DEF R
<1>5. /\ IsFiniteSet(R \union {e})
      /\ Cardinality(R \union {e}) = Cardinality(R) + 1
  BY <1>1, <1>4, FS_AddElement
<1>6. IsFiniteSet(T) /\ Cardinality(T) = Cardinality(R) + One(e \in T)
  <2>1. CASE e \in T
    <3>1. T = R \union {e}
      BY <1>3, <2>1
    <3>2. QED
      BY <1>5, <2>1, <3>1 DEF One
  <2>2. CASE e \notin T
    <3>1. T = R
      BY <1>3, <2>2
    <3>2. QED
      BY <1>1, <1>2, <2>2, <3>1 DEF One
  <2>3. QED
    BY <2>1, <2>2
<1>7. Cardinality(S) = Cardinality(R) + One(e \in S)
  <2>1. CASE e \in S
    <3>1. S = R \union {e}
      BY <1>3, <2>1
    <3>2. QED
      BY <1>5, <2>1, <3>1 DEF One
  <2>2. CASE e \notin S
    <3>1. S = R
      BY <1>3, <2>2
    <3>2. QED
      BY <1>2, <2>2, <3>1 DEF One
  <2>3. QED
    BY <2>1, <2>2
<1>8. One(e \in S) \in {0, 1} /\ One(e \in T) \in {0, 1}
  BY DEF One
<1>9. QED
  BY <1>2, <1>6, <1>7, <1>8

-----------------------------------------------------------------------------
(* What a step of a request does                                           *)

\* Nobody but q moves.
Others(q) == /\ req' \in [Request -> RequestState]
             /\ \A p \in Request \ {q} : req'[p] = req[p]

\* x, which has made the call c, goes on as y, or has ended.
Steps(x, y, c) ==
    \/ /\ y.todo = <<>>
       /\ \/ Following(x.method, c) = "end" \/ c = "list"
          \/ c = "markDone" /\ ~Recurs(x.copy)
    \/ /\ y.todo # <<>> /\ Chain(y.method, y.todo)
       /\ y.todo[1] = Following(x.method, c)
       /\ y.method = x.method /\ y.target = x.target /\ y.read = x.read
       /\ y.copy.recurrence = x.copy.recurrence
       /\ c # "markDone" => y.copy = x.copy

LEMMA Advances ==
    ASSUME Base, NEW q \in Request, NEW c, Makes(q, c),
           NEW now \in RequestState, Advance(q, Tail(req[q].todo), now),
           now.method = req[q].method, now.target = req[q].target,
           now.read = req[q].read, now.copy.recurrence = req[q].copy.recurrence,
           c # "markDone" => now.copy = req[q].copy
    PROVE  /\ Others(q) /\ Steps(req[q], req'[q], c)
           /\ req'[q].todo # <<>> => req'[q].mine = now.mine
<1> DEFINE rest == Tail(req[q].todo)
           next == IF rest = <<>> THEN NoRequest ELSE [now EXCEPT !.todo = rest]
<1>1. /\ req[q].todo[1] = c /\ req[q].method \in Operation
      /\ Chain(req[q].method, req[q].todo)
  BY AtCallForm
<1>2. /\ rest \in Seq(Call)
      /\ rest = <<>> <=> Following(req[q].method, c) = "end"
      /\ rest # <<>> => /\ Chain(req[q].method, rest)
                        /\ rest[1] = Following(req[q].method, c)
  BY <1>1, ChainGoesOn
<1>3. req' = [req EXCEPT ![q] = next]
  BY DEF Advance
<1>4. NoRequest \in RequestState /\ NoRequest.todo = <<>>
  BY NoRequestWellFormed DEF WellFormed, NoRequest
<1> HIDE DEF rest
<1>5. CASE rest = <<>>
  <2>1. next = NoRequest
    BY <1>5
  <2> HIDE DEF next
  <2>2. req \in [Request -> RequestState]
    BY DEF Base, IInv, TypeOK
  <2>3. req'[q] = NoRequest /\ Others(q)
    BY <1>3, <1>4, <2>1, <2>2 DEF Others
  <2>4. QED
    BY <1>2, <1>4, <1>5, <2>3 DEF Steps
<1>6. CASE rest # <<>>
  <2>1. /\ next \in RequestState /\ next.todo = rest /\ next.method = now.method
        /\ next.target = now.target /\ next.read = now.read
        /\ next.copy = now.copy /\ next.mine = now.mine
    BY <1>2, <1>6 DEF RequestState
  <2> HIDE DEF next
  <2>2. req \in [Request -> RequestState]
    BY DEF Base, IInv, TypeOK
  <2>3. req'[q] = next /\ Others(q)
    BY <1>3, <2>1, <2>2 DEF Others
  <2>4. QED
    BY <1>2, <1>6, <2>1, <2>3 DEF Steps
<1>7. QED
  BY <1>5, <1>6

LEMMA Continues ==
    ASSUME Base, NEW q \in Request, NEW c, Makes(q, c), Continue(q)
    PROVE  /\ Others(q) /\ Steps(req[q], req'[q], c)
           /\ req'[q].todo # <<>> => req'[q].mine = req[q].mine
<1>1. req[q] \in RequestState
  BY DEF Base, IInv, TypeOK
<1>2. QED
  BY <1>1, Advances DEF Continue

LEMMA Stops ==
    ASSUME Base, NEW q \in Request, NEW now, Advance(q, <<>>, now)
    PROVE  Others(q) /\ req'[q].todo = <<>>
<1>1. req' = [req EXCEPT ![q] = NoRequest] /\ NoRequest.todo = <<>>
  BY DEF Advance, NoRequest
<1>2. NoRequest \in RequestState /\ req \in [Request -> RequestState]
  BY NoRequestWellFormed DEF WellFormed, Base, IInv, TypeOK
<1>3. QED
  BY <1>1, <1>2 DEF Others

\* What the call c of q does to the rows of reminders.
OnRow(q, c) ==
    LET r == req[q].target IN
    /\ \A e \in Reminder \ {r} : rem'[e] = rem[e]
    /\ c \in {"insert", "update"} => rem'[r] = req[q].copy
    /\ c = "softDelete" => /\ rem'[r].status = "archived"
                           /\ rem'[r].next = rem[r].next
    /\ c \notin {"insert", "update", "softDelete"} => rem'[r] = rem[r]
    /\ stale \subseteq stale'
    /\ c \in {"update", "softDelete", "markDone"} /\ r \notin stale' => rem[r] = req[q].read

\* And to the occurrences: to that of mine, or to the next one.
OnOccurrences(q, c) ==
    /\ c = "createOccurrence" =>
         /\ count' = count + 1
         /\ occ' = [occ EXCEPT ![count + 1] =
                      [reminder |-> req[q].target, at |-> req[q].copy.next,
                       status |-> "scheduled"]]
         /\ req'[q].todo # <<>> => req'[q].mine = count + 1
    /\ c = "markDone" => /\ count' = count
                         /\ occ' = [occ EXCEPT ![req[q].mine].status = "done"]
    /\ c \notin {"createOccurrence", "markDone"} => count' = count /\ occ' = occ

OnNotifications(q, c) ==
    /\ \A i \in Occurrence : notif[i] # "absent" => notif'[i] # "absent"
    /\ c = "createNotification" /\ req[q].mine \in Occurrence =>
         notif'[req[q].mine] # "absent"

OnUsage(c) ==
    usage' = IF usage = NoRow THEN NoRow
             ELSE IF c = "increment" THEN usage + 1
             ELSE IF c = "decrement" THEN Decremented(usage) ELSE usage

\* A write to a reminder that is no longer live is a late one.
OnSlips(q, c) ==
    slips' = IF c \in {"update", "softDelete"} /\ rem[req[q].target].status \notin Live
             THEN slips + 1 ELSE slips

Effect(q, c) ==
    /\ Others(q) /\ Steps(req[q], req'[q], c)
    /\ OnRow(q, c) /\ OnOccurrences(q, c) /\ OnNotifications(q, c) /\ OnUsage(c)
    /\ c = "list" /\ req'[q].todo # <<>> => req'[q].mine \in ScheduledOf(req[q].target)
    /\ OnSlips(q, c) /\ missed' = missed

LEMMA CallEffect ==
    ASSUME Base, NEW q \in Request, CallRepository(q)
    PROVE  \E c \in Call : Makes(q, c) /\ Effect(q, c)
<1> DEFINE x == req[q]
           r == req[q].target
<1>1. /\ rem \in [Reminder -> Row] /\ req \in [Request -> RequestState]
      /\ notif \in [Occurrence -> {"absent", "scheduled", "canceled"}]
      /\ usage \in Nat \union {NoRow} /\ stale \subseteq Reminder
  BY DEF Base, IInv, TypeOK
<1>2. ASSUME NEW c, Makes(q, c) PROVE x \in RequestState /\ r \in Reminder
  BY <1>1, <1>2, AtCallForm
<1>3. NoteStaleness(q) => /\ stale \subseteq stale'
                          /\ r \notin stale' => rem[r] = x.read
  BY DEF NoteStaleness
<1>4. CASE Insert(q)
  <2>1. Makes(q, "insert") /\ Continue(q)
    BY <1>4 DEF Insert
  <2>2. Others(q) /\ Steps(req[q], req'[q], "insert")
    BY <2>1, Continues
  <2>3. OnRow(q, "insert")
    BY <1>1, <1>2, <1>4, <2>1 DEF OnRow, Insert, ghosts
  <2>4. /\ OnOccurrences(q, "insert") /\ OnNotifications(q, "insert")
        /\ OnUsage("insert") /\ OnSlips(q, "insert") /\ missed' = missed
    BY <1>4 DEF OnOccurrences, OnNotifications, OnUsage, OnSlips, Insert, ghosts
  <2>5. QED
    BY <2>1, <2>2, <2>3, <2>4 DEF Effect, Call
<1>5. CASE Increment(q)
  <2>1. Makes(q, "increment") /\ Continue(q)
    BY <1>5 DEF Increment
  <2>2. Others(q) /\ Steps(req[q], req'[q], "increment")
    BY <2>1, Continues
  <2>3. OnRow(q, "increment")
    BY <1>5 DEF OnRow, Increment, ghosts
  <2>4. /\ OnOccurrences(q, "increment") /\ OnNotifications(q, "increment")
        /\ OnUsage("increment") /\ OnSlips(q, "increment") /\ missed' = missed
    BY <1>5 DEF OnOccurrences, OnNotifications, OnUsage, OnSlips, Increment, ghosts
  <2>5. QED
    BY <2>1, <2>2, <2>3, <2>4 DEF Effect, Call
<1>6. CASE Update(q)
  <2>1. Makes(q, "update") /\ Continue(q)
    BY <1>6 DEF Update
  <2>2. Others(q) /\ Steps(req[q], req'[q], "update")
    BY <2>1, Continues
  <2>3. OnRow(q, "update")
    BY <1>1, <1>2, <1>3, <1>6, <2>1 DEF OnRow, Update
  <2>4. /\ OnOccurrences(q, "update") /\ OnNotifications(q, "update")
        /\ OnUsage("update") /\ OnSlips(q, "update") /\ missed' = missed
    BY <1>6 DEF OnOccurrences, OnNotifications, OnUsage, OnSlips, Update, NoteLateWrite
  <2>5. QED
    BY <2>1, <2>2, <2>3, <2>4 DEF Effect, Call
<1>7. CASE List(q)
  <2>1. Makes(q, "list") /\ UNCHANGED <<tables, ghosts>>
    BY <1>7 DEF List
  <2>2. /\ OnRow(q, "list") /\ OnSlips(q, "list") /\ missed' = missed
        /\ OnOccurrences(q, "list") /\ OnNotifications(q, "list") /\ OnUsage("list")
    BY <2>1 DEF OnRow, OnOccurrences, OnNotifications, OnUsage, OnSlips, tables, ghosts
  <2>3. ASSUME Advance(q, <<>>, req[q])
        PROVE  /\ Others(q) /\ Steps(req[q], req'[q], "list")
               /\ req'[q].todo # <<>> => req'[q].mine \in ScheduledOf(r)
    BY <2>3, Stops DEF Steps
  <2>4. ASSUME NEW i \in ScheduledOf(r),
               Advance(q, Tail(req[q].todo), [req[q] EXCEPT !.mine = i])
        PROVE  /\ Others(q) /\ Steps(req[q], req'[q], "list")
               /\ req'[q].todo # <<>> => req'[q].mine \in ScheduledOf(r)
    <3> DEFINE now == [req[q] EXCEPT !.mine = i]
    <3>1. i \in Nat
      BY BoundsAssumption DEF ScheduledOf, Occurrence
    <3>2. /\ now \in RequestState /\ now.mine = i /\ now.method = x.method
          /\ now.target = x.target /\ now.read = x.read /\ now.copy = x.copy
      BY <1>2, <2>1, <3>1 DEF RequestState
    <3>3. Advance(q, Tail(req[q].todo), now)
      BY <2>4
    <3> HIDE DEF now
    <3>4. QED
      BY <2>1, <3>2, <3>3, Advances
  <2>5. /\ Others(q) /\ Steps(req[q], req'[q], "list")
        /\ req'[q].todo # <<>> => req'[q].mine \in ScheduledOf(r)
    BY <1>7, <2>3, <2>4, Zenon DEF List
  <2>6. QED
    BY <2>1, <2>2, <2>5 DEF Effect, Call
<1>8. CASE MarkDone(q)
  <2> DEFINE i == req[q].mine
             next == CalculateNextRunAt(req[q].copy, occ[i].at)
             now == [req[q] EXCEPT !.copy.next = next]
  <2>1. /\ Makes(q, "markDone") /\ NoteStaleness(q)
        /\ occ' = [occ EXCEPT ![i].status = "done"]
        /\ UNCHANGED <<rem, notif, count, usage, slips, missed, failures>>
    BY <1>8 DEF MarkDone
  <2>2. /\ OnRow(q, "markDone") /\ OnOccurrences(q, "markDone")
        /\ OnNotifications(q, "markDone") /\ OnUsage("markDone")
        /\ OnSlips(q, "markDone")
    BY <1>3, <2>1 DEF OnRow, OnOccurrences, OnNotifications, OnUsage, OnSlips
  <2>3. /\ now \in RequestState /\ now.method = x.method
        /\ now.target = x.target /\ now.read = x.read
        /\ now.copy.recurrence = x.copy.recurrence
    <3>1. i \in Occurrence /\ occ[i] \in OccurrenceRow /\ x.copy \in Row
      BY <2>1, AtCall DEF Base, IInv, TypeOK
    <3>2. next \in Nat
      BY <3>1 DEF CalculateNextRunAt, OccurrenceRow, Row
    <3> DEFINE row == [req[q].copy EXCEPT !.next = next]
    <3>3. row \in Row /\ row.recurrence = x.copy.recurrence
      BY <3>1, <3>2 DEF Row
    <3>4. now = [req[q] EXCEPT !.copy = row]
      BY <1>2, <2>1 DEF RequestState
    <3>5. req[q] \in RequestState
      BY <1>2, <2>1
    <3> HIDE DEF row, now, next
    <3>6. QED
      BY <3>3, <3>4, <3>5 DEF RequestState
  <2>4. \/ Advance(q, Tail(req[q].todo), now)
        \/ ~Recurs(req[q].copy) /\ Advance(q, <<>>, req[q])
    BY <1>8, Zenon DEF MarkDone
  <2> HIDE DEF now
  <2>5. ASSUME Advance(q, Tail(req[q].todo), now)
        PROVE  Others(q) /\ Steps(req[q], req'[q], "markDone")
    BY <2>1, <2>3, <2>5, Advances
  <2>6. ASSUME ~Recurs(req[q].copy), Advance(q, <<>>, req[q])
        PROVE  Others(q) /\ Steps(req[q], req'[q], "markDone")
    BY <2>6, Stops DEF Steps
  <2>7. Others(q) /\ Steps(req[q], req'[q], "markDone")
    BY <2>4, <2>5, <2>6
  <2>8. QED
    BY <2>1, <2>2, <2>7 DEF Effect, Call
<1>9. CASE CreateOccurrence(q)
  <2> DEFINE now == [req[q] EXCEPT !.mine = count + 1]
  <2>1. /\ Makes(q, "createOccurrence")
        /\ count' = count + 1
        /\ occ' = [occ EXCEPT ![count + 1] =
                     [reminder |-> req[q].target, at |-> req[q].copy.next,
                      status |-> "scheduled"]]
        /\ Advance(q, Tail(req[q].todo), now)
        /\ UNCHANGED <<rem, notif, usage, ghosts>>
    BY <1>9, Zenon DEF CreateOccurrence, ScheduledAt
  <2>2. /\ now \in RequestState /\ now.mine = count + 1 /\ now.method = x.method
        /\ now.target = x.target /\ now.read = x.read /\ now.copy = x.copy
    <3>1. count + 1 \in Nat
      BY DEF Base, IInv, TypeOK
    <3>2. QED
      BY <1>2, <2>1, <3>1 DEF RequestState
  <2> HIDE DEF now
  <2>3. /\ Others(q) /\ Steps(req[q], req'[q], "createOccurrence")
        /\ req'[q].todo # <<>> => req'[q].mine = count + 1
    BY <2>1, <2>2, Advances
  <2>4. /\ OnRow(q, "createOccurrence") /\ OnNotifications(q, "createOccurrence")
        /\ OnUsage("createOccurrence") /\ OnSlips(q, "createOccurrence")
        /\ missed' = missed
    BY <2>1 DEF OnRow, OnNotifications, OnUsage, OnSlips, ghosts
  <2>5. OnOccurrences(q, "createOccurrence")
    BY <2>1, <2>3, Zenon DEF OnOccurrences
  <2>6. QED
    BY <2>1, <2>3, <2>4, <2>5 DEF Effect, Call
<1>10. CASE CreateNotification(q)
  <2>1. Makes(q, "createNotification") /\ Continue(q)
    BY <1>10 DEF CreateNotification
  <2>2. Others(q) /\ Steps(req[q], req'[q], "createNotification")
    BY <2>1, Continues
  <2>3. OnNotifications(q, "createNotification")
    BY <1>1, <1>10, BoundsAssumption DEF OnNotifications, CreateNotification, Occurrence
  <2>4. /\ OnRow(q, "createNotification") /\ OnOccurrences(q, "createNotification")
        /\ OnUsage("createNotification") /\ OnSlips(q, "createNotification") /\ missed' = missed
    BY <1>10 DEF OnRow, OnOccurrences, OnUsage, OnSlips, CreateNotification, ghosts
  <2>5. QED
    BY <2>1, <2>2, <2>3, <2>4 DEF Effect, Call
<1>11. CASE CancelPending(q)
  <2>1. Makes(q, "cancel") /\ Continue(q)
    BY <1>11 DEF CancelPending
  <2>2. Others(q) /\ Steps(req[q], req'[q], "cancel")
    BY <2>1, Continues
  <2>3. OnNotifications(q, "cancel")
    BY <1>1, <1>11 DEF OnNotifications, CancelPending
  <2>4. /\ OnRow(q, "cancel") /\ OnOccurrences(q, "cancel")
        /\ OnUsage("cancel") /\ OnSlips(q, "cancel") /\ missed' = missed
    BY <1>11 DEF OnRow, OnOccurrences, OnUsage, OnSlips, CancelPending, ghosts
  <2>5. QED
    BY <2>1, <2>2, <2>3, <2>4 DEF Effect, Call
<1>12. CASE SoftDelete(q)
  <2>1. Makes(q, "softDelete") /\ Continue(q)
    BY <1>12 DEF SoftDelete
  <2>2. Others(q) /\ Steps(req[q], req'[q], "softDelete")
    BY <2>1, Continues
  <2>3. /\ rem' = [rem EXCEPT ![r].status = "archived"]
        /\ NoteStaleness(q)
    BY <1>12 DEF SoftDelete
  <2>4. OnRow(q, "softDelete")
    BY <1>1, <1>2, <1>3, <2>1, <2>3 DEF OnRow, Row
  <2>5. /\ OnOccurrences(q, "softDelete") /\ OnNotifications(q, "softDelete")
        /\ OnUsage("softDelete") /\ OnSlips(q, "softDelete") /\ missed' = missed
    BY <1>12 DEF OnOccurrences, OnNotifications, OnUsage, OnSlips, SoftDelete, NoteLateWrite
  <2>6. QED
    BY <2>1, <2>2, <2>4, <2>5 DEF Effect, Call
<1>13. CASE Decrement(q)
  <2>1. Makes(q, "decrement") /\ Continue(q)
    BY <1>13 DEF Decrement
  <2>2. Others(q) /\ Steps(req[q], req'[q], "decrement")
    BY <2>1, Continues
  <2>3. /\ OnRow(q, "decrement") /\ OnOccurrences(q, "decrement")
        /\ OnNotifications(q, "decrement") /\ OnUsage("decrement")
        /\ OnSlips(q, "decrement") /\ missed' = missed
    BY <1>13 DEF OnRow, OnOccurrences, OnNotifications, OnUsage, OnSlips, Decrement, ghosts
  <2>4. QED
    BY <2>1, <2>2, <2>3 DEF Effect, Call
<1>14. QED
  BY <1>4, <1>5, <1>6, <1>7, <1>8, <1>9, <1>10, <1>11, <1>12, <1>13
  DEF CallRepository

\* What q, which made the call c, may still be about to do.
LEMMA EffectRequest ==
    ASSUME Base, NEW q \in Request, NEW c, Makes(q, c), Steps(req[q], req'[q], c),
           req'[q].todo # <<>>
    PROVE  /\ req'[q].target = req[q].target /\ req'[q].method = req[q].method
           /\ req'[q].read = req[q].read
           /\ req'[q].todo[1] \notin {"insert", "list", "softDelete"}
           /\ req'[q].todo[1] = "increment" <=> c = "insert"
           /\ req'[q].todo[1] = "markDone" <=> c = "list"
           /\ req'[q].todo[1] = "createNotification" <=> c = "createOccurrence"
           /\ c # "createNotification"
<1>1. /\ req[q].todo[1] = c
      /\ c \in Own(req[q].method) /\ req[q].method \in Operation
  BY AtCallForm
<1>2. c \in {"insert", "increment", "update", "list", "markDone",
             "createOccurrence", "createNotification", "softDelete", "decrement",
             "cancel"}
  BY <1>1 DEF Own, Operation, Calls
<1>3. /\ req'[q].todo[1] = Following(req[q].method, c)
      /\ req'[q].target = req[q].target /\ req'[q].method = req[q].method
      /\ req'[q].read = req[q].read
      /\ req'[q].todo[1] # "end"
  <2>1. Steps(req[q], req'[q], c) /\ req'[q].todo # <<>>
    OBVIOUS
  <2>2. /\ req'[q].todo[1] = Following(req[q].method, c)
        /\ req'[q].target = req[q].target /\ req'[q].method = req[q].method
        /\ req'[q].read = req[q].read
        /\ Chain(req'[q].method, req'[q].todo)
    BY <2>1 DEF Steps
  <2>3. req'[q].todo[1] \in Call
    BY <2>2 DEF Chain
  <2>4. QED
    BY <2>2, <2>3 DEF Call
<1>4. QED
  BY <1>2, <1>3 DEF Following

\* The failure of a call: q ends, and whatever it had yet to do is missed; or
\* the call was one it can do without.
Lost(q, c) == missed' = missed \union {<<req[q].target, c>>}
Fails(q, c) ==
    /\ Others(q) /\ Makes(q, c)
    /\ UNCHANGED <<rem, occ, notif, count, usage, stale, slips>> /\ missed \subseteq missed'
    /\ \/ /\ req'[q].todo = <<>> /\ c \notin {"increment", "cancel", "decrement"}
          /\ missed' = missed \union Missed(q, CallsIn(req[q].todo))
       \/ /\ Steps(req[q], req'[q], c)
          /\ \/ c \in {"increment", "cancel", "decrement"}
             \/ c = "update" /\ req[q].method = "complete"
             \/ c = "createOccurrence" /\ req[q].method = "reschedule"
          /\ Lost(q, c)

LEMMA FailsStep ==
    ASSUME Base, NEW q \in Request, CallFails(q)
    PROVE  \E c \in Call : Fails(q, c)
<1> DEFINE c == Head(req[q].todo)
<1>1. Makes(q, c) /\ UNCHANGED <<rem, occ, notif, count, usage, stale, slips>>
  BY DEF CallFails, Makes, tables
<1>2. req[q].todo[1] = c /\ c \in Own(req[q].method) /\ req[q].method \in Operation
  BY <1>1, AtCallForm
<1>3. c \in Call
  BY <1>2 DEF Own, Operation, Calls, Call
<1> HIDE DEF c
<1>4. ASSUME c \in Ignored(req[q].method), Continue(q), Lost(q, c)
      PROVE  Fails(q, c)
  <2>1. Others(q) /\ Steps(req[q], req'[q], c)
    BY <1>1, <1>4, Continues
  <2>2. \/ c \in {"increment", "cancel", "decrement"}
        \/ c = "update" /\ req[q].method = "complete"
        \/ c = "createOccurrence" /\ req[q].method = "reschedule"
    BY <1>4 DEF Ignored
  <2>3. QED
    BY <1>1, <1>4, <2>1, <2>2 DEF Fails, Lost
<1>5. ASSUME c \notin Ignored(req[q].method), Advance(q, <<>>, req[q]),
             missed' = missed \union Missed(q, CallsIn(req[q].todo))
      PROVE  Fails(q, c)
  <2>1. Others(q) /\ req'[q].todo = <<>>
    BY <1>5, Stops
  <2>2. c \notin {"increment", "cancel", "decrement"}
    BY <1>5 DEF Ignored
  <2>3. QED
    BY <1>1, <1>5, <2>1, <2>2 DEF Fails
<1>6. \/ c \in Ignored(req[q].method) /\ Continue(q) /\ Lost(q, c)
      \/ /\ c \notin Ignored(req[q].method) /\ Advance(q, <<>>, req[q])
         /\ missed' = missed \union Missed(q, CallsIn(req[q].todo))
  BY Zenon DEF CallFails, c, Lost
<1>7. QED
  BY <1>3, <1>4, <1>5, <1>6

\* A request that ends too early misses what it had yet to do for its
\* reminder.
LEMMA EndMisses ==
    ASSUME Base, NEW q \in Request
    PROVE  LET m == Missed(q, CallsIn(req[q].todo)) IN
           /\ \A r : Schedules(req[q], r) => <<r, "createOccurrence">> \in m
           /\ \A r, next : WillAnnounce(req[q], r, next) => <<r, "createNotification">> \in m
           /\ In(req[q], "create", "increment") => <<req[q].target, "increment">> \in m
<1> DEFINE x == req[q]
           m == Missed(q, CallsIn(x.todo))
<1>1. ASSUME x.todo # <<>>, ~Untouched(q), NEW c \in CallsIn(x.todo)
      PROVE  <<x.target, c>> \in m
  BY <1>1 DEF Missed
<1>2. ASSUME x.todo # <<>>
      PROVE  /\ x.method \in Operation /\ Chain(x.method, x.todo)
             /\ x.todo[1] \in CallsIn(x.todo)
             /\ Head(x.todo) = x.todo[1]
  <2>1. x \in RequestState /\ Chain(x.method, x.todo)
    BY <1>2 DEF Base, IInv, WellFormed, Form
  <2>2. x.method \in Operation
    BY <2>1 DEF RequestState
  <2>3. Head(x.todo) = x.todo[1]
    BY <2>1 DEF Chain
  <2>4. QED
    BY <2>1, <2>2, <2>3, ChainGoesOn
<1>3. ASSUME x.todo # <<>>,
             \/ x.todo[1] \in {"increment", "cancel", "createOccurrence", "createNotification"}
             \/ In(x, "complete", "update")
      PROVE  ~Untouched(q)
  <2>1. x.todo # Calls[x.method]
    BY <1>2, <1>3, CallsChain DEF In
  <2>2. ~Makes(q, "markDone")
    BY <1>2, <1>3 DEF Makes, In
  <2>3. QED
    BY <2>1, <2>2 DEF Untouched
<1>4. ASSUME NEW r, Schedules(x, r) PROVE <<r, "createOccurrence">> \in m
  <2>1. x.todo # <<>> /\ x.target = r /\ x.method \in Scheduling
    BY <1>4 DEF Schedules
  <2>2. x.todo[1] # "createNotification"
    BY <1>4 DEF Schedules, In
  <2>3. "createOccurrence" \in CallsIn(x.todo)
    BY <1>2, <2>1, <2>2, ChainEnds
  <2>4. ~Untouched(q)
    BY <1>3, <1>4 DEF Schedules
  <2> HIDE DEF x, m
  <2>5. QED
    BY <1>1, <2>1, <2>3, <2>4
<1>5. ASSUME NEW r, NEW next, WillAnnounce(x, r, next)
      PROVE  <<r, "createNotification">> \in m
  <2>1. /\ x.todo # <<>> /\ x.target = r /\ x.method \in Scheduling
        /\ x.todo[1] \in {"increment", "cancel", "createOccurrence", "createNotification"}
    BY <1>5 DEF WillAnnounce
  <2>2. "createNotification" \in CallsIn(x.todo)
    BY <1>2, <2>1, ChainEnds
  <2>3. ~Untouched(q)
    BY <1>3, <2>1
  <2> HIDE DEF x, m
  <2>4. QED
    BY <1>1, <2>1, <2>2, <2>3
<1>6. ASSUME In(x, "create", "increment") PROVE <<x.target, "increment">> \in m
  <2>1. x.todo # <<>> /\ x.todo[1] = "increment"
    BY <1>6 DEF In
  <2>2. ~Untouched(q) /\ "increment" \in CallsIn(x.todo)
    BY <1>2, <1>3, <2>1
  <2> HIDE DEF x, m
  <2>3. QED
    BY <1>1, <2>1, <2>2
<1>7. QED
  BY <1>4, <1>5, <1>6

-----------------------------------------------------------------------------
(* Ids and rooms                                                           *)

LEMMA StepForm ==
    ASSUME Base, NEW q \in Request, NEW c, Makes(q, c), Steps(req[q], req'[q], c)
    PROVE  Form(req'[q])
<1> DEFINE x == req[q]
           y == req'[q]
<1>1. CASE y.todo = <<>>
  BY <1>1 DEF Form
<1>2. CASE y.todo # <<>>
  <2>1. /\ x.todo # <<>> /\ x.method \in Operation /\ Form(x)
        /\ c = "markDone" => x.method = "complete"
    BY AtCallForm DEF Base
  <2>2. /\ Chain(y.method, y.todo) /\ y.method = x.method /\ y.read = x.read
        /\ y.copy.recurrence = x.copy.recurrence
        /\ c # "markDone" => y.copy = x.copy
    BY <1>2 DEF Steps
  <2> HIDE DEF x, y
  <2>3. Form(y)
    BY <2>1, <2>2 DEF Form
  <2>4. QED
    BY <2>3 DEF y
<1>3. QED
  BY <1>1, <1>2

LEMMA CreatingFinite ==
    IsFiniteSet(Creating) /\ Cardinality(Creating) \in Nat
<1>1. Creating \subseteq Request
  BY DEF Creating
<1>2. QED
  BY <1>1, FS_Subset, FS_CardinalityType, PlacesAssumption

\* There is an id for every occurrence that is still to be inserted.
LEMMA NextId ==
    ASSUME Base, NEW q \in Request, Makes(q, "createOccurrence")
    PROVE  count + 1 \in Occurrence /\ occ[count + 1].reminder = None
<1>1. q \in Creating
  BY AtCallForm DEF Creating
<1>2. Cardinality(Creating) # 0
  BY <1>1, CreatingFinite, FS_EmptySet
<1>3. count \in Nat /\ count + Cardinality(Creating) <= MaxOccurrences
  BY DEF Base, IInv, TypeOK, Room
<1>4. Cardinality(Creating) \in Nat
  BY CreatingFinite
<1>5. count + 1 \in Occurrence /\ count + 1 > count
  BY <1>2, <1>3, <1>4, BoundsAssumption DEF Occurrence
<1>6. QED
  BY <1>5 DEF Base, Room

\* A call changes the occurrences of its own reminder and of nobody else.
LEMMA EffectOccurrences ==
    ASSUME Base, NEW q \in Request, NEW c, Makes(q, c), OnOccurrences(q, c)
    PROVE  /\ \A i \in Occurrence :
                /\ occ[i].reminder # None => /\ occ'[i].reminder = occ[i].reminder
                                             /\ occ'[i].at = occ[i].at
                /\ occ[i].reminder \notin {None, req[q].target} => occ'[i] = occ[i]
                /\ c # "markDone" /\ occ[i].reminder # None => occ'[i] = occ[i]
           /\ c = "createOccurrence" =>
                /\ occ'[count + 1].reminder = req[q].target
                /\ occ'[count + 1].at = req[q].copy.next
                /\ occ'[count + 1].status = "scheduled"
           /\ count' \in Nat
           /\ \A i \in Occurrence : i > count' => occ'[i].reminder = None
<1> DEFINE r == req[q].target
<1>1. /\ occ \in [Occurrence -> OccurrenceRow] /\ count \in Nat
      /\ \A i \in Occurrence : i > count => occ[i].reminder = None
      /\ \A i \in Occurrence : i \in Int
  BY DEF Base, IInv, TypeOK, Room, Occurrence
<1>2. CASE c = "createOccurrence"
  <2> DEFINE new == [reminder |-> r, at |-> req[q].copy.next, status |-> "scheduled"]
             k == count + 1
  <2>1. k \in Occurrence /\ occ[k].reminder = None
    BY <1>2, NextId
  <2>2. occ' = [occ EXCEPT ![k] = new] /\ count' = k
    BY <1>2, Zenon DEF OnOccurrences
  <2>3. new.reminder = r /\ new.at = req[q].copy.next /\ new.status = "scheduled"
    OBVIOUS
  <2>4. k \in Nat /\ \A i \in Int : i > k => i > count /\ i # k
    BY <1>1
  <2> HIDE DEF new, k
  <2>5. occ'[k] = new /\ \A i \in Occurrence \ {k} : occ'[i] = occ[i]
    BY <1>1, <2>1, <2>2
  <2>6. \A i \in Occurrence : i > count' => occ'[i].reminder = None
    BY <1>1, <2>2, <2>4, <2>5
  <2>7. \A i \in Occurrence : occ[i].reminder # None => occ'[i] = occ[i]
    BY <2>1, <2>5
  <2>8. QED
    BY <1>2, <2>2, <2>3, <2>4, <2>5, <2>6, <2>7 DEF k
<1>3. CASE c = "markDone"
  <2> DEFINE k == req[q].mine
  <2>1. k \in Occurrence /\ occ[k].reminder = r /\ r # None
    <3>1. req[q].todo # <<>> /\ req[q].todo[1] = "markDone" /\ r \in Reminder
      BY <1>3, AtCallForm
    <3>2. QED
      BY <3>1, NoneAssumption DEF Base, Mine
  <2>2. occ' = [occ EXCEPT ![k].status = "done"] /\ count' = count
    BY <1>3 DEF OnOccurrences
  <2> HIDE DEF k
  <2>3. /\ \A i \in Occurrence \ {k} : occ'[i] = occ[i]
        /\ occ'[k].reminder = occ[k].reminder /\ occ'[k].at = occ[k].at
    BY <1>1, <2>1, <2>2 DEF OccurrenceRow
  <2>4. QED
    BY <1>1, <1>3, <2>1, <2>2, <2>3
<1>4. CASE c \notin {"createOccurrence", "markDone"}
  BY <1>1, <1>4 DEF OnOccurrences
<1>5. QED
  BY <1>2, <1>3, <1>4

LEMMA RoomKept ==
    ASSUME Base, NEW q \in Request, Others(q),
           count' \in Nat, \A i \in Occurrence : i > count' => occ'[i].reminder = None,
           q \in Creating' => q \in Creating /\ count' = count,
           count' = count \/ (q \in Creating /\ count' = count + 1)
    PROVE  Room'
<1>1. Creating \ {q} = Creating' \ {q}
  BY DEF Others, Creating
<1>2. /\ Cardinality(Creating) \in Nat /\ Cardinality(Creating') \in Nat
      /\ Cardinality(Creating') + One(q \in Creating)
           = Cardinality(Creating) + One(q \in Creating')
  BY <1>1, CreatingFinite, SizeButOne
<1>3. count \in Nat /\ count + Cardinality(Creating) <= MaxOccurrences
  BY DEF Base, IInv, TypeOK, Room
<1> DEFINE a == Cardinality(Creating)
           b == Cardinality(Creating')
           f == One(q \in Creating)
           g == One(q \in Creating')
<1>4. f \in {0, 1} /\ g \in {0, 1}
  BY DEF One
<1>5. (q \in Creating <=> f = 1) /\ (q \in Creating' <=> g = 1)
  BY DEF One
<1>6. a \in Nat /\ b \in Nat /\ b + f = a + g /\ count + a <= MaxOccurrences
  BY <1>2, <1>3
<1> HIDE DEF a, b, f, g
<1>7. count' + b <= MaxOccurrences
  <2>1. CASE count' = count
    BY <1>3, <1>4, <1>5, <1>6, <2>1, BoundsAssumption
  <2>2. CASE count' # count
    <3>1. f = 1 /\ g = 0 /\ count' = count + 1
      BY <1>4, <1>5, <2>2
    <3>2. QED
      BY <1>3, <1>6, <3>1, BoundsAssumption
  <2>3. QED
    BY <2>1, <2>2
<1>8. QED
  BY <1>7 DEF Room, b

\* Only the insert of an occurrence uses an id up, and no call makes a request
\* need one that did not.
LEMMA StepRoom ==
    ASSUME Base, NEW q \in Request, NEW c, Makes(q, c), Others(q),
           req'[q].todo = <<>> \/ Steps(req[q], req'[q], c),
           \/ /\ OnOccurrences(q, c) /\ Steps(req[q], req'[q], c)
           \/ count' = count /\ occ' = occ
    PROVE  Room'
<1>1. /\ req[q].todo # <<>> /\ req[q].todo[1] = c
      /\ c \in {"createOccurrence", "createNotification"} => req[q].method \in Scheduling
  BY AtCallForm
<1>2. q \in Creating' => q \in Creating /\ c # "createOccurrence"
  <2>1. ASSUME q \in Creating' PROVE q \in Creating /\ c # "createOccurrence"
    <3>1. /\ req'[q].todo # <<>> /\ req'[q].method \in Scheduling
          /\ req'[q].todo[1] # "createNotification"
      BY <2>1 DEF Creating
    <3>2. /\ req'[q].method = req[q].method
          /\ c # "createNotification" /\ c # "createOccurrence"
      BY <3>1, EffectRequest
    <3>3. QED
      BY <1>1, <3>1, <3>2 DEF Creating
  <2>2. QED
    BY <2>1
<1>3. CASE OnOccurrences(q, c) /\ Steps(req[q], req'[q], c)
  <2>1. count' \in Nat /\ \A i \in Occurrence : i > count' => occ'[i].reminder = None
    BY <1>3, EffectOccurrences
  <2>2. count' = IF c = "createOccurrence" THEN count + 1 ELSE count
    BY <1>3 DEF OnOccurrences
  <2>3. c = "createOccurrence" => q \in Creating
    BY <1>1 DEF Creating
  <2>4. QED
    BY <1>2, <2>1, <2>2, <2>3, RoomKept
<1>4. CASE count' = count /\ occ' = occ
  <2>1. count' \in Nat /\ \A i \in Occurrence : i > count' => occ'[i].reminder = None
    BY <1>4 DEF Base, IInv, TypeOK, Room
  <2>2. QED
    BY <1>2, <1>4, <2>1, RoomKept
<1>5. QED
  BY <1>3, <1>4

\* What the others have listed or inserted stays theirs.
LEMMA MineKept ==
    ASSUME Base, NEW q \in Request, Others(q), missed \subseteq missed',
           \A i \in Occurrence : occ[i].reminder # None =>
              occ'[i].reminder = occ[i].reminder /\ occ'[i].at = occ[i].at,
           LET x == req'[q] IN
           /\ x.todo # <<>> /\ x.todo[1] = "markDone" =>
                x.mine \in Occurrence /\ occ'[x.mine].reminder = x.target
           /\ x.todo # <<>> /\ x.todo[1] = "createNotification" =>
                \/ <<x.target, "createOccurrence">> \in missed'
                \/ /\ x.mine \in Occurrence
                   /\ occ'[x.mine].reminder = x.target /\ occ'[x.mine].at = x.copy.next
    PROVE  Mine'
<1>1. ASSUME NEW p \in Request \ {q}
      PROVE  LET x == req'[p] IN
             /\ x.todo # <<>> /\ x.todo[1] = "markDone" =>
                  x.mine \in Occurrence /\ occ'[x.mine].reminder = x.target
             /\ x.todo # <<>> /\ x.todo[1] = "createNotification" =>
                  \/ <<x.target, "createOccurrence">> \in missed'
                  \/ /\ x.mine \in Occurrence
                     /\ occ'[x.mine].reminder = x.target /\ occ'[x.mine].at = x.copy.next
  <2> DEFINE x == req[p]
  <2>1. req'[p] = x
    BY DEF Others
  <2>2. x.todo # <<>> => x.target # None
    BY NoneAssumption DEF Base, IInv, WellFormed
  <2>3. /\ x.todo # <<>> /\ x.todo[1] = "markDone" =>
             x.mine \in Occurrence /\ occ[x.mine].reminder = x.target
        /\ x.todo # <<>> /\ x.todo[1] = "createNotification" =>
             \/ <<x.target, "createOccurrence">> \in missed
             \/ /\ x.mine \in Occurrence
                /\ occ[x.mine].reminder = x.target /\ occ[x.mine].at = x.copy.next
    BY DEF Base, Mine
  <2> HIDE DEF x
  <2>4. QED
    BY <2>1, <2>2, <2>3
<1>2. QED
  BY <1>1 DEF Mine

LEMMA CallBase ==
    ASSUME Base, IInv', NEW q \in Request, NEW c, Makes(q, c), Effect(q, c)
    PROVE  Base'
<1>1. /\ Others(q) /\ Steps(req[q], req'[q], c) /\ OnOccurrences(q, c)
      /\ missed' = missed
      /\ c = "list" /\ req'[q].todo # <<>> => req'[q].mine \in ScheduledOf(req[q].target)
  BY DEF Effect
<1>2. \A p \in Request : Form(req'[p])
  BY <1>1, StepForm DEF Others, Base
<1>3. Room'
  BY <1>1, StepRoom
<1>4. Mine'
  <2> DEFINE y == req'[q]
  <2>1. \A i \in Occurrence : occ[i].reminder # None =>
          occ'[i].reminder = occ[i].reminder /\ occ'[i].at = occ[i].at
    BY <1>1, EffectOccurrences
  <2>2. y.todo # <<>> =>
          /\ y.target = req[q].target
          /\ y.todo[1] = "markDone" => c = "list"
          /\ y.todo[1] = "createNotification" => c = "createOccurrence"
    BY <1>1, EffectRequest
  <2>3. y.todo # <<>> /\ c = "list" =>
          y.mine \in Occurrence /\ occ'[y.mine].reminder = y.target
    <3>1. c = "list" => occ' = occ
      BY <1>1 DEF OnOccurrences
    <3>2. QED
      BY <1>1, <2>2, <3>1 DEF ScheduledOf
  <2>4. y.todo # <<>> /\ c = "createOccurrence" =>
          /\ y.mine \in Occurrence
          /\ occ'[y.mine].reminder = y.target /\ occ'[y.mine].at = y.copy.next
    <3>1. ASSUME y.todo # <<>>, c = "createOccurrence"
          PROVE  y.mine = count + 1 /\ y.copy = req[q].copy
      BY <1>1, <3>1 DEF OnOccurrences, Steps
    <3>2. c = "createOccurrence" =>
            /\ occ'[count + 1].reminder = req[q].target
            /\ occ'[count + 1].at = req[q].copy.next
            /\ count + 1 \in Occurrence
      BY <1>1, EffectOccurrences, NextId
    <3>3. QED
      BY <2>2, <3>1, <3>2
  <2> HIDE DEF y
  <2>5. /\ y.todo # <<>> /\ y.todo[1] = "markDone" =>
             y.mine \in Occurrence /\ occ'[y.mine].reminder = y.target
        /\ y.todo # <<>> /\ y.todo[1] = "createNotification" =>
             \/ <<y.target, "createOccurrence">> \in missed'
             \/ /\ y.mine \in Occurrence
                /\ occ'[y.mine].reminder = y.target /\ occ'[y.mine].at = y.copy.next
    BY <2>2, <2>3, <2>4
  <2>6. QED
    BY <1>1, <2>1, <2>5, MineKept DEF y
<1>5. QED
  BY <1>2, <1>3, <1>4 DEF Base

LEMMA FailureBase ==
    ASSUME Base, IInv', NEW q \in Request, NEW c, Fails(q, c)
    PROVE  Base'
<1>1. /\ Others(q) /\ Makes(q, c) /\ missed \subseteq missed'
      /\ occ' = occ /\ count' = count
      /\ req'[q].todo = <<>> \/ Steps(req[q], req'[q], c)
  BY DEF Fails
<1>2. \A p \in Request : Form(req'[p])
  <2>1. Form(req'[q])
    BY <1>1, StepForm DEF Form
  <2>2. QED
    BY <1>1, <2>1 DEF Others, Base
<1>3. Room'
  BY <1>1, StepRoom
<1>4. Mine'
  <2> DEFINE y == req'[q]
  <2>1. y.todo # <<>> =>
          /\ y.target = req[q].target
          /\ y.todo[1] = "markDone" => c = "list"
          /\ y.todo[1] = "createNotification" => c = "createOccurrence"
    BY <1>1, EffectRequest
  <2>2. y.todo # <<>> =>
          /\ c # "list"
          /\ missed' = missed \union {<<req[q].target, c>>}
    BY DEF Fails, Lost
  <2> HIDE DEF y
  <2>3. /\ y.todo # <<>> => y.todo[1] # "markDone"
        /\ y.todo # <<>> /\ y.todo[1] = "createNotification" =>
             <<y.target, "createOccurrence">> \in missed'
    BY <2>1, <2>2
  <2>4. /\ y.todo # <<>> /\ y.todo[1] = "markDone" =>
             y.mine \in Occurrence /\ occ'[y.mine].reminder = y.target
        /\ y.todo # <<>> /\ y.todo[1] = "createNotification" =>
             \/ <<y.target, "createOccurrence">> \in missed'
             \/ /\ y.mine \in Occurrence
                /\ occ'[y.mine].reminder = y.target /\ occ'[y.mine].at = y.copy.next
    BY <2>3
  <2>5. QED
    BY <1>1, <2>4, MineKept DEF y
<1>5. QED
  BY <1>2, <1>3, <1>4 DEF Base

\* What the beginning of a request changes.
Begins(q, r) ==
    \E method \in Operation :
        /\ Idle(q) /\ RoomFor(method) /\ Others(q) /\ Form(req'[q])
        /\ req'[q].todo # <<>> /\ req'[q].method = method
        /\ req'[q].todo[1] \in {"insert", "update", "list", "softDelete"}
        /\ method = "delete" => req'[q].todo[1] = "softDelete"
        /\ UNCHANGED <<rem, occ, notif, count, usage, stale, slips, missed>>

LEMMA BeginStep ==
    ASSUME Base, NEW q \in Request, NEW r \in Reminder, NEW method \in Operation,
           NEW before \in Row, NEW after \in Row,
           Begin(q, r, method, before, after),
           method # "create" => before.status \in Live,
           method = "edit" => after = before,
           method \in {"pause", "complete"} => after.recurrence = before.recurrence,
           method = "pause" => after.next = before.next
    PROVE  Begins(q, r)
<1> DEFINE x == [todo |-> Calls[method], method |-> method, target |-> r,
                 read |-> before, copy |-> after, mine |-> 0]
<1>1. /\ Idle(q) /\ RoomFor(method) /\ UNCHANGED <<tables, ghosts>>
      /\ req' = [req EXCEPT ![q] = x]
  BY DEF Begin
<1>2. /\ x.todo = Calls[method] /\ x.method = method
      /\ x.read = before /\ x.copy = after
  OBVIOUS
<1>3. x \in RequestState
  BY CallsTable DEF RequestState
<1> HIDE DEF x
<1>4. req'[q] = x /\ Others(q)
  BY <1>1, <1>3 DEF Others, Base, IInv, TypeOK
<1>5. /\ Chain(method, x.todo) /\ x.todo # <<>>
      /\ x.todo[1] \in {"insert", "update", "list", "softDelete"}
      /\ method = "delete" => x.todo[1] = "softDelete"
  BY <1>2, CallsChain, CallsTable
<1>6. Form(x)
  BY <1>2, <1>5 DEF Form
<1>7. QED
  BY <1>1, <1>2, <1>4, <1>5, <1>6 DEF Begins, tables, ghosts

LEMMA HandleBegins ==
    ASSUME Base, NEW q \in Request, NEW r \in Reminder, Handle(q, r)
    PROVE  Begins(q, r)
<1> USE DEF Operation, Calls
<1>1. rem[r] \in Row
  BY DEF Base, IInv, TypeOK
<1>2. Found(r) => rem[r].status \in Live
  BY <1>1 DEF Found, Row
<1>3. CASE CreateReminder(q, r)
  <2>1. PICK recurrence \in Recurrence, next \in Time :
          Begin(q, r, "create", NoReminder,
                [status |-> "active", recurrence |-> recurrence, next |-> next])
    BY <1>3 DEF CreateReminder
  <2> DEFINE row == [status |-> "active", recurrence |-> recurrence, next |-> next]
  <2>2. row \in Row /\ NoReminder \in Row
    BY RequestAssumption DEF Row, Live, NoReminder
  <2>3. Begin(q, r, "create", NoReminder, row)
    BY <2>1
  <2> HIDE DEF row
  <2>4. QED
    BY <2>2, <2>3, BeginStep
<1>4. CASE EditReminder(q, r)
  BY <1>1, <1>2, <1>4, BeginStep DEF EditReminder
<1>5. CASE RescheduleReminder(q, r)
  <2>1. PICK recurrence \in Recurrence, next \in Time \union {rem[r].next} :
          Begin(q, r, "reschedule", rem[r],
                [rem[r] EXCEPT !.recurrence = recurrence, !.next = next])
    BY <1>5, Zenon DEF RescheduleReminder
  <2> DEFINE row == [rem[r] EXCEPT !.recurrence = recurrence, !.next = next]
  <2>2. rem[r].next \in Nat /\ Found(r)
    BY <1>1, <1>5 DEF Row, RescheduleReminder
  <2>3. row \in Row
    BY <1>1, <2>2, RequestAssumption DEF Row
  <2>4. Begin(q, r, "reschedule", rem[r], row)
    BY <2>1
  <2> HIDE DEF row
  <2>5. QED
    BY <1>1, <1>2, <2>2, <2>3, <2>4, BeginStep
<1>6. CASE PauseReminder(q, r)
  <2> DEFINE row == [rem[r] EXCEPT !.status = "paused"]
  <2>1. /\ row \in Row /\ row.recurrence = rem[r].recurrence
        /\ row.next = rem[r].next
    BY <1>1 DEF Row, Live
  <2>2. Begin(q, r, "pause", rem[r], row) /\ Found(r)
    BY <1>6 DEF PauseReminder
  <2> HIDE DEF row
  <2>3. QED
    BY <1>1, <1>2, <2>1, <2>2, BeginStep
<1>7. CASE ResumeReminder(q, r)
  <2>1. PICK now \in Time :
          Begin(q, r, "resume", rem[r],
                [rem[r] EXCEPT !.status = "active",
                               !.next = CalculateNextRunAt(rem[r], now)])
    BY <1>7, Zenon DEF ResumeReminder
  <2> DEFINE row == [rem[r] EXCEPT !.status = "active",
                                   !.next = CalculateNextRunAt(rem[r], now)]
  <2>2. CalculateNextRunAt(rem[r], now) \in Nat
    BY <1>1, RequestAssumption DEF CalculateNextRunAt, Row
  <2>3. row \in Row
    BY <1>1, <2>2 DEF Row, Live
  <2>4. Begin(q, r, "resume", rem[r], row) /\ Found(r)
    BY <1>7, <2>1 DEF ResumeReminder
  <2> HIDE DEF row
  <2>5. QED
    BY <1>1, <1>2, <2>3, <2>4, BeginStep
<1>8. CASE CompleteOccurrence(q, r)
  BY <1>1, <1>2, <1>8, BeginStep DEF CompleteOccurrence
<1>9. CASE DeleteReminder(q, r)
  BY <1>1, <1>2, <1>9, BeginStep DEF DeleteReminder
<1>10. QED
  BY <1>3, <1>4, <1>5, <1>6, <1>7, <1>8, <1>9 DEF Handle

LEMMA BeginBase ==
    ASSUME Base, IInv', NEW q \in Request, NEW r, Begins(q, r)
    PROVE  Base'
<1>1. PICK method \in Operation :
        /\ Idle(q) /\ RoomFor(method) /\ Others(q) /\ Form(req'[q])
        /\ req'[q].todo # <<>> /\ req'[q].method = method
        /\ req'[q].todo[1] \in {"insert", "update", "list", "softDelete"}
        /\ UNCHANGED <<rem, occ, notif, count, usage, stale, slips, missed>>
  BY DEF Begins
<1>2. \A p \in Request : Form(req'[p])
  BY <1>1 DEF Others, Base
<1>3. Mine'
  BY <1>1, MineKept
<1>4. Room'
  <2> DEFINE B == {p \in Request : ~Idle(p) /\ req[p].method # "delete"}
  <2>1. q \notin Creating /\ Creating \ {q} = Creating' \ {q}
    BY <1>1 DEF Creating, Others, Idle
  <2>2. /\ Cardinality(Creating) \in Nat /\ Cardinality(Creating') \in Nat
        /\ Cardinality(Creating') + One(q \in Creating)
             = Cardinality(Creating) + One(q \in Creating')
    BY <2>1, CreatingFinite, SizeButOne
  <2>3. One(q \in Creating) = 0
    BY <2>1 DEF One
  <2>4. count \in Nat /\ count + Cardinality(Creating) <= MaxOccurrences
    BY DEF Base, IInv, TypeOK, Room
  <2>5. CASE method = "delete"
    <3>1. q \notin Creating'
      BY <1>1, <2>5 DEF Creating, Scheduling
    <3>2. One(q \in Creating') = 0
      BY <3>1 DEF One
    <3>3. count' + Cardinality(Creating') <= MaxOccurrences
      BY <1>1, <2>2, <2>3, <2>4, <3>2
    <3>4. QED
      BY <1>1, <3>3 DEF Room, Base
  <2>6. CASE method # "delete"
    <3>1. One(q \in Creating') \in {0, 1}
      BY DEF One
    <3>2. Creating \subseteq B /\ B \subseteq Request
      BY DEF Creating, Idle, Scheduling
    <3>3. IsFiniteSet(B)
      BY <3>2, FS_Subset, PlacesAssumption
    <3>4. Cardinality(Creating) <= Cardinality(B) /\ Cardinality(B) \in Nat
      BY <3>2, <3>3, FS_Subset, FS_CardinalityType
    <3>5. count + Cardinality(B) < MaxOccurrences
      BY <1>1, <2>6 DEF RoomFor
    <3> HIDE DEF B
    <3>6. count' + Cardinality(Creating') <= MaxOccurrences
      BY <1>1, <2>2, <2>3, <2>4, <3>1, <3>4, <3>5, BoundsAssumption
    <3>7. QED
      BY <1>1, <3>6 DEF Room, Base
  <2>7. QED
    BY <2>5, <2>6
<1>5. QED
  BY <1>2, <1>3, <1>4 DEF Base

LEMMA CrashBase ==
    ASSUME Base, IInv', Crash
    PROVE  Base'
<1>1. /\ \A q \in Request : req'[q].todo = <<>>
      /\ occ' = occ /\ count' = count
  BY DEF Crash, NoRequest, tables
<1>2. Creating' = {}
  BY <1>1 DEF Creating
<1>3. Room'
  <2>1. Cardinality(Creating') = 0
    BY <1>2, FS_EmptySet
  <2>2. count \in Nat /\ count + Cardinality(Creating) <= MaxOccurrences
    BY DEF Base, IInv, TypeOK, Room
  <2>3. Cardinality(Creating) \in Nat
    BY CreatingFinite
  <2>4. count' + Cardinality(Creating') <= MaxOccurrences
    BY <1>1, <2>1, <2>2, <2>3, BoundsAssumption
  <2>5. QED
    BY <1>1, <2>4 DEF Room, Base
<1>4. QED
  BY <1>1, <1>3 DEF Base, Form, Mine

LEMMA InitBase == Init => Base
<1> SUFFICES ASSUME Init PROVE Base
  OBVIOUS
<1>1. /\ \A q \in Request : req[q].todo = <<>>
      /\ count = 0 /\ \A i \in Occurrence : occ[i].reminder = None
  BY DEF Init, NoRequest, NoOccurrence
<1>2. Creating = {}
  BY <1>1 DEF Creating
<1>3. Cardinality(Creating) = 0
  BY <1>2, FS_EmptySet
<1>4. QED
  BY <1>1, <1>3, InitIInv, BoundsAssumption DEF Base, Room, Mine, Form

-----------------------------------------------------------------------------
(* No recurring reminder falls silent                                      *)

\* What was scheduled or about to be is so still.
LEMMA StillScheduled ==
    ASSUME Base, Silent, NEW q \in Request, Others(q), NEW r \in Reminder \ stale,
           rem[r].status \in Live, rem[r].recurrence # "one_time",
           <<r, "createOccurrence">> \notin missed,
           \A i \in Occurrence :
              occ[i].reminder = r /\ occ[i].status = "scheduled" => occ'[i] = occ[i],
           Schedules(req[q], r) => Schedules(req'[q], r)
    PROVE  \/ ScheduledOf(r)' # {}
           \/ \E p \in Request : Schedules(req'[p], r)
<1>1. CASE ScheduledOf(r) # {}
  <2>1. PICK i \in Occurrence : occ[i].reminder = r /\ occ[i].status = "scheduled"
    BY <1>1 DEF ScheduledOf
  <2>2. i \in ScheduledOf(r)'
    BY <2>1 DEF ScheduledOf
  <2>3. QED
    BY <2>2
<1>2. ASSUME NEW p \in Request, Schedules(req[p], r)
      PROVE  Schedules(req'[p], r)
  BY <1>2 DEF Others
<1>3. QED
  BY <1>1, <1>2 DEF Silent

LEMMA CallSilent ==
    ASSUME Base, Silent, NEW q \in Request, NEW c, Makes(q, c), Effect(q, c)
    PROVE  Silent'
<1> DEFINE x == req[q]
           y == req'[q]
<1>1. /\ Others(q) /\ Steps(x, y, c) /\ OnOccurrences(q, c) /\ OnRow(q, c)
      /\ missed' = missed /\ stale \subseteq stale'
  BY DEF Effect, OnRow
<1>2. /\ x.todo # <<>> /\ x.todo[1] = c /\ x.target \in Reminder
      /\ x.method \in Operation /\ c \in Own(x.method) /\ Form(x)
      /\ c = "insert" => x.method = "create"
      /\ c = "increment" => x.method = "create"
      /\ c = "markDone" => x.method = "complete"
      /\ c = "update" => /\ x.method \in {"edit", "reschedule", "pause",
                                          "resume", "complete"}
                         /\ x.read.status \in Live
      /\ c = "cancel" => x.method \in {"reschedule", "pause", "delete"}
      /\ c = "list" => x.method = "complete"
  BY AtCallForm DEF Base
<1>3. y.todo # <<>> =>
        /\ y.target = x.target /\ y.method = x.method
        /\ y.todo[1] = Following(x.method, c)
  BY <1>1 DEF Steps
<1>4. y.todo = <<>> => \/ Following(x.method, c) = "end" \/ c = "list"
                       \/ c = "markDone" /\ ~Recurs(x.copy)
  BY <1>1 DEF Steps
<1>5. SUFFICES ASSUME NEW r \in Reminder \ stale',
                      rem'[r].status \in Live, rem'[r].recurrence # "one_time",
                      <<r, "createOccurrence">> \notin missed'
               PROVE  \/ ScheduledOf(r)' # {}
                      \/ \E p \in Request : Schedules(req'[p], r)
  BY DEF Silent
<1>6. r \in Reminder \ stale /\ <<r, "createOccurrence">> \notin missed /\ r # None
  BY <1>1, <1>5, NoneAssumption
<1> HIDE DEF x, y
<1>7. ASSUME r # x.target
      PROVE  \/ ScheduledOf(r)' # {}
             \/ \E p \in Request : Schedules(req'[p], r)
  <2>1. rem'[r] = rem[r]
    BY <1>1, <1>6, <1>7 DEF OnRow, x
  <2>2. \A i \in Occurrence : occ[i].reminder = r => occ'[i] = occ[i]
    BY <1>1, <1>6, <1>7, EffectOccurrences DEF x
  <2>3. ~Schedules(req[q], r)
    BY <1>7 DEF Schedules, x
  <2>4. QED
    BY <1>1, <1>5, <1>6, <2>1, <2>2, <2>3, StillScheduled
<1>8. ASSUME r = x.target, \/ c \in {"insert", "increment", "markDone"}
                           \/ c = "cancel" /\ x.method = "reschedule"
                           \/ c = "update" /\ x.method \in Scheduling
      PROVE  \E p \in Request : Schedules(req'[p], r)
  <2>1. c = "markDone" => Recurs(x.copy)
    <3>1. ASSUME c = "markDone" PROVE x.copy.recurrence # "one_time"
      <4>1. rem[r] = x.read /\ rem'[r] = rem[r]
        BY <1>1, <1>5, <1>8, <3>1 DEF OnRow, x
      <4>2. x.copy.recurrence = x.read.recurrence
        BY <1>2, <3>1 DEF Form
      <4>3. QED
        BY <1>5, <4>1, <4>2
    <3>2. QED
      BY <3>1 DEF Recurs
  <2>2. x.method \in Scheduling
    BY <1>2, <1>8 DEF Scheduling
  <2>3. /\ Following(x.method, c) # "end"
        /\ \/ Following(x.method, c) \in {"increment", "cancel", "createOccurrence"}
           \/ Following(x.method, c) = "update" /\ x.method = "complete"
    BY <1>2, <1>8, <2>2 DEF Following, Scheduling
  <2>4. y.todo # <<>>
    BY <1>4, <1>8, <2>1, <2>3
  <2>5. Schedules(y, r)
    BY <1>3, <1>8, <2>2, <2>3, <2>4 DEF Schedules, In
  <2>6. QED
    BY <2>5 DEF y
<1>9. ASSUME r = x.target, c = "createOccurrence"
      PROVE  ScheduledOf(r)' # {}
  <2>1. count + 1 \in Occurrence
    BY <1>9, NextId
  <2>2. occ'[count + 1].reminder = r /\ occ'[count + 1].status = "scheduled"
    BY <1>1, <1>9, EffectOccurrences DEF x
  <2>3. count + 1 \in ScheduledOf(r)'
    BY <2>1, <2>2 DEF ScheduledOf
  <2>4. QED
    BY <2>3
<1>10. ASSUME r = x.target, c \in {"list", "createNotification", "cancel", "decrement", "update"},
              c = "cancel" => x.method # "reschedule",
              c = "update" => x.method \notin Scheduling
       PROVE  \/ ScheduledOf(r)' # {}
              \/ \E p \in Request : Schedules(req'[p], r)
  <2>1. occ' = occ
    BY <1>1, <1>10 DEF OnOccurrences
  <2>2. ~Schedules(x, r)
    BY <1>2, <1>10 DEF Schedules, In, Scheduling
  <2>3. rem[r].status \in Live /\ rem[r].recurrence # "one_time"
    <3>1. CASE c = "update"
      <4>1. rem[r] = x.read /\ rem'[r] = x.copy
        BY <1>1, <1>5, <1>10, <3>1 DEF OnRow, x
      <4>2. x.method \in {"edit", "pause"}
        BY <1>2, <1>10, <3>1 DEF Scheduling
      <4>3. x.copy.recurrence = x.read.recurrence
        BY <1>2, <4>2 DEF Form
      <4>4. QED
        BY <1>2, <1>5, <3>1, <4>1, <4>3
    <3>2. CASE c # "update"
      <4>1. rem'[r] = rem[r]
        BY <1>1, <1>10, <3>2 DEF OnRow, x
      <4>2. QED
        BY <1>5, <4>1
    <3>3. QED
      BY <3>1, <3>2
  <2>4. QED
    BY <1>1, <1>6, <2>1, <2>2, <2>3, StillScheduled DEF x
<1>11. c # "softDelete" \/ r # x.target
  BY <1>1, <1>5 DEF OnRow, Live, x
<1>12. c \in {"insert", "increment", "update", "list", "markDone",
              "createOccurrence", "createNotification", "softDelete", "decrement",
              "cancel"}
  BY <1>2 DEF Own, Operation, Calls
<1>13. QED
  BY <1>7, <1>8, <1>9, <1>10, <1>11, <1>12

LEMMA FailureSilent ==
    ASSUME Base, Silent, NEW q \in Request, NEW c, Fails(q, c)
    PROVE  Silent'
<1> DEFINE x == req[q]
           y == req'[q]
<1>1. /\ Others(q) /\ Makes(q, c) /\ missed \subseteq missed'
      /\ UNCHANGED <<rem, occ, stale>>
  BY DEF Fails
<1>2. SUFFICES ASSUME NEW r \in Reminder \ stale,
                      rem[r].status \in Live, rem[r].recurrence # "one_time",
                      <<r, "createOccurrence">> \notin missed'
               PROVE  \/ ScheduledOf(r)' # {}
                      \/ \E p \in Request : Schedules(req'[p], r)
  BY <1>1 DEF Silent
<1>3. ASSUME Schedules(x, r) PROVE Schedules(y, r)
  <2>1. Steps(x, y, c) /\ Lost(q, c)
    <3>1. \/ missed' = missed \union Missed(q, CallsIn(x.todo))
          \/ Steps(x, y, c) /\ Lost(q, c)
      BY DEF Fails
    <3>2. <<r, "createOccurrence">> \in Missed(q, CallsIn(x.todo))
      BY <1>3, EndMisses
    <3>3. QED
      BY <1>2, <3>1, <3>2
  <2>2. x.todo # <<>> /\ x.todo[1] = c /\ x.target = r /\ x.method \in Scheduling
    BY <1>1, <1>3, AtCallForm DEF Schedules
  <2>3. c # "createOccurrence"
    BY <1>2, <2>1, <2>2 DEF Lost
  <2>4. \/ c = "increment"
        \/ c = "cancel" /\ x.method = "reschedule"
        \/ c = "update" /\ x.method = "complete"
    <3>1. c = "cancel" => x.method \in {"reschedule", "pause", "delete"}
      BY <1>1, AtCallForm
    <3>2. QED
      BY <1>3, <2>2, <2>3, <3>1 DEF Schedules, In, Scheduling
  <2>5. Following(x.method, c) = "createOccurrence"
    BY <2>4 DEF Following
  <2>6. /\ y.todo # <<>> /\ y.todo[1] = "createOccurrence"
        /\ y.method = x.method /\ y.target = x.target
    BY <2>1, <2>4, <2>5 DEF Steps
  <2>7. QED
    BY <2>2, <2>6 DEF Schedules
<1>4. QED
  BY <1>1, <1>2, <1>3, StillScheduled

LEMMA BeginSilent ==
    ASSUME Base, Silent, NEW q \in Request, NEW r, Begins(q, r)
    PROVE  Silent'
<1>1. /\ Others(q) /\ UNCHANGED <<rem, occ, stale, missed>> /\ req[q].todo = <<>>
  BY DEF Begins, Idle
<1>2. \A e : ~Schedules(req[q], e)
  BY <1>1 DEF Schedules
<1>3. SUFFICES ASSUME NEW e \in Reminder \ stale,
                      rem[e].status \in Live, rem[e].recurrence # "one_time",
                      <<e, "createOccurrence">> \notin missed
               PROVE  \/ ScheduledOf(e)' # {}
                      \/ \E p \in Request : Schedules(req'[p], e)
  BY <1>1 DEF Silent
<1>4. QED
  BY <1>1, <1>2, <1>3, StillScheduled

-----------------------------------------------------------------------------
(* The next run is announced                                               *)

\* What was announced or about to be is so still.
LEMMA StillShown ==
    ASSUME Base, NextRun, NEW q \in Request, Others(q), NEW r \in Reminder \ stale,
           rem[r].status # "absent", rem'[r].next = rem[r].next,
           <<r, "createOccurrence">> \notin missed,
           <<r, "createNotification">> \notin missed,
           \A i \in Occurrence : occ[i].reminder # None =>
              occ'[i].reminder = occ[i].reminder /\ occ'[i].at = occ[i].at,
           \A i \in Occurrence : notif[i] # "absent" => notif'[i] # "absent",
           WillAnnounce(req[q], r, rem[r].next) =>
              Shown(r)' \/ WillAnnounce(req'[q], r, rem[r].next)
    PROVE  \/ Shown(r)'
           \/ \E p \in Request : WillAnnounce(req'[p], r, rem'[r].next)
<1>1. CASE Shown(r)
  <2>1. PICK i \in Occurrence :
          occ[i].reminder = r /\ occ[i].at = rem[r].next /\ notif[i] # "absent"
    BY <1>1 DEF Shown
  <2>2. occ'[i].reminder = r /\ occ'[i].at = rem'[r].next /\ notif'[i] # "absent"
    BY <2>1, NoneAssumption
  <2>3. QED
    BY <2>2 DEF Shown
<1>2. ASSUME NEW p \in Request, WillAnnounce(req[p], r, rem[r].next)
      PROVE  Shown(r)' \/ WillAnnounce(req'[p], r, rem'[r].next)
  BY <1>2 DEF Others
<1>3. QED
  BY <1>1, <1>2 DEF NextRun

LEMMA CallNextRun ==
    ASSUME Base, NextRun, NEW q \in Request, NEW c, Makes(q, c), Effect(q, c)
    PROVE  NextRun'
<1> DEFINE x == req[q]
           y == req'[q]
<1>1. /\ Others(q) /\ Steps(x, y, c) /\ OnOccurrences(q, c) /\ OnRow(q, c)
      /\ OnNotifications(q, c) /\ missed' = missed /\ stale \subseteq stale'
  BY DEF Effect, OnRow
<1>2. /\ x.todo # <<>> /\ x.todo[1] = c /\ x.target \in Reminder
      /\ x.method \in Operation /\ c \in Own(x.method) /\ Form(x)
      /\ c = "insert" => x.method = "create"
      /\ c = "update" => /\ x.method \in {"edit", "reschedule", "pause",
                                          "resume", "complete"}
                         /\ x.read.status \in Live
      /\ c = "cancel" => x.method \in {"reschedule", "pause", "delete"}
      /\ c = "softDelete" => x.read.status \in Live
  BY AtCallForm DEF Base
<1>3. y.todo # <<>> =>
        /\ y.target = x.target /\ y.method = x.method
        /\ y.todo[1] = Following(x.method, c)
        /\ c # "markDone" => y.copy = x.copy
  BY <1>1 DEF Steps
<1>4. y.todo = <<>> => \/ Following(x.method, c) = "end"
                       \/ c \in {"list", "markDone"}
  BY <1>1 DEF Steps
<1>5. SUFFICES ASSUME NEW r \in Reminder \ stale', rem'[r].status # "absent",
                      <<r, "createOccurrence">> \notin missed',
                      <<r, "createNotification">> \notin missed'
               PROVE  \/ Shown(r)'
                      \/ \E p \in Request : WillAnnounce(req'[p], r, rem'[r].next)
  BY DEF NextRun
<1>6. /\ r \in Reminder \ stale
      /\ <<r, "createOccurrence">> \notin missed
      /\ <<r, "createNotification">> \notin missed
      /\ \A i \in Occurrence : occ[i].reminder # None =>
           occ'[i].reminder = occ[i].reminder /\ occ'[i].at = occ[i].at
      /\ \A i \in Occurrence : notif[i] # "absent" => notif'[i] # "absent"
  BY <1>1, <1>5, EffectOccurrences DEF OnNotifications
<1> HIDE DEF x, y
<1>7. ASSUME r # x.target
      PROVE  \/ Shown(r)'
             \/ \E p \in Request : WillAnnounce(req'[p], r, rem'[r].next)
  <2>1. rem'[r] = rem[r]
    BY <1>1, <1>6, <1>7 DEF OnRow, x
  <2>2. ~WillAnnounce(req[q], r, rem[r].next)
    BY <1>7 DEF WillAnnounce, x
  <2>3. QED
    BY <1>1, <1>5, <1>6, <2>1, <2>2, StillShown
<1>8. ASSUME r = x.target,
             \/ c = "insert"
             \/ c = "update" /\ x.method \in Scheduling
      PROVE  \E p \in Request : WillAnnounce(req'[p], r, rem'[r].next)
  <2>1. /\ Following(x.method, c) # "end"
        /\ Following(x.method, c) \in {"increment", "cancel", "createOccurrence"}
        /\ x.method \in Scheduling
    BY <1>2, <1>8 DEF Following, Scheduling
  <2>2. y.todo # <<>> /\ y.copy = x.copy
    BY <1>3, <1>4, <1>8, <2>1
  <2>3. rem'[r] = x.copy
    BY <1>1, <1>8 DEF OnRow, x
  <2>4. WillAnnounce(y, r, rem'[r].next)
    BY <1>3, <1>8, <2>1, <2>2, <2>3 DEF WillAnnounce
  <2>5. QED
    BY <2>4 DEF y
<1>9. ASSUME r = x.target, c # "insert",
              c = "update" => x.method \notin Scheduling
      PROVE  \/ Shown(r)'
             \/ \E p \in Request : WillAnnounce(req'[p], r, rem'[r].next)
  <2>1. rem[r].status # "absent" /\ rem'[r].next = rem[r].next
    <3>1. CASE c = "update"
      <4>1. rem[r] = x.read /\ rem'[r] = x.copy
        BY <1>1, <1>5, <1>9, <3>1 DEF OnRow, x
      <4>2. x.method \in {"edit", "pause"}
        BY <1>2, <1>9, <3>1 DEF Scheduling
      <4>3. x.copy.next = x.read.next
        BY <1>2, <4>2 DEF Form
      <4>4. x.read.status # "absent"
        BY <1>2, <3>1 DEF Live
      <4>5. QED
        BY <4>1, <4>3, <4>4
    <3>2. CASE c = "softDelete"
      <4>1. rem[r] = x.read /\ rem'[r].next = rem[r].next
        BY <1>1, <1>5, <1>9, <3>2 DEF OnRow, x
      <4>2. x.read.status # "absent"
        BY <1>2, <3>2 DEF Live
      <4>3. QED
        BY <4>1, <4>2
    <3>3. CASE c \notin {"update", "softDelete"}
      <4>1. rem'[r] = rem[r]
        BY <1>1, <1>9, <3>3 DEF OnRow, x
      <4>2. QED
        BY <1>5, <4>1
    <3>4. QED
      BY <3>1, <3>2, <3>3
  <2>2. ASSUME WillAnnounce(x, r, rem[r].next)
        PROVE  Shown(r)' \/ WillAnnounce(y, r, rem[r].next)
    <3>1. /\ c \in {"increment", "cancel", "createOccurrence", "createNotification"}
          /\ x.method \in Scheduling /\ x.copy.next = rem[r].next
      BY <1>2, <2>2 DEF WillAnnounce
    <3>2. CASE c = "createNotification"
      <4>1. \/ <<x.target, "createOccurrence">> \in missed
            \/ /\ x.mine \in Occurrence
               /\ occ[x.mine].reminder = x.target /\ occ[x.mine].at = x.copy.next
        BY <1>2, <3>2 DEF Base, Mine, x
      <4>2. /\ x.mine \in Occurrence
            /\ occ[x.mine].reminder = r /\ occ[x.mine].at = rem[r].next
        BY <1>6, <1>9, <3>1, <4>1
      <4>3. occ' = occ /\ notif'[x.mine] # "absent"
        BY <1>1, <3>2, <4>2 DEF OnOccurrences, OnNotifications, x
      <4>4. Shown(r)'
        BY <2>1, <4>2, <4>3 DEF Shown
      <4>5. QED
        BY <4>4
    <3>3. CASE c # "createNotification"
      <4>1. Following(x.method, c) \in {"createOccurrence", "createNotification"}
        BY <1>2, <3>1, <3>3 DEF Following, Scheduling
      <4>2. Following(x.method, c) # "end"
        BY <4>1
      <4>3. y.todo # <<>>
        BY <1>4, <3>1, <4>2
      <4>4. /\ y.target = x.target /\ y.method = x.method /\ y.copy = x.copy
            /\ y.todo[1] = Following(x.method, c)
        BY <1>3, <3>1, <4>3
      <4>5. WillAnnounce(y, r, rem[r].next)
        BY <1>9, <3>1, <4>1, <4>3, <4>4 DEF WillAnnounce
      <4>6. QED
        BY <4>5
    <3>4. QED
      BY <3>2, <3>3
  <2>3. QED
    BY <1>1, <1>6, <2>1, <2>2, StillShown DEF x, y
<1>10. QED
  BY <1>7, <1>8, <1>9

LEMMA FailureNextRun ==
    ASSUME Base, NextRun, NEW q \in Request, NEW c, Fails(q, c)
    PROVE  NextRun'
<1> DEFINE x == req[q]
           y == req'[q]
<1>1. /\ Others(q) /\ Makes(q, c) /\ missed \subseteq missed'
      /\ UNCHANGED <<rem, occ, notif, stale>>
  BY DEF Fails
<1>2. SUFFICES ASSUME NEW r \in Reminder \ stale, rem[r].status # "absent",
                      <<r, "createOccurrence">> \notin missed',
                      <<r, "createNotification">> \notin missed'
               PROVE  \/ Shown(r)'
                      \/ \E p \in Request : WillAnnounce(req'[p], r, rem'[r].next)
  BY <1>1 DEF NextRun
<1>3. ASSUME WillAnnounce(x, r, rem[r].next) PROVE WillAnnounce(y, r, rem[r].next)
  <2>1. Steps(x, y, c) /\ Lost(q, c)
    <3>1. \/ missed' = missed \union Missed(q, CallsIn(x.todo))
          \/ Steps(x, y, c) /\ Lost(q, c)
      BY DEF Fails
    <3>2. <<r, "createNotification">> \in Missed(q, CallsIn(x.todo))
      BY <1>3, EndMisses
    <3>3. QED
      BY <1>2, <3>1, <3>2
  <2>2. /\ x.todo # <<>> /\ x.todo[1] = c /\ x.target = r /\ x.method \in Scheduling
        /\ c \in {"increment", "cancel", "createOccurrence", "createNotification"}
        /\ c = "cancel" => x.method = "reschedule"
    BY <1>1, <1>3, AtCallForm DEF WillAnnounce, Scheduling
  <2>3. c \notin {"createOccurrence", "createNotification"}
    BY <1>2, <2>1, <2>2 DEF Lost
  <2>4. Following(x.method, c) = "createOccurrence"
    BY <2>2, <2>3 DEF Following
  <2>5. /\ y.todo # <<>> /\ y.todo[1] = "createOccurrence" /\ y.copy = x.copy
        /\ y.method = x.method /\ y.target = x.target
    BY <2>1, <2>2, <2>4 DEF Steps
  <2>6. QED
    BY <1>3, <2>2, <2>5 DEF WillAnnounce
<1>4. QED
  BY <1>1, <1>2, <1>3, StillShown

LEMMA BeginNextRun ==
    ASSUME Base, NextRun, NEW q \in Request, NEW r, Begins(q, r)
    PROVE  NextRun'
<1>1. /\ Others(q) /\ UNCHANGED <<rem, occ, notif, stale, missed>>
      /\ req[q].todo = <<>>
  BY DEF Begins, Idle
<1>2. \A e, next : ~WillAnnounce(req[q], e, next)
  BY <1>1 DEF WillAnnounce
<1>3. SUFFICES ASSUME NEW e \in Reminder \ stale, rem[e].status # "absent",
                      <<e, "createOccurrence">> \notin missed,
                      <<e, "createNotification">> \notin missed
               PROVE  \/ Shown(e)'
                      \/ \E p \in Request : WillAnnounce(req'[p], e, rem'[e].next)
  BY <1>1 DEF NextRun
<1>4. QED
  BY <1>1, <1>2, <1>3, StillShown

-----------------------------------------------------------------------------
(* The usage counter                                                       *)

LEMMA FinitePlaces ==
    IsFiniteSet(Uncounted) /\ IsFiniteSet(Undiscounted)
BY PlacesAssumption, FS_Subset DEF Uncounted, Undiscounted

\* The change that one step of q makes to each side of the comparison.
Balanced(q, r) ==
    /\ usage # NoRow
    /\ \A e \in Reminder : <<e, "increment">> \notin missed
    /\ Covered' + One(q \in Uncounted') + One(r \in Lives) + One(q \in Undiscounted)
         >= Covered + One(q \in Uncounted) + One(r \in Lives') + One(q \in Undiscounted')

\* What one step adds to, and takes from, both sides.
Shift(q, r) ==
    /\ Cardinality(Uncounted') + One(q \in Uncounted)
         = Cardinality(Uncounted) + One(q \in Uncounted')
    /\ Cardinality(Lives') + One(r \in Lives) = Cardinality(Lives) + One(r \in Lives')
    /\ Cardinality(Undiscounted') + One(q \in Undiscounted)
         = Cardinality(Undiscounted) + One(q \in Undiscounted')

LEMMA Rebalanced ==
    ASSUME NEW q, NEW r, Shift(q, r), Covered \in Nat, Covered' \in Nat,
           Cardinality(Uncounted) \in Nat, Cardinality(Uncounted') \in Nat,
           Cardinality(Lives) \in Nat, Cardinality(Lives') \in Nat,
           Cardinality(Undiscounted) \in Nat, Cardinality(Undiscounted') \in Nat,
           Covered + Cardinality(Uncounted) >= Cardinality(Lives) + Cardinality(Undiscounted),
           Covered' + One(q \in Uncounted') + One(r \in Lives) + One(q \in Undiscounted)
             >= Covered + One(q \in Uncounted) + One(r \in Lives') + One(q \in Undiscounted')
    PROVE  Covered' + Cardinality(Uncounted') >= Cardinality(Lives') + Cardinality(Undiscounted')
<1> DEFINE n == Covered                   m == Covered'
           u == Cardinality(Uncounted)    v == Cardinality(Uncounted')
           a == Cardinality(Lives)        b == Cardinality(Lives')
           s == Cardinality(Undiscounted) t == Cardinality(Undiscounted')
           fu == One(q \in Uncounted)     fv == One(q \in Uncounted')
           fa == One(r \in Lives)         fb == One(r \in Lives')
           fs == One(q \in Undiscounted)  ft == One(q \in Undiscounted')
<1>1. \A p : One(p) \in Int
  BY DEF One
<1>2. /\ n \in Int /\ m \in Int /\ u \in Int /\ v \in Int /\ a \in Int
      /\ b \in Int /\ s \in Int /\ t \in Int
      /\ n + u >= a + s /\ m + fv + fa + fs >= n + fu + fb + ft
  OBVIOUS
<1>3. /\ fu \in Int /\ fv \in Int /\ fa \in Int /\ fb \in Int /\ fs \in Int
      /\ ft \in Int
  BY <1>1
<1>4. b + fa = a + fb /\ v + fu = u + fv /\ t + fs = s + ft
  BY DEF Shift
<1> HIDE DEF n, m, u, v, a, b, s, t, fu, fv, fa, fb, fs, ft
<1>5. m + v >= b + t
  BY <1>2, <1>3, <1>4
<1>6. QED
  BY <1>5 DEF m, v, b, t

LEMMA CountedKept ==
    ASSUME Base, Base', Counted, NEW q \in Request, Others(q), NEW r \in Reminder,
           \A e \in Reminder \ {r} : rem'[e] = rem[e],
           /\ usage' # NoRow
           /\ \A e \in Reminder : <<e, "increment">> \notin missed'
           => Balanced(q, r)
    PROVE  Counted'
<1>1. /\ Lives \ {r} = Lives' \ {r}
      /\ Uncounted \ {q} = Uncounted' \ {q}
      /\ Undiscounted \ {q} = Undiscounted' \ {q}
  BY DEF Others, Lives, Uncounted, Undiscounted
<1>2. IsFiniteSet(Lives)
  BY DEF Counted
<1>3. /\ IsFiniteSet(Lives') /\ Cardinality(Lives) \in Nat /\ Cardinality(Lives') \in Nat
      /\ Cardinality(Lives') + One(r \in Lives) = Cardinality(Lives) + One(r \in Lives')
  BY <1>1, <1>2, SizeButOne
<1>4. /\ Cardinality(Uncounted) \in Nat /\ Cardinality(Uncounted') \in Nat
      /\ Cardinality(Uncounted') + One(q \in Uncounted)
           = Cardinality(Uncounted) + One(q \in Uncounted')
  BY <1>1, FinitePlaces, SizeButOne
<1>5. /\ Cardinality(Undiscounted) \in Nat /\ Cardinality(Undiscounted') \in Nat
      /\ Cardinality(Undiscounted') + One(q \in Undiscounted)
           = Cardinality(Undiscounted) + One(q \in Undiscounted')
  BY <1>1, FinitePlaces, SizeButOne
<1>6. ASSUME usage' # NoRow,
             \A e \in Reminder : <<e, "increment">> \notin missed'
      PROVE  Covered' + Cardinality(Uncounted')
               >= Cardinality(Lives') + Cardinality(Undiscounted')
  <2>1. Balanced(q, r)
    BY <1>6
  <2>2. Covered \in Nat /\ Covered' \in Nat
    <3>1. usage \in Nat /\ usage' \in Nat
      BY <1>6, <2>1 DEF Balanced, Base, IInv, TypeOK
    <3>2. slips \in Nat /\ slips' \in Nat
      <4>1. slips \in 0 .. MaxSlips /\ slips' \in 0 .. MaxSlips
        BY DEF Base, IInv, TypeOK
      <4>2. \A n \in 0 .. MaxSlips : n \in Nat
        BY BoundsAssumption
      <4>3. QED
        BY <4>1, <4>2
    <3>3. \A m \in Nat, n \in Nat : m + n \in Nat
      OBVIOUS
    <3>4. usage + slips \in Nat /\ usage' + slips' \in Nat
      BY <3>1, <3>2, <3>3
    <3>5. QED
      BY <3>4, Zenon DEF Covered
  <2>3. Covered + Cardinality(Uncounted) >= Cardinality(Lives) + Cardinality(Undiscounted)
    BY <2>1 DEF Counted, Balanced
  <2>4. Covered' + One(q \in Uncounted') + One(r \in Lives) + One(q \in Undiscounted)
          >= Covered + One(q \in Uncounted) + One(r \in Lives') + One(q \in Undiscounted')
    BY <2>1 DEF Balanced
  <2>5. Shift(q, r)
    BY <1>3, <1>4, <1>5 DEF Shift
  <2>6. QED
    BY <1>3, <1>4, <1>5, <2>2, <2>3, <2>4, <2>5, Rebalanced
<1>7. QED
  BY <1>3, <1>6 DEF Counted

LEMMA CallCounted ==
    ASSUME Base, Base', Counted, NEW q \in Request, NEW c, Makes(q, c), Effect(q, c)
    PROVE  Counted'
<1> DEFINE r == req[q].target
           x == req[q]
           y == req'[q]
<1>1. /\ Others(q) /\ Steps(x, y, c) /\ OnRow(q, c) /\ OnUsage(c)
      /\ OnSlips(q, c) /\ missed' = missed
      /\ \A e \in Reminder \ {r} : rem'[e] = rem[e]
  BY DEF Effect, OnRow
<1>2. /\ x.todo # <<>> /\ x.todo[1] = c /\ r \in Reminder
      /\ x.method \in Operation /\ c \in Own(x.method)
      /\ c \in {"insert", "increment"} => x.method = "create"
      /\ c = "update" => x.read.status \in Live
      /\ c \in {"softDelete", "decrement"} =>
           x.method = "delete" /\ x.read.status \in Live
  BY AtCallForm
<1>3. /\ x.copy.status \in Live
      /\ c = "insert" => rem[r].status = "absent"
  BY AtCall DEF Base
<1>4. y.todo # <<>> =>
        /\ y.method = x.method /\ y.todo[1] # "softDelete"
        /\ y.todo[1] = Following(x.method, c)
        /\ y.todo[1] = "increment" <=> c = "insert"
  BY <1>1, EffectRequest DEF Steps
<1>5. y.todo = <<>> => \/ Following(x.method, c) = "end"
                       \/ c \in {"list", "markDone"}
  BY <1>1 DEF Steps
<1>6. Following(x.method, c) = "end" => y.todo = <<>>
  <2>1. ASSUME y.todo # <<>> PROVE y.todo[1] # "end"
    <3>1. Chain(y.method, y.todo)
      BY <1>1, <2>1 DEF Steps
    <3>2. y.todo[1] \in Call
      BY <2>1, <3>1 DEF Chain
    <3>3. QED
      BY <3>2 DEF Call
  <2>2. QED
    BY <1>4, <2>1
<1> HIDE DEF x, y
<1>7. ASSUME usage' # NoRow,
             \A e \in Reminder : <<e, "increment">> \notin missed'
      PROVE  Balanced(q, r)
  <2>1. /\ usage # NoRow /\ usage \in Nat /\ slips \in Nat
        /\ \A e \in Reminder : <<e, "increment">> \notin missed
        /\ usage' = IF c = "increment" THEN usage + 1
                    ELSE IF c = "decrement" THEN Decremented(usage) ELSE usage
    BY <1>1, <1>7, BoundsAssumption DEF OnUsage, Base, IInv, TypeOK
  <2> DEFINE Rise == One(q \in Uncounted') - One(q \in Uncounted)
             More == One(r \in Lives') - One(r \in Lives)
             Due2 == One(q \in Undiscounted') - One(q \in Undiscounted)
  <2>2. Rise = IF c = "insert" THEN 1 ELSE IF c = "increment" THEN -1 ELSE 0
    <3>1. q \in Uncounted <=> c = "increment"
      BY <1>2 DEF Uncounted, In, x
    <3>2. q \in Uncounted' <=> c = "insert"
      <4>1. c = "insert" => y.todo # <<>>
        BY <1>5 DEF Following
      <4>2. q \in Uncounted' <=> In(y, "create", "increment")
        BY DEF Uncounted, y
      <4>3. QED
        BY <1>2, <1>4, <4>1, <4>2 DEF In
    <3>3. QED
      BY <3>1, <3>2 DEF One
  <2> DEFINE Late == IF c \in {"update", "softDelete"} /\ r \notin Lives THEN 1 ELSE 0
  <2>3. More = Late + IF c = "insert" THEN 1 ELSE IF c = "softDelete" THEN -1 ELSE 0
    <3>1. CASE c = "insert"
      <4>1. rem[r].status = "absent" /\ rem'[r] = x.copy
        BY <1>1, <1>3, <3>1 DEF OnRow, x
      <4>2. r \notin Lives /\ r \in Lives'
        BY <1>2, <1>3, <4>1 DEF Lives, Live
      <4>3. QED
        BY <3>1, <4>2 DEF One
    <3>2. CASE c = "update"
      <4>1. rem'[r] = x.copy
        BY <1>1, <3>2 DEF OnRow, x
      <4>2. r \in Lives'
        BY <1>2, <1>3, <4>1 DEF Lives
      <4>3. QED
        BY <3>2, <4>2 DEF One
    <3>3. CASE c = "softDelete"
      <4>1. rem'[r].status = "archived"
        BY <1>1, <3>3 DEF OnRow, x
      <4>2. r \notin Lives'
        BY <4>1 DEF Lives, Live
      <4>3. QED
        BY <3>3, <4>2 DEF One
    <3>4. CASE c \notin {"insert", "update", "softDelete"}
      <4>1. rem'[r] = rem[r]
        BY <1>1, <3>4 DEF OnRow, x
      <4>2. r \in Lives' <=> r \in Lives
        BY <4>1 DEF Lives
      <4>3. QED
        BY <3>4, <4>2 DEF One
    <3>5. QED
      BY <3>1, <3>2, <3>3, <3>4
  <2>4. Due2 = IF c = "softDelete" THEN 1 ELSE IF c = "decrement" THEN -1 ELSE 0
    <3>1. q \in Undiscounted <=> x.method = "delete" /\ c # "softDelete"
      BY <1>2 DEF Undiscounted, x
    <3>2. q \in Undiscounted' <=> x.method = "delete" /\ c # "decrement"
      <4>1. q \in Undiscounted' <=> x.method = "delete" /\ y.todo # <<>>
        BY <1>4 DEF Undiscounted, y
      <4>2. x.method = "delete" => c \in {"softDelete", "cancel", "decrement"}
        BY <1>2 DEF Own
      <4>3. ASSUME x.method = "delete" PROVE y.todo # <<>> <=> c # "decrement"
        <5>1. Following(x.method, c) = "end" <=> c = "decrement"
          BY <4>2, <4>3 DEF Following
        <5>2. QED
          BY <1>5, <1>6, <4>2, <4>3, <5>1
      <4>4. QED
        BY <4>1, <4>3
    <3>3. QED
      BY <1>2, <3>1, <3>2 DEF One
  <2>5. Covered' + Rise >= Covered + More + Due2
    <3>1. slips' = slips + Late
      BY <1>1, <1>2, <2>1 DEF OnSlips, Lives, x
    <3>2. Late \in {0, 1}
      OBVIOUS
    <3> HIDE DEF Rise, More, Due2, Late
    <3>3. QED
      BY <2>1, <2>2, <2>3, <2>4, <3>1, <3>2 DEF Covered, Decremented
  <2>6. /\ One(q \in Uncounted) \in Int /\ One(q \in Uncounted') \in Int
        /\ One(r \in Lives) \in Int /\ One(r \in Lives') \in Int
        /\ One(q \in Undiscounted) \in Int /\ One(q \in Undiscounted') \in Int
    BY DEF One
  <2>7. Covered \in Int /\ Covered' \in Int
    BY <1>1, <2>1 DEF Covered, OnSlips, Decremented
  <2>8. Covered' + One(q \in Uncounted') + One(r \in Lives) + One(q \in Undiscounted)
          >= Covered + One(q \in Uncounted) + One(r \in Lives') + One(q \in Undiscounted')
    BY <2>1, <2>5, <2>6, <2>7
  <2>9. QED
    BY <2>1, <2>8 DEF Balanced
<1>8. QED
  BY <1>1, <1>2, <1>7, CountedKept

LEMMA FailureCounted ==
    ASSUME Base, Base', Counted, NEW q \in Request, NEW c, Fails(q, c)
    PROVE  Counted'
<1> DEFINE r == req[q].target
           x == req[q]
           y == req'[q]
<1>1. /\ UNCHANGED <<rem, usage, slips>> /\ missed \subseteq missed'
      /\ Others(q) /\ Makes(q, c)
      /\ y.todo = <<>> \/ Steps(x, y, c)
  BY DEF Fails
<1>2. x.todo # <<>> /\ x.todo[1] = c /\ r \in Reminder
  BY <1>1, AtCallForm
<1>3. ASSUME q \in Uncounted
      PROVE  <<r, "increment">> \in missed'
  <2>1. In(x, "create", "increment")
    BY <1>3 DEF Uncounted
  <2>2. c = "increment"
    BY <1>2, <2>1 DEF In
  <2>3. QED
    BY <2>2 DEF Fails, Lost
<1>4. q \in Undiscounted' => q \in Undiscounted
  <2>1. y.todo # <<>> => y.method = x.method /\ c # "softDelete"
    BY <1>1, EffectRequest DEF Fails
  <2>2. QED
    BY <1>2, <2>1 DEF Undiscounted
<1>5. ASSUME usage' # NoRow,
             \A e \in Reminder : <<e, "increment">> \notin missed'
      PROVE  Balanced(q, r)
  <2>1. /\ usage # NoRow /\ Covered \in Nat /\ Covered' = Covered
        /\ \A e \in Reminder : <<e, "increment">> \notin missed
    BY <1>1, <1>5, BoundsAssumption DEF Covered, Base, IInv, TypeOK
  <2>2. q \notin Uncounted
    BY <1>2, <1>3, <1>5
  <2>3. r \in Lives' <=> r \in Lives
    BY <1>1 DEF Lives
  <2>4. /\ One(q \in Uncounted) = 0 /\ One(q \in Uncounted') \in {0, 1}
        /\ One(r \in Lives') = One(r \in Lives) /\ One(r \in Lives) \in {0, 1}
        /\ One(q \in Undiscounted) \in {0, 1} /\ One(q \in Undiscounted') \in {0, 1}
        /\ One(q \in Undiscounted') <= One(q \in Undiscounted)
    BY <1>4, <2>2, <2>3 DEF One
  <2>5. Covered' + One(q \in Uncounted') + One(r \in Lives) + One(q \in Undiscounted)
          >= Covered + One(q \in Uncounted) + One(r \in Lives') + One(q \in Undiscounted')
    BY <1>1, <2>1, <2>4
  <2>6. QED
    BY <2>1, <2>5 DEF Balanced
<1>6. QED
  BY <1>1, <1>2, <1>5, CountedKept

LEMMA BeginCounted ==
    ASSUME Base, Counted, NEW q \in Request, NEW r, Begins(q, r)
    PROVE  Counted'
<1>1. /\ UNCHANGED <<rem, usage, slips, missed>> /\ Others(q) /\ req[q].todo = <<>>
      /\ ~In(req'[q], "create", "increment")
      /\ req'[q].method = "delete" => req'[q].todo[1] = "softDelete"
  BY DEF Begins, Idle, In
<1>2. Lives' = Lives /\ Uncounted' = Uncounted /\ Undiscounted' = Undiscounted
  BY <1>1 DEF Lives, Uncounted, Undiscounted, Others, In
<1>3. QED
  BY <1>1, <1>2 DEF Counted, Covered

-----------------------------------------------------------------------------
(* What requests that overlap, fail and die leave behind                   *)

Promises == Base /\ Silent /\ NextRun /\ Counted

LEMMA InitPromises == Init => Promises
<1> SUFFICES ASSUME Init PROVE Promises
  OBVIOUS
<1>1. /\ \A q \in Request : req[q].todo = <<>>
      /\ \A r \in Reminder : rem[r].status = "absent"
      /\ usage \in {NoRow, 0} /\ slips = 0
  BY NoneAssumption DEF Init, NoRequest, NoReminder
<1>2. Silent /\ NextRun
  BY <1>1 DEF Silent, NextRun, Live
<1>3. Counted
  <2>1. Lives = {} /\ Uncounted = {} /\ Undiscounted = {}
    BY <1>1 DEF Lives, Uncounted, Undiscounted, In, Live
  <2>2. IsFiniteSet({}) /\ Cardinality({}) = 0
    BY FS_EmptySet
  <2>3. QED
    BY <1>1, <2>1, <2>2 DEF Counted, Covered
<1>4. QED
  BY <1>2, <1>3, InitBase DEF Promises

LEMMA BeginPromises ==
    ASSUME Promises, NEW q \in Request, NEW r \in Reminder, Handle(q, r)
    PROVE  Promises'
<1>1. Base /\ Silent /\ NextRun /\ Counted
  BY DEF Promises
<1>2. Begins(q, r) /\ IInv'
  BY <1>1, HandleBegins, HandleIInv DEF Base
<1>3. QED
  BY <1>1, <1>2, BeginBase, BeginSilent, BeginNextRun, BeginCounted DEF Promises

LEMMA CallPromises ==
    ASSUME Promises, NEW q \in Request, CallRepository(q)
    PROVE  Promises'
<1>1. Base /\ Silent /\ NextRun /\ Counted /\ IInv'
  BY CallIInv DEF Promises, Base
<1>2. PICK c \in Call : Makes(q, c) /\ Effect(q, c)
  BY <1>1, CallEffect
<1>3. Base'
  BY <1>1, <1>2, CallBase
<1>4. QED
  BY <1>1, <1>2, <1>3, CallSilent, CallNextRun, CallCounted DEF Promises

LEMMA FailurePromises ==
    ASSUME Promises, NEW q \in Request, CallFails(q)
    PROVE  Promises'
<1>1. Base /\ Silent /\ NextRun /\ Counted /\ IInv'
  BY FailureIInv DEF Promises, Base
<1>2. PICK c \in Call : Fails(q, c)
  BY <1>1, FailsStep
<1>3. Base'
  BY <1>1, <1>2, FailureBase
<1>4. QED
  BY <1>1, <1>2, <1>3, FailureSilent, FailureNextRun, FailureCounted DEF Promises

\* A crash ends every request, and counts as missed what each of them owed.
LEMMA CrashPromises == Promises /\ Crash => Promises'
<1> SUFFICES ASSUME Promises, Crash PROVE Promises'
  OBVIOUS
<1>1. Base /\ Silent /\ NextRun /\ Counted /\ IInv'
  BY CrashIInv DEF Promises, Base
<1>2. Base'
  BY <1>1, CrashBase
<1>3. /\ UNCHANGED <<rem, occ, notif, usage, stale, slips>>
      /\ \A q \in Request : req'[q].todo = <<>>
      /\ missed \subseteq missed'
      /\ \A q \in Request : Missed(q, CallsIn(req[q].todo)) \subseteq missed'
  BY DEF Crash, tables, NoRequest
<1>4. Silent'
  <2> SUFFICES ASSUME NEW r \in Reminder \ stale,
                      rem[r].status \in Live, rem[r].recurrence # "one_time",
                      <<r, "createOccurrence">> \notin missed'
               PROVE  ScheduledOf(r)' # {}
    BY <1>3 DEF Silent
  <2>1. ASSUME NEW q \in Request, Schedules(req[q], r) PROVE FALSE
    BY <1>1, <1>3, <2>1, EndMisses
  <2>2. ScheduledOf(r) # {}
    BY <1>1, <1>3, <2>1 DEF Silent
  <2>3. QED
    BY <1>3, <2>2 DEF ScheduledOf
<1>5. NextRun'
  <2> SUFFICES ASSUME NEW r \in Reminder \ stale, rem[r].status # "absent",
                      <<r, "createOccurrence">> \notin missed',
                      <<r, "createNotification">> \notin missed'
               PROVE  Shown(r)'
    BY <1>3 DEF NextRun
  <2>1. ASSUME NEW q \in Request, WillAnnounce(req[q], r, rem[r].next) PROVE FALSE
    BY <1>1, <1>3, <2>1, EndMisses
  <2>2. Shown(r)
    BY <1>1, <1>3, <2>1 DEF NextRun
  <2>3. QED
    BY <1>3, <2>2 DEF Shown
<1>6. Counted'
  <2>1. Lives' = Lives /\ Uncounted' = {} /\ Undiscounted' = {}
    BY <1>3 DEF Lives, Uncounted, Undiscounted, In
  <2>2. ASSUME usage # NoRow,
               \A r \in Reminder : <<r, "increment">> \notin missed'
        PROVE  Covered >= Cardinality(Lives)
    <3>1. Uncounted = {}
      <4>1. ASSUME NEW q \in Uncounted PROVE FALSE
        <5>1. /\ q \in Request /\ In(req[q], "create", "increment")
              /\ req[q].target \in Reminder
          BY <1>1, <4>1 DEF Uncounted, Base, IInv, WellFormed, In
        <5>2. <<req[q].target, "increment">> \in missed'
          BY <1>1, <1>3, <5>1, EndMisses
        <5>3. QED
          BY <2>2, <5>1, <5>2
      <4>2. QED
        BY <4>1
    <3>2. /\ Cardinality(Lives) \in Nat /\ Cardinality(Undiscounted) \in Nat
          /\ Cardinality(Uncounted) = 0 /\ Covered \in Nat
      BY <1>1, <2>2, <3>1, FinitePlaces, FS_CardinalityType, FS_EmptySet, BoundsAssumption
         DEF Covered, Counted, Base, IInv, TypeOK
    <3>3. Covered + Cardinality(Uncounted) >= Cardinality(Lives) + Cardinality(Undiscounted)
      BY <1>1, <1>3, <2>2 DEF Counted
    <3>4. QED
      BY <3>2, <3>3
  <2>3. /\ IsFiniteSet(Lives) /\ Cardinality({}) = 0
        /\ Cardinality(Lives) \in Nat
        /\ usage # NoRow => Covered \in Nat
        /\ Covered' = Covered
    BY <1>1, <1>3, FS_CardinalityType, FS_EmptySet, BoundsAssumption
    DEF Counted, Covered, Base, IInv, TypeOK
  <2>4. QED
    BY <1>3, <2>1, <2>2, <2>3 DEF Counted
<1>7. QED
  BY <1>2, <1>4, <1>5, <1>6 DEF Promises

LEMMA StutterPromises == Promises /\ UNCHANGED vars => Promises'
<1> SUFFICES ASSUME Promises, UNCHANGED vars PROVE Promises'
  OBVIOUS
<1>1. UNCHANGED <<rem, occ, notif, count, usage, req, stale, slips, missed, failures>>
  BY DEF vars, tables, ghosts
<1>2. IInv' /\ Room' /\ Mine' /\ \A q \in Request : Form(req'[q])
  BY <1>1, NextIInv DEF Promises, Base, Room, Creating, Mine
<1>3. Silent' /\ NextRun' /\ Counted'
  BY <1>1 DEF Promises, Silent, ScheduledOf, NextRun, Shown, Counted, Covered, Lives,
              Uncounted, Undiscounted
<1>4. QED
  BY <1>2, <1>3 DEF Promises, Base

\* Every step of every request, every failed call and every crash keeps what
\* requests in progress still owe in step with what the tables already say.
THEOREM PromisesKept == Spec => []Promises
<1>1. Promises /\ [Next]_vars => Promises'
  BY BeginPromises, CallPromises, FailurePromises, CrashPromises, StutterPromises
  DEF Next
<1>2. QED
  BY InitPromises, <1>1, PTL DEF Spec

\* However many requests overlap and whatever they do, a recurring reminder
\* that none overwrote with an outdated row has an occurrence scheduled, or
\* the call that was to insert it is recorded as missed.
THEOREM NoneFallsSilent == Spec => []NeverSilent
<1>1. Promises => NeverSilent
  BY DEF Promises, Silent, NeverSilent, Settled, Busy, Idle, Schedules
<1>2. QED
  BY <1>1, PromisesKept, PTL

\* The next run shown to the user has an occurrence and a notification, even
\* when the ignored update of a completion or the insert of an occurrence of a
\* reschedule was lost in between.
THEOREM NextRunsAnnounced == Spec => []NextRunAnnounced
<1>1. Promises => NextRunAnnounced
  <2> SUFFICES ASSUME Promises, NEW r \in Reminder, rem[r].status # "absent",
                      Settled(r, {"createOccurrence", "createNotification"})
               PROVE  Shown(r)
    BY DEF NextRunAnnounced, Shown
  <2>1. \A q \in Request : ~WillAnnounce(req[q], r, rem[r].next)
    BY DEF Settled, Busy, Idle, WillAnnounce
  <2>2. QED
    BY <2>1 DEF Promises, NextRun, Settled
<1>2. QED
  BY <1>1, PromisesKept, PTL

\* The counter the plan limit is checked against falls behind the reminders a
\* user has by no more than the late writes: each create counts after it
\* inserts, each delete subtracts after it archives, GREATEST(..., 0) only ever
\* adds, and a delete or an update of a reminder that is already deleted costs
\* one each.
THEOREM CounterShortfall == Spec => []UsageShortfall
<1>1. Promises => UsageShortfall
  <2> SUFFICES ASSUME Promises, usage # NoRow,
                      \A r \in Reminder : ~Busy(r) /\ <<r, "increment">> \notin missed
               PROVE  Covered >= Cardinality(Lives)
    BY DEF UsageShortfall, Lives, Covered
  <2>1. \A q \in Request : req[q].todo = <<>>
    BY DEF Promises, Base, IInv, WellFormed, Busy, Idle
  <2>2. Uncounted = {} /\ Undiscounted = {}
    BY <2>1 DEF Uncounted, Undiscounted, In
  <2>3. IsFiniteSet(Lives) /\ Covered \in Nat
    BY BoundsAssumption DEF Promises, Counted, Covered, Base, IInv, TypeOK
  <2>4. Cardinality(Lives) \in Nat /\ Cardinality({}) = 0
    BY <2>3, FS_CardinalityType, FS_EmptySet
  <2>5. Covered + Cardinality(Uncounted) >= Cardinality(Lives) + Cardinality(Undiscounted)
    BY DEF Promises, Counted
  <2>6. QED
    BY <2>2, <2>3, <2>4, <2>5
<1>2. QED
  BY <1>1, PromisesKept, PTL
=============================================================================
