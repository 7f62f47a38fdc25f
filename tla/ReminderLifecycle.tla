------------------------- MODULE ReminderLifecycle -------------------------
(***************************************************************************)
(* The reminder service (internal/application/reminder): how API requests  *)
(* that run at the same time change a user's reminders, their occurrences, *)
(* the notifications that announce them and the user's usage counter.      *)
(*                                                                         *)
(* A request reads the reminder, works on its own copy and makes one       *)
(* repository call after another without a transaction, so the calls of    *)
(* different requests interleave, each may fail, and the API process may   *)
(* die between two of them.  Requests are those of the user who owns the   *)
(* reminders: one of another user ends at the ownership check and changes  *)
(* nothing, as does one that fails validation or its first read.           *)
(*                                                                         *)
(* Times are numbers in steps of the recurrence interval.  The service     *)
(* inserts and cancels notifications; NotificationDelivery delivers them.  *)
(*                                                                         *)
(* Definitions named Wrong... are slips the code could have made; each is  *)
(* used in the place of the definition after it to see a property fail.    *)
(***************************************************************************)
EXTENDS Integers, Sequences, FiniteSets

CONSTANTS
    Reminder,         \* reminder ids
    Request,          \* places for requests in progress at the same time
    Time,             \* times a user may ask for
    Recurrence,       \* kinds of recurrence a user may ask for; "broken" is a
                      \* custom_interval without a usable rule
    None,             \* no reminder
    User, NoUser,     \* the user id of every request, the user id ""
    NoRow,            \* the user has no usage_limits row
    InitialUsage,     \* 0 for a user with a usage_limits row, or NoRow
    Limit,            \* reminder_limit of the user's plan, < 0: unlimited
    MaxOccurrences,   \* bound: occurrences created in a behaviour
    MaxSlips,         \* bound: late writes in a behaviour
    MaxFailures       \* bound: failed calls and crashes in a behaviour

ASSUME PlacesAssumption == IsFiniteSet(Request)
ASSUME RequestAssumption ==
    Time \subseteq Nat /\ Recurrence \subseteq {"one_time", "interval", "broken"}
ASSUME NoneAssumption ==
    /\ None \notin Reminder /\ NoRow \notin Int /\ NoUser # User
    /\ InitialUsage \in {NoRow, 0}
ASSUME BoundsAssumption ==
    /\ Limit \in Int /\ MaxOccurrences \in Nat
    /\ MaxSlips \in Nat /\ MaxFailures \in Nat

VARIABLES
    rem,       \* rem[r], the reminders row
    occ,       \* occ[i], the i-th row of reminder_occurrences
    notif,     \* notif[i], status of its notifications row, or "absent"
    count,     \* occurrence ids given out so far
    usage,     \* usage_limits.reminders_used, or NoRow
    req,       \* req[q], the request in progress at place q
    stale,     \* reminders changed on the strength of an outdated row
    slips,     \* late writes: updates and deletes of a reminder already deleted
    missed,    \* <<r, c>>: call c about r was due and was never made
    failures   \* failed calls and crashes so far

tables  == <<rem, occ, notif, count, usage>>
ghosts  == <<stale, slips, missed, failures>>
vars == <<tables, req, ghosts>>

Live       == {"active", "paused"}
Row == [status : Live \union {"absent", "archived"},
        recurrence : {"one_time", "interval", "broken"}, next : Nat]
Occurrence == 1 .. MaxOccurrences
OccurrenceRow == [reminder : Reminder \union {None}, at : Nat,
                  status : {"absent", "scheduled", "done"}]

NoReminder   == [status |-> "absent", recurrence |-> "one_time", next |-> 0]
NoOccurrence == [reminder |-> None, at |-> 0, status |-> "absent"]

\* A create that does not count.
WrongCalls ==
    [create     |-> <<"insert", "createOccurrence", "createNotification">>,
     edit       |-> <<"update">>,
     reschedule |-> <<"update", "cancel",
                      "createOccurrence", "createNotification">>,
     pause      |-> <<"update", "cancel">>,
     resume     |-> <<"update", "createOccurrence", "createNotification">>,
     complete   |-> <<"list", "markDone", "update",
                      "createOccurrence", "createNotification">>,
     delete     |-> <<"softDelete", "cancel", "decrement">>]

\* The repository calls of each method after its first read.  "edit" and
\* "reschedule" are UpdateReminder without and with recurrenceChanged.
Calls ==
    [create     |-> <<"insert", "increment",
                      "createOccurrence", "createNotification">>,
     edit       |-> <<"update">>,
     reschedule |-> <<"update", "cancel",
                      "createOccurrence", "createNotification">>,
     pause      |-> <<"update", "cancel">>,
     resume     |-> <<"update", "createOccurrence", "createNotification">>,
     complete   |-> <<"list", "markDone", "update",
                      "createOccurrence", "createNotification">>,
     delete     |-> <<"softDelete", "cancel", "decrement">>]
Operation == DOMAIN Calls
Call == {"insert", "increment", "update", "list", "markDone",
         "createOccurrence", "createNotification", "softDelete", "decrement",
         "cancel"}

RequestState ==
    [todo   : Seq(Call),                    \* the calls it has yet to make
     method : Operation,
     target : Reminder \union {None},
     read   : Row,                          \* the row as the request read it
     copy   : Row,                          \* the row it is going to write
     mine   : Nat]                          \* what it has listed or inserted
NoRequest == [todo |-> <<>>, method |-> "edit", target |-> None,
              read |-> NoReminder, copy |-> NoReminder, mine |-> 0]

\* The calls whose error the method ignores.
Ignored(method) ==
    {"increment", "cancel", "decrement"}
      \union (IF method = "complete" THEN {"update"} ELSE {})
      \union (IF method = "reschedule" THEN {"createOccurrence"} ELSE {})

Idle(q) == req[q].todo = <<>>
Busy(r) == \E q \in Request : ~Idle(q) /\ req[q].target = r

\* A reminder is created with a fresh id; no code inserts a
\* usage_limits row, so a user has one (made by hand) from the start or never.
Init ==
    /\ rem = [r \in Reminder |-> NoReminder]
    /\ occ = [i \in Occurrence |-> NoOccurrence]
    /\ notif = [i \in Occurrence |-> "absent"]
    /\ count = 0
    /\ usage = InitialUsage
    /\ req = [q \in Request |-> NoRequest]
    /\ stale = {} /\ slips = 0 /\ missed = {} /\ failures = 0

-----------------------------------------------------------------------------
(* The beginning of a request                                              *)

\* CalculateNextRunAt: a one-time reminder and a custom interval without a
\* usable rule stay where they are.
CalculateNextRunAt(row, from) ==
    IF row.recurrence = "interval" THEN from + 1 ELSE row.next

\* The bound: every request but a delete may still insert an occurrence.
RoomFor(method) ==
    method # "delete" =>
      count + Cardinality({q \in Request : ~Idle(q) /\ req[q].method # "delete"})
        < MaxOccurrences

Begin(q, r, method, before, after) ==
    /\ Idle(q)
    /\ RoomFor(method)
    /\ req' = [req EXCEPT ![q] =
                 [todo |-> Calls[method], method |-> method, target |-> r,
                  read |-> before, copy |-> after, mine |-> 0]]
    /\ UNCHANGED <<tables, ghosts>>

IsWithinLimit == usage # NoRow /\ Limit >= 0 => usage < Limit

CreateReminder(q, r) ==
    /\ rem[r].status = "absent" /\ ~Busy(r)        \* uuid.NewString()
    /\ IsWithinLimit
    /\ \E recurrence \in Recurrence, next \in Time :
        Begin(q, r, "create", NoReminder,
              [status |-> "active", recurrence |-> recurrence, next |-> next])

\* FindByID without its status condition.
WrongFound(r) == rem[r].status # "absent"

Found(r) == rem[r].status \notin {"absent", "archived"}

\* Title, category and timezone are not part of the model's row.
EditReminder(q, r) ==
    Found(r) /\ Begin(q, r, "edit", rem[r], rem[r])

RescheduleReminder(q, r) ==
    /\ Found(r)
    /\ \E recurrence \in Recurrence, next \in Time \union {rem[r].next} :
        Begin(q, r, "reschedule", rem[r],
              [rem[r] EXCEPT !.recurrence = recurrence, !.next = next])

PauseReminder(q, r) ==
    Found(r) /\ Begin(q, r, "pause", rem[r], [rem[r] EXCEPT !.status = "paused"])

ResumeReminder(q, r) ==
    /\ Found(r)
    /\ \E now \in Time :
        Begin(q, r, "resume", rem[r],
              [rem[r] EXCEPT !.status = "active",
                             !.next = CalculateNextRunAt(rem[r], now)])

CompleteOccurrence(q, r) ==
    Found(r) /\ Begin(q, r, "complete", rem[r], rem[r])

DeleteReminder(q, r) ==
    Found(r) /\ Begin(q, r, "delete", rem[r], rem[r])

-----------------------------------------------------------------------------
(* The repository calls                                                    *)

\* Request q makes its next call, c.
Makes(q, c) == ~Idle(q) /\ Head(req[q].todo) = c

\* q goes on with the calls rest, or ends; now is what it knows by now.
Advance(q, rest, now) ==
    req' = [req EXCEPT ![q] = IF rest = <<>> THEN NoRequest
                              ELSE [now EXCEPT !.todo = rest]]
Continue(q) == Advance(q, Tail(req[q].todo), req[q])

\* q changes its reminder, which may no longer be what q has read.
NoteStaleness(q) ==
    stale' = IF rem[req[q].target] = req[q].read THEN stale ELSE stale \union {req[q].target}

\* q writes to a reminder that another request may have deleted since.
NoteLateWrite(q) ==
    IF rem[req[q].target].status \in Live THEN UNCHANGED slips
    ELSE slips < MaxSlips /\ slips' = slips + 1

Insert(q) ==
    /\ Makes(q, "insert")
    /\ rem' = [rem EXCEPT ![req[q].target] = req[q].copy]
    /\ Continue(q)
    /\ UNCHANGED <<occ, notif, count, usage, ghosts>>

Increment(q) ==
    /\ Makes(q, "increment")
    /\ usage' = IF usage = NoRow THEN NoRow ELSE usage + 1
    /\ Continue(q)
    /\ UNCHANGED <<rem, occ, notif, count, ghosts>>

\* The whole row is overwritten, its status included.
Update(q) ==
    /\ Makes(q, "update")
    /\ rem' = [rem EXCEPT ![req[q].target] = req[q].copy]
    /\ NoteStaleness(q) /\ NoteLateWrite(q)
    /\ Continue(q)
    /\ UNCHANGED <<occ, notif, count, usage, missed, failures>>

ScheduledOf(r) ==
    {i \in Occurrence : occ[i].reminder = r /\ occ[i].status = "scheduled"}

\* The latest scheduled occurrence; without one the request ends.
List(q) ==
    LET found == ScheduledOf(req[q].target) IN
    /\ Makes(q, "list")
    /\ \/ /\ found = {}
          /\ Advance(q, <<>>, req[q])
       \/ \E i \in found :
            /\ \A j \in found : occ[j].at <= occ[i].at
            /\ Advance(q, Tail(req[q].todo), [req[q] EXCEPT !.mine = i])
    /\ UNCHANGED <<tables, ghosts>>

\* "Fallback: treat as one-time" taken at its word.
WrongRecurs(row) == row.recurrence = "interval"

Recurs(row) == row.recurrence # "one_time"

\* One update of the occurrence; what follows depends on q's copy alone.
MarkDone(q) ==
    LET i == req[q].mine
        row == req[q].copy IN
    /\ Makes(q, "markDone")
    /\ occ' = [occ EXCEPT ![i].status = "done"]
    /\ NoteStaleness(q)
    /\ \/ /\ Recurs(row)
          /\ Advance(q, Tail(req[q].todo),
                     [req[q] EXCEPT !.copy.next = CalculateNextRunAt(row, occ[i].at)])
       \/ ~Recurs(row) /\ Advance(q, <<>>, req[q])
    /\ UNCHANGED <<rem, notif, count, usage, slips, missed, failures>>

\* The time the row had before this request.
WrongScheduledAt(q) == req[q].read.next

ScheduledAt(q) == req[q].copy.next

CreateOccurrence(q) ==
    /\ Makes(q, "createOccurrence")
    /\ count' = count + 1
    /\ occ' = [occ EXCEPT ![count + 1] =
                 [reminder |-> req[q].target, at |-> ScheduledAt(q),
                  status |-> "scheduled"]]
    /\ Advance(q, Tail(req[q].todo), [req[q] EXCEPT !.mine = count + 1])
    /\ UNCHANGED <<rem, notif, usage, ghosts>>

\* mine = 0: the occurrence could not be inserted (reschedule goes on all the
\* same); that notification belongs to no occurrence and is left out.
CreateNotification(q) ==
    LET i == req[q].mine IN
    /\ Makes(q, "createNotification")
    /\ notif' = IF i = 0 THEN notif ELSE [notif EXCEPT ![i] = "scheduled"]
    /\ Continue(q)
    /\ UNCHANGED <<rem, occ, count, usage, ghosts>>

FindAllByUser(user) ==
    {i \in Occurrence : notif[i] = "scheduled" /\ user = User}

\* cancelPendingNotifications searches among the notifications of user "",
\* which is not even a UUID: the query fails and there is nothing to cancel.
CancelPending(q) ==
    /\ Makes(q, "cancel")
    /\ notif' = [i \in Occurrence |->
                  IF /\ i \in FindAllByUser(NoUser)
                     /\ occ[i].reminder = req[q].target
                  THEN "canceled" ELSE notif[i]]
    /\ Continue(q)
    /\ UNCHANGED <<rem, occ, count, usage, ghosts>>

SoftDelete(q) ==
    /\ Makes(q, "softDelete")
    /\ rem' = [rem EXCEPT ![req[q].target].status = "archived"]
    /\ NoteStaleness(q) /\ NoteLateWrite(q)
    /\ Continue(q)
    /\ UNCHANGED <<occ, notif, count, usage, missed, failures>>

\* Without GREATEST(..., 0).
WrongDecremented(n) == n - 1

Decremented(n) == IF n > 0 THEN n - 1 ELSE 0

Decrement(q) ==
    /\ Makes(q, "decrement")
    /\ usage' = IF usage = NoRow THEN NoRow ELSE Decremented(usage)
    /\ Continue(q)
    /\ UNCHANGED <<rem, occ, notif, count, ghosts>>

\* A request that is cut short before its first change leaves no trace; later
\* on, the calls it had yet to make are missed.
Untouched(q) ==
    req[q].todo = Calls[req[q].method] \/ Makes(q, "markDone")
Missed(q, calls) ==
    IF Untouched(q) THEN {} ELSE {<<req[q].target, c>> : c \in calls}
CallsIn(calls) == {calls[i] : i \in DOMAIN calls}

\* The next call of q fails and changes nothing; the method returns the error
\* or, where it ignores it, goes on.
CallFails(q) ==
    LET calls == req[q].todo IN
    /\ ~Idle(q)
    /\ failures < MaxFailures /\ failures' = failures + 1
    /\ \/ /\ Head(calls) \in Ignored(req[q].method)
          /\ Continue(q)
          /\ missed' = missed \union {<<req[q].target, Head(calls)>>}
       \/ /\ Head(calls) \notin Ignored(req[q].method)
          /\ Advance(q, <<>>, req[q])
          /\ missed' = missed \union Missed(q, CallsIn(calls))
    /\ UNCHANGED <<tables, stale, slips>>

\* The API process dies, and with it every request in progress.
Crash ==
    /\ \E q \in Request : ~Idle(q)
    /\ failures < MaxFailures /\ failures' = failures + 1
    /\ missed' = missed \union
                   UNION {Missed(q, CallsIn(req[q].todo)) : q \in Request}
    /\ req' = [q \in Request |-> NoRequest]
    /\ UNCHANGED <<tables, stale, slips>>

-----------------------------------------------------------------------------
Handle(q, r) ==
    \/ CreateReminder(q, r) \/ EditReminder(q, r) \/ RescheduleReminder(q, r)
    \/ PauseReminder(q, r) \/ ResumeReminder(q, r)
    \/ CompleteOccurrence(q, r) \/ DeleteReminder(q, r)

CallRepository(q) ==
    \/ Insert(q) \/ Increment(q) \/ Update(q) \/ List(q) \/ MarkDone(q)
    \/ CreateOccurrence(q) \/ CreateNotification(q) \/ CancelPending(q)
    \/ SoftDelete(q) \/ Decrement(q)

Next ==
    \/ \E q \in Request : \/ \E r \in Reminder : Handle(q, r)
                          \/ CallRepository(q)
                          \/ CallFails(q)
    \/ Crash

Spec == Init /\ [][Next]_vars

-----------------------------------------------------------------------------
(* Properties                                                              *)

TypeOK ==
    /\ rem \in [Reminder -> Row]
    /\ occ \in [Occurrence -> OccurrenceRow]
    /\ notif \in [Occurrence -> {"absent", "scheduled", "canceled"}]
    /\ count \in Nat
    /\ usage \in Nat \union {NoRow}
    /\ req \in [Request -> RequestState]
    /\ stale \subseteq Reminder
    /\ slips \in 0 .. MaxSlips
    /\ missed \subseteq (Reminder \union {None}) \X Call
    /\ failures \in 0 .. MaxFailures

\* A deleted reminder is gone for every request that starts after the delete:
\* only a request that had read the row before, and overwrites all of it, can
\* bring it back.
OnlyInFlightRevives ==
    [][\A r \in Reminder :
         rem[r].status = "archived" /\ rem'[r].status # "archived" =>
           \E q \in Request : req[q].target = r /\ req[q].read.status \in Live]_vars

\* No request about r is in progress, none acted on an outdated row, and none
\* missed one of these calls.
Settled(r, calls) ==
    ~Busy(r) /\ r \notin stale /\ \A c \in calls : <<r, c>> \notin missed

\* A reminder that recurs never falls silent: whatever was edited, paused,
\* resumed and completed in between, by requests that overlap as long as none
\* acts on an outdated row, an occurrence is scheduled.  Of all the calls that
\* may fail only a missing insert of an occurrence can silence it.
NeverSilent ==
    \A r \in Reminder :
        /\ rem[r].status \in Live /\ rem[r].recurrence # "one_time"
        /\ Settled(r, {"createOccurrence"})
        => ScheduledOf(r) # {}

\* The next run the user is shown is one that has an occurrence, and a
\* notification that announces it, even when an ignored update was lost.
NextRunAnnounced ==
    \A r \in Reminder :
        /\ rem[r].status # "absent"
        /\ Settled(r, {"createOccurrence", "createNotification"})
        => \E i \in Occurrence : /\ occ[i].reminder = r
                                 /\ occ[i].at = rem[r].next
                                 /\ notif[i] # "absent"

\* When nothing is in progress and no increment was lost, the counter that the
\* plan limit is checked against falls short of the reminders the user has by at
\* most one for every late write: of two overlapping deletes of one reminder
\* both decrement, and an update that overlaps a delete brings back a reminder
\* that is no longer counted.  The counter may also be too high: a delete that
\* overlaps the create decrements first, stops at 0, and the increment stays.
UsageShortfall ==
    /\ usage # NoRow
    /\ \A r \in Reminder : ~Busy(r) /\ <<r, "increment">> \notin missed
    => usage + slips >= Cardinality({r \in Reminder : rem[r].status \in Live})

\* service.go says of PauseReminder that it "sets status=paused and cancels
\* pending notifications".  Refuted by reminder_pause: they stay scheduled.
PausedIsQuiet ==
    \A r \in Reminder :
        rem[r].status = "paused" /\ Settled(r, Call) =>
          \A i \in Occurrence : occ[i].reminder = r => notif[i] # "scheduled"

\* usage_limit_repo.go says of a user without usage_limits row that the "row
\* will be created on first increment".  Refuted by reminder_counter: it never
\* is, and such a user's plan limit is never enforced.
RowCreatedOnFirstIncrement ==
    (\E r \in Reminder : rem[r].status \in Live /\ Settled(r, Call)) =>
      usage # NoRow
=============================================================================
