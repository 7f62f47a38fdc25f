# woles-backend in TLA+

Specifications of the parts of woles-backend in which several processes or
requests change the same rows, queues and objects, the TLC runs that check them
on small instances, and TLAPS proofs of what holds for instances of any size.
File names below are relative to `src/`.

## 1. The system

woles-backend is a Go service for personal administration: reminders, expiring
documents, subscriptions, goals, delivered over WhatsApp. Four programs share
one PostgreSQL database, one RabbitMQ broker, one Redis and one MinIO bucket:

    API process (cmd/main.go)           requests -> services -> repositories
        |  inserts notifications rows
        v
    scheduler (cmd/scheduler)           claims due rows, publishes one message each
        |  notification_send_queue
        v
    notification worker                 calls the WhatsApp provider, writes the
    (cmd/notification_worker)           outcome, publishes a result event
    intent worker (cmd/intent_worker)   classifies inbound messages; nothing feeds it yet

There are no transactions except in `ClaimDue`, no optimistic locking, and most
errors of secondary calls are dropped (`_ = ...`). Correctness therefore rests
on the order of single statements, on a few unique indexes and on what happens
when a call in the middle fails.

The scheduler and the notification worker are written to have their repositories and
their sender wired in, which their main functions do not do: `cmd/scheduler/main.go:34`
and `cmd/notification_worker/main.go:39-40` pass nil, and with nil the scheduler
skips every poll (`:55`) and the worker returns before it looks at the notification
(`:69`), whose message is then acknowledged. As committed the two programs deliver
nothing. `NotificationDelivery` models them with their dependencies in place, which is
what the handlers, the repositories and the documentation are about.

### Inventory

| component | state | operations | what is hard | what makes it correct |
|---|---|---|---|---|
| scheduler | claimed batch in memory; `status` | claim, mark, publish | two schedulers; death or error between claim and publish | a row is handed to one scheduler; a claimed row has somebody responsible |
| notification worker | message in hand; `status`, `retry_count` | find, send, write outcome, retry, announce | redelivery, connections lost under a running handler, lost answers, overlapping workers | bounded duplicates, bounded retries, truthful outcomes, every due row settled |
| RabbitMQ | ready and unacknowledged messages | publish, deliver, acknowledge | redelivery, no order | nothing the handlers rely on is more than at-least-once |
| reminder service | `reminders`, `reminder_occurrences`, `notifications`, `usage_limits` | create, update, pause, resume, complete, delete | overlapping requests, whole-row updates, failure between calls | a recurring reminder never falls silent; its next run is announced; deleted stays deleted |
| usage limits | one counter per resource and user | check, increment, decrement | check and increment are apart; decrement stops at 0 | the counter lags behind the rows only by what was lost, or written to a deleted row |
| document service, object store | `documents`, alerts, objects | create, upload, delete file, update, delete | two stores without a transaction, long uploads, unique alert keys | a file that is named can be fetched; objects are not forgotten; alerts are made for the right day |
| subscription service | `subscriptions`, one alert each | create, update, archive, delete | as for documents, one alert key for ever | the next billing date is announced; the limit is exceeded by no more than overlaps and lost counts explain |
| identity: sessions | `refresh_tokens`, `user_sessions`, `users.account_status` | sign in, refresh, reuse, end a session, sign out everywhere, change password, delete account | overlapping refreshes, revocation during a refresh, inserts and deletes without a transaction | one token to go on with per sign-in; what was ended stays ended; live tokens are listed |
| identity: password lock | `users.failed_login_count`, `locked_until` | sign in with a password | read-modify-write of a counter | the account is locked in time |
| identity: one-time codes | codes in Redis, `users` by phone | request, verify | read, compare and delete are apart | a code is good for one sign-in, and one more for each verification that overlaps |
| chat, family, goals | monthly counter and messages; members; progress | send, create, update, delete | check-then-act; whole-row updates; two writes of one row | the excess over a limit is bounded by the overlap; updates add up; completion is honest |
| lists of all services | none | page by page | rows move between two statements | every row is seen once |
| finance, timeline, notification history | none | read-only aggregation and export | boundaries of periods, a cap on rows, windows around "now" that move from page to page | reports agree with each other and are complete; nothing slips by |
| rate limiter | sorted set per key in Redis | one atomic script | late, repeated and failed scripts, equal timestamps | at most `limit` per window; nobody is refused without cause |
| HTTP handlers, middleware, migrations, wiring | none | parse, filter, format, wire | - | - |

`PROJECT.json` lists every component with its files, its status and the reason
where it is not modelled, and every hazard of the code at its line together with
the properties that cover it.

Interactions: services call repositories directly; the reminder, document and
subscription services meet the scheduler only through rows of `notifications`
(status `scheduled`, a date, a unique `idempotency_key`), the scheduler meets
the worker only through messages that carry an id, and all of them meet through
`UpdateStatus`, which writes unconditionally. This is why the service modules
stop at the inserted row and `NotificationDelivery` begins there.

## 2. Modules

| module | what it is |
|---|---|
| `NotificationDelivery` | schedulers, queue, workers, provider: one action per repository call, provider call and publish |
| `DeliveryContract` | what delivery promises, without processes: at-least-once, and exactly-once without failures |
| `NotificationDeliveryProofs` | TLAPS proofs for the two |
| `ReminderLifecycle` | requests of the reminder service, one action per repository call |
| `ReminderLifecycleProofs` | TLAPS proofs for it |
| `DocumentVault` | requests of the document service, calls of repositories and of the object store |
| `DocumentVaultProofs` | TLAPS proofs for it |
| `Requests` | what requests of the API have in common: calls one after the other, failed calls, crashes |
| `LimitCheck`, `LimitCheckProofs` | what a limit promises that is compared before, and counted after, what it limits |
| `Chat`, `Family`, `Goals`, `Subscriptions` | the services, each over `Requests` |
| `Pages` | which rows `ORDER BY`, `LIMIT` and `OFFSET` may return: used by the next three |
| `Paging` | lists read page by page while rows change |
| `Timeline` | timeline and history: windows around the time of the request, read page by page |
| `Reports` | the monthly finance reports over the bills that a capped fetch returns |
| `Services` | the composition of the seven |
| `Clock` | time that passes while requests are in progress |
| `RefreshTokens`, `LoginLock`, `OneTimeCodes` | the identity service |
| `RateLimiter` | the middleware and the script in Redis |
| `Access` | the composition of the four |
| `SubscriptionsProofs`, `RefreshTokensProofs` | TLAPS proofs for these |
| `ServicesProofs` | TLAPS proofs for `Family`, `Chat`, `Goals`, `Paging`, `Timeline`, `Reports` and the types of `Services`, one section each |
| `AccessProofs` | TLAPS proofs for `LoginLock`, `OneTimeCodes`, `RateLimiter` and the types of `Access` |
| `MC...` | symmetry sets and bounds for TLC |

Definitions whose name begins with `Wrong` are deliberately broken variants of
the definition that follows them (a dropped guard, an off-by-one, a swapped
test). No specification uses them; putting one in the place of the right one
makes the property named in `PROJECT.json` fail, which shows that the property
looks at that code.

### NotificationDelivery

`status`, `retryCount` and `due` are the columns of the row (`scheduled_at`
reduced to whether it has passed); `queue[n]` counts ready messages of
`notification_send_queue`, `results` is the set of events on
`notification_result_queue`; `todo[s]` and `marked[s]` are the local variables
of `runOnce`; `pc[w]` and `cur[w]` are the position of a worker in
`handleSendRequested` and the message it is handling; a worker in `cutOff` has lost
the connection that message came over, so that the broker has put it back, and goes on
all the same. `sends`, `dup`, `lost` and
`exposed` record history and appear in no guard but the bounds on failures.

`ClaimDue` is one step because it is one transaction with `FOR UPDATE SKIP
LOCKED`; the scheduler's second write of `sending` and its publish are separate.
The worker's steps are `Receive` (FindByID and status check), `SendMessage`,
`MarkSent`, `IncrementRetry`, `Refetch`, `Reschedule`, `MarkFailed`,
`AnnounceSent`/`AnnounceFailed`, `Ack`. Each has the failures the code has a
branch for. Failures are of two kinds, as the module's head explains: after
`lost` nobody carries on with the row, after `dup` it is handled again: a worker
dies (`WorkerCrash`), or loses its connection and goes on beside whoever is given the
message next (`ConnectionLost`), or an accepted send is reported as failed.

Left out: status `canceled` (no code path reaches it, see the findings), the
dead-letter exchange (every handler returns nil), the poll interval, and the
order of messages.

`DeliveryContract` has four variables per notification and five actions. The
refinement maps `status` to `outcome` (both `scheduled` and `sending` are
`pending`), `sends` to `accepted`, `retryCount` to `rejections`, `dup` to
`again`.

### ReminderLifecycle

A request is a record: the calls it has yet to make (`todo`), the row as it was
read (`read`), the service's own copy (`copy`), the occurrence in hand
(`mine`). `Calls` gives the calls of each method in order. An action begins a
request (`CreateReminder` ... `DeleteReminder`; guards are the early returns of
the method up to its first write) and one action per repository call makes the
next call of some request, so that all interleavings of requests are covered.
`CallFails` is the error path: `Ignored` tells which errors the method drops.
`Crash` ends every request in progress. `stale` collects reminders written by a
request whose row was out of date, `missed` the calls that were due and never
made, `slips` counts updates and deletes of a reminder that was deleted already; the properties use them to say exactly which cause is needed for a bad
state, so that any other cause is a violation.

Times are numbers in units of the recurrence interval: `CalculateNextRunAt` is
`+1`, or the identity for one-time reminders and custom rules that do not parse
(`broken`). Left out: title, category, timezone, audit rows, the read-only
lists, and calendar arithmetic. A failed call is assumed not to have happened;
a statement that committed although its answer was lost is not told apart.

### DocumentVault

Built the same way. A request may also call the object store: `PutObject` and
`DeleteObject`, and `AnswerLost` for a call that the store carried out although
the caller sees an error. `alert[<<d, o>>]` is the notifications row with key
`document:<d>:offset:<o>`: a function on keys, because the unique index lets
only one row per key exist, ever. `today` advances, so that offsets are reached
while requests are in progress. `usage` starts with what the user's other documents
count for. `replaced` and `renewed` record which files an
upload replaced and which documents got other dates.

### Requests and the services

`Requests` is what the service modules share. A request is a record: the method,
the repository calls it has yet to make (`todo`), whether it has changed
anything (`wrote`) and the method's local variables (`own`). A service module
says which calls each of its methods makes (`SendMessageCalls`, `CreateCalls`,
`RefreshCalls` ...), with one action that begins the method, up to its first
write and with the early returns as guards, and one action for each call.
`CallFails` ends the request, or goes on where the method drops the error;
`Crash` ends all. `cut` collects the `Watched` calls that were due and never
made, so that a property can name the very call whose loss excuses it. A request
reads a row when it begins: no method reads twice before it writes, but for
`FindUser` and `FindByPhone`, which are calls of their own.

* **Chat.** `messages`, `messagesUsed[month]`. A turn is question, reply,
  increment; `month` may end, and the history may be deleted, in between.
* **Family.** `member[m]`, two fields; an update names some of them and writes
  all. `asked` is what the writes that were made ask a member to be.
* **Goals.** `UpdateProgress` writes the amount and then, when the target is met,
  the whole row; `UpdateGoal` writes the whole row and looks at no amount.
* **Subscriptions.** As `DocumentVault`, with one alert key per subscription for
  ever (`alert[s]`), and a counter next to the rows. `subSlips` counts the rows that
  were never counted and the writes to subscriptions deleted already. `FoundAlerts(NoUser)` is
  the search of the cancel loop, under user `""`.
* **Paging.** `CountRows` and `FetchPage` are the two statements of every
  `FindAllByUser`; `MayReturn(P, ...)` (in `Pages`) says which pages `ORDER BY ... LIMIT
  ... OFFSET` may return when keys are equal.
* **Timeline.** `AskPage` reads the clock and counts, `SelectPage` selects: a page has a
  range of its own, `from` on, and rows change and time passes between any two
  statements. `ExportNotifications` is the history, read with the first page. The user
  is one who looks at both 7-day views at least once a week, the weakest habit under
  which "7d" could be complete. `moved` collects the items whose place may have
  changed during a look: those at or behind a row that was changed, or that became
  overdue, and those that share their date.
* **Reports.** The formulas of the monthly reports as operators over a set `B` of
  bills; `FetchAllActive` is the set of answers the fetch may get, the `MaxBills`
  (1000 in the code) active ones that are billed first. Instants are half days;
  `MonthStart` gives the months. `ChangeBill` is whatever the subscription service does.

`Services` runs them side by side. None of them reads what another one writes,
so a behaviour is one of one service: the product of independent state spaces
would show nothing more.

### Access

* **RefreshTokens.** One user's tokens; `Chain` is the family id. `forks`,
  `ended` and `swept` record why a family may have two live tokens, none, or a
  token no session row names. `UpdateLastActive` and `Logout` match no row
  (section 4) and are left out.
* **LoginLock.** `count` is read when a request begins and written later. The
  lock runs out with `clock`.
* **OneTimeCodes.** Codes are numbered; the delete goes by phone number,
  whichever code is stored by then. `signIns[c]` holds every verification that is
  issued tokens for `c`; `overlapped[c]` counts those that began while another one was
  still to delete `c`.
* **RateLimiter.** `now` is read in the API process (`Arrive`) and the script
  runs up to `MaxDelay` later (`Script`); a lost answer repeats it, a failed one
  lets the request through (`FailOpen`). Times that are equal are one member.

## 3. Runs

| run | instance | checks |
|---|---|---|
| `delivery_faults` | 2 notifications, 2 schedulers, 2 workers, MaxRetries 2, BatchSize 2, one `dup` and one `lost` per notification | type invariant, `SendsBoundedByDups`, `NoDuplicateOutsideWindow`, `NothingStranded`, `OutcomesTruthful`, `RetriesBounded`, refinement `ImplementsContract` |
| `delivery_live` | 2 notifications, 1 scheduler, 2 workers, BatchSize 2, workers crash and lose connections, no lost call, fairness | `EventuallySettled` |
| `delivery_duplicate` | 1 of each, one `dup` | refutes `SentOnceUnlessRetried` |
| `reminder_requests` | 1 recurring reminder (with and without a usable rule), 2 requests, 3 occurrences, one failure | type invariant, `NeverSilent`, `NextRunAnnounced`, `OnlyInFlightRevives` |
| `reminder_usage` | 2 one-time reminders, 2 requests, 2 occurrences, 2 late writes, one failure | `UsageShortfall` |
| `reminder_pause` | 1 reminder, 1 request at a time | refutes `PausedIsQuiet` |
| `reminder_counter` | as above, user without usage row | refutes `RowCreatedOnFirstIncrement` |
| `document_vault` | 1 document beside another that is counted, 2 requests, 2 uploads, 2 days, one late write, one failure | type invariant, `FileAvailable`, `OrphansExplained`, `FirstDatesAnnounced`, `UsageShortfall` |
| `document_renewal` | 1 document, 1 request at a time, 2 dates, no failure | refutes `AlertsFollowExpiry` |
| `services` | 2 requests and one failure for each service; 3 turns in 2 months; 2 members, 1 goal, 2 subscriptions; one late write to a subscription; lists of 3 rows and 2 changes; 2 items, 5 instants and pages of one item; 3 bills, of which a fetch returns 2, with 6 due dates around the ends of 3 months | type invariant, `TurnsPaired`, `RepliesCounted`, `LastWriteStands`, `CompletionHonest`, `FirstBillingAnnounced`, `SubscriptionsLimited`, `EveryRowOnce`, `ReportsAgree`, `MonthComplete`, `NothingSlipsBy`, refinements `ChatQuota`, `MembersLimited` |
| `identity` | 2 requests and one failure; 3 tokens in 2 families; lock after 2 of 5 tries; 3 codes; 2 requests per window of 4 ticks, 6 ticks in all | type invariant, `OneHeadPerFamily`, `LiveTokenListed`, `DeletedSignsOut`, `EndedFamilyStays`, `LockLimitsTries`, `CodeUsedOnce`, `RateBounded`, `NeverStarved` |
| `otp_single_use` | 1 code, 2 requests, no failure | refutes `CodeSingleUse` |

Every run sets `CHECK_DEADLOCK FALSE`: the bounds on failures, occurrences and
uploads let each model stop, and the system itself rests when nothing is due or
asked for.

### Bounds, and why they are enough

* Two schedulers and two workers: every claim, write and acknowledgement
  involves one row and at most two processes that disagree about it. Two
  notifications let one process hold a batch of which one row is lost and the
  other is not. The theorems below drop these bounds altogether.
* `MaxRetries = 2` (the code has 3): reset and give-up both happen, and the
  comparison is met from both sides. One failure of each kind per notification
  is the smallest number that reaches each error branch; the properties are
  stated relative to the number of failures and proved for any number.
* Two overlapping requests (all service modules): a stale write needs one request that reads and one
  that writes in between. With one failure each property's exception is reached
  from both sides, once per call.
* `MaxOccurrences = 3` for one recurring reminder: create, complete and resume
  each insert one, and two completions can fork the chain of occurrences. In
  `reminder_usage`, 2: one for each reminder's create. The bound stops every new
  request but deletes, which insert nothing.
* `MaxUploads = 2`: an upload that replaces a file. Two days with a date on day
  2 and an offset of 1: the alert lies ahead on day 0 and is reached on day 1.
* `MaxSlips`, `MaxLateSubs`: how many writes to rows deleted already a behaviour has.
  One is the second of two overlapping deletes, or the update that brings a row back;
  two, in `reminder_usage`, are one of each kind. `InitialUsage = 1` in `document_vault`
  lets a double decrement take the place of the other document, where 0 would hide it.
* `document_vault` has the constraint `StaleIsBare`: what follows once a document
  was overwritten with an outdated row is explored only where it has no file and no
  alert. With one document only `TypeOK` and `UsageShortfall` look at it from then on,
  and files and alerts do not touch the counter.
* Limits are 1 (`Quota`, `MaxMembers`, `SubscriptionLimit`) or 2 (`LockAt`,
  `RateLimit`): the check is passed, met exactly and exceeded with two requests.
  `MaxTurns`, `MaxTries`, `MaxCodes` and `MaxChanges` end a behaviour after the
  limit was exceeded once; `MaxMonth`, `LastDay` and `LastTick` after time has
  moved past a request in progress, and past a lock, a code and a window.
* Three tokens in two families: a token, its successor and a fork of it, or a
  second sign-in. Three codes: one that is used, one that takes its place and
  one that takes the place of that.
* `services` has the constraint `Followed`: a behaviour is followed until a
  subscription was given another date. `FirstBillingAnnounced` leaves such a
  subscription out, and neither the counter nor the limit looks at dates; what
  follows is covered by the proofs.
* Pages hold 1, 2 (default) or 3 (largest) of 3 rows, in the place of 20 and 100;
  every initial order of keys, equal ones included, and two changes at any point.
* `Span = 2` of five `Instant`s: a look, one at its end, and dates before, within and
  beyond both ranges. `PageSize = 1` with two items: an item that is before another one,
  on a page of its own. `MaxBills = 2` of three bills: one is left out. `DueDate` holds
  the last and first half days around the ends of months and weeks.
* Symmetry is used over notifications, processes, requests and reminders in
  safety runs only; none of the modules orders or compares them.

### Fairness

`FairSpec` asks for weak fairness of each scheduler's and each worker's steps
(`SchedulerStep`, `WorkerStep`) and of nothing else: schedulers run on a ticker
for ever and consumers loop over their channel. Failures, crashes and the
passing of time are never forced. Publishing may fail only through `lost`, of
which `delivery_live` allows none: the run says that crashes and lost connections of
workers alone never keep a notification from settling. One lost call may: a row in
`sending` whose publish or status write failed is never claimed again, which is why
`EventuallySettled` speaks of notifications that nothing was lost of.

## 4. What the runs show

Delivery is at-least-once and precisely so: a notification is accepted at most
once more per failure that makes it be handled again. The status check at the head of
the handler keeps some of these failures from repeating a send: a worker that dies
before the provider's answer, or before a rejection is written, and a worker or connection
lost when the row is settled. It does not help when a worker dies between the
provider's answer and the recorded outcome, or between the reset to `scheduled` and the
acknowledgement, nor when the connection is lost under a handler that goes on to
send, nor when an acceptance is reported as a failure. Competing
schedulers, the unconditional second write of `sending` and late resets cost
nothing. Outcomes in the row and in events are truthful. Retries stay within
the limit, but for one per failure.

A recurring reminder keeps a scheduled occurrence and an announced next run
under any overlap, unless one of two things happened: a request wrote an
outdated row, or the insert itself failed. Deleted reminders come back only
through a request that had read them before.

A document's file can be fetched, and no object is forgotten, outside a short
list of causes: an interrupted delete or upload, an overlapping stale write, a
second upload (which never deletes the file it replaces). The first set of
alerts is always made.

The counters of reminders and documents fall short of the rows by one for each write to
a row that was deleted already, in any overlap: of two deletes of one row both
decrement. Otherwise they fall short only by increments that were lost.

Limits that are compared before and counted after are exceeded by at most one
for each request admitted together with another one: the chat quota and the members
of a family do what `LimitCheck` does, although one is a counter per month and one a
count of rows. The chat quota bounds the counter, which a lost increment leaves behind
the replies (`RepliesCounted` says so). The limit of subscriptions is compared with a
counter, too, but the property is about the subscriptions: a lost increment, the second
of two deletes, or an update that brings a subscription back each let the user have
one more, with one creation at a time and without any overlap of creations.

Chat turns are complete, but for those cut short or overlapped by a deletion of
the history, and counted in the month their quota was checked in. Family updates
add up field by field unless they overlap, and a deleted member stays deleted,
as a hard delete leaves no row to overwrite. A goal nobody edits concurrently is
completed exactly when its target is met, but for a goal that was completed once
and given less progress since, which stays completed. A subscription's first billing
date is announced whatever overlaps; later ones are not (the key of section 2).

A client that reads a list to its end sees each row once, unless a row at or
before it in the order moved or has the same key. So with the timeline, where in
addition time moves rows: an item that becomes overdue between two pages shifts all
that are due later by one place, and one of them is skipped. Who looks once a week
otherwise misses nothing. The monthly reports agree with each other, and a month is
complete unless more bills are due before its end than the fetch returns: overdue bills,
whose date nothing moves on, crowd out the month's own.

A sign-in has one token to go on with, one more for each refresh that came to
revoke a token that was revoked already, and none only when it was ended or a call
failed. A family that has ended gets a new token only from a refresh that was in
progress. Live tokens are listed, and a deleted account has none, up to the causes
the properties name. The lock and the rate limit each hold up to one
for each overlap or failure, as stated with the property. A one-time code signs in
once, and once more for each verification that begins before the code is deleted,
but a code requested meanwhile never lends it another use; a late script shortens
the window by as much as it is late.

### Where the code and its documentation disagree

1. `docs/system-design.md` says an occurrence is not sent twice unless retried
   after a failed attempt. A worker that dies after the provider's answer sends
   it again without any failed attempt (`delivery_duplicate`).
2. `PauseReminder` "cancels pending notifications". The search runs under user
   `""`, fails, and cancels nothing (`reminder_pause`). Delete and reschedule
   share it, and so do documents and subscriptions.
3. "Row will be created on first increment": it never is, so the plan limits
   have no effect for a user without a row (`reminder_counter`).
4. `UpdateDocument` "cancels all previously-scheduled expiry notifications and
   creates new ones": the old one stays and its key keeps the new one out, so a
   renewed document is never announced again (`document_renewal`).
5. `docs/system-design.md` says (lines 705 and 1286) that a one-time code is
   single-use. Two verifications that overlap both find it before either deletes it,
   and both are issued tokens (`otp_single_use`).

Met while reading, without a run: `Logout` is handed the whole cookie where it
expects a record id, and `UpdateLastActive` the id of a token where it expects
one of a session, so that neither changes a row; the message for an expired
refresh token is none of those `mapServiceError` knows, and becomes a 500;
`VerifyOTP` says that it creates an account if there is none, but the unique index
keeps a number out whose account was deleted; the rate limiter's comment names
the key `rl:` and unique nanosecond times, where the key is `ratelimit:` and a
number in Lua tells times apart by about 256 ns; `docs/system-design.md:1019-1022`
limits logins to 10 in 15 minutes per IP, registrations to 5 an hour, codes to 5 in 15
minutes per phone number and password resets to 5 an hour, where
`auth_handler.go:23-38` wires one limit of 10 a minute per IP for all of them;
the timeline's comments have `[from, to)` and an exclusive end
(`timeline/service.go:37,76,89`) where the query has `BETWEEN`, so that what is due
at the first instant of a month is on the timeline of the month before as well;
`GetUpcomingBills` returns bills "due within the next 30 days"
(`finance_service.go:66,222`) and overdue ones without end; the financial service is not constructed
in `cmd/main.go`, and its totals add up currencies and billing cycles;
`GetDetectedIntents` asks the stored payload for a key `intent` that only the result around
it has; `GetGoalHistory` returns completed goals, where its comment says archived ones too; `DocumentRepo.Update` leaves out
`family_member_id`, which `UpdateDocument` sets; `GetStorageUsage` counts the
files of deleted documents, whose objects are gone; `ChangePassword` computes a
new hash and drops it; the intent worker writes statuses the table rejects.

## 5. What is proved

The proofs assume only the named assumptions of each module: finite sets of
processes (and of places for requests in progress at the same time), `None`
outside the sets it is distinguished from (object keys among them), and bounds
that are natural numbers. They hold for any number of notifications, schedulers,
workers, reminders, members, goals, messages, tokens, codes, listed rows and
requests, for any batch size, limit, lock, retry limit and number of failures.
A property that excuses what a lost call did (`cut`) is proved on condition that
this call is in `Watched`, the set of calls whose loss is recorded; the runs put
it there, too. What `Paging`, `Timeline` and `Reports` assume besides is said below.

**NotificationDelivery.** `TypeCorrect`, `SendsBounded`, `WindowIsNarrow`,
`RetriesAreBounded`, `OutcomesAreTruthful`, `NeverStranded`: every invariant of
`delivery_faults`. None but the type invariant is inductive. The argument
counts the *chances* of a notification to be sent in the future: ready
messages, schedulers that hold it, workers whose attempt is open, the row
itself while `scheduled`. `SendBudget` says that acceptances plus chances never
exceed one plus the failures; each step moves a chance or uses it up, only `dup`
creates one. `RetryBudget` does the same for rejections once the limit is
reached; `WindowInv` says that of a notification that is not exposed there is at most one
chance in all, which is why a connection lost under a running handler must count as
exposed unless the row is settled; `WorkerKnows` ties the position of a worker to the row. Their
conjunction `IInv` is inductive. `Refinement` proves that the protocol
implements `DeliveryContract`, step by step, from the same invariant.

**ReminderLifecycle.** Every invariant and the action property of
`reminder_requests` and `reminder_usage`: `TypeCorrect`, `RevivedByInFlight` for
`OnlyInFlightRevives`, `NoneFallsSilent`, `NextRunsAnnounced` and
`CounterShortfall`. The first two rest on `IInv`, which says what a request looks
like at each point (`WellFormed`: an insert is only ever its first call and a mark
comes right after the list; its copy of the row is live, one about to update has
read a live row, one about to mark has an occurrence) and that the id of a reminder
being created is nobody else's (`InsertsFresh`).
The other three speak of reminders no request is busy with, so none is inductive.
`Promises`, which is, adds who still owes what. `Form` tells a request by its method
and its next call: what is left of its calls follows (`Chain`). `Room` keeps an
occurrence id for each request that may still insert one, and `Mine` says that the
occurrence a request holds is of its own reminder and date. `Silent`: a recurring
reminder has a scheduled occurrence, or a request that is going to insert one.
It holds through the gap of a completion, which marks the old occurrence done before
it inserts the next. `NextRun`: the next run in the row is announced, or a request
that carries this date is on its way to announce it. `Counted`: the counter, the late
writes and the creates that have not counted yet are together at least the live
reminders and the deletes that have not subtracted yet. A call that fails, or the crash of a request, moves
what it owed to `missed`, which each part exempts; a reminder whose row was
overwritten with an outdated one is in `stale`, which `Silent` and `NextRun`
exempt; `Counted` exempts none, as every write to a deleted reminder is counted. Without this exemption they are
false: an edit that writes back what it read before a completion undoes its
date.

**DocumentVault.** `TypeCorrect` and all four invariants of `document_vault`,
from one inductive invariant `Inv`. None of the four is inductive: each speaks
of documents no request is busy with, while every step is one of a request
that is. `Inv` therefore says what a request halfway owes to the tables.
`Base` tells a request by its method and its next call (`Chain`: the rest
follows), and says that keys are handed out once, that a document being created
is nobody else's and that every row and request names only keys handed out.
`Private`: the object an upload has put is known to nobody else until it is
entered, so no other request deletes it. `HalfDone` and `LinkBroken`: a link
that leads nowhere has a `DeleteDocumentFile` between its two calls, or one
that missed the second. `Kept`: an object is named by its row, or is in the
hands of a request that will enter or delete it, or a recorded loss explains
it. `Dates` and `Alerts`: while a document keeps its first dates, every
request that announces it announces these, and an alert not yet inserted has its
create still ahead. `Counted`: the counter less what it started
with, the late writes and the creates that have not counted yet are at least the live
documents and the deletes that have not subtracted yet.
`HalfDone` (for links), `LinkBroken`, `Kept`, `Dates` and `Alerts` exempt the
documents in `stale`: a request that writes an outdated row over a newer one does
break them. `Counted` exempts none.

**LimitCheck.** `LimitHolds`. The inductive part is that the requests that passed
the comparison and have not counted yet are at most the crowd, the most that were
admitted at the same time.

**Family.** `LastWrites` for `LastWriteStands` and `MembersLimit`, the refinement of
`LimitCheck` by the service, from one invariant: the id of a member being created
is nobody else's, a member nobody asked for is not there, and no request
has read it. It uses that requests are finitely many and that a field's value is
neither of the two marks for an absent and a deleted row.

**Subscriptions.** `SubscriptionsTypes`, `FirstBilling` for `FirstBillingAnnounced`,
and `SubscriptionsLimit` for `SubscriptionsLimited`, from two invariants.
`FreshInv` and `RowInv` say which requests have a row: nobody else works on a
subscription before its insert, and one that is found stays found. `DateInv`: as
long as nobody gives a subscription another date, every request about it has read
the date in its row and would announce that one, and nothing else was announced.
`PromiseInv`: such a date is announced, or the creation past its insert is still
to announce it, or its announcement is in `cut`. `FirstBilling` therefore assumes
that `announce` is in `Watched`, as in the run. No step that writes an outdated
row harms the invariant, because a row that was not redated has the same date in
every copy; so the property makes no exception for such rows. `LedgerInv` keeps the books of
the limit: the live subscriptions and the deletes that have yet to subtract are at most
the counter, the rows that are about to be counted and `subSlips`; each call moves one
entry, and a lost one is noted. The counter and the creations on their way to it exceed
the limit by no more than those creations, as in `LimitCheck`.

**Chat.** `TurnsArePaired` for `TurnsPaired`, `RepliesAreCounted` for `RepliesCounted`,
and `QuotaHolds`, the refinement of `LimitCheck` month by month, from `ChatInv`. The
first two look at messages no request is busy with, and say nothing of what a request is to
do, so they are not inductive. `ReplyInv`: a request about to store a reply
has its question in the history. `PairInv`: a question without a reply has a request
that will reply. Turns in progress while the history was deleted are in `torn`, and exempt. `UsageInv`: a month that admitted a request has the row that
`IncrementMessages` updates, so that the update finds it even after the turn of the
month. `TallyInv`: the replies of a month are its counter and the requests about to
increment it. For the refinement, the requests that were admitted in a month and have
not counted yet are those `LimitCheck` calls admitted; a failure or crash is its `GiveUp`.

**Goals.** `GoalsHonest` for `CompletionHonest`, from `GoalInv`. A request's method and its
next call say which rows it holds: an edit copies status and amount as it has read them
(`Edit`), a report of progress that meets the target holds a completed row (`Full`). `GoalThere`:
only a row that is there is read, and none ever disappears. `HonestInv`: a goal that
has its amount but is still active is one that a request will write a second time
(`Owed`); a completed one has its amount, unless less was reported again (`lowered`).
Goals written with an outdated row, or given another target without progress since, are
exempt, as in the property.

**Paging.** `PagesCover` for `EveryRowOnce`, from `PagingInv`. The *place* of a row is the
number of rows with a smaller key. Of a row that is not disturbed, `PlaceFacts` says: it
was seen once if its place is before the next offset, and not at all otherwise; it was
counted; and a client that has stopped had come past it. The central lemma is `OnPage`:
however the database orders rows with equal keys, a row with a key of its own is on the
page just when its place is, because the rows the database puts before it are those with
smaller keys. A change behind a row moves neither it nor any row before it. The rows of
a table are assumed to be finitely many; the page sizes are the model's 1, 2 and 3.

**Timeline.** `NothingIsMissed` for `NothingSlipsBy`, from `TimelineInv`: at most a week
has passed since the last look that is over (`TimesInv`), and what falls due within a week of
it and is not new was shown by then, as was every notification whose time had come
(`ShownInv`). While a look is in progress `KeptInv` follows the items whose place has not
moved: such an item was shown, or its place, counted from the start of the look, is not
before the next page; it is among those counted; and nothing before it has become
overdue. So the places of the look's start are those of the page's own range, and
`OnPage`, of the pages above, says where they end up. `HistoryInv` does the same for the history.
Items are assumed to be finitely many.

**Reports.** `MonthsAddUp` for `ReportsAgree`: `WeekFacts` says that the weeks of a month of
at most 31 days (an assumption) do not overlap and leave no day out, and sums over disjoint
sets add up (`TotalOfParts`). The sums are folds of the community modules, whose recursion is
unfolded by hand, and every induction over finite sets is one on a smallest counterexample
(`SmallestSet`), for a theorem that takes a predicate cannot be used. `MonthsComplete` for
`MonthComplete`: a fetch that leaves a bill out returns as many bills as it may, none of them
due later (`FetchedFacts`), so that with the missing one there would be more before the end
of the month than the property allows. Bills are assumed to be finitely many.

**Services.** `ServicesTypes` puts the seven inductive invariants together, for the `TypeOK` of the
`services` run.

**LoginLock.** `LoginTypes`, and `LockLimits` for `LockLimitsTries`. The debt is the
number of tries less the excuses and the failures. The stored count may be behind
it, because attempts that overlap write the same number. The invariant says by how
much: what is about to be written is no less than the debt, what was written is at
most one behind, and then a request is about to write; and a count that locks the
account has locked it, is about to, or was excused.

**OneTimeCodes.** `CodesTypes`, and `CodesUsedOnce` for `CodeUsedOnce`. `StoredInv`: a code
that is stored, with no request about to delete it, was found no more often than
verifications overlapped or calls failed: each other one was followed by the delete that
removed it. That a code is sent once, after it was stored, makes a deleted code
stay away. `NumbersInv` gives each verification a number of its own, so that the sign-ins
of a code are no more than the verifications that found it.

**RateLimiter.** `RateLimits` for `RateBounded` and `NobodyStarved` for `NeverStarved`.
The set of stamps and the requests that were let through differ, and only by
failures: of those let through within the last window at most one for each failure
is missing from the set (`MissingInv`: Redis failed and the request passed), and
the set holds at most one too many for each (`SurplusInv`: the answer was lost).
That the key outlives every stamp (`KeyInv`) makes its expiry harmless. A script
runs at most `MaxDelay` after its time was read (`DelayInv`); what an older script
sees may have been cleaned up by a newer one, hence the window shorter by as much.

**Access.** `AccessTypes` puts the inductive invariants of its four parts together,
for the `TypeOK` of the `identity` run.

**RefreshTokens.** `TokensTypes`, and the four properties of the `identity` run.
`BaseInv` is what all of them rest on: a request has the local variables its method
has read (`Knows`), at a place its method comes to (`Stage`); the token to be
issued is not there before its insert and is nobody else's (`NewInv`); the token that was found
is there, in the request's family, and revoked when its session is about to be
deleted (`OldInv`); a sign-in before its insert has its family for
itself (`ChainInv`).
`FamiliesStayEnded` (for `EndedFamilyStays`) follows from it alone: only an insert makes a
live token, and an insert is that of a refresh that found its token live, or
of a sign-in, whose family is empty.
`OneHead` (for `OneHeadPerFamily`) counts live tokens and inserts on the way. A
refresh that revokes its token gives up one and gains the other; if the
token is revoked already it gains one, and `forks` counts it. The insert exchanges
one for the other. Every other call only takes tokens away, and then the family is
ended, or the account deleted, or a call has failed (`Shrinks`).
`DeletedOut` and `LiveListed` (for `DeletedSignsOut` and `LiveTokenListed`) assume that
the calls they speak of are in `Watched`, so that a lost one is known of.
`SweepInv` says that after the revocation of all tokens of a sign-out the live ones
were issued during it or since; `ListInv` that a live token which was not is
listed or about to be. The second needs the first: the list is emptied after the
revocation, and the tokens that live through both are the newer ones.

Every invariant of a passing run, and every action property but for liveness, is
thus proved. Only model-checked are liveness and everything under fairness, for which
the prover has no rules. The runs that find a disagreement (section 4) are refutations
and stay with TLC.

## 6. Plan

In this order, the most important first:

1. *A composition* of `DocumentVault` or `Subscriptions` with
   `NotificationDelivery` through the notifications table: an alert that was
   inserted is settled. Today the two meet in the text only: both sides see a
   row with status `scheduled`, a date and a unique key.
2. *Registration and two-factor secrets* in the identity service.

## 7. Not modelled, and why

HTTP handlers and middleware other than the rate limit are stateless translations
between a request and one method call. The layout of exports (CSV, PDF, Excel) and
the counts of `GetStats` change nothing. Registration, profile, avatar and
two-factor secrets are single writes of a user's row on whose outcome no other
method depends. Hashing, signatures and token formats are pure functions
without interleaving; guessing a code or a password is not a behaviour of the
models. Payment has an interface and no implementation; the webhook handler
verifies a signature and publishes nothing; the intent worker is fed by nobody
and its only wiring has no extractor; the intent service and the billing service
are empty packages. Calendar arithmetic (months, leap days) is reduced to months
that follow each other. A repository call that fails is assumed not to have
happened, except where a store's or Redis' lost answer is an action of its own.
