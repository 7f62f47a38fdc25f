---------------------------- MODULE Subscriptions ----------------------------
(***************************************************************************)
(* The subscription service (internal/application/subscription): a user's  *)
(* subscriptions, the one notification that announces the next billing     *)
(* date of each, and the counter the plan limit is compared with.  The     *)
(* user has a usage_limits row, and requests are those of that user.       *)
(***************************************************************************)
EXTENDS Requests

CONSTANTS
    Subscription,        \* subscription ids, of which each is given out once
    Cycle,               \* billing cycles a user may choose
    BillingDate,         \* dates a user may enter
    User, NoUser,        \* the user id of every request, the user id ""
    SubscriptionLimit,   \* subscription_limit of the plan
    LastDay,             \* bound: months that pass
    MaxLateSubs          \* bound: writes to subscriptions already deleted

ASSUME SubscriptionsAssumption ==
    /\ IsFiniteSet(Subscription) /\ Cycle \subseteq {"monthly", "yearly", "custom"}
    /\ BillingDate \subseteq Nat /\ User # NoUser
    /\ SubscriptionLimit \in Nat /\ LastDay \in Nat /\ MaxLateSubs \in Nat

VARIABLES
    sub,                 \* sub[s], the subscriptions row
    alert,               \* alert[s], day of the notifications row with its key
    subscriptionsUsed,   \* usage_limits.subscriptions_used
    day,                 \* the current day, in months
    redated,             \* subscriptions that were given another date
    subCrowd,            \* the most creations ever in progress at once
    subSlips             \* rows that were never counted, and writes to deleted ones

subTables == <<sub, alert, subscriptionsUsed, day>>
subGhosts == <<redated, subCrowd, subSlips>>
subVars   == <<subTables, subGhosts>>

\* In months.
CalculateNextBillingAt(cycle, from) == IF cycle = "yearly" THEN from + 12 ELSE from + 1

Date   == BillingDate \union {CalculateNextBillingAt(c, d) : c \in Cycle, d \in 0 .. LastDay}
SubRow == [status : {"active", "archived", "canceled"}, next : Date]
NoSub  == [status |-> "absent", next |-> 0]
NoDay  == -1

SubMethod == {"createSubscription", "editSubscription", "rebillSubscription",
              "archiveSubscription", "deleteSubscription"}
SubCall   == {"insert", "countSub", "announce", "updateSub", "cancel", "softDelete", "uncountSub"}

SubscriptionsInit ==
    /\ sub = [s \in Subscription |-> NoSub]
    /\ alert = [s \in Subscription |-> NoDay]
    /\ subscriptionsUsed = 0 /\ day = 0
    /\ redated = {} /\ subCrowd = 0 /\ subSlips = 0

AboutSub(s) == \E q \in Doing(SubMethod) : req[q].own.target = s
CreatingSub == Doing({"createSubscription"})

\* The creations that are not counted yet.
Uncounted == {q \in CreatingSub : Makes(q, "insert") \/ Makes(q, "countSub")}

\* One subscription too many.
WrongSubWithinLimit == subscriptionsUsed <= SubscriptionLimit

SubWithinLimit == subscriptionsUsed < SubscriptionLimit

\* Archived subscriptions are found, canceled ones are not.
SubFound(s) == sub[s].status \notin {"absent", "canceled"}

BeginOnSub(q, method, calls, s, copy) ==
    /\ Begin(q, method, calls, [target |-> s, read |-> sub[s], copy |-> copy])
    /\ UNCHANGED <<subTables, redated, subSlips>>

CreateCalls == <<"insert", "countSub", "announce">>

CreateSubscription(q) ==
    /\ SubWithinLimit
    /\ \E s \in Subscription, cycle \in Cycle :
        \E next \in BillingDate \union {CalculateNextBillingAt(cycle, day)} :
          /\ sub[s].status = "absent" /\ ~AboutSub(s)
          /\ BeginOnSub(q, "createSubscription", CreateCalls, s,
                        [status |-> "active", next |-> next])
    /\ subCrowd' = IF Cardinality(Uncounted) + 1 > subCrowd
                   THEN Cardinality(Uncounted) + 1 ELSE subCrowd

\* UpdateSubscription without next_billing_at: a new cycle moves no date.
EditSubscription(q) ==
    /\ \E s \in Subscription :
        SubFound(s) /\ BeginOnSub(q, "editSubscription", <<"updateSub">>, s, sub[s])
    /\ UNCHANGED subCrowd

RebillSubscription(q) ==
    /\ \E s \in Subscription, next \in BillingDate :
        SubFound(s) /\ BeginOnSub(q, "rebillSubscription", <<"updateSub", "cancel", "announce">>, s,
                                  [sub[s] EXCEPT !.next = next])
    /\ UNCHANGED subCrowd

\* The counter, which counts archived subscriptions, stays.
ArchiveSubscription(q) ==
    /\ \E s \in Subscription :
        SubFound(s) /\ BeginOnSub(q, "archiveSubscription", <<"updateSub", "cancel">>, s,
                                  [sub[s] EXCEPT !.status = "archived"])
    /\ UNCHANGED subCrowd

DeleteSubscription(q) ==
    /\ \E s \in Subscription :
        SubFound(s) /\ BeginOnSub(q, "deleteSubscription", <<"softDelete", "cancel", "uncountSub">>,
                                  s, sub[s])
    /\ UNCHANGED subCrowd

InsertSub(q) ==
    /\ Makes(q, "insert")
    /\ sub' = [sub EXCEPT ![req[q].own.target] = req[q].own.copy]
    /\ Continue(q)
    /\ UNCHANGED <<alert, subscriptionsUsed, day, subGhosts>>

IncrementSubs(q) ==
    /\ Makes(q, "countSub")
    /\ subscriptionsUsed' = subscriptionsUsed + 1
    /\ Continue(q)
    /\ UNCHANGED <<sub, alert, day, subGhosts>>

\* "Before": a date that is reached already would be announced.
WrongAhead(date) == date <= day

Ahead(date) == date > day

\* createBillingNotification.  The key names no date, and the unique index on
\* it keeps every later notification of the subscription out.
AnnounceBilling(q) ==
    LET own == req[q].own IN
    /\ Makes(q, "announce")
    /\ alert' = IF Ahead(own.copy.next) /\ alert[own.target] = NoDay
                THEN [alert EXCEPT ![own.target] = own.copy.next] ELSE alert
    /\ Continue(q)
    /\ UNCHANGED <<sub, subscriptionsUsed, day, subGhosts>>

\* q writes to a subscription that another request may have deleted since.
NoteLateSub(q) ==
    IF SubFound(req[q].own.target) THEN UNCHANGED subSlips
    ELSE subSlips < MaxLateSubs /\ subSlips' = subSlips + 1

\* The whole row is overwritten, its status and its date included.
UpdateSub(q) ==
    LET own == req[q].own IN
    /\ Makes(q, "updateSub")
    /\ sub' = [sub EXCEPT ![own.target] = own.copy]
    /\ redated' = IF own.copy.next = own.read.next THEN redated ELSE redated \union {own.target}
    /\ NoteLateSub(q)
    /\ Continue(q)
    /\ UNCHANGED <<alert, subscriptionsUsed, day, subCrowd>>

\* cancelBillingNotifications searches among the notifications of user "".
FoundAlerts(user) == {s \in Subscription : alert[s] # NoDay /\ user = User}
CancelBilling(q) ==
    /\ Makes(q, "cancel")
    /\ alert' = [s \in Subscription |->
                  IF s = req[q].own.target /\ s \in FoundAlerts(NoUser) THEN NoDay ELSE alert[s]]
    /\ Continue(q)
    /\ UNCHANGED <<sub, subscriptionsUsed, day, subGhosts>>

SoftDeleteSub(q) ==
    /\ Makes(q, "softDelete")
    /\ sub' = [sub EXCEPT ![req[q].own.target].status = "canceled"]
    /\ NoteLateSub(q)
    /\ Continue(q)
    /\ UNCHANGED <<alert, subscriptionsUsed, day, redated, subCrowd>>

\* Without GREATEST.
WrongDecremented(n) == n - 1

Decremented(n) == IF n > 0 THEN n - 1 ELSE 0

DecrementSubs(q) ==
    /\ Makes(q, "uncountSub")
    /\ subscriptionsUsed' = Decremented(subscriptionsUsed)
    /\ Continue(q)
    /\ UNCHANGED <<sub, alert, day, subGhosts>>

Midnight ==
    /\ day < LastDay /\ day' = day + 1
    /\ UNCHANGED <<requestVars, sub, alert, subscriptionsUsed, subGhosts>>

\* Requests among qs end, or go on, without having counted what they inserted.
LoseCounts(qs) ==
    /\ subSlips' = subSlips + Cardinality({q \in qs : Makes(q, "countSub")})
    /\ UNCHANGED <<subTables, redated, subCrowd>>

SubscriptionsNext ==
    \/ \E q \in Request :
        \/ CreateSubscription(q) \/ EditSubscription(q) \/ RebillSubscription(q)
        \/ ArchiveSubscription(q) \/ DeleteSubscription(q)
        \/ InsertSub(q) \/ IncrementSubs(q) \/ AnnounceBilling(q) \/ UpdateSub(q)
        \/ CancelBilling(q) \/ SoftDeleteSub(q) \/ DecrementSubs(q)
        \/ CallFails(q, {"countSub", "announce", "cancel", "uncountSub"}) /\ LoseCounts({q})
    \/ Crash /\ LoseCounts(Request)
    \/ Midnight

SubscriptionsSpec ==
    RequestsInit /\ SubscriptionsInit /\ [][SubscriptionsNext]_<<requestVars, subVars>>

-----------------------------------------------------------------------------
(* Properties                                                              *)

SubscriptionsTypeOK ==
    /\ req \in [Request -> RequestOf(SubMethod, SubCall,
                 [target : Subscription, read : SubRow \union {NoSub}, copy : SubRow])]
    /\ sub \in [Subscription -> SubRow \union {NoSub}]
    /\ alert \in [Subscription -> Date \union {NoDay}]
    /\ subscriptionsUsed \in Nat /\ day \in 0 .. LastDay
    /\ redated \subseteq Subscription /\ subCrowd \in Nat /\ subSlips \in Nat

\* As long as a subscription keeps its first date, that date is announced; when
\* it was not ahead any more by the time of the announcement it has passed.
FirstBillingAnnounced ==
    \A s \in Subscription :
        /\ SubFound(s) /\ ~AboutSub(s)
        /\ s \notin redated /\ "announce" \notin cut /\ Ahead(sub[s].next)
        => alert[s] = sub[s].next

\* The plan limit, compared with a counter and not with the rows: the
\* subscriptions exceed it by at most one for each creation that overlaps
\* another one, one for each row whose Increment was lost (its error is
\* ignored), and one for each write to a subscription that was deleted already:
\* two deletes of one subscription both decrement, and an update brings it back.
SubscriptionsLimited ==
    Cardinality({s \in Subscription : SubFound(s)})
        <= SubscriptionLimit + subSlips + (IF subCrowd > 1 THEN subCrowd - 1 ELSE 0)
=============================================================================
