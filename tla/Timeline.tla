------------------------------ MODULE Timeline ------------------------------
(***************************************************************************)
(* What a user is shown of due dates, on the timeline                      *)
(* (internal/application/timeline) and in the notification history         *)
(* (internal/application/notification): windows around the time of the     *)
(* request, over rows that change meanwhile.  The timeline comes in pages, *)
(* each of them a request with a window of its own.  The user looks at the *)
(* "7d" range of both, page by page, and looks again within seven days.    *)
(***************************************************************************)
EXTENDS Pages

CONSTANTS
    Item,          \* rows with a due date, of any table
    Instant,       \* instants that matter, a DATE being its midnight
    Span,          \* how far a range reaches: 7 days
    PageSize       \* rows in a page of the timeline

ASSUME TimelineAssumption ==
    /\ IsFiniteSet(Item) /\ Instant \subseteq Nat
    /\ Span \in Nat /\ PageSize \in Nat \ {0}

VARIABLES
    item,          \* item[i], the row, or NoItem without an active one
    now,           \* the current instant
    looked,        \* when the user began the last look that is over
    shown,         \* items the user was shown since they have their date
    fresh,         \* items that got a date after that look, or were not on it
                   \* because the pages moved while they were read
    since,         \* when the user began to look
    pageNo,        \* the page of the timeline that the user asks for next
    from,          \* the start of the range of the page in progress, or NotAsked
    count,         \* its count
    moved          \* items whose place in the pages may have moved since then

timelineVars == <<item, now, looked, shown, fresh, since, pageNo, from, count, moved>>

NotAsked == -1

\* Reminders, documents, subscriptions and goals are alike here: entities.
ItemRow(kind, due) == [kind |-> kind, due |-> due]
NoItem   == ItemRow("none", 0)
ItemRows == {NoItem} \union [kind : {"entity", "notification"}, due : Instant]

OfKind(kind) == {i \in Item : item[i].kind = kind}
DueAt == [i \in Item |-> item[i].due]

\* BETWEEN: the end of a range belongs to it.
Between(t, low, high) == low <= t /\ t <= high
TimelineItems(start) == {i \in OfKind("entity") : Between(item[i].due, start, start + Span)}

\* Ahead, as the timeline does.
WrongHistoryRange(t) == [from |-> t, to |-> t + Span]

\* ExportNotifications looks back where the timeline looks ahead.
HistoryRange(t) == [from |-> t - Span, to |-> t]
ExportNotifications ==
    {i \in OfKind("notification") : Between(item[i].due, HistoryRange(now).from, HistoryRange(now).to)}

\* A notification is of use in the history when its time has come.
History == {i \in ExportNotifications : item[i].due <= now}

TimelineStart(rows, t) ==
    /\ item = rows /\ now = t /\ looked = t /\ since = t
    /\ shown = {} /\ fresh = Item /\ moved = {}
    /\ pageNo = 1 /\ from = NotAsked /\ count = 0

TimelineInit == \E rows \in [Item -> ItemRows], t \in Instant : TimelineStart(rows, t)

Looking == pageNo > 1 \/ from # NotAsked

\* What has become overdue since start is in front of nothing any more.
Overtaken(start) ==
    {i \in Item : \E x \in OfKind("entity") :
        start <= item[x].due /\ item[x].due < now /\ item[x].due <= item[i].due}

\* parseRange, and the count of the rows in that range.  The user opens the
\* history together with the first page.
AskPage ==
    /\ from = NotAsked
    /\ from' = now /\ count' = Cardinality(TimelineItems(now))
    /\ since' = IF Looking THEN since ELSE now
    /\ shown' = IF Looking THEN shown ELSE shown \union History
    /\ moved' = IF Looking THEN moved \union Overtaken(since) ELSE moved
    /\ UNCHANGED <<item, now, looked, fresh, pageNo>>

\* Items with the same due date come in any order.
Tied(rows) == {i \in rows : \E x \in rows \ {i} : item[x].due = item[i].due}

\* The user goes on to the next page, or has seen the last one.
SelectPage ==
    /\ from # NotAsked
    /\ from' = NotAsked /\ count' = 0
    /\ \E P \in SUBSET TimelineItems(from) :
        LET rows    == TimelineItems(from)
            unsure == moved \union Tied(rows) IN
        /\ MayReturn(P, rows, DueAt, PageOffset(pageNo, PageSize), PageSize)
        /\ shown' = shown \union P
        /\ IF pageNo < TotalPages(count, PageSize)
           THEN /\ pageNo' = pageNo + 1 /\ moved' = unsure
                /\ UNCHANGED <<looked, fresh>>
           ELSE /\ pageNo' = 1 /\ moved' = {} /\ looked' = since
                /\ fresh' = ({i \in fresh : item[i].due < since} \union unsure) \ shown'
    /\ UNCHANGED <<item, now, since>>

\* Time passes, but not more than a week without a look.
TimePasses ==
    /\ \E t \in Instant :
        /\ now < t /\ t <= looked + Span
        /\ now' = t
    /\ UNCHANGED <<item, looked, shown, fresh, since, pageNo, from, count, moved>>

\* Items at or behind a date that row x had or has now.
AtOrBehind(x) ==
    {i \in Item : \E row \in {item[x], item'[x]} : row.kind = "entity" /\ row.due <= item'[i].due}

\* A request of another service adds an item, removes it, or moves its date.
ChangeItem(x) ==
    /\ \E row \in ItemRows :
        /\ item[x] = NoItem \/ row = NoItem \/ row = [item[x] EXCEPT !.due = row.due]
        /\ item' = [item EXCEPT ![x] = row]
    /\ shown' = shown \ {x}
    /\ fresh' = fresh \union {x}
    /\ moved' = IF Looking THEN moved \union {x} \union AtOrBehind(x) ELSE moved
    /\ UNCHANGED <<now, looked, since, pageNo, from, count>>

TimelineNext == AskPage \/ SelectPage \/ TimePasses \/ \E x \in Item : ChangeItem(x)

TimelineSpec == TimelineInit /\ [][TimelineNext]_timelineVars

-----------------------------------------------------------------------------
(* Properties                                                              *)

TimelineTypeOK ==
    /\ item \in [Item -> ItemRows]
    /\ now \in Instant /\ looked \in Instant /\ since \in Instant
    /\ shown \subseteq Item /\ fresh \subseteq Item /\ moved \subseteq Item
    /\ pageNo \in Nat \ {0} /\ from \in Instant \union {NotAsked} /\ count \in Nat

\* Who looks once a week is shown every item before it is due, and what became
\* of every notification, however the pages follow the clock while they are read:
\* unless its date came after the last look before it, or it shared its date, or
\* something at or before its place changed or became overdue, while the pages
\* of that look were read (GetTimelineByRange, ExportNotifications).
NothingSlipsBy ==
    /\ \A i \in OfKind("entity") : item[i].due <= now /\ i \notin fresh => i \in shown
    /\ \A i \in OfKind("notification") : item[i].due <= looked /\ i \notin fresh => i \in shown
=============================================================================
