------------------------------ MODULE Reports ------------------------------
(***************************************************************************)
(* The monthly reports of the financial service                            *)
(* (internal/application/billing), computed anew for every request from    *)
(* the active subscriptions it fetches: the first MaxBills of them, those  *)
(* billed earliest.                                                        *)
(*                                                                         *)
(* Instants are counted in half days.                                      *)
(***************************************************************************)
EXTENDS Pages, Sequences, FiniteSetsExt

CONSTANTS
    Bill,          \* subscriptions a user may have
    DueDate,       \* values of next_billing_at
    Category,      \* categories of subscriptions
    Price,         \* amounts of subscriptions
    MonthStart,    \* first instants of months that follow each other
    MaxBills       \* rows that fetchAllActive asks for: 1000

\* Months have at most 31 days.
ASSUME ReportsAssumption ==
    /\ IsFiniteSet(Bill) /\ DueDate \subseteq Nat /\ Price \subseteq Nat
    /\ Category \subseteq {"entertainment", "productivity", "bill", "other"}
    /\ MonthStart \in Seq(Nat) /\ Len(MonthStart) > 1
    /\ \A m \in 2 .. Len(MonthStart) :
        MonthStart[m - 1] < MonthStart[m] /\ MonthStart[m] <= MonthStart[m - 1] + 2 * 31
    /\ MaxBills \in Nat \ {0}

VARIABLE bill      \* bill[i], the row of subscription i, or NoBill without an active one

reportVars == <<bill>>

Days(n)  == 2 * n
NoBill   == [due |-> 0, category |-> "none", price |-> 0]
BillRows == {NoBill} \union [due : DueDate, category : Category, price : Price]
Active   == {i \in Bill : bill[i] # NoBill}

\* Latest first: bills that are long overdue are left out.
WrongNextBillingAt == [i \in Bill |-> -bill[i].due]

NextBillingAt == [i \in Bill |-> bill[i].due]

\* The answers fetchAllActive may get: page 1, sorted by next_billing_at.
FetchAllActive ==
    {B \in SUBSET Active : MayReturn(B, Active, NextBillingAt, PageOffset(1, MaxBills), MaxBills)}

InPeriod(t, p)      == p.from <= t /\ t < p.to
ParsePeriod(m)      == [from |-> MonthStart[m], to |-> MonthStart[m + 1]]
BillsIn(B, p)       == {i \in B : InPeriod(bill[i].due, p)}
SumOf(bills)        == MapThenSumSet(LAMBDA i : bill[i].price, bills)
TotalExpenses(B, m) == SumOf(BillsIn(B, ParsePeriod(m)))

DisplayCategory(c) ==
    CASE c = "entertainment" -> "Household"
      [] c \in {"productivity", "bill"} -> "Utilities"
      [] OTHER -> "Others"

SpendingByCategory(B, m) ==
    LET bills    == BillsIn(B, ParsePeriod(m))
        Shows(i) == DisplayCategory(bill[i].category) IN
    [c \in {Shows(i) : i \in bills} |-> SumOf({i \in bills : Shows(i) = c})]

\* A last week of seven days, too.
WrongWeekEnd(p, start) == start + Days(7)

WeekEnd(p, start) == IF start + Days(7) > p.to THEN p.to ELSE start + Days(7)

BuildWeeks(p) ==
    LET starts == {p.from + Days(7 * k) : k \in 0 .. 4} IN
    {[from |-> t, to |-> WeekEnd(p, t)] : t \in {u \in starts : u < p.to}}

\* Each bill counts for the first week it falls in.
SpendingTrend(B, m) ==
    LET weeks == BuildWeeks(ParsePeriod(m)) IN
    [w \in weeks |-> SumOf({i \in BillsIn(B, w) :
        \A v \in weeks : InPeriod(bill[i].due, v) => w.from <= v.from})]

ReportsStart(rows) == bill = rows
ReportsInit == \E rows \in [Bill -> BillRows] : ReportsStart(rows)

\* A request of the subscription service adds a row, removes it, or changes it.
ChangeBill(i) == \E row \in BillRows : bill' = [bill EXCEPT ![i] = row]

ReportsNext == \E i \in Bill : ChangeBill(i)
ReportsSpec == ReportsInit /\ [][ReportsNext]_reportVars

-----------------------------------------------------------------------------
(* Properties                                                              *)

ReportsTypeOK == bill \in [Bill -> BillRows]

\* The reports of a month agree on what it costs, whichever bills the fetch
\* returned: every one of them that is due in the month is in one week of the
\* trend and in one category, and no other is.  Without any bill there is nothing
\* to add up.
ReportsAgree ==
    \A B \in FetchAllActive : B # {} => \A m \in 1 .. Len(MonthStart) - 1 :
        LET trend == SpendingTrend(B, m)
            cats  == SpendingByCategory(B, m)
            total == TotalExpenses(B, m) IN
        /\ MapThenSumSet(LAMBDA w : trend[w], DOMAIN trend) = total
        /\ MapThenSumSet(LAMBDA c : cats[c], DOMAIN cats) = total

\* A month is reported in full, however many bills the fetch leaves out, unless
\* more than MaxBills are due before the month is over: overdue bills crowd out
\* the month's own, and bills that are due later do not.
MonthComplete ==
    \A B \in FetchAllActive, m \in 1 .. Len(MonthStart) - 1 :
        LET period == ParsePeriod(m) IN
        Cardinality({i \in Active : bill[i].due < period.to}) <= MaxBills
            => BillsIn(B, period) = BillsIn(Active, period)
=============================================================================
