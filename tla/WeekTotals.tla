----------------------------- MODULE WeekTotals -----------------------------
(***************************************************************************)
(* The statement of one user, week by week (aggregate_balances and         *)
(* get_user_balance in backend/app/services/balances.py, and the cards of  *)
(* frontend/src/pages/BalancesPage.tsx).  The calendar is the one of       *)
(* LegacyWeeks; on days near a New Year payments, cooks and adjustments    *)
(* are dated.  Users do not meet in a statement.  What others commit       *)
(* between the queries of one statement is the subject of Balances.        *)
(***************************************************************************)
EXTENDS LegacyWeeks, FiniteSets, Functions

CONSTANTS
  Amounts,     \* of payments, charges and adjustments
  Near,        \* bound: days before and after New Year on which something is dated
  MaxEvents    \* bound: payments, charges and adjustments in all

ASSUME AmountsAssumption == Amounts \subseteq Int

VARIABLE events   \* rows of payments, charges of cooks, and balance_adjustments

totalsVars == <<vars, events>>

Kinds == {"payment", "charge", "adjustment"}

\* A date, with the weekday its year begins with.
Today == [year |-> year, first |-> first, day |-> day]

TotalsInit == Init /\ events = {}

\* Payments and charges are counts of money, an adjustment may take some away.
Enter(kind, amount) ==
  /\ IF year = 1 THEN day > length - Near ELSE day <= Near
  /\ Cardinality(events) < MaxEvents
  /\ \E sum \in IF kind = "adjustment" THEN {amount, -amount} ELSE {amount} :
       events' = events \cup {[id |-> Cardinality(events), date |-> Today,
                               kind |-> kind, amount |-> sum]}
  /\ UNCHANGED vars

\* A calendar with events goes on to the last day on which there may be one.
Pass ==
  /\ events = {} \/ year = 1 \/ day < Near
  /\ NextDay \/ NewYear
  /\ UNCHANGED events

TotalsNext == Pass \/ \E kind \in Kinds, amount \in Amounts : Enter(kind, amount)

TotalsSpec == TotalsInit /\ [][TotalsNext]_totalsVars

-----------------------------------------------------------------------------

NotAfter(d, e) == d.year < e.year \/ (d.year = e.year /\ d.day <= e.day)

\* Both ends of a range belong to it.
InRange(from, to) == {e \in events : NotAfter(from, e.date) /\ NotAfter(e.date, to)}

\* Rows are collected under the year of the date and the number of its week.
Key(d) == <<d.year, legacy_week(d.first, d.day)>>

\* Fault: weeks are ordered by their number.
SortedBefore_number(k, l) == k[2] <= l[2]

\* The order of sorted().
SortedBefore(k, l) == k[1] < l[1] \/ (k[1] = l[1] /\ k[2] <= l[2])

Change(e) == IF e.kind = "charge" THEN -e.amount ELSE e.amount

Total(rows) == SumFunction([e \in rows |-> Change(e)])

\* One WeekBalanceResponse; rows are the payments, cooks and adjustments listed in it.
WeekRow(key, from, to) ==
  LET rows == {e \in InRange(from, to) : Key(e.date) = key}
      Sum(kind) == SumFunction([e \in {r \in rows : r.kind = kind} |-> e.amount])
      before == {e \in InRange(from, to) : SortedBefore(Key(e.date), key)}
  IN  [year |-> key[1], week |-> key[2], rows |-> rows,
       positive |-> Sum("payment"), negative |-> Sum("charge"),
       adjustment |-> Sum("adjustment"),
       weekly_delta |-> Sum("payment") - Sum("charge") + Sum("adjustment"),
       cumulative_balance |-> Total(before)]

weeks(from, to) == {WeekRow(Key(e.date), from, to) : e \in InRange(from, to)}

\* The card of a week shows what the balance was before it.
Opening(row) == row.cumulative_balance - row.weekly_delta

-----------------------------------------------------------------------------
(* Properties *)

\* A statement up to today, whatever day it begins with, is a running account: what a
\* week closes with is the sum of all that is dated up to its last day, the first week
\* opens with nothing, and each later one with what the last week before it in the
\* calendar closed with (balances.py:146-219, 307-345, BalancesPage.tsx:199-203).
WeeksAddUp ==
  \A from \in {e.date : e \in events} :
    LET shown == weeks(from, Today)
        UpTo(row) == {e \in InRange(from, Today) :
                        \E f \in row.rows : NotAfter(e.date, f.date)}
        Earlier(row) == {r \in shown \ {row} : r.rows \subseteq UpTo(row)}
    IN  \A row \in shown :
          /\ row.cumulative_balance = Total(UpTo(row))
          /\ IF Earlier(row) = {}
             THEN Opening(row) = 0
             ELSE \E r \in Earlier(row) :
                    /\ Earlier(row) \subseteq Earlier(r) \cup {r}
                    /\ Opening(row) = r.cumulative_balance

=============================================================================
