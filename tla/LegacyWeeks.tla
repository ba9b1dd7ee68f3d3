----------------------------- MODULE LegacyWeeks -----------------------------
(***************************************************************************)
(* The weeks balances are shown by (legacy_week and legacy_week_display in *)
(* backend/app/services/balances.py) and the week number in the list of    *)
(* cooks (legacyWeekDisplay in frontend/src/pages/CooksPage.tsx).  A week  *)
(* is named by its year and number, so the week around New Year is two.    *)
(*                                                                         *)
(* The machine is a calendar that goes on from day to day.  A year is      *)
(* known by the weekday it begins with and by its length; which years are  *)
(* leap years plays no part.                                               *)
(***************************************************************************)
EXTENDS Integers

CONSTANT Years   \* bound: the calendar ends with year Years

ASSUME YearsAssumption == Years \in Nat \ {0}

Weekdays == 0 .. 6   \* Monday is 0

Lengths == {365, 366}

VARIABLES
  year,
  first,    \* the weekday of the first of January
  length,   \* the days of the year
  day       \* the day of the year, from 1

vars == <<year, first, length, day>>

TypeOK ==
  /\ year \in 1 .. Years
  /\ first \in Weekdays
  /\ length \in Lengths
  /\ day \in 1 .. length

Init ==
  /\ year = 1
  /\ first \in Weekdays
  /\ length \in Lengths
  /\ day \in 1 .. length

NextDay ==
  /\ day < length
  /\ day' = day + 1
  /\ UNCHANGED <<year, first, length>>

NewYear ==
  /\ day = length
  /\ year < Years
  /\ year' = year + 1
  /\ first' = (first + length) % 7
  /\ length' \in Lengths
  /\ day' = 1

Next == NextDay \/ NewYear

Spec == Init /\ [][Next]_vars

-----------------------------------------------------------------------------

\* Fault: weeks are counted in sevens from the first of January.
legacy_week_sevens(w, d) == (d - 1) \div 7 + 1

\* The number of the week, in a year that begins on weekday w.
legacy_week(w, d) == (d - 1 + w) \div 7 + 1

\* The Monday of week k, which may lie before the year.
RawStart(w, k) == 1 + 7 * (k - 1) - w

\* Fault: the first week is shown from its Monday, in the year before.
Start_raw(w, k) == RawStart(w, k)

\* The first and the last day legacy_week_display shows for week k.
Start(w, k) == IF RawStart(w, k) > 1 THEN RawStart(w, k) ELSE 1

End(w, n, k) == IF RawStart(w, k) + 6 < n THEN RawStart(w, k) + 6 ELSE n

\* JavaScript counts weekdays from Sunday.
getUTCDay(w) == (w + 1) % 7

\* Fault: the weekday is not turned into one that is counted from Monday.
mondayBasedOffset_sunday(w) == getUTCDay(w)

mondayBasedOffset(w) == (getUTCDay(w) + 6) % 7

legacyWeekDisplay(w, d) == (d + mondayBasedOffset(w) - 1) \div 7 + 1

Weekday(w, d) == (d - 1 + w) % 7

-----------------------------------------------------------------------------
(* Properties *)

Week == legacy_week(first, day)

\* The interval shown for a week holds exactly the days whose payments, charges and
\* adjustments are summed up under it (balances.py:130-143, 163-187).
IntervalIsTheWeek ==
  /\ day \in Start(first, Week) .. End(first, length, Week)
  /\ \A d \in Start(first, Week) .. End(first, length, Week) :
       d \in 1 .. length /\ legacy_week(first, d) = Week

\* Every week number fits the contract (contracts/balances.py:113): only proved.
WeekFitsContract == Week \in 1 .. 54

\* The list of cooks names the same week as the balances (CooksPage.tsx:209-217).
PageAgrees == legacyWeekDisplay(first, day) = Week

\* A new week begins on a Monday or with the year and is the next in the order by
\* which balances accumulate (balances.py:192).
WeeksFollow ==
  [][IF Weekday(first', day') = 0 \/ day' = 1
     THEN \/ year' = year /\ Week' = Week + 1
          \/ year' = year + 1 /\ Week' = 1
     ELSE year' = year /\ Week' = Week]_vars

=============================================================================
