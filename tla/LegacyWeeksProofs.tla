-------------------------- MODULE LegacyWeeksProofs --------------------------
(***************************************************************************)
(* What the week arithmetic promises, for calendars of any length, and     *)
(* that a statement is a running account, for any number of rows.          *)
(***************************************************************************)
EXTENDS WeekTotals, Sums

\* A number is in the seven that begin with its quotient.
LEMMA Sevens ==
  ASSUME NEW x \in Nat
  PROVE  /\ x \div 7 \in Nat
         /\ 7 * (x \div 7) <= x /\ x < 7 * (x \div 7) + 7
         /\ x % 7 = x - 7 * (x \div 7)
  OBVIOUS

\* Quotients are told apart by the sevens.
LEMMA SevensUnique ==
  ASSUME NEW x \in Nat, NEW k \in Int, 7 * k <= x, x < 7 * k + 7
  PROVE  x \div 7 = k
  BY Sevens

LEMMA FirstWeek == ASSUME NEW w \in Weekdays PROVE legacy_week(w, 1) = 1
<1>1. 1 - 1 + w \in Nat /\ 7 * 0 <= 1 - 1 + w /\ 1 - 1 + w < 7 * 0 + 7
  BY DEF Weekdays
<1>2. (1 - 1 + w) \div 7 = 0
  BY <1>1, SevensUnique
<1> QED BY <1>2 DEF legacy_week

\* Week k of a year is the seven days from RawStart on.
LEMMA WeekDays ==
  ASSUME NEW w \in Weekdays, NEW d \in Nat \ {0}, NEW k \in Int
  PROVE  legacy_week(w, d) = k <=> RawStart(w, k) <= d /\ d <= RawStart(w, k) + 6
<1> DEFINE x == d - 1 + w
<1>1. x \in Nat
  BY DEF Weekdays
<1>2. legacy_week(w, d) = x \div 7 + 1
  BY DEF legacy_week
<1>3. x \div 7 \in Nat /\ 7 * (x \div 7) <= x /\ x < 7 * (x \div 7) + 7
  BY <1>1, Sevens
<1>4. ASSUME legacy_week(w, d) = k
      PROVE  RawStart(w, k) <= d /\ d <= RawStart(w, k) + 6
  BY <1>2, <1>3, <1>4 DEF RawStart, Weekdays
<1>5. ASSUME RawStart(w, k) <= d, d <= RawStart(w, k) + 6
      PROVE  legacy_week(w, d) = k
  <2>1. 7 * (k - 1) <= x /\ x < 7 * (k - 1) + 7
    BY <1>5 DEF RawStart, Weekdays
  <2>2. x \div 7 = k - 1
    BY <1>1, <2>1, SevensUnique
  <2> QED BY <1>2, <2>2
<1> QED BY <1>4, <1>5

-----------------------------------------------------------------------------

LEMMA InitType == Init => TypeOK
  BY YearsAssumption DEF Init, TypeOK, Lengths

LEMMA StepType == TypeOK /\ [Next]_vars => TypeOK'
<1> SUFFICES ASSUME TypeOK, [Next]_vars PROVE TypeOK'
  OBVIOUS
<1>1. CASE NextDay
  BY <1>1 DEF TypeOK, NextDay, Lengths
<1>2. CASE NewYear
  <2>1. (first + length) % 7 \in Weekdays
    BY DEF TypeOK, Weekdays, Lengths
  <2> QED BY <1>2, <2>1, YearsAssumption DEF TypeOK, NewYear, Lengths
<1>3. CASE UNCHANGED vars
  BY <1>3 DEF TypeOK, vars
<1> QED BY <1>1, <1>2, <1>3 DEF Next

THEOREM CalendarType == Spec => []TypeOK
  BY InitType, StepType, PTL DEF Spec

\* A week is shown with exactly the days that are summed up under it
\* (balances.py:130-143).
THEOREM IntervalsAreWeeks == Spec => []IntervalIsTheWeek
<1>1. TypeOK => IntervalIsTheWeek
  <2> SUFFICES ASSUME TypeOK PROVE IntervalIsTheWeek
    OBVIOUS
  <2>1. /\ first \in Weekdays /\ day \in Nat \ {0} /\ length \in Nat
        /\ 1 <= day /\ day <= length
    BY DEF TypeOK, Lengths
  <2>2. Week \in Int
    BY <2>1 DEF Week, legacy_week, Weekdays
  <2>3. RawStart(first, Week) <= day /\ day <= RawStart(first, Week) + 6
    BY <2>1, <2>2, WeekDays DEF Week
  <2>4. RawStart(first, Week) \in Int
    BY <2>1, <2>2 DEF RawStart, Weekdays
  <2>5. day \in Start(first, Week) .. End(first, length, Week)
    BY <2>1, <2>3, <2>4 DEF Start, End
  <2>6. ASSUME NEW d \in Start(first, Week) .. End(first, length, Week)
        PROVE  d \in 1 .. length /\ legacy_week(first, d) = Week
    <3>1. /\ d \in Nat \ {0} /\ d <= length
          /\ RawStart(first, Week) <= d /\ d <= RawStart(first, Week) + 6
      BY <2>1, <2>4, <2>6 DEF Start, End
    <3> QED BY <2>1, <2>2, <3>1, WeekDays
  <2> QED BY <2>5, <2>6 DEF IntervalIsTheWeek
<1> QED BY <1>1, CalendarType, PTL

\* Week numbers lie between 1 and 54 (contracts/balances.py:113).
THEOREM WeeksFitContract == Spec => []WeekFitsContract
<1>1. TypeOK => WeekFitsContract
  <2> SUFFICES ASSUME TypeOK PROVE WeekFitsContract
    OBVIOUS
  <2>1. day - 1 + first \in Nat /\ day - 1 + first <= 371
    BY DEF TypeOK, Weekdays, Lengths
  <2>2. (day - 1 + first) \div 7 \in 0 .. 53
    BY <2>1, Sevens
  <2> QED BY <2>2 DEF WeekFitsContract, Week, legacy_week
<1> QED BY <1>1, CalendarType, PTL

\* Both programs name the same week (CooksPage.tsx:209-217, balances.py:130-135).
THEOREM ProgramsAgree == Spec => []PageAgrees
<1>1. TypeOK => PageAgrees
  <2> SUFFICES ASSUME TypeOK PROVE PageAgrees
    OBVIOUS
  <2>1. first \in 0 .. 6 /\ day \in Int
    BY DEF TypeOK, Weekdays, Lengths
  <2>2. mondayBasedOffset(first) = first
    BY <2>1 DEF mondayBasedOffset, getUTCDay
  <2>3. day + first - 1 = day - 1 + first
    BY <2>1
  <2> QED BY <2>2, <2>3 DEF PageAgrees, legacyWeekDisplay, legacy_week, Week
<1> QED BY <1>1, CalendarType, PTL

\* Weeks begin on Mondays and with the year, and follow each other in the order of
\* their names (balances.py:130-135, 192).
THEOREM WeeksInOrder == Spec => WeeksFollow
<1>1. TypeOK /\ [Next]_vars =>
        [IF Weekday(first', day') = 0 \/ day' = 1
         THEN \/ year' = year /\ Week' = Week + 1
              \/ year' = year + 1 /\ Week' = 1
         ELSE year' = year /\ Week' = Week]_vars
  <2> SUFFICES ASSUME TypeOK, Next
               PROVE  IF Weekday(first', day') = 0 \/ day' = 1
                      THEN \/ year' = year /\ Week' = Week + 1
                           \/ year' = year + 1 /\ Week' = 1
                      ELSE year' = year /\ Week' = Week
    OBVIOUS
  <2>1. CASE NextDay
    <3> DEFINE x == day - 1 + first
    <3>1. /\ x \in Nat /\ x + 1 \in Nat /\ day \in Nat \ {0}
          /\ day' = day + 1 /\ first' = first /\ year' = year
      BY <2>1 DEF TypeOK, NextDay, Weekdays, Lengths
    <3>2. /\ Week = x \div 7 + 1
          /\ Week' = (day + 1 - 1 + first) \div 7 + 1
          /\ Weekday(first', day') = (day + 1 - 1 + first) % 7
      BY <3>1 DEF Week, legacy_week, Weekday
    <3>3. day + 1 - 1 + first = x + 1
      BY DEF TypeOK, Weekdays, Lengths
    <3>4. /\ (x + 1) % 7 = 0 => (x + 1) \div 7 = x \div 7 + 1
          /\ (x + 1) % 7 # 0 => (x + 1) \div 7 = x \div 7
      BY <3>1
    <3>5. day' # 1
      BY <3>1
    <3> HIDE DEF x
    <3> QED BY <3>1, <3>2, <3>3, <3>4, <3>5
  <2>2. CASE NewYear
    <3>1. day' = 1 /\ first' \in 0 .. 6 /\ year' = year + 1
      BY <2>2 DEF TypeOK, NewYear, Weekdays, Lengths
    <3>2. Week' = legacy_week(first', 1)
      BY <3>1 DEF Week, legacy_week
    <3>3. Week' = 1
      BY <3>1, <3>2, FirstWeek DEF Weekdays
    <3> QED BY <3>1, <3>3
  <2> QED BY <2>1, <2>2 DEF Next
<1> QED BY <1>1, CalendarType, PTL DEF Spec, WeeksFollow

-----------------------------------------------------------------------------
(* A statement is a running account *)

Dates == [year : Nat, first : Weekdays, day : Nat \ {0}]

\* All dates of a year know the same weekday for its first of January.
SameYears(D) == \A d, e \in D : d.year = e.year => d.first = e.first

EventDates == {e.date : e \in events}

\* What is dated is dated up to today.
EventsOK ==
  /\ IsFiniteSet(events)
  /\ \A e \in events : /\ e.date \in Dates /\ NotAfter(e.date, Today)
                       /\ e.kind \in Kinds /\ e.amount \in Int
  /\ SameYears(EventDates \cup {Today})

TotalsIInv == TypeOK /\ EventsOK

LEMMA TodayIsADate == TypeOK => Today \in Dates
  BY DEF TypeOK, Today, Dates, Lengths

LEMMA TotalsInitInv == TotalsInit => TotalsIInv
<1> SUFFICES ASSUME TotalsInit PROVE TotalsIInv
  OBVIOUS
<1>1. TypeOK
  BY InitType DEF TotalsInit
<1>2. events = {} /\ IsFiniteSet(events)
  BY FS_EmptySet DEF TotalsInit
<1>3. EventDates = {}
  BY <1>2 DEF EventDates
<1>4. QED BY <1>1, <1>2, <1>3 DEF TotalsIInv, EventsOK, SameYears

\* The days that pass leave the dates behind today, and a new year is one of its own.
LEMMA PassInv == TotalsIInv /\ Pass => TotalsIInv'
<1> SUFFICES ASSUME TotalsIInv, Pass PROVE TotalsIInv'
  OBVIOUS
<1>1. TypeOK /\ TypeOK'
  BY StepType DEF TotalsIInv, Pass, Next
<1>2. /\ events' = events /\ EventDates' = EventDates /\ IsFiniteSet(events)
      /\ \A e \in events : /\ e.date \in Dates /\ NotAfter(e.date, Today)
                           /\ e.kind \in Kinds /\ e.amount \in Int
  BY DEF TotalsIInv, EventsOK, EventDates, Pass
<1>3. Today \in Dates /\ Today' \in Dates
  BY <1>1, TodayIsADate DEF Today, TypeOK, Dates, Lengths
<1>4. \/ Today'.year = Today.year /\ Today'.day = Today.day + 1 /\ Today'.first = Today.first
      \/ Today'.year = Today.year + 1
  BY DEF Pass, NextDay, NewYear, Today
<1>5. \A e \in events : NotAfter(e.date, Today')
  BY <1>2, <1>3, <1>4 DEF NotAfter, Dates
<1>6. ASSUME NEW d \in EventDates, d.year = Today'.year
      PROVE  d.first = Today'.first
  <2>1. d \in Dates /\ NotAfter(d, Today)
    BY <1>2 DEF EventDates
  <2>2. Today'.year = Today.year /\ Today'.first = Today.first
    BY <1>3, <1>4, <1>6, <2>1 DEF NotAfter, Dates
  <2>3. QED BY <1>6, <2>2 DEF TotalsIInv, EventsOK, SameYears
<1>7. SameYears(EventDates \cup {Today'})
  BY <1>6 DEF TotalsIInv, EventsOK, SameYears
<1>8. QED BY <1>1, <1>2, <1>5, <1>7 DEF TotalsIInv, EventsOK

LEMMA EnterInv ==
  ASSUME TotalsIInv, NEW kind \in Kinds, NEW amount \in Amounts, Enter(kind, amount)
  PROVE  TotalsIInv'
<1>1. TypeOK' /\ Today' = Today
  BY DEF TotalsIInv, TypeOK, Enter, vars, Today
<1>2. PICK new : /\ events' = events \cup {new}
                 /\ new.date = Today /\ new.kind = kind /\ new.amount \in Int
  <2>1. amount \in Int /\ -amount \in Int
    BY AmountsAssumption
  <2>2. PICK sum \in Int :
          events' = events \cup {[id |-> Cardinality(events), date |-> Today,
                                  kind |-> kind, amount |-> sum]}
    BY <2>1 DEF Enter
  <2> DEFINE new == [id |-> Cardinality(events), date |-> Today, kind |-> kind, amount |-> sum]
  <2>3. new.date = Today /\ new.kind = kind /\ new.amount = sum
    OBVIOUS
  <2>4. events' = events \cup {new} /\ new.amount \in Int
    BY <2>2, <2>3
  <2> HIDE DEF new
  <2>5. QED BY <2>3, <2>4
<1>3. IsFiniteSet(events')
  BY <1>2, FS_AddElement DEF TotalsIInv, EventsOK
<1>4. Today \in Dates /\ NotAfter(Today, Today)
  BY TodayIsADate DEF TotalsIInv, NotAfter, Dates
<1>5. \A e \in events' : /\ e.date \in Dates /\ NotAfter(e.date, Today)
                         /\ e.kind \in Kinds /\ e.amount \in Int
  BY <1>2, <1>4 DEF TotalsIInv, EventsOK
<1>6. EventDates' \cup {Today} = EventDates \cup {Today}
  BY <1>2 DEF EventDates
<1>7. QED BY <1>1, <1>3, <1>5, <1>6 DEF TotalsIInv, EventsOK

LEMMA TotalsInvariant == TotalsSpec => []TotalsIInv
<1>1. TotalsIInv /\ [TotalsNext]_totalsVars => TotalsIInv'
  <2> SUFFICES ASSUME TotalsIInv, [TotalsNext]_totalsVars PROVE TotalsIInv'
    OBVIOUS
  <2>1. CASE UNCHANGED totalsVars
    BY <2>1 DEF TotalsIInv, TypeOK, EventsOK, EventDates, Today, totalsVars, vars
  <2>2. QED BY <2>1, PassInv, EnterInv DEF TotalsNext
<1>2. QED BY <1>1, TotalsInitInv, PTL DEF TotalsSpec

-----------------------------------------------------------------------------
(* The order of weeks *)

Keys == Nat \X Int

LEMMA KeysAreOrdered ==
  ASSUME NEW k \in Keys, NEW l \in Keys
  PROVE  /\ SortedBefore(k, k)
         /\ SortedBefore(k, l) \/ SortedBefore(l, k)
         /\ SortedBefore(k, l) /\ SortedBefore(l, k) => k = l
BY DEF Keys, SortedBefore

LEMMA KeysAreTransitive ==
  ASSUME NEW k \in Keys, NEW l \in Keys, NEW m \in Keys, SortedBefore(k, l), SortedBefore(l, m)
  PROVE  SortedBefore(k, m)
BY DEF Keys, SortedBefore

LEMMA KeyType == ASSUME NEW d \in Dates PROVE Key(d) \in Keys
BY Sevens DEF Dates, Key, Keys, legacy_week, Weekdays

\* Weeks are in the order of their days.
LEMMA KeysFollowDays ==
  ASSUME NEW d \in Dates, NEW e \in Dates, d.year = e.year => d.first = e.first
  PROVE  /\ NotAfter(d, e) => SortedBefore(Key(d), Key(e))
         /\ SortedBefore(Key(d), Key(e)) => Key(d) = Key(e) \/ NotAfter(d, e)
<1>1. /\ d.year \in Nat /\ d.first \in 0 .. 6 /\ d.day \in Nat \ {0}
      /\ e.year \in Nat /\ e.first \in 0 .. 6 /\ e.day \in Nat \ {0}
  BY DEF Dates, Weekdays
<1>2. /\ Key(d)[1] = d.year /\ Key(d)[2] = legacy_week(d.first, d.day)
      /\ Key(e)[1] = e.year /\ Key(e)[2] = legacy_week(e.first, e.day)
  BY DEF Key
<1>3. CASE d.year # e.year
  BY <1>1, <1>2, <1>3 DEF NotAfter, SortedBefore
<1>4. CASE d.year = e.year
  <2> DEFINE x == d.day - 1 + d.first
             y == e.day - 1 + e.first
             p == legacy_week(d.first, d.day)
             q == legacy_week(e.first, e.day)
  <2>1. x \in Nat /\ y \in Nat /\ (d.day <= e.day <=> x <= y)
    BY <1>1, <1>4
  <2>2. /\ x \div 7 \in Nat /\ 7 * (x \div 7) <= x /\ x < 7 * (x \div 7) + 7
        /\ y \div 7 \in Nat /\ 7 * (y \div 7) <= y /\ y < 7 * (y \div 7) + 7
    BY <2>1, Sevens
  <2>3. p = x \div 7 + 1 /\ q = y \div 7 + 1
    BY DEF legacy_week
  <2>4. p \in Int /\ q \in Int /\ (x <= y => p <= q) /\ (p < q => x <= y)
    BY <2>1, <2>2, <2>3
  <2>5. Key(d) = <<d.year, p>> /\ Key(e) = <<e.year, q>>
    BY DEF Key
  <2> HIDE DEF x, y, p, q
  <2>6. /\ NotAfter(d, e) <=> x <= y
        /\ SortedBefore(Key(d), Key(e)) <=> p <= q
    BY <1>1, <1>4, <2>1, <2>5 DEF NotAfter, SortedBefore
  <2>7. p = q => Key(d) = Key(e)
    BY <1>4, <2>5
  <2>8. QED BY <2>4, <2>6, <2>7
<1>5. QED BY <1>3, <1>4

-----------------------------------------------------------------------------
(* What rows add up to *)

LEMMA ChangeType == ASSUME EventsOK, NEW e \in events PROVE Change(e) \in Int
BY DEF EventsOK, Change

LEMMA TotalIs ==
  ASSUME EventsOK, NEW rows \in SUBSET events
  PROVE  /\ IsFiniteSet(rows)
         /\ Total(rows) = SumFunctionOnSet([e \in events |-> Change(e)], rows)
         /\ Total(rows) \in Int
<1> DEFINE f == [e \in events |-> Change(e)]
           g == [e \in rows |-> Change(e)]
<1>1. IsFiniteSet(rows)
  BY FS_Subset DEF EventsOK
<1>2. \A e \in rows : f[e] = g[e] /\ f[e] \in Int
  BY ChangeType
<1>3. DOMAIN g = rows
  OBVIOUS
<1>4. Total(rows) = SumFunctionOnSet(g, rows)
  BY <1>3 DEF Total, SumFunction
<1> HIDE DEF f, g
<1>5. SumFunctionOnSet(g, rows) = SumFunctionOnSet(f, rows)
  BY <1>1, <1>2, SumsEqual
<1>6. SumFunctionOnSet(f, rows) \in Int
  BY <1>1, <1>2, SumType
<1>7. QED BY <1>1, <1>4, <1>5, <1>6 DEF f

LEMMA TotalUnion ==
  ASSUME EventsOK, NEW r \in SUBSET events, NEW s \in SUBSET events, r \cap s = {}
  PROVE  Total(r \cup s) = Total(r) + Total(s)
<1> DEFINE f == [e \in events |-> Change(e)]
<1>1. IsFiniteSet(events) /\ \A e \in events : f[e] \in Int
  BY ChangeType DEF EventsOK
<1>2. r \cup s \in SUBSET events
  OBVIOUS
<1>3. /\ Total(r) = SumFunctionOnSet(f, r) /\ Total(s) = SumFunctionOnSet(f, s)
      /\ Total(r \cup s) = SumFunctionOnSet(f, r \cup s)
  BY <1>2, TotalIs
<1> HIDE DEF f
<1>4. SumFunctionOnSet(f, r \cup s) = SumFunctionOnSet(f, r) + SumFunctionOnSet(f, s)
  BY <1>1, SumUnion
<1>5. QED BY <1>3, <1>4

Amount(rows, kind) == SumFunction([e \in {r \in rows : r.kind = kind} |-> e.amount])

\* Payments and adjustments are added, charges are taken away (balances.py:193).
LEMMA TotalByKind ==
  ASSUME EventsOK, NEW rows \in SUBSET events
  PROVE  Amount(rows, "payment") - Amount(rows, "charge") + Amount(rows, "adjustment")
           = Total(rows)
<1> DEFINE p == {r \in rows : r.kind = "payment"}
           c == {r \in rows : r.kind = "charge"}
           a == {r \in rows : r.kind = "adjustment"}
<1>1. /\ p \in SUBSET events /\ c \in SUBSET events /\ a \in SUBSET events
      /\ p \cap c = {} /\ (p \cup c) \cap a = {} /\ p \cup c \in SUBSET events
      /\ p \cup c \cup a = rows
  BY DEF EventsOK, Kinds
<1>2. Amount(rows, "payment") = Total(p)
  <2>1. [e \in p |-> e.amount] = [e \in p |-> Change(e)]
    BY DEF Change
  <2>2. QED BY <2>1 DEF Amount, Total
<1>3. Amount(rows, "adjustment") = Total(a)
  <2>1. [e \in a |-> e.amount] = [e \in a |-> Change(e)]
    BY DEF Change
  <2>2. QED BY <2>1 DEF Amount, Total
<1>4. Amount(rows, "charge") = -Total(c) /\ Total(c) \in Int
  <2> DEFINE f == [e \in c |-> Change(e)]
             g == [e \in c |-> e.amount]
  <2>1. \A e \in c : f[e] \in Int /\ g[e] = -f[e]
    BY DEF Change, EventsOK
  <2>2. DOMAIN f = c /\ DOMAIN g = c
    OBVIOUS
  <2>3. Amount(rows, "charge") = SumFunctionOnSet(g, c)
    BY <2>2 DEF Amount, SumFunction
  <2>4. Total(c) = SumFunctionOnSet(f, c)
    BY <2>2 DEF Total, SumFunction
  <2>5. IsFiniteSet(c) /\ Total(c) \in Int
    BY <1>1, TotalIs
  <2> HIDE DEF f, g, c
  <2>6. SumFunctionOnSet(g, c) = -SumFunctionOnSet(f, c)
    BY <2>1, <2>5, SumNegated
  <2>7. QED BY <2>3, <2>4, <2>5, <2>6
<1> HIDE DEF p, c, a
<1>5. Total(p \cup c) = Total(p) + Total(c)
  BY <1>1, TotalUnion
<1>6. Total((p \cup c) \cup a) = Total(p \cup c) + Total(a)
  BY <1>1, TotalUnion
<1>7. Total(p) \in Int /\ Total(a) \in Int
  BY <1>1, TotalIs
<1>8. Total(rows) = Total(p) + Total(c) + Total(a)
  BY <1>1, <1>5, <1>6
<1>9. QED BY <1>2, <1>3, <1>4, <1>7, <1>8

-----------------------------------------------------------------------------
(* Each week goes on where the one before it ended *)

\* The rows of one week, and those up to its end.
Own(key, from) == {e \in InRange(from, Today) : Key(e.date) = key}

UpToWeek(key, from) == {e \in InRange(from, Today) : SortedBefore(Key(e.date), key)}

UpToRow(row, from) == {e \in InRange(from, Today) :
                         \E f \in row.rows : NotAfter(e.date, f.date)}

EarlierRows(row, from) ==
  {r \in weeks(from, Today) \ {row} : r.rows \subseteq UpToRow(row, from)}

LEMMA EventKeys ==
  ASSUME EventsOK, NEW e \in events, NEW f \in events
  PROVE  /\ Key(e.date) \in Keys
         /\ NotAfter(e.date, f.date) => SortedBefore(Key(e.date), Key(f.date))
         /\ SortedBefore(Key(e.date), Key(f.date))
              => Key(e.date) = Key(f.date) \/ NotAfter(e.date, f.date)
<1>1. e.date \in Dates /\ f.date \in Dates
  BY DEF EventsOK
<1>2. e.date.year = f.date.year => e.date.first = f.date.first
  BY DEF EventsOK, SameYears, EventDates
<1>3. QED BY <1>1, <1>2, KeyType, KeysFollowDays

LEMMA WeekRowIs ==
  ASSUME EventsOK, NEW from, NEW key \in Keys, NEW row, row = WeekRow(key, from, Today)
  PROVE  /\ <<row.year, row.week>> = key
         /\ row.rows = Own(key, from)
         /\ row.cumulative_balance = Total(UpToWeek(key, from))
         /\ Opening(row) = Total(UpToWeek(key, from) \ Own(key, from))
<1> DEFINE own == Own(key, from)
           all == UpToWeek(key, from)
<1>1. key = <<key[1], key[2]>>
  BY DEF Keys
<1>2. row = [year |-> key[1], week |-> key[2], rows |-> own,
             positive |-> Amount(own, "payment"), negative |-> Amount(own, "charge"),
             adjustment |-> Amount(own, "adjustment"),
             weekly_delta |-> Amount(own, "payment") - Amount(own, "charge")
                                + Amount(own, "adjustment"),
             cumulative_balance |-> Total(all)]
  BY Zenon DEF WeekRow, Own, UpToWeek, Amount
<1>3. /\ own \in SUBSET events /\ all \in SUBSET events /\ all \ own \in SUBSET events
      /\ own \cap (all \ own) = {} /\ own \cup (all \ own) = all
  BY KeysAreOrdered DEF Own, UpToWeek, InRange
<1>4. Amount(own, "payment") - Amount(own, "charge") + Amount(own, "adjustment") = Total(own)
  BY <1>3, TotalByKind
<1>5. Total(own) \in Int /\ Total(all) \in Int /\ Total(all \ own) \in Int
  BY <1>3, TotalIs
<1>6. Total(own \cup (all \ own)) = Total(own) + Total(all \ own)
  BY <1>3, TotalUnion
<1> HIDE DEF own, all
<1>7. /\ row.year = key[1] /\ row.week = key[2] /\ row.rows = own
      /\ row.weekly_delta = Total(own) /\ row.cumulative_balance = Total(all)
  BY <1>2, <1>4
<1>8. Opening(row) = Total(all \ own)
  BY <1>3, <1>5, <1>6, <1>7 DEF Opening
<1>9. QED BY <1>1, <1>7, <1>8 DEF own, all

\* What is dated up to the last row of a week is what is dated up to its end.
LEMMA UpToIs ==
  ASSUME EventsOK, NEW from, NEW e \in InRange(from, Today),
         NEW row, row.rows = Own(Key(e.date), from)
  PROVE  UpToRow(row, from) = UpToWeek(Key(e.date), from)
<1> DEFINE key == Key(e.date)
<1>1. e \in events /\ e \in Own(key, from)
  BY DEF InRange, Own
<1>2. ASSUME NEW x \in InRange(from, Today), NEW f \in Own(key, from), NotAfter(x.date, f.date)
      PROVE  SortedBefore(Key(x.date), key)
  BY <1>2, EventKeys DEF InRange, Own
<1>3. ASSUME NEW x \in InRange(from, Today), SortedBefore(Key(x.date), key)
      PROVE  \E f \in Own(key, from) : NotAfter(x.date, f.date)
  <2>1. x \in events
    BY DEF InRange
  <2>2. CASE Key(x.date) = key
    <3>1. x \in Own(key, from) /\ NotAfter(x.date, x.date)
      BY <2>1, <2>2 DEF Own, NotAfter, EventsOK, Dates
    <3>2. QED BY <3>1
  <2>3. CASE NotAfter(x.date, e.date)
    BY <1>1, <2>3
  <2>4. QED BY <1>1, <1>3, <2>1, <2>2, <2>3, EventKeys
<1>4. QED BY <1>2, <1>3 DEF UpToRow, UpToWeek

\* Of some rows, one is in the last week.
LEMMA LastWeek ==
  ASSUME EventsOK, NEW S \in SUBSET events, S # {}
  PROVE  \E m \in S : \A x \in S : SortedBefore(Key(x.date), Key(m.date))
<1> DEFINE Last(s, m) == \A x \in s : SortedBefore(Key(x.date), Key(m.date))
           Good == {s \in SUBSET S : s # {} => \E m \in s : Last(s, m)}
<1>1. ASSUME NEW s \in SUBSET S, \A t \in SUBSET s : t # s => t \in Good, s # {}
      PROVE  \E m \in s : Last(s, m)
  <2>1. PICK y \in s : TRUE
    BY <1>1
  <2>2. s \ {y} \in Good
    BY <1>1, <2>1
  <2>3. /\ y \in events /\ Key(y.date) \in Keys /\ SortedBefore(Key(y.date), Key(y.date))
        /\ \A x \in s : Key(x.date) \in Keys
    BY EventKeys, KeysAreOrdered
  <2>4. CASE s \ {y} = {}
    BY <2>1, <2>3, <2>4
  <2>5. CASE s \ {y} # {}
    <3>1. PICK m \in s \ {y} : Last(s \ {y}, m)
      BY <2>2, <2>5
    <3>2. CASE SortedBefore(Key(y.date), Key(m.date))
      BY <3>1, <3>2
    <3>3. CASE SortedBefore(Key(m.date), Key(y.date))
      <4>1. \A x \in s \ {y} : SortedBefore(Key(x.date), Key(y.date))
        BY <2>3, <3>1, <3>3, KeysAreTransitive
      <4>2. Last(s, y)
        BY <2>3, <4>1
      <4>3. QED BY <4>2
    <3>4. QED BY <2>3, <3>1, <3>2, <3>3, KeysAreOrdered
  <2>6. QED BY <2>4, <2>5
<1>2. \A s \in SUBSET S : (\A t \in SUBSET s : t # s => t \in Good) => s \in Good
  BY <1>1
<1>3. IsFiniteSet(S)
  BY FS_Subset DEF EventsOK
<1>4. S \in Good
  <2> HIDE DEF Good
  <2>1. QED BY <1>2, <1>3, SubsetInduction
<1>5. QED BY <1>4

\* The row of a week that has some, and the rows of the weeks before it.
LEMMA RowsOfWeeks ==
  ASSUME EventsOK, NEW from, NEW e \in InRange(from, Today)
  PROVE  LET key == Key(e.date)
             row == WeekRow(key, from, Today)
         IN  /\ row \in weeks(from, Today)
             /\ row.cumulative_balance = Total(UpToRow(row, from))
             /\ Opening(row) = Total(UpToWeek(key, from) \ Own(key, from))
             /\ EarlierRows(row, from)
                  = {WeekRow(Key(x.date), from, Today) :
                       x \in UpToWeek(key, from) \ Own(key, from)}
<1> DEFINE key == Key(e.date)
           row == WeekRow(key, from, Today)
           R(x) == WeekRow(Key(x.date), from, Today)
           Before == UpToWeek(key, from) \ Own(key, from)
<1>1. e \in events /\ key \in Keys /\ \A x \in InRange(from, Today) : Key(x.date) \in Keys
  BY EventKeys DEF InRange
<1>2. /\ <<row.year, row.week>> = key /\ row.rows = Own(key, from)
      /\ row.cumulative_balance = Total(UpToWeek(key, from))
      /\ Opening(row) = Total(Before)
  BY <1>1, WeekRowIs
<1>3. UpToRow(row, from) = UpToWeek(key, from)
  BY <1>2, UpToIs
<1>4. \A x \in InRange(from, Today) : /\ <<R(x).year, R(x).week>> = Key(x.date)
                                      /\ R(x).rows = Own(Key(x.date), from)
  BY <1>1, WeekRowIs
<1>5. ASSUME NEW x \in InRange(from, Today)
      PROVE  R(x) \in EarlierRows(row, from) <=> x \in Before
  <2>1. R(x) \in weeks(from, Today) /\ x \in Own(Key(x.date), from)
    BY DEF weeks, Own
  <2>2. R(x) = row <=> Key(x.date) = key
    BY <1>2, <1>4
  <2>3. Own(Key(x.date), from) \subseteq UpToWeek(key, from) <=> SortedBefore(Key(x.date), key)
    BY <2>1 DEF Own, UpToWeek
  <2>4. R(x) \in EarlierRows(row, from)
          <=> R(x) # row /\ Own(Key(x.date), from) \subseteq UpToWeek(key, from)
    BY <1>3, <1>4, <2>1 DEF EarlierRows
  <2>5. x \in Before <=> SortedBefore(Key(x.date), key) /\ Key(x.date) # key
    BY DEF UpToWeek, Own
  <2>6. QED BY <2>2, <2>3, <2>4, <2>5
<1>6. EarlierRows(row, from) = {R(x) : x \in Before}
  <2>1. \A r \in EarlierRows(row, from) : \E x \in InRange(from, Today) : r = R(x)
    BY DEF EarlierRows, weeks
  <2>2. Before \subseteq InRange(from, Today)
    BY DEF UpToWeek
  <2> HIDE DEF row, R, Before
  <2>3. QED BY <1>5, <2>1, <2>2
<1>7. row \in weeks(from, Today)
  BY DEF weeks
<1>8. QED BY <1>2, <1>3, <1>6, <1>7

\* A statement is a running account: each week closes with the sum of all that is dated
\* up to its end and opens with what the week before it closed with
\* (balances.py:146-219, BalancesPage.tsx:199-203).
THEOREM StatementsAddUp == TotalsSpec => []WeeksAddUp
<1>1. TotalsIInv => WeeksAddUp
  <2> SUFFICES ASSUME TotalsIInv, NEW from \in EventDates, NEW row \in weeks(from, Today)
               PROVE  /\ row.cumulative_balance = Total(UpToRow(row, from))
                      /\ IF EarlierRows(row, from) = {}
                         THEN Opening(row) = 0
                         ELSE \E r \in EarlierRows(row, from) :
                                /\ EarlierRows(row, from)
                                     \subseteq EarlierRows(r, from) \cup {r}
                                /\ Opening(row) = r.cumulative_balance
    BY DEF WeeksAddUp, EventDates, UpToRow, EarlierRows
  <2> DEFINE R(x) == WeekRow(Key(x.date), from, Today)
             Before(k) == UpToWeek(k, from) \ Own(k, from)
  <2>1. PICK e \in InRange(from, Today) : row = R(e)
    BY DEF weeks
  <2> DEFINE key == Key(e.date)
             S == Before(key)
  <2>2. EventsOK /\ e \in events
    BY DEF TotalsIInv, InRange
  <2>3. /\ row.cumulative_balance = Total(UpToRow(row, from)) /\ Opening(row) = Total(S)
        /\ EarlierRows(row, from) = {R(x) : x \in S}
    BY <2>1, <2>2, RowsOfWeeks
  <2>4. S \subseteq InRange(from, Today) /\ S \in SUBSET events
    BY DEF UpToWeek, InRange
  <2>5. CASE S = {}
    <3>1. Total({}) = 0
      BY SumOfNone DEF Total, SumFunction
    <3>2. QED BY <2>3, <2>5, <3>1
  <2>6. CASE S # {}
    <3>1. PICK m \in S : \A x \in S : SortedBefore(Key(x.date), Key(m.date))
      BY <2>2, <2>4, <2>6, LastWeek
    <3> DEFINE last == Key(m.date)
    <3>2. m \in InRange(from, Today) /\ m \in events
      BY <2>4
    <3>3. /\ EarlierRows(R(m), from) = {R(x) : x \in Before(last)}
          /\ R(m).cumulative_balance = Total(UpToWeek(last, from))
      <4>1. /\ R(m).cumulative_balance = Total(UpToRow(R(m), from))
            /\ EarlierRows(R(m), from) = {R(x) : x \in Before(last)}
        BY <2>2, <3>2, RowsOfWeeks
      <4>2. last \in Keys /\ R(m).rows = Own(last, from)
        BY <2>2, <3>2, EventKeys, WeekRowIs
      <4>3. UpToRow(R(m), from) = UpToWeek(last, from)
        BY <2>2, <3>2, <4>2, UpToIs
      <4>4. QED BY <4>1, <4>3
    <3>4. /\ key \in Keys /\ last \in Keys /\ \A x \in InRange(from, Today) : Key(x.date) \in Keys
          /\ SortedBefore(last, key) /\ last # key
      <4>1. key \in Keys /\ \A x \in InRange(from, Today) : Key(x.date) \in Keys
        BY <2>2, EventKeys DEF InRange
      <4>2. SortedBefore(last, key) /\ last # key
        BY <3>1, <3>2 DEF UpToWeek, Own
      <4>3. QED BY <3>2, <4>1, <4>2
    <3>5. UpToWeek(last, from) = S
      <4>1. ASSUME NEW x \in InRange(from, Today), SortedBefore(Key(x.date), last)
            PROVE  x \in S
        <5>1. SortedBefore(Key(x.date), key)
          BY <3>4, <4>1, KeysAreTransitive
        <5>2. Key(x.date) # key
          BY <3>4, <4>1, KeysAreOrdered
        <5>3. QED BY <5>1, <5>2 DEF UpToWeek, Own
      <4>2. QED BY <2>4, <3>1, <4>1 DEF UpToWeek
    <3>6. S \subseteq Before(last) \cup Own(last, from)
      BY <3>5
    <3>7. \A x \in Own(last, from) : R(x) = R(m)
      BY DEF Own
    <3>8. R(m) \in EarlierRows(row, from) /\ Opening(row) = R(m).cumulative_balance
      BY <2>3, <3>1, <3>3, <3>5
    <3>9. EarlierRows(row, from) \subseteq EarlierRows(R(m), from) \cup {R(m)}
      <4> HIDE DEF R, S, Before
      <4>1. QED BY <2>3, <3>3, <3>6, <3>7
    <3>10. QED BY <2>3, <3>8, <3>9
  <2>7. QED BY <2>5, <2>6
<1>2. QED BY <1>1, TotalsInvariant, PTL

=============================================================================
