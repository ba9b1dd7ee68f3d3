SPECIFICATION TotalsSpec
CONSTANTS
  Years = 2
  Amounts = {1, 3}
  Near = 9
  MaxEvents = 2
INVARIANTS
  IntervalIsTheWeek
  PageAgrees
  WeeksAddUp
PROPERTIES
  WeeksFollow
CHECK_DEADLOCK FALSE
