SPECIFICATION Spec
CONSTANTS
  Transfers = {t1}
  Order <- MCOrder
  a1 = a1  a2 = a2
  Selections = {{a1, a2}, {a2}}
  Money = {m1, m2}
  Sessions = {s1, s2}
  Background = s1
  MaxTime = 3
  NoConfig = NoConfig
  NoRow = NoRow
  Idle = Idle
INVARIANTS
  ChangesArrive
  FirstIsExact
PROPERTY EventuallyShown
