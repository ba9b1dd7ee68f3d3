SPECIFICATION ImportSpec
CONSTANTS
  Sessions = {s1, s2}
  MaxNumber = 2
  MaxSaves = 3
  old = old  other = other
  Manifests = {old, other}
  RowsOf <- MCRowsOf
  Web = Web  Nothing = Nothing  Idle = Idle
SYMMETRY SessionSymmetry
INVARIANTS
  TypeOK
  NumbersAreOwn
  ListsOfOneSave
  ImportIsWhole
PROPERTIES
  ImportsIntoEmpty
