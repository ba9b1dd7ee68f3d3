SPECIFICATION Spec
CONSTANTS
  Windows = {w1, w2}
  Contents = {x, y, z}
  MaxVersion = 2
  Nothing = Nothing
PROPERTIES
  ChangesElsewhereAreSeen
