SPECIFICATION FairSpec
CONSTANTS
  Clients = {c1, c2}
  Cooks = {k1, k2}
  Users = {u1}
  Sales = {s1, s2}
  Dates = {d1, d2}
  Products = {x}
  MaxVersion = 1
  NoCook = NoCook  Nobody = Nobody  Nothing = Nothing
INVARIANTS
  TypeOK
  CurrentViewIsTrue
PROPERTIES
  NoLostUpdate
  ImplementsStore
  EveryRequestAnswered
