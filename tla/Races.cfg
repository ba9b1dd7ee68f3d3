SPECIFICATION RaceSpec
CONSTANTS
  Users = {u1}
  Accounts = {a1}
  Account = a1
  PaymentTypes = {cash}
  Transfers = {t1}
  Senders = {anna}
  Patterns = {anna}
  Money = {m, half}
  Fractional = {half}
  MaxPosition = 1
  RulePattern <- MCRulePattern
  RuleCovers <- MCCovers
  Label <- MCLabel
  Blocks <- MCCovers
  ContactUsers <- MCNoUsers
  NameUsers <- MCNames
  NoUser = NoUser  NoType = NoType  NoPattern = NoPattern  NoPayment = NoPayment
  NoRow = NoRow  Manual = Manual
  Sessions = {s1, s2}
  Idle = Idle
SYMMETRY SessionSymmetry
PROPERTIES
  UndisturbedHeals
  OnlyRelinkingParts
