SPECIFICATION Spec
CONSTANTS
  Editors = {e1}
  LastDate = 2
  CookDate = 1
  Prices = {1, 2}
  Votes = {1, 2}
  Charge <- MCCharge
  PaymentIds = {p1}
  PaymentSums = {5}
  Amounts <- MCAmounts
  MaxAdjustments = 2
  Nothing = Nothing
INVARIANTS
  BookedBalanceIsTrue
  RetryAdjustsOnce
PROPERTIES
  ClosedIsZero
