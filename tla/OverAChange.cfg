SPECIFICATION Spec
CONSTANTS
  Editors = {e1, e2}
  LastDate = 1
  CookDate = 1
  Prices = {1}
  Votes = {1, 2}
  Charge <- MCCharge
  PaymentIds = {}
  PaymentSums = {5}
  Amounts = {0, 5}
  MaxAdjustments = 2
  Nothing = Nothing
PROPERTIES
  NeverBookedOverAChange
