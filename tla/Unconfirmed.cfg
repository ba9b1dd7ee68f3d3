SPECIFICATION ConfirmationSpec
CONSTANTS
  Users = {u1}
  Accounts = {a1}
  PaymentTypes = {cash}
  Transfers = {t1}
  Senders = {anna}
  Patterns = {anna}
  Money = {m1, m2}
  Fractional = {}
  MaxPosition = 0
  RulePattern <- MCRulePattern
  RuleCovers <- MCCovers
  Label <- MCLabel
  Blocks <- MCCovers
  ContactUsers <- MCNoUsers
  NameUsers <- MCNames
  NoUser = NoUser  NoType = NoType  NoPattern = NoPattern  NoPayment = NoPayment
  NoRow = NoRow  Manual = Manual
PROPERTY OnlyConfirmedCounts
