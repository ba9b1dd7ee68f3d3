SPECIFICATION Spec
CONSTANTS
  u1 = u1  u2 = u2  anna = anna  both = both
  Users = {u1, u2}
  Accounts = {a1, a2}
  PaymentTypes = {cash, card}
  Transfers = {t1}
  Senders = {anna}
  Patterns = {anna}
  Money = {m, half}
  Fractional = {half}
  MaxPosition = 1
  RulePattern <- MCRulePattern
  RuleCovers <- MCRuleCovers
  Label <- MCLabel
  Blocks <- MCBlocks
  ContactUsers <- MCContactUsers
  NameUsers <- MCNameUsers
  NoUser = NoUser  NoType = NoType  NoPattern = NoPattern  NoPayment = NoPayment
  NoRow = NoRow  Manual = Manual
INVARIANTS
  TypeOK
  UnsettledNotCounted
  CountedAgrees
  CountedType
  AcceptedCounts
