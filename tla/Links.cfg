SPECIFICATION Spec
CONSTANTS
  u1 = u1  u2 = u2  anna = anna  both = both
  Users = {u1, u2}
  Accounts = {a1}
  PaymentTypes = {cash}
  Transfers = {t1, t2}
  Senders = {anna, both}
  Patterns = {anna}
  Money = {m}
  Fractional = {}
  MaxPosition = 1
  RulePattern <- MCRulePattern
  RuleCovers <- MCRuleCovers
  Label <- MCLabel
  Blocks <- MCBlocks
  ContactUsers <- MCContactUsers
  NameUsers <- MCNameUsers
  NoUser = NoUser  NoType = NoType  NoPattern = NoPattern  NoPayment = NoPayment
  NoRow = NoRow  Manual = Manual
SYMMETRY TransferSymmetry
INVARIANTS
  LinksInjective
  SourceKeyOwned
  ExcludedIsLinked
  
  QueueFollowsRules
PROPERTIES
  ManualDecisionsStand
