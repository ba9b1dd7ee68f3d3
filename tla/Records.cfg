SPECIFICATION RecordSpec
CONSTANTS
  Variants = {1, 2}
  MaxPosition = 2
  Offset <- MCOffset
  anna = anna  boris = boris
  Users = {anna, boris}
  One = 10
  SalesOf <- MCSalesOf
  CookSales = {8}
  NewSale = 6
  Int32Max = 29  Int64Max = 1000  DecimalMax = 3000  Float32Max = 9000
  MaxDepth = 2  MaxText = 5
  VoteTables <- MCVoteTables
  Receipts <- MCReceipts
  Rosters <- MCRosters
  Unreadable = Unreadable  NoTotal = NoTotal  Failed = Failed  NoCook = NoCook
INVARIANTS
  NeverCollides
  RequestedWhenIdle
  ShownIsCharged
  
  
PROPERTIES
  SavesKeepBalances
  PreviewIsSaved
