SPECIFICATION StrategySpec
CONSTANTS
  OrderQuantity = 2
  EntryScore = 2
  ExitScore = 1
  NoIntent = NoIntent
  MaxIntents = 3
  PathOrder <- MCPathOrder
  Instruments <- MCInstruments
  Defs <- MCDefs
  Served <- MCServed
  TopN = 1
  MaxEdits = 1
  MaxReloads = 1
  MaxRefreshes = 2
  PolicyIds = {p1}
  PolicyQty = 2
  MayShort = TRUE
  MaxPolicyOrders = 4
  MaxReturn = 1
  MaxStarts = 2
INVARIANTS ScoreSafety RegistrySafety LivePolicySafety
PROPERTY StrategySteps
CHECK_DEADLOCK FALSE
