SPECIFICATION SDSpec
CONSTANTS
  PolicyOrder <- MCPolicyOrder
  AllowShort <- MCAllowShort
  NoOrder = NoOrder
  Ghost = Ghost
  MaxOrders = 3
  MaxReconnects = 1
  MaxBoots = 2
INVARIANT ShadowSafety
PROPERTIES ExitsOnlyReduce FatalEndsProcess
CHECK_DEADLOCK FALSE
