SPECIFICATION VenuesSpec
CONSTANTS
  Qty = 2
  NumInstruments = 2
  NumOrders = 2
  Size = 2
  MaxClient = 3
  MaxBoots = 2
  StreamOrders = {o1}
  MaxTrades = 3
  SinkCapacity = 2
  MaxSessions = 2
  Owned = {o1, o2}
  Foreign = {f}
  MaxTradeId = 5
  PageLimit = 2
  MaxPages = 2
INVARIANTS AdapterSafety ConnectionSafety StreamSafety HistorySafety
 
CHECK_DEADLOCK FALSE
