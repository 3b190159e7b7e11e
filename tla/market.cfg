SPECIFICATION MarketSpec
CONSTANTS
  Prices = {1, 2, 3}
  MAX_BUFFER = 2
  MaxId = 4
  SimQuantity = 2
  SimPositions <- MCPositions
  FirstOrders <- MCFirstOrders
  TradeWindow = 1
  MinTrades = 1
  CandleWindow = 3
  MinCandles = 2
  VolumeWindow = 2
  MinVolumes = 2
  MaxSpread = 2
  VolatilityCap = 1
  Weight <- MCWeight
  MinConfidence <- MCMinConfidence
  Filter <- MCFilter
  MinEmitInterval = 1
  Rules <- MCRules
  Closes = {0, 2}
  Volumes = {1, 3}
  MaxRecv = 1
  NoValue = NoValue
INVARIANTS PublishedIsVenueBook 
PROPERTIES PublishedNeverGoesBack
CHECK_DEADLOCK FALSE
