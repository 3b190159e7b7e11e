SPECIFICATION ControlSpec
CONSTANTS
  Procs = {p1, p2}
  NoHolder = nobody
  Ttl = 1
  MaxTenure = 3
  MayRelease = TRUE
  Feeds = {f1, f2}
  AutoStart = TRUE
  NumFeeds = 2
  IbkrFeeds = {2}
  MaxReconnects = 2
  ClientIds = 4
  MaxSequence = 5
  FatalCapacity = 1
INVARIANTS AllowIsJustified NoIncreaseUnreconciled FeedSafety
PROPERTIES LostLeaseStops HaltIsFinal  ReopensByItself FeedsRecover
CHECK_DEADLOCK FALSE
