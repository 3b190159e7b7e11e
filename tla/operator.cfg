SPECIFICATION OCSpec
CONSTANTS
  Chats = {c1, c2}
  OperatorUsers = {u1}
  AllowedChats = {c1, c2}
  AllowedUsers = {u1}
  PerWindow = 2
  RateWindow = 2
  Cooldown = 2
  ChannelSize = 1
  MaxRequests = 3
  MaxClock = 2
INVARIANT OperatorSafety
PROPERTY SentIsCarriedOut
CHECK_DEADLOCK FALSE
