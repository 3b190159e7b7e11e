SPECIFICATION Spec
CONSTANTS
  Procs = {p1, p2}
  NoHolder = nobody
  Ttl = 1
  MaxTenure = 3
  MayRelease = TRUE
  Qty = 1
  Orders = {o1}
  NoOrder = none
PROPERTY StaleNeverOverwrites
CHECK_DEADLOCK FALSE
SYMMETRY Interchangeable
