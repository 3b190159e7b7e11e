SPECIFICATION Spec
CONSTANTS
  Procs = {p1, p2}
  NoHolder = nobody
  Ttl = 1
  MaxTenure = 2
  MayRelease = TRUE
  Qty = 1
  Orders = {o1}
  NoOrder = none
INVARIANTS SubmitOnce WriteAhead
PROPERTY ImplementsOnceOnly
CHECK_DEADLOCK FALSE
SYMMETRY Interchangeable
