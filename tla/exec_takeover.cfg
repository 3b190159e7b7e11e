SPECIFICATION BoundedSpec
CONSTANTS
  Procs = {p1, p2}
  NoHolder = nobody
  Ttl = 1
  MaxTenure = 2
  MayRelease = FALSE
  Qty = 2
  Orders = {o1, o2}
  NoOrder = none
INVARIANTS FencingOrder LiveOrderIsTracked CleanMeansNothingPending ActiveHolderMayWrite OutcomesAreLegal
PROPERTIES TerminalSticky StaleNeverOverwrites
SYMMETRY Interchangeable
