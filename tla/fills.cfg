SPECIFICATION Spec
CONSTANTS
  Procs = {p1, p2}
  Orders = {o1, o2}
  FillIds = {f1, f2}
  Scopes = {s1, s2}
  Qty = 2
  MaxTenure = 2
INVARIANTS OneRowPerTrade OmsFollowsLedger CleanIngest
PROPERTIES  FillsNeverShrink
SYMMETRY Interchangeable
