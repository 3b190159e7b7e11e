SPECIFICATION VASpec
CONSTANT Qty = 2
CHECK_DEADLOCK FALSE
INVARIANT RejectedIsNotLive
