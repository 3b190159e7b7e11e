-------------------------------- MODULE Oms --------------------------------
(***************************************************************************)
(* The order state machine of pg-oms and the snapshot rules pg-orchestrator*)
(* adds to it.  Everything here is a constant operator: a record is the    *)
(* state of an order and its cumulative fill.  Quantities are multiples of *)
(* the smallest fill; the identity fields of OrderRecord (asset, side,     *)
(* venue order id) are functions of the order and are not repeated.        *)
(***************************************************************************)
EXTENDS Naturals

CONSTANT Qty   \* requested_quantity of an order

ASSUME QtyAssumption == Qty \in Nat \ {0}

OrderStates ==
  {"Created", "PendingSubmit", "Open", "PartiallyFilled", "PendingCancel",
   "Filled", "Canceled", "Rejected", "Unknown"}

OrderEvents ==
  {"SubmitRequested", "Accepted", "CancelRequested", "Canceled", "Rejected",
   "LostState"}

TerminalStates == {"Filled", "Canceled", "Rejected"}

\* OrderState of the records recover_ambiguous looks up.
AmbiguousStates == {"PendingSubmit", "Unknown"}

Records == [st : OrderStates, filled : 0..Qty]

\* No record: the client order id has no row.
NoRecord == [st |-> "None", filled |-> 0]

IsTerminal(r) == r.st \in TerminalStates

FromIntent == [st |-> "Created", filled |-> 0]

-----------------------------------------------------------------------------
\* The legal transitions of OrderRecord::apply; any other pair is an error.
Legal(st, ev) ==
  CASE ev = "SubmitRequested" -> st = "Created"
    [] ev \in {"Accepted", "Rejected"} -> st = "PendingSubmit"
    [] ev = "CancelRequested" -> st \in {"Open", "PartiallyFilled"}
    [] ev = "Canceled" -> st \in {"Open", "PartiallyFilled", "PendingCancel"}
    [] ev = "LostState" ->
         st \in {"PendingSubmit", "Open", "PartiallyFilled", "PendingCancel"}

AfterEvent(ev) ==
  CASE ev = "SubmitRequested" -> "PendingSubmit"
    [] ev = "Accepted" -> "Open"
    [] ev = "Rejected" -> "Rejected"
    [] ev = "CancelRequested" -> "PendingCancel"
    [] ev = "Canceled" -> "Canceled"
    [] ev = "LostState" -> "Unknown"

Apply(r, ev) == [r EXCEPT !.st = AfterEvent(ev)]

\* OrderRecord::apply_fill.
MayFill(r, q) ==
  /\ q > 0
  /\ r.st \in {"Open", "PartiallyFilled", "PendingCancel"}
  /\ r.filled + q <= Qty

ApplyFill(r, q) ==
  [st |-> IF r.filled + q = Qty THEN "Filled" ELSE "PartiallyFilled",
   filled |-> r.filled + q]

-----------------------------------------------------------------------------
\* What a venue may answer for an order: VenueOrderSnapshot.
SnapshotStates ==
  {"Open", "PartiallyFilled", "Filled", "Canceled", "Rejected", "Unknown"}

Snapshots == [st : SnapshotStates, filled : 0..Qty]

NotFound == [st |-> "Absent", filled |-> 0]

\* validate_snapshot: the snapshot may replace the state of the record.
ValidSnapshot(r, s) ==
  /\ s.filled = r.filled
  /\ s.st # "Unknown"
  /\ IsTerminal(r) => s.st = r.st
  /\ s.st = "Filled" => s.filled = Qty
  /\ s.st = "PartiallyFilled" => s.filled > 0 /\ s.filled < Qty
  /\ r.st = "Created" => s.st = "Rejected"

\* apply_snapshot, on a snapshot that passed validate_snapshot.
ApplySnapshot(r, s) == [st |-> s.st, filled |-> s.filled]
=============================================================================
