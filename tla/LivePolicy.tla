----------------------------- MODULE LivePolicy -----------------------------
(***************************************************************************)
(* Policies of the live daemon that trade one instrument: the decision on  *)
(* a market event, the memory of attempts, the reconcile tick that reads   *)
(* orders, positions and fills one after the other, the position view it   *)
(* rebuilds, and startup, which adopts what it reads.  The daemon is one   *)
(* loop, so only the venue moves while a tick is under way.  Settlement of *)
(* an order (FillLedger) and fills, cancels and the reduce-only rule of    *)
(* the venue are external.  An order is a number; a return is 0..MaxReturn.*)
(***************************************************************************)
EXTENDS Integers, FiniteSets, FiniteSetsExt

CONSTANTS
  PolicyIds,       \* policies of the instrument
  PolicyQty,       \* their order_quantity
  MayShort,        \* allow_short
  MaxPolicyOrders, \* bound: orders ever sent
  MaxReturn,       \* bound: unrealized return
  MaxStarts        \* bound: starts of the process

Tickets == 1 .. MaxPolicyOrders
NoTicket == 0
NoPrice == -1
EntrySides == IF MayShort THEN {1, -1} ELSE {1}

ASSUME PolicyAssumption ==
  /\ {PolicyQty, MaxPolicyOrders, MaxStarts} \subseteq Nat \ {0}
  /\ MayShort \in BOOLEAN /\ MaxReturn \in Nat /\ NoTicket \notin PolicyIds

VARIABLES
  intent,      \* order -> owner, direction, size and effect
  atVenue,     \* order -> state and filled quantity at the venue
  netAtVenue,  \* position at the venue
  record,      \* order -> durable OrderRecord
  kept,        \* order -> quantity in the fill ledger
  latest,      \* latest_orders: the records of the last clean tick
  attempted,   \* live_policy_intents: policy -> order
  view,        \* the PositionView: net, entry price and peak return
  onHold,      \* the instrument is in safe hold
  gateOpen,    \* allow_new_exposure
  stage,       \* where the reconcile tick stands
  seenOrders, seenNet, soFarClean,  \* what the tick has read
  starting, starts,
  best         \* highest return seen since the position last changed

lpVenue == <<atVenue, netAtVenue>>
lpStore == <<intent, record, kept>>
lpMemory == <<latest, attempted, view, onHold, gateOpen, best>>
lpTick == <<stage, seenOrders, seenNet, soFarClean>>
lpVars == <<lpVenue, lpStore, lpMemory, lpTick, starting, starts>>

NoPlan == [owner |-> NoTicket, dir |-> 0, size |-> 0, reduce |-> FALSE]
Nowhere == [st |-> "None", filled |-> 0]
Over(r) == r.st \in {"Filled", "Canceled", "Rejected"}
NoView == [net |-> 0, entry |-> NoPrice, peak |-> NoPrice]

OwnedBy(p) == {o \in Tickets : intent[o].owner = p}
Signed(p, q) == MapThenSumSet(LAMBDA o : intent[o].dir * q[o], OwnedBy(p))
OwnNet(p) == Signed(p, [o \in Tickets |-> atVenue[o].filled])

LPInit ==
  /\ intent = [o \in Tickets |-> NoPlan]
  /\ atVenue = [o \in Tickets |-> Nowhere] /\ netAtVenue = 0
  /\ record = [o \in Tickets |-> Nowhere] /\ kept = [o \in Tickets |-> 0]
  /\ latest = record /\ attempted = [p \in PolicyIds |-> NoTicket]
  /\ view = NoView /\ best = NoPrice /\ onHold = FALSE /\ gateOpen = FALSE
  /\ stage = "idle" /\ seenOrders = atVenue /\ seenNet = 0 /\ soFarClean = FALSE
  /\ starting = TRUE /\ starts = 1

-----------------------------------------------------------------------------
(* The venue *)

Sent(o) == atVenue[o].st = "Open"

\* A reduce-only order trades only against the position.
MayTrade(o) == Sent(o) /\ (intent[o].reduce => intent[o].dir * netAtVenue < 0)

Trades(o) ==
  /\ MayTrade(o)
  /\ LET q == atVenue[o].filled + 1
     IN  atVenue' = [atVenue EXCEPT ![o] =
           [st |-> IF q = intent[o].size THEN "Filled" ELSE "Open", filled |-> q]]
  /\ netAtVenue' = netAtVenue + intent[o].dir
  /\ UNCHANGED <<lpStore, lpMemory, lpTick, starting, starts>>

VenueCancels(o) ==
  /\ Sent(o)
  /\ atVenue' = [atVenue EXCEPT ![o].st = "Canceled"]
  /\ UNCHANGED <<netAtVenue, lpStore, lpMemory, lpTick, starting, starts>>

-----------------------------------------------------------------------------
(* A market event *)

\* Mutant: only the remembered attempt counts.
BusyAttemptOnly(p) == attempted[p] # NoTicket /\ ~Over(latest[attempted[p]])

\* policy_order_busy
Busy(p) ==
  \/ \E o \in OwnedBy(p) : latest[o] # Nowhere /\ ~Over(latest[o])
  \/ attempted[p] # NoTicket /\ ~Over(latest[attempted[p]])

Abs(n) == IF n < 0 THEN -n ELSE n

\* policy_intent on a matched exit rule: the whole position the view shows.
ExitPlan(p) ==
  [owner |-> p, dir |-> IF view.net > 0 THEN -1 ELSE 1, size |-> Abs(view.net), reduce |-> TRUE]

EntryPlan(p, side) == [owner |-> p, dir |-> side, size |-> PolicyQty, reduce |-> FALSE]

\* policy_intent, SAFE_HOLD and the risk gate.
Plans(p) ==
  IF view.net # 0 THEN {ExitPlan(p)}
  ELSE {EntryPlan(p, side) : side \in IF gateOpen /\ ~onHold THEN EntrySides ELSE {}}

\* dispatch: acknowledged; sent without an answer; lost on the way; refused; or ended
\* before the record was saved.
Outcomes ==
  {[venue |-> "Open", record |-> "Open"], [venue |-> "Open", record |-> "Unknown"],
   [venue |-> "None", record |-> "Unknown"], [venue |-> "None", record |-> "Rejected"],
   [venue |-> "None", record |-> "None"]}

Decide(p, o) ==
  /\ stage = "idle" /\ ~starting /\ ~Busy(p)
  /\ intent[o] = NoPlan /\ \A u \in Tickets : u < o => intent[u] # NoPlan
  /\ \E plan \in Plans(p), result \in Outcomes :
       /\ intent' = [intent EXCEPT ![o] = plan]
       /\ atVenue' = [atVenue EXCEPT ![o].st = result.venue]
       /\ record' = [record EXCEPT ![o].st = result.record]
  /\ attempted' = [attempted EXCEPT ![p] = o]
  /\ UNCHANGED <<netAtVenue, kept, latest, view, onHold, gateOpen, best, lpTick, starting, starts>>

\* update_position_mark
Mark(r) ==
  /\ stage = "idle" /\ ~starting
  /\ view.net # 0 /\ view.entry # NoPrice
  /\ view' = [view EXCEPT !.peak = Max({@, r})]
  /\ best' = Max({best, r})
  /\ UNCHANGED <<lpVenue, lpStore, latest, attempted, onHold, gateOpen, lpTick, starting, starts>>

-----------------------------------------------------------------------------
(* The reconcile tick *)

Known(o) == record[o] # Nowhere
Agree(r, v) == v.st # "None" /\ v.filled = r.filled
Ambiguous(o) == record[o].st = "Unknown"

\* recover_ambiguous stops at the first answer that contradicts its record.
Contradicted(o) == Ambiguous(o) /\ atVenue[o].st # "None" /\ ~Agree(record[o], atVenue[o])
Recovered ==
  [o \in Tickets |->
     IF Ambiguous(o) /\ Agree(record[o], atVenue[o]) /\ \A u \in 1 .. o : ~Contradicted(u)
     THEN atVenue[o] ELSE record[o]]

\* Recover, then read the venue's orders; a failed recovery ends startup, and leaves a
\* later tick without a reconcile.
ReadOrders ==
  /\ stage = "idle"
  /\ record' = Recovered
  /\ seenOrders' = atVenue
  /\ LET failed == \E o \in Tickets : Contradicted(o)
     IN  /\ stage' = IF ~failed THEN "orders" ELSE IF starting THEN "idle" ELSE "fills"
         /\ soFarClean' = ~failed
  /\ UNCHANGED <<intent, kept, lpVenue, lpMemory, seenNet, starting, starts>>

\* ownership_from_order_evidence: the one policy whose durable fills are the position.
Holders == {p \in PolicyIds : Signed(p, [o \in Tickets |-> record[o].filled]) # 0}
Owners(net) ==
  {p \in Holders : Holders = {p} /\ Signed(p, [o \in Tickets |-> record[o].filled]) = net}
SomethingFilled == \E o \in Tickets : record[o].filled > 0

\* reconcile and validate_snapshot for one record and what the venue showed of it.
OrderClean(o, v) ==
  IF Over(record[o]) THEN v.st # "Open"
  ELSE Agree(record[o], v) /\ record[o].st # "Unknown"

\* Then positions are read, and a clean report is applied to the records.
ReadPositions ==
  /\ stage = "orders"
  /\ seenNet' = netAtVenue
  /\ LET clean == /\ \A o \in Tickets : Known(o) => OrderClean(o, seenOrders[o])
                  /\ netAtVenue # 0 /\ SomethingFilled => Owners(netAtVenue) # {}
     IN  /\ soFarClean' = clean
         /\ record' = [o \in Tickets |->
              IF clean /\ Known(o) /\ ~Over(record[o]) THEN seenOrders[o] ELSE record[o]]
  /\ stage' = "fills"
  /\ UNCHANGED <<intent, kept, lpVenue, lpMemory, seenOrders, starting, starts>>

\* ingest_owned_fills: what the venue reports now of the orders on record.
Ingested == [o \in Tickets |-> IF Known(o) THEN atVenue[o].filled ELSE 0]
FillsClean == \A o \in Tickets : record[o].filled > 0 => Ingested[o] = record[o].filled

EntryPrice(q) == MapThenSumSet(LAMBDA o : q[o], {o \in Tickets : ~intent[o].reduce})

\* position_view_from_fills agrees with the position.
ViewClean(net) == \A p \in Owners(net) : Signed(p, Ingested) = net

\* rebuild_position_views keeps the peak of an unchanged position.
CarriedPeak(v) == IF v.net = view.net /\ v.entry = view.entry THEN view.peak ELSE NoPrice

Rebuilt(net, priced) ==
  IF net = 0 \/ Owners(net) = {} THEN NoView
  ELSE LET v == [net |-> net, entry |-> IF priced THEN EntryPrice(Ingested) ELSE NoPrice,
                 peak |-> NoPrice]
       IN  [v EXCEPT !.peak = IF priced THEN CarriedPeak(v) ELSE NoPrice]

\* derive_runtime_pins
Held(net) ==
  \/ net # 0 /\ Owners(net) = {}
  \/ \E o \in Tickets : record[o].st = "Unknown"

\* A clean tick is adopted; startup adopts what it finds.
Adopts(clean) == clean \/ starting

\* Fills are ingested, the views rebuilt, and the tick is clean or freezes entries.
FinishTick ==
  /\ stage = "fills"
  /\ kept' = Ingested
  /\ LET clean == soFarClean /\ FillsClean /\ ViewClean(seenNet)
         next == Rebuilt(seenNet, ViewClean(seenNet))
     IN  IF Adopts(clean)
         THEN /\ latest' = record
              /\ view' = next
              /\ best' = IF next.net = view.net /\ next.entry = view.entry THEN best ELSE NoPrice
              /\ onHold' = (Held(seenNet) \/ ~soFarClean)
              /\ gateOpen' = clean
         ELSE /\ gateOpen' = FALSE /\ onHold' = (onHold \/ ~soFarClean)
              /\ UNCHANGED <<latest, view, best>>
  /\ stage' = "idle" /\ starting' = FALSE
  /\ UNCHANGED <<intent, record, lpVenue, attempted, seenOrders, seenNet, soFarClean, starts>>

-----------------------------------------------------------------------------
\* settle_complete_order_history with the venue's complete history of an order.
SettleOrder(o) ==
  /\ stage = "idle" /\ ~starting
  /\ Known(o) /\ ~Over(record[o]) /\ atVenue[o].filled > record[o].filled
  /\ record' = [record EXCEPT ![o] = atVenue[o]]
  /\ kept' = [kept EXCEPT ![o] = atVenue[o].filled]
  /\ UNCHANGED <<intent, lpVenue, lpMemory, lpTick, starting, starts>>

\* The process ends anywhere and starts again: only the store is left.
RestartDaemon ==
  /\ starts < MaxStarts
  /\ starts' = starts + 1 /\ starting' = TRUE
  /\ attempted' = [p \in PolicyIds |-> NoTicket]
  /\ latest' = [o \in Tickets |-> Nowhere]
  /\ view' = NoView /\ best' = NoPrice /\ onHold' = FALSE /\ gateOpen' = FALSE
  /\ stage' = "idle" /\ seenOrders' = [o \in Tickets |-> Nowhere] /\ seenNet' = 0
  /\ soFarClean' = FALSE
  /\ UNCHANGED <<lpVenue, lpStore>>

LPNext ==
  \/ \E o \in Tickets : Trades(o) \/ VenueCancels(o) \/ SettleOrder(o)
  \/ \E p \in PolicyIds, o \in Tickets : Decide(p, o)
  \/ \E r \in 0 .. MaxReturn : Mark(r)
  \/ ReadOrders \/ ReadPositions \/ FinishTick \/ RestartDaemon

LPSpec == LPInit /\ [][LPNext]_lpVars

-----------------------------------------------------------------------------
(* Properties *)

\* Type: sizes and quantities stay within one order quantity.
LPTypeOK ==
  /\ \A o \in Tickets :
       /\ intent[o].size \in 0 .. PolicyQty /\ intent[o].dir \in {-1, 0, 1}
       /\ atVenue[o].filled \in 0 .. intent[o].size
       /\ record[o].filled \in 0 .. intent[o].size /\ kept[o] \in 0 .. intent[o].size
  /\ attempted \in [PolicyIds -> {NoTicket} \cup Tickets]
  /\ view.peak \in NoPrice .. MaxReturn /\ view.entry \in Int
  /\ stage \in {"idle", "orders", "fills"}
  /\ onHold \in BOOLEAN /\ gateOpen \in BOOLEAN /\ starting \in BOOLEAN

\* policy_order_busy: a policy is unlocked only when none of its orders can trade any
\* more, whatever answers were lost, ticks were dirty or processes restarted.
UnlockedMeansOver ==
  ~starting => \A p \in PolicyIds : Busy(p) \/ \A o \in OwnedBy(p) : ~Sent(o)

\* A policy that may enter is flat: its fills are not overlooked by an old position view.
EntersFromFlat ==
  ~starting /\ gateOpen /\ ~onHold /\ view.net = 0 =>
    \A p \in PolicyIds : Busy(p) \/ OwnNet(p) = 0

\* However the ticks fall, a policy never holds more than one order quantity.
OwnExposureBounded == \A p \in PolicyIds : Abs(OwnNet(p)) <= PolicyQty

\* The peak return that a trailing exit compares with is the highest mark since the
\* position last changed: no tick in between forgets it.
PeakIsBest == view.net # 0 /\ view.entry # NoPrice => view.peak = best

\* The only policy of an instrument: it enters only when nothing of it can trade and it is
\* flat, so it never holds more than one order, and its trailing exit forgets no peak.
\* (policy_intent closes what the instrument holds, whoever opened it, so with a second
\* policy only UnlockedMeansOver and PeakIsBest are left.)
LivePolicySafety ==
  /\ LPTypeOK /\ UnlockedMeansOver /\ EntersFromFlat /\ OwnExposureBounded /\ PeakIsBest

=============================================================================
