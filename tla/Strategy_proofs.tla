-------------------------- MODULE Strategy_proofs ---------------------------
(***************************************************************************)
(* The strategies and the two ways they trade.  The machine and its venue, *)
(* for every order quantity, every pair of thresholds and every number of  *)
(* intents: what the machine believes is exact once it settles and never   *)
(* ahead of the venue before, whatever order its fill reports arrive in,   *)
(* and it asks for no order while it has lost track.  The live policy, for *)
(* every number of orders and starts: it is locked while an order of it    *)
(* can trade, its trailing exit forgets no peak, and the only policy of an *)
(* instrument enters from flat and never holds more than its quantity.     *)
(* The registry, for every directory of definitions: the files partition   *)
(* the instances whatever reload or refresh fails half way, and none that  *)
(* is at work, or pinned, is lost.                                         *)
(***************************************************************************)
EXTENDS MCStrategy, FiniteSums

Machines == [phase : Phases, net : Int, active : 1..MaxIntents \cup {NoIntent}, start : Int,
             allowShort : BOOLEAN]
Settled == {"Flat", "Long", "Short"}

-----------------------------------------------------------------------------
(* The machine's operators *)

\* A machine that gives up its intent is still a machine.
LostTo(m, ph) == [m EXCEPT !.phase = ph, !.active = NoIntent, !.start = 0]

LEMMA LostFields ==
  ASSUME NEW m \in Machines, NEW ph \in Phases
  PROVE  /\ LostTo(m, ph) \in Machines /\ LostTo(m, ph).phase = ph
         /\ LostTo(m, ph).allowShort = m.allowShort
<1>0. PICK n : n = LostTo(m, ph)
  OBVIOUS
<1>1. ASSUME NEW a \in 1..MaxIntents \cup {NoIntent}, NEW z \in Int,
             n = [m EXCEPT !.phase = ph, !.active = a, !.start = z]
      PROVE  n \in Machines /\ n.phase = ph /\ n.allowShort = m.allowShort
  BY <1>1 DEF Machines
<1>2. NoIntent \in 1..MaxIntents \cup {NoIntent} /\ 0 \in Int
  OBVIOUS
<1>3. n = [m EXCEPT !.phase = ph, !.active = NoIntent, !.start = 0]
  BY <1>0 DEF LostTo
<1> QED
  BY <1>0, <1>1, <1>2, <1>3

\* The things a signal can lead to.
SignalResult(m, it, d) ==
  \/ d.side = "none" /\ d.machine = m
  \/ /\ d.side = "none" /\ m.net = 0 /\ m.phase \in {"Long", "Short"}
     /\ d.machine = [m EXCEPT !.phase = "Unknown"]
  \/ /\ m.phase = "Flat" /\ d.side = "Buy" /\ d.quantity = OrderQuantity
     /\ d.machine = [m EXCEPT !.phase = "EnteringLong", !.active = it, !.start = m.net]
  \/ /\ m.phase = "Flat" /\ m.allowShort /\ d.side = "Sell" /\ d.quantity = OrderQuantity
     /\ d.machine = [m EXCEPT !.phase = "EnteringShort", !.active = it, !.start = m.net]
  \/ /\ m.phase = "Long" /\ m.net # 0 /\ d.side = "Sell" /\ d.quantity = AbsQ(m.net)
     /\ d.machine = [m EXCEPT !.phase = "ExitingLong", !.active = it, !.start = m.net]
  \/ /\ m.phase = "Short" /\ m.net # 0 /\ d.side = "Buy" /\ d.quantity = AbsQ(m.net)
     /\ d.machine = [m EXCEPT !.phase = "ExitingShort", !.active = it, !.start = m.net]

LEMMA SignalCases ==
  ASSUME NEW m \in Machines, NEW score \in Int, NEW it \in 1..MaxIntents,
         NEW d, d = OnSignal(m, score, it)
  PROVE  SignalResult(m, it, d)
<1> USE DEF SignalResult
<1>1. CASE m.phase = "Flat" /\ score >= EntryScore
  <2>1. d = SubmitEntry(m, "Buy", "EnteringLong", it)
    BY <1>1, ConfigAssumption DEF OnSignal, ValidStrategyConfig
  <2> QED
    BY <1>1, <2>1 DEF SubmitEntry, Begin
<1>2. CASE m.phase = "Flat" /\ m.allowShort /\ score <= -EntryScore /\ ~(score >= EntryScore)
  <2>1. d = SubmitEntry(m, "Sell", "EnteringShort", it)
    BY <1>2 DEF OnSignal
  <2> QED
    BY <1>2, <2>1 DEF SubmitEntry, Begin
<1>3. CASE m.phase = "Long" /\ score <= ExitScore
  <2>1. d = SubmitExit(m, "Sell", "ExitingLong", it)
    BY <1>3 DEF OnSignal
  <2> QED
    BY <1>3, <2>1 DEF SubmitExit, Begin, NoOrder, ExitQuantity
<1>4. CASE m.phase = "Short" /\ score >= -ExitScore
  <2>1. d = SubmitExit(m, "Buy", "ExitingShort", it)
    BY <1>4 DEF OnSignal
  <2> QED
    BY <1>4, <2>1 DEF SubmitExit, Begin, NoOrder, ExitQuantity
<1>5. CASE /\ ~(m.phase = "Flat" /\ score >= EntryScore)
           /\ ~(m.phase = "Flat" /\ m.allowShort /\ score <= -EntryScore)
           /\ ~(m.phase = "Long" /\ score <= ExitScore)
           /\ ~(m.phase = "Short" /\ score >= -ExitScore)
  <2>1. d = NoOrder(m)
    BY <1>5 DEF OnSignal
  <2> QED
    BY <2>1 DEF NoOrder
<1> QED
  BY <1>1, <1>2, <1>3, <1>4, <1>5

LEMMA SettledPhases ==
  ASSUME NEW q \in Int
  PROVE  /\ SettledPhase(q) \in Settled /\ SettledPhase(q) \in Phases
         /\ SettledPhase(q) = "Long" <=> q > 0
         /\ SettledPhase(q) = "Short" <=> q < 0
         /\ SettledPhase(q) = "Flat" <=> q = 0
BY DEF SettledPhase, Settled, Phases

-----------------------------------------------------------------------------
(* The inductive invariant *)

Orders == [intent : 1..MaxIntents \cup {NoIntent}, side : {"none", "Buy", "Sell"}, quantity : Nat,
           filled : Nat, live : BOOLEAN]

ShapeInv ==
  /\ machine \in Machines /\ order \in Orders /\ position \in Int /\ excess \in 0..1
  /\ nextIntent \in Nat \ {0} /\ nextIntent <= MaxIntents + 1

\* A report names an intent that was sent; a later intent is new to every report.
ReportShape ==
  /\ \A r \in reports : /\ r[1] \in 1..MaxIntents /\ r[1] < nextIntent
                        /\ r[2] \in Nat /\ r[3] \in BOOLEAN
  /\ order.live => order.intent \in 1..MaxIntents /\ order.intent < nextIntent

\* The phase of a settled machine is the sign of what it owns.
MachineInv ==
  machine.phase \in Settled => machine.phase = SettledPhase(machine.net) /\ machine.active = NoIntent

\* A final report of the last order tells its whole quantity.
ReportInv ==
  /\ order.filled <= order.quantity /\ (order.live => order.filled < order.quantity)
  /\ order.live => order.side \in {"Buy", "Sell"}
  /\ \A r \in reports : r[1] = order.intent =>
       r[2] <= order.filled /\ (r[3] => ~order.live /\ r[2] = order.filled)

SettledInv == machine.phase \in Settled => machine.net = position /\ ~order.live

\* While an intent is in flight its order is the venue's last one, and the position is where
\* the machine started plus what that order filled.
FlightInv ==
  /\ machine.phase \in Entering \cup Exiting =>
       /\ machine.active = order.intent /\ order.quantity = Expected(machine)
       /\ order.intent \in 1..MaxIntents
  /\ machine.phase = "EnteringLong" =>
       machine.start = 0 /\ order.side = "Buy" /\ position = order.filled
       /\ 0 <= machine.net /\ machine.net <= position
  /\ machine.phase = "EnteringShort" =>
       machine.start = 0 /\ order.side = "Sell" /\ position = -order.filled
       /\ machine.net <= 0 /\ position <= machine.net
  /\ machine.phase = "ExitingLong" =>
       machine.start > 0 /\ order.side = "Sell" /\ position = machine.start - order.filled
       /\ position <= machine.net
  /\ machine.phase = "ExitingShort" =>
       machine.start < 0 /\ order.side = "Buy" /\ position = machine.start + order.filled
       /\ machine.net <= position

\* A long-only strategy has sold no more than it owns, also while it has lost track.
BackedInv ==
  ~machine.allowShort =>
    /\ position >= 0 /\ machine.phase # "EnteringShort"
    /\ order.live /\ order.side = "Sell" => order.quantity - order.filled <= position

VenueInv == ReportInv /\ SettledInv /\ FlightInv /\ BackedInv

SOInv == ShapeInv /\ ReportShape /\ MachineInv /\ (excess = 0 => VenueInv)

LEMMA SOInvInit == SOInit => SOInv
<1> SUFFICES ASSUME SOInit PROVE SOInv
  OBVIOUS
<1>1. PICK short \in BOOLEAN : machine = NewMachine(short)
  BY DEF SOInit
<1>2. machine = [phase |-> "Flat", net |-> 0, active |-> NoIntent, start |-> 0, allowShort |-> short]
  BY <1>1 DEF NewMachine
<1>3. nextIntent = 1 /\ order = NoOrderYet /\ reports = {} /\ position = 0 /\ excess \in 0..1
  BY DEF SOInit
<1>4. ShapeInv
  BY <1>2, <1>3, IntentAssumption DEF ShapeInv, Machines, Orders, Phases, NoOrderYet
<1>5. ReportShape
  BY <1>3 DEF ReportShape, NoOrderYet
<1>6. MachineInv
  BY <1>2 DEF MachineInv, SettledPhase
<1>7. ReportInv /\ SettledInv
  BY <1>2, <1>3 DEF ReportInv, SettledInv, NoOrderYet
<1>8. FlightInv /\ BackedInv
  BY <1>2, <1>3 DEF FlightInv, BackedInv, NoOrderYet, Entering, Exiting
<1> QED
  BY <1>4, <1>5, <1>6, <1>7, <1>8 DEF SOInv, VenueInv

\* The host's declarations give up what the machine knew; the venue is as before.
LEMMA LostKeeps ==
  ASSUME SOInv, machine' \in Machines, machine'.phase \in {"Unknown", "SafeHold", "Halted"},
         machine'.allowShort = machine.allowShort,
         UNCHANGED <<nextIntent, order, reports, position, excess>>
  PROVE  SOInv'
<1>1. ShapeInv'
  BY DEF SOInv, ShapeInv, Machines, Phases, Orders
<1>2. ReportShape'
  BY DEF SOInv, ReportShape
<1>3. MachineInv'
  BY DEF MachineInv, Settled
<1>4. ASSUME excess' = 0 PROVE VenueInv'
  <2>1. VenueInv
    BY <1>4 DEF SOInv
  <2>2. ReportInv' /\ SettledInv'
    BY <2>1 DEF VenueInv, ReportInv, SettledInv, Settled
  <2>3. FlightInv'
    BY DEF FlightInv, Entering, Exiting
  <2>4. BackedInv'
    BY <2>1 DEF VenueInv, BackedInv
  <2> QED
    BY <2>2, <2>3, <2>4 DEF VenueInv
<1> QED
  BY <1>1, <1>2, <1>3, <1>4 DEF SOInv

LEMMA HostKeeps == ASSUME SOInv, ExternalUnknown \/ SafeHold \/ HaltStrategy PROVE SOInv'
<1>1. /\ \/ machine' = [machine EXCEPT !.phase = "Unknown"]
         \/ machine' = [machine EXCEPT !.phase = "SafeHold", !.active = NoIntent, !.start = 0]
         \/ machine' = [machine EXCEPT !.phase = "Halted", !.active = NoIntent, !.start = 0]
      /\ UNCHANGED <<nextIntent, order, reports, position, excess>>
  BY DEF ExternalUnknown, SafeHold, HaltStrategy, HostDeclares, StateUnknown, EnterSafeHold, Halt
<1>2. machine \in Machines
  BY DEF SOInv, ShapeInv
<1>3. /\ machine' \in Machines /\ machine'.phase \in {"Unknown", "SafeHold", "Halted"}
      /\ machine'.allowShort = machine.allowShort
  <2>1. PICK m, n : m = machine /\ n = machine'
    OBVIOUS
  <2>2. m \in Machines
    BY <1>2, <2>1
  <2>3. CASE n = [m EXCEPT !.phase = "Unknown"]
    BY <2>1, <2>2, <2>3 DEF Machines, Phases
  <2>4. "SafeHold" \in Phases /\ "Halted" \in Phases
    BY DEF Phases
  <2>5. CASE n = LostTo(m, "SafeHold")
    BY <2>1, <2>2, <2>4, <2>5, LostFields
  <2>6. CASE n = LostTo(m, "Halted")
    BY <2>1, <2>2, <2>4, <2>6, LostFields
  <2> QED
    BY <1>1, <2>1, <2>3, <2>5, <2>6 DEF LostTo
<1> QED
  BY <1>1, <1>3, LostKeeps

\* A machine that settles while no order works, at what the venue holds.
LEMMA SettlesKeeps ==
  ASSUME SOInv, UNCHANGED <<nextIntent, order, reports, position, excess>>, NEW q \in Int,
         machine' = [machine EXCEPT !.phase = SettledPhase(q), !.net = q, !.active = NoIntent,
                                    !.start = 0],
         excess = 0 => q = position /\ ~order.live
  PROVE  SOInv'
<1>1. machine \in Machines /\ SettledPhase(q) \in Phases /\ SettledPhase(q) \in Settled
  BY SettledPhases DEF SOInv, ShapeInv
<1>2. /\ machine' \in Machines /\ machine'.phase = SettledPhase(q) /\ machine'.net = q
      /\ machine'.active = NoIntent /\ machine'.allowShort = machine.allowShort
  <2>1. PICK ph \in Phases : ph = SettledPhase(q)
    BY <1>1
  <2>2. PICK m \in Machines, n \in {machine'} : m = machine
    BY <1>1
  <2>3. PICK a \in 1..MaxIntents \cup {NoIntent}, z \in Int : a = NoIntent /\ z = 0
    OBVIOUS
  <2>4. n = [m EXCEPT !.phase = ph, !.net = q, !.active = a, !.start = z]
    BY <2>1, <2>2, <2>3
  <2>5. /\ n \in Machines /\ n.phase = ph /\ n.net = q /\ n.active = a
        /\ n.allowShort = m.allowShort
    BY <2>4 DEF Machines
  <2> QED
    BY <2>1, <2>2, <2>3, <2>5
<1>3. ShapeInv'
  BY <1>2 DEF SOInv, ShapeInv, Machines, Phases, Orders
<1>4. ReportShape'
  BY DEF SOInv, ReportShape
<1>5. MachineInv'
  BY <1>2 DEF MachineInv, SettledPhase
<1>6. ASSUME excess' = 0 PROVE VenueInv'
  <2>1. VenueInv /\ q = position /\ ~order.live
    BY <1>6 DEF SOInv
  <2>2. ReportInv' /\ SettledInv'
    BY <1>2, <2>1 DEF VenueInv, ReportInv, SettledInv
  <2>3. FlightInv'
    BY <1>1, <1>2 DEF FlightInv, Entering, Exiting, Settled
  <2>4. BackedInv'
    BY <1>1, <1>2, <2>1 DEF VenueInv, BackedInv, Settled
  <2> QED
    BY <2>2, <2>3, <2>4 DEF VenueInv
<1> QED
  BY <1>3, <1>4, <1>5, <1>6 DEF SOInv

LEMMA RestoreKeeps == ASSUME SOInv, Restore PROVE SOInv'
<1>1. /\ ~order.live /\ UNCHANGED <<nextIntent, order, reports, position, excess>>
      /\ machine' = [machine EXCEPT !.phase = SettledPhase(position), !.net = position,
                                    !.active = NoIntent, !.start = 0]
  BY DEF Restore, HostDeclares, RestoreAfterReconcile
<1>2. position \in Int
  BY DEF SOInv, ShapeInv
<1> QED
  BY <1>1, <1>2, SettlesKeeps

\* One more unit of the last order: the position moves by it, and so does what the machine
\* may come to believe.
LEMMA VenueFillKeeps == ASSUME SOInv, VenueFill PROVE SOInv'
<1>1. PICK f \in Nat : f = order.filled + 1
  BY DEF SOInv, ShapeInv, Orders
<1>2. PICK left : left = (f < order.quantity + excess)
  OBVIOUS
<1>3. PICK full : full = (f >= order.quantity)
  OBVIOUS
<1>4. /\ order.live /\ order.filled < order.quantity + excess
      /\ order' = [order EXCEPT !.filled = f, !.live = left]
      /\ reports' = reports \cup {<<order.intent, f, full>>}
      /\ position' = position + (IF order.side = "Buy" THEN 1 ELSE -1)
      /\ UNCHANGED <<machine, nextIntent, excess>>
  BY <1>1, <1>2, <1>3, Zenon DEF VenueFill
<1>5. order \in Orders /\ position \in Int /\ left \in BOOLEAN /\ full \in BOOLEAN
  BY <1>2, <1>3 DEF SOInv, ShapeInv
<1>6. /\ order' \in Orders /\ order'.intent = order.intent /\ order'.side = order.side
      /\ order'.quantity = order.quantity /\ order'.filled = f /\ order'.live = left
  BY <1>4, <1>5 DEF Orders
<1>7. ShapeInv'
  <2>1. position' \in Int
    BY <1>4, <1>5
  <2> QED
    BY <1>4, <1>6, <2>1 DEF SOInv, ShapeInv, Machines, Orders
<1>8. order.intent \in 1..MaxIntents /\ order.intent < nextIntent
  BY <1>4 DEF SOInv, ReportShape
<1>9. ReportShape'
  <2>1. ASSUME NEW r \in reports'
        PROVE  /\ r[1] \in 1..MaxIntents /\ r[1] < nextIntent
               /\ r[2] \in Nat /\ r[3] \in BOOLEAN
    <3>1. CASE r \in reports
      BY <3>1 DEF SOInv, ReportShape
    <3>2. CASE r = <<order.intent, f, full>>
      BY <1>5, <1>8, <3>2
    <3> QED
      BY <1>4, <3>1, <3>2
  <2> QED
    BY <1>4, <1>6, <1>8, <2>1 DEF ReportShape
<1>10. MachineInv'
  BY <1>4 DEF SOInv, MachineInv
<1>11. ASSUME excess' = 0 PROVE VenueInv'
  <2>1. /\ ReportInv /\ SettledInv /\ FlightInv /\ BackedInv
        /\ order.filled < order.quantity /\ order.side \in {"Buy", "Sell"} /\ excess = 0
    BY <1>4, <1>11 DEF SOInv, VenueInv, ReportInv
  <2>2. f <= order.quantity /\ (left => f < order.quantity) /\ (full => ~left)
    <3>1. (left <=> f < order.quantity + excess) /\ (full <=> f >= order.quantity)
      BY <1>2, <1>3
    <3>2. order.quantity \in Nat /\ order.filled \in Nat /\ order.quantity + excess = order.quantity
      BY <1>5, <2>1 DEF Orders
    <3> QED
      BY <1>1, <2>1, <3>1, <3>2
  <2>3. ASSUME NEW r \in reports', r[1] = order.intent
        PROVE  r[2] <= f /\ (r[3] => ~left /\ r[2] = f)
    <3>1. CASE r \in reports
      <4>1. r[2] <= order.filled /\ ~r[3] /\ r[2] \in Nat
        BY <1>4, <2>1, <2>3, <3>1 DEF SOInv, ReportShape, ReportInv
      <4> QED
        BY <1>1, <1>5, <4>1 DEF Orders
    <3>2. CASE r = <<order.intent, f, full>>
      BY <2>2, <3>2
    <3> QED
      BY <1>4, <3>1, <3>2
  <2>4. ReportInv'
    BY <1>6, <2>1, <2>2, <2>3 DEF ReportInv
  <2>5. SettledInv' /\ machine.phase \notin Settled
    BY <1>4, <2>1 DEF SettledInv
  <2>6. FlightInv'
    <3>1. Expected(machine)' = Expected(machine)
      BY <1>4 DEF Expected
    <3>2. order.side = "Buy" => position' = position + 1
      BY <1>4
    <3>3. order.side = "Sell" => position' = position - 1
      BY <1>4, <1>5
    <3>4. machine \in Machines
      BY DEF SOInv, ShapeInv
    <3> QED
      BY <1>1, <1>4, <1>5, <1>6, <2>1, <3>1, <3>2, <3>3, <3>4 DEF FlightInv, Machines, Orders
  <2>7. BackedInv'
    <3>1. CASE order.side = "Buy"
      <4>1. position' = position + 1 /\ order'.side # "Sell"
        BY <1>4, <1>6, <3>1
      <4> QED
        BY <1>4, <1>5, <2>1, <4>1 DEF BackedInv
    <3>2. CASE order.side = "Sell"
      <4>1. position' = position - 1
        BY <1>4, <1>5, <3>2
      <4>2. ~machine.allowShort => order.quantity - f <= position'
        BY <1>1, <1>4, <1>5, <2>1, <3>2, <4>1 DEF BackedInv, Orders
      <4> QED
        BY <1>1, <1>4, <1>5, <1>6, <2>1, <2>2, <4>1, <4>2 DEF BackedInv, Orders
    <3> QED
      BY <2>1, <3>1, <3>2
  <2> QED
    BY <2>4, <2>5, <2>6, <2>7 DEF VenueInv
<1> QED
  BY <1>7, <1>9, <1>10, <1>11 DEF SOInv

LEMMA VenueCancelKeeps == ASSUME SOInv, VenueCancel PROVE SOInv'
<1>1. /\ order.live /\ order' = [order EXCEPT !.live = FALSE]
      /\ reports' = reports \cup {<<order.intent, order.filled, TRUE>>}
      /\ UNCHANGED <<machine, nextIntent, position, excess>>
  BY DEF VenueCancel
<1>2. order \in Orders
  BY DEF SOInv, ShapeInv
<1>3. /\ order' \in Orders /\ order'.intent = order.intent /\ order'.side = order.side
      /\ order'.quantity = order.quantity /\ order'.filled = order.filled /\ ~order'.live
  BY <1>1, <1>2 DEF Orders
<1>4. ShapeInv'
  BY <1>1, <1>3 DEF SOInv, ShapeInv, Machines, Orders
<1>5. order.intent \in 1..MaxIntents /\ order.intent < nextIntent /\ order.filled \in Nat
  BY <1>1, <1>2 DEF SOInv, ReportShape, Orders
<1>6. ReportShape'
  <2>1. ASSUME NEW r \in reports'
        PROVE  /\ r[1] \in 1..MaxIntents /\ r[1] < nextIntent
               /\ r[2] \in Nat /\ r[3] \in BOOLEAN
    <3>1. CASE r \in reports
      BY <3>1 DEF SOInv, ReportShape
    <3>2. CASE r = <<order.intent, order.filled, TRUE>>
      BY <1>5, <3>2
    <3> QED
      BY <1>1, <3>1, <3>2
  <2> QED
    BY <1>1, <1>3, <2>1 DEF ReportShape
<1>7. MachineInv'
  BY <1>1 DEF SOInv, MachineInv
<1>8. ASSUME excess' = 0 PROVE VenueInv'
  <2>1. ReportInv /\ SettledInv /\ FlightInv /\ BackedInv
    BY <1>1, <1>8 DEF SOInv, VenueInv
  <2>2. ASSUME NEW r \in reports', r[1] = order.intent
        PROVE  r[2] <= order.filled /\ (r[3] => r[2] = order.filled)
    <3>1. CASE r \in reports
      BY <1>1, <2>1, <2>2, <3>1 DEF ReportInv
    <3>2. CASE r = <<order.intent, order.filled, TRUE>>
      BY <1>5, <3>2
    <3> QED
      BY <1>1, <3>1, <3>2
  <2>3. ReportInv'
    BY <1>3, <2>1, <2>2 DEF ReportInv
  <2>4. SettledInv' /\ BackedInv'
    BY <1>1, <1>3, <2>1 DEF SettledInv, BackedInv
  <2>5. FlightInv'
    <3>1. Expected(machine)' = Expected(machine)
      BY <1>1 DEF Expected
    <3> QED
      BY <1>1, <1>3, <2>1, <3>1 DEF FlightInv
  <2> QED
    BY <2>3, <2>4, <2>5 DEF VenueInv
<1> QED
  BY <1>4, <1>6, <1>7, <1>8 DEF SOInv

LEMMA StutterKeeps == ASSUME SOInv, UNCHANGED soVars PROVE SOInv'
<1>1. UNCHANGED <<machine, nextIntent, order, reports, position, excess>>
  BY DEF soVars
<1>2. ShapeInv' /\ ReportShape' /\ MachineInv'
  BY <1>1 DEF SOInv, ShapeInv, ReportShape, MachineInv, Machines, Orders
<1>3. VenueInv => VenueInv'
  <2>1. Expected(machine)' = Expected(machine)
    BY <1>1 DEF Expected
  <2> QED
    BY <1>1, <2>1 DEF VenueInv, ReportInv, SettledInv, FlightInv, BackedInv
<1> QED
  BY <1>1, <1>2, <1>3 DEF SOInv

LEMMA NetAfterInt ==
  ASSUME NEW m \in Machines, NEW k \in Nat, m.phase \in Entering \cup Exiting
  PROVE  /\ NetAfter(m, k) \in Int
         /\ m.phase = "EnteringLong" => NetAfter(m, k) = k
         /\ m.phase = "EnteringShort" => NetAfter(m, k) = -k
         /\ m.phase = "ExitingLong" => NetAfter(m, k) = m.start - k
         /\ m.phase = "ExitingShort" => NetAfter(m, k) = m.start + k
<1>1. m.start \in Int
  BY DEF Machines
<1>2. CASE m.phase = "EnteringLong"
  BY <1>2 DEF NetAfter
<1>3. CASE m.phase = "EnteringShort"
  BY <1>3 DEF NetAfter
<1>4. CASE m.phase = "ExitingLong"
  BY <1>1, <1>4 DEF NetAfter
<1>5. CASE m.phase = "ExitingShort"
  BY <1>1, <1>5 DEF NetAfter
<1> QED
  BY <1>2, <1>3, <1>4, <1>5 DEF Entering, Exiting

\* A report of the intent in flight, however late and however often, sets the believed
\* quantity to a value the venue has been through; a final one sets it to the venue's.
LEMMA ReportTruth ==
  ASSUME SOInv, excess = 0, NEW r \in reports, Concerns(machine, r[1]),
         NEW q \in Int, q = NetAfter(machine, r[2])
  PROVE  /\ r[3] => q = position /\ ~order.live
         /\ machine.phase = "EnteringLong" => 0 <= q /\ q <= position
         /\ machine.phase = "EnteringShort" => q <= 0 /\ position <= q
         /\ machine.phase = "ExitingLong" => position <= q
         /\ machine.phase = "ExitingShort" => q <= position
<1>1. ReportInv /\ FlightInv /\ machine \in Machines /\ order \in Orders /\ position \in Int
  BY DEF SOInv, VenueInv, ShapeInv
<1>2. machine.phase \in Entering \cup Exiting /\ machine.active = r[1] /\ r[2] \in Nat
  BY DEF Concerns, SOInv, ReportShape
<1>3. r[1] = order.intent
  BY <1>1, <1>2 DEF FlightInv
<1>4. r[2] <= order.filled /\ (r[3] => ~order.live /\ r[2] = order.filled)
  BY <1>1, <1>3 DEF ReportInv
<1>5. PICK k \in Nat : k = r[2]
  BY <1>2
<1>6. /\ machine.phase = "EnteringLong" => q = k
      /\ machine.phase = "EnteringShort" => q = -k
      /\ machine.phase = "ExitingLong" => q = machine.start - k
      /\ machine.phase = "ExitingShort" => q = machine.start + k
  BY <1>1, <1>2, <1>5, NetAfterInt
<1>7. order.filled \in Nat /\ machine.start \in Int /\ k <= order.filled
  BY <1>1, <1>4, <1>5 DEF Orders, Machines
<1>8. machine.phase \in {"EnteringLong", "EnteringShort", "ExitingLong", "ExitingShort"}
  BY <1>2 DEF Entering, Exiting
<1>9. CASE machine.phase = "EnteringLong"
  BY <1>1, <1>4, <1>5, <1>6, <1>7, <1>9 DEF FlightInv
<1>10. CASE machine.phase = "EnteringShort"
  BY <1>1, <1>4, <1>5, <1>6, <1>7, <1>10 DEF FlightInv
<1>11. CASE machine.phase = "ExitingLong"
  BY <1>1, <1>4, <1>5, <1>6, <1>7, <1>11 DEF FlightInv
<1>12. CASE machine.phase = "ExitingShort"
  BY <1>1, <1>4, <1>5, <1>6, <1>7, <1>12 DEF FlightInv
<1> QED
  BY <1>8, <1>9, <1>10, <1>11, <1>12

LEMMA DeliverKeeps == ASSUME SOInv, NEW r \in reports, DeliverReport(r) PROVE SOInv'
<1>1. /\ machine' = OnFillProgress(machine, r[1], r[2], r[3])
      /\ UNCHANGED <<nextIntent, order, reports, position, excess>>
  BY DEF DeliverReport
<1>2. machine \in Machines /\ r[2] \in Nat /\ r[3] \in BOOLEAN
  BY DEF SOInv, ShapeInv, ReportShape
<1>3. CASE ~Concerns(machine, r[1])
  <2>1. machine' = machine
    BY <1>1, <1>3 DEF OnFillProgress
  <2> QED
    BY <1>1, <2>1, StutterKeeps DEF soVars
<1>4. CASE Concerns(machine, r[1])
  <2>1. machine.phase \in Entering \cup Exiting
    BY <1>4 DEF Concerns
  <2>2. PICK m \in Machines, k \in Nat, full \in BOOLEAN :
           m = machine /\ k = r[2] /\ full = r[3]
    BY <1>2
  <2>3. PICK q \in Int : q = NetAfter(m, k)
    BY <2>1, <2>2, NetAfterInt
  <2>4. PICK n, i : n = OnFillProgress(m, i, k, full) /\ n = machine' /\ i = r[1]
    BY <1>1, <2>2
  <2>5. \/ n = [m EXCEPT !.phase = "Unknown"]
        \/ ~full /\ n = [m EXCEPT !.net = q]
        \/ n = [m EXCEPT !.net = q, !.phase = "SafeHold", !.active = NoIntent, !.start = 0]
        \/ full /\ n = [m EXCEPT !.net = q, !.phase = SettledPhase(q), !.active = NoIntent,
                                  !.start = 0]
    <3>1. Concerns(m, i)
      BY <1>4, <2>2, <2>4
    <3>2. n = OnFillProgress(m, i, k, full)
      BY <2>4
    <3> QED
      <4>1. Expected(m) \in Int
        BY ConfigAssumption DEF Expected, AbsQ, Machines, ValidStrategyConfig
      <4>2. PICK next : next = [m EXCEPT !.net = q]
        OBVIOUS
      <4>3. next.net = q
        BY <4>2 DEF Machines
      <4>4. CASE k > Expected(m)
        BY <3>1, <3>2, <4>4 DEF OnFillProgress, StateUnknown
      <4>5. CASE k <= Expected(m) /\ ~full
        BY <2>3, <3>1, <3>2, <4>1, <4>5 DEF OnFillProgress
      <4>6. CASE k <= Expected(m) /\ full /\ k # Expected(m)
        <5>1. n = EnterSafeHold(next)
          BY <2>3, <3>1, <3>2, <4>1, <4>2, <4>6 DEF OnFillProgress
        <5> QED
          BY <4>2, <4>6, <5>1 DEF EnterSafeHold, Machines
      <4>7. CASE full /\ k = Expected(m)
        <5>1. n = [next EXCEPT !.phase = SettledPhase(q), !.active = NoIntent, !.start = 0]
          BY <2>3, <3>1, <3>2, <4>1, <4>2, <4>3, <4>7 DEF OnFillProgress
        <5> QED
          BY <4>2, <4>7, <5>1 DEF Machines
      <4> QED
        BY <4>1, <4>4, <4>5, <4>6, <4>7
  <2>6. CASE n = [m EXCEPT !.phase = "Unknown"]
    <3>1. n \in Machines /\ n.phase = "Unknown" /\ n.allowShort = m.allowShort
      BY <2>6 DEF Machines, Phases
    <3> QED
      BY <1>1, <2>2, <2>4, <3>1, LostKeeps
  <2>7. CASE ~full /\ n = [m EXCEPT !.net = q]
    <3>1. /\ n \in Machines /\ n.net = q /\ n.phase = m.phase /\ n.active = m.active
          /\ n.start = m.start /\ n.allowShort = m.allowShort
      BY <2>7 DEF Machines
    <3>2. /\ machine' \in Machines /\ machine'.net = q /\ machine'.phase = machine.phase
          /\ machine'.active = machine.active /\ machine'.start = machine.start
          /\ machine'.allowShort = machine.allowShort
      BY <2>2, <2>4, <3>1
    <3>3. machine.phase \notin Settled
      BY <2>1 DEF Settled, Entering, Exiting
    <3>4. ShapeInv' /\ ReportShape' /\ MachineInv'
      BY <1>1, <3>2, <3>3 DEF SOInv, ShapeInv, ReportShape, MachineInv, Machines, Orders, Phases
    <3>5. ASSUME excess' = 0 PROVE VenueInv'
      <4>1. ReportInv /\ FlightInv /\ BackedInv /\ excess = 0
        BY <1>1, <3>5 DEF SOInv, VenueInv
      <4>2. /\ machine.phase = "EnteringLong" => 0 <= q /\ q <= position
            /\ machine.phase = "EnteringShort" => q <= 0 /\ position <= q
            /\ machine.phase = "ExitingLong" => position <= q
            /\ machine.phase = "ExitingShort" => q <= position
        BY <1>4, <2>2, <2>3, <4>1, ReportTruth
      <4>3. Expected(machine)' = Expected(machine)
        BY <3>2 DEF Expected
      <4>4. ReportInv'
        BY <1>1, <4>1 DEF ReportInv
      <4>5. SettledInv' /\ BackedInv'
        BY <1>1, <3>2, <3>3, <4>1 DEF SettledInv, BackedInv
      <4>6. FlightInv'
        BY <1>1, <3>2, <4>1, <4>2, <4>3 DEF FlightInv
      <4> QED
        BY <4>4, <4>5, <4>6 DEF VenueInv
    <3> QED
      BY <3>4, <3>5 DEF SOInv
  <2>8. CASE n = [m EXCEPT !.net = q, !.phase = "SafeHold", !.active = NoIntent, !.start = 0]
    <3>0. PICK mid : mid = [m EXCEPT !.net = q]
      OBVIOUS
    <3>1. mid \in Machines /\ mid.allowShort = m.allowShort
      BY <3>0 DEF Machines
    <3>2. n = LostTo(mid, "SafeHold")
      BY <2>8, <3>0 DEF LostTo, Machines
    <3>3. "SafeHold" \in Phases
      BY DEF Phases
    <3>4. n \in Machines /\ n.phase = "SafeHold" /\ n.allowShort = m.allowShort
      BY <3>1, <3>2, <3>3, LostFields
    <3> QED
      BY <1>1, <2>2, <2>4, <3>4, LostKeeps
  <2>9. CASE full /\ n = [m EXCEPT !.net = q, !.phase = SettledPhase(q), !.active = NoIntent,
                                   !.start = 0]
    <3>1. n = [m EXCEPT !.phase = SettledPhase(q), !.net = q, !.active = NoIntent, !.start = 0]
      BY <2>9 DEF Machines
    <3>2. excess = 0 => q = position /\ ~order.live
      BY <1>4, <2>2, <2>3, <2>9, ReportTruth
    <3> QED
      BY <1>1, <2>2, <2>4, <3>1, <3>2, SettlesKeeps
  <2> QED
    BY <2>5, <2>6, <2>7, <2>8, <2>9
<1> QED
  BY <1>3, <1>4

\* A settled machine sends an order: its intent is new to every report, and the order is no
\* larger than what the exit closes.
LEMMA BeginKeeps ==
  ASSUME SOInv, nextIntent <= MaxIntents, machine.phase \in Settled,
         NEW ph, NEW side \in {"Buy", "Sell"}, NEW qty \in Nat \ {0},
         machine' = [machine EXCEPT !.phase = ph, !.active = nextIntent, !.start = machine.net],
         order' = [intent |-> nextIntent, side |-> side, quantity |-> qty, filled |-> 0,
                   live |-> TRUE],
         nextIntent' = nextIntent + 1, UNCHANGED <<reports, position, excess>>,
         \/ ph = "EnteringLong" /\ side = "Buy" /\ qty = OrderQuantity /\ machine.net = 0
         \/ /\ ph = "EnteringShort" /\ side = "Sell" /\ qty = OrderQuantity /\ machine.net = 0
            /\ machine.allowShort
         \/ ph = "ExitingLong" /\ side = "Sell" /\ qty = machine.net /\ machine.net > 0
         \/ ph = "ExitingShort" /\ side = "Buy" /\ qty = -machine.net /\ machine.net < 0
  PROVE  SOInv'
<1>1. machine \in Machines /\ nextIntent \in Nat \ {0} /\ nextIntent \in 1..MaxIntents
  BY IntentAssumption DEF SOInv, ShapeInv
<1>2. ph \in Phases /\ ph \in Entering \cup Exiting
  BY DEF Phases, Entering, Exiting
<1>3. /\ machine' \in Machines /\ machine'.phase = ph /\ machine'.active = nextIntent
      /\ machine'.start = machine.net /\ machine'.net = machine.net
      /\ machine'.allowShort = machine.allowShort
  BY <1>1, <1>2 DEF Machines
<1>4. /\ order' \in Orders /\ order'.intent = nextIntent /\ order'.side = side
      /\ order'.quantity = qty /\ order'.filled = 0 /\ order'.live
  BY <1>1 DEF Orders
<1>5. ShapeInv'
  BY <1>1, <1>3, <1>4, IntentAssumption DEF SOInv, ShapeInv, Machines, Orders
<1>6. ReportShape'
  <2>1. ASSUME NEW r \in reports
        PROVE  /\ r[1] \in 1..MaxIntents /\ r[1] < nextIntent'
               /\ r[2] \in Nat /\ r[3] \in BOOLEAN
    BY <1>1, IntentAssumption DEF SOInv, ReportShape
  <2>2. order'.intent \in 1..MaxIntents /\ order'.intent < nextIntent'
    BY <1>1, <1>4
  <2> QED
    BY <2>1, <2>2 DEF ReportShape
<1>7. MachineInv'
  BY <1>2, <1>3 DEF MachineInv, Settled, Entering, Exiting
<1>8. ASSUME excess' = 0 PROVE VenueInv'
  <2>1. machine.net = position /\ BackedInv /\ position \in Int
    BY <1>8 DEF SOInv, VenueInv, SettledInv, ShapeInv
  <2>2. ReportInv'
    <3>1. \A r \in reports : r[1] # nextIntent
      BY <1>1, IntentAssumption DEF SOInv, ReportShape
    <3> QED
      BY <1>4, <3>1 DEF ReportInv
  <2>3. SettledInv'
    BY <1>2, <1>3 DEF SettledInv, Settled, Entering, Exiting
  <2>4. Expected(machine)' = qty
    BY <1>3, ConfigAssumption DEF Expected, AbsQ, Entering, ValidStrategyConfig
  <2>5. FlightInv'
    <3>1. /\ (machine.active = order.intent)' /\ (order.quantity = Expected(machine))'
          /\ (order.intent \in 1..MaxIntents)'
      BY <1>1, <1>3, <1>4, <2>4
    <3>2. CASE ph = "EnteringLong" /\ side = "Buy" /\ machine.net = 0
      BY <1>3, <1>4, <2>1, <3>1, <3>2 DEF FlightInv
    <3>3. CASE ph = "EnteringShort" /\ side = "Sell" /\ machine.net <= 0 /\ machine.net >= 0
      <4>1. PICK p \in Int, n \in Int, f \in Nat : p = position' /\ n = machine'.net /\ f = order'.filled
        BY <1>3, <1>4, <2>1, <3>3
      <4>2. p <= 0 /\ p >= 0 /\ n = p /\ f <= 0
        BY <1>3, <1>4, <2>1, <3>3, <4>1
      <4>3. p = -f /\ n <= 0 /\ p <= n
        BY <4>2
      <4>4. machine'.phase = "EnteringShort" /\ order'.side = "Sell" /\ machine'.start = 0
        BY <1>3, <1>4, <2>1, <3>3
      <4> QED
        BY <3>1, <4>1, <4>3, <4>4 DEF FlightInv
    <3>4. CASE ph = "ExitingLong" /\ side = "Sell" /\ machine.net > 0
      BY <1>3, <1>4, <2>1, <3>1, <3>4 DEF FlightInv
    <3>5. CASE ph = "ExitingShort" /\ side = "Buy" /\ machine.net < 0
      BY <1>3, <1>4, <2>1, <3>1, <3>5 DEF FlightInv
    <3> QED
      BY <2>1, <3>2, <3>3, <3>4, <3>5
  <2>6. BackedInv'
    BY <1>3, <1>4, <2>1 DEF BackedInv
  <2> QED
    BY <2>2, <2>3, <2>5, <2>6 DEF VenueInv
<1> QED
  BY <1>5, <1>6, <1>7, <1>8 DEF SOInv

LEMMA SignalKeeps == ASSUME SOInv, NEW score \in Int, Signal(score) PROVE SOInv'
<1>1. PICK d : d = OnSignal(machine, score, nextIntent)
  OBVIOUS
<1>2. /\ nextIntent <= MaxIntents /\ machine' = d.machine /\ UNCHANGED <<reports, position, excess>>
      /\ d.side = "none" => UNCHANGED <<nextIntent, order>>
      /\ d.side # "none" => /\ nextIntent' = nextIntent + 1
                            /\ order' = [intent |-> nextIntent, side |-> d.side,
                                          quantity |-> d.quantity, filled |-> 0, live |-> TRUE]
  BY <1>1 DEF Signal
<1>3. machine \in Machines /\ nextIntent \in 1..MaxIntents
  BY <1>2, IntentAssumption DEF SOInv, ShapeInv
<1>4. \/ d.side = "none" /\ d.machine = machine
      \/ /\ d.side = "none" /\ machine.net = 0 /\ machine.phase \in {"Long", "Short"}
         /\ d.machine = [machine EXCEPT !.phase = "Unknown"]
      \/ /\ machine.phase = "Flat" /\ d.side = "Buy" /\ d.quantity = OrderQuantity
         /\ d.machine = [machine EXCEPT !.phase = "EnteringLong", !.active = nextIntent,
                                        !.start = machine.net]
      \/ /\ machine.phase = "Flat" /\ machine.allowShort /\ d.side = "Sell"
         /\ d.quantity = OrderQuantity
         /\ d.machine = [machine EXCEPT !.phase = "EnteringShort", !.active = nextIntent,
                                        !.start = machine.net]
      \/ /\ machine.phase = "Long" /\ machine.net # 0 /\ d.side = "Sell"
         /\ d.quantity = AbsQ(machine.net)
         /\ d.machine = [machine EXCEPT !.phase = "ExitingLong", !.active = nextIntent,
                                        !.start = machine.net]
      \/ /\ machine.phase = "Short" /\ machine.net # 0 /\ d.side = "Buy"
         /\ d.quantity = AbsQ(machine.net)
         /\ d.machine = [machine EXCEPT !.phase = "ExitingShort", !.active = nextIntent,
                                        !.start = machine.net]
  <2>1. SignalResult(machine, nextIntent, d)
    BY <1>1, <1>3, SignalCases
  <2> QED
    BY <2>1 DEF SignalResult
<1>5. machine.net \in Int /\ OrderQuantity \in Nat \ {0}
  BY <1>3, ConfigAssumption DEF Machines, ValidStrategyConfig
<1>6. /\ machine.phase = "Flat" => machine.net = 0
      /\ machine.phase = "Long" => machine.net > 0
      /\ machine.phase = "Short" => machine.net < 0
  BY <1>5, SettledPhases DEF SOInv, MachineInv, Settled
<1>7. CASE d.side = "none" /\ d.machine = machine
  BY <1>2, <1>7, StutterKeeps DEF soVars
<1>8. CASE d.side = "none" /\ d.machine = [machine EXCEPT !.phase = "Unknown"]
  <2>1. /\ machine' \in Machines /\ machine'.phase = "Unknown"
        /\ machine'.allowShort = machine.allowShort
    BY <1>2, <1>3, <1>8 DEF Machines, Phases
  <2> QED
    BY <1>2, <1>8, <2>1, LostKeeps
<1>9. CASE /\ machine.phase = "Flat" /\ d.side = "Buy" /\ d.quantity = OrderQuantity
           /\ d.machine = [machine EXCEPT !.phase = "EnteringLong", !.active = nextIntent,
                                          !.start = machine.net]
  BY <1>2, <1>5, <1>6, <1>9, BeginKeeps DEF Settled
<1>10. CASE /\ machine.phase = "Flat" /\ machine.allowShort /\ d.side = "Sell"
            /\ d.quantity = OrderQuantity
            /\ d.machine = [machine EXCEPT !.phase = "EnteringShort", !.active = nextIntent,
                                           !.start = machine.net]
  BY <1>2, <1>5, <1>6, <1>10, BeginKeeps DEF Settled
<1>11. CASE /\ machine.phase = "Long" /\ d.side = "Sell" /\ d.quantity = AbsQ(machine.net)
            /\ d.machine = [machine EXCEPT !.phase = "ExitingLong", !.active = nextIntent,
                                           !.start = machine.net]
  <2>1. PICK qty \in Nat \ {0} : qty = machine.net /\ qty = d.quantity
    BY <1>5, <1>6, <1>11 DEF AbsQ
  <2> QED
    BY <1>2, <1>5, <1>6, <1>11, <2>1, BeginKeeps DEF Settled
<1>12. CASE /\ machine.phase = "Short" /\ d.side = "Buy" /\ d.quantity = AbsQ(machine.net)
            /\ d.machine = [machine EXCEPT !.phase = "ExitingShort", !.active = nextIntent,
                                           !.start = machine.net]
  <2>1. PICK qty \in Nat \ {0} : qty = -machine.net /\ qty = d.quantity
    BY <1>5, <1>6, <1>12 DEF AbsQ
  <2> QED
    BY <1>2, <1>5, <1>6, <1>12, <2>1, BeginKeeps DEF Settled
<1> QED
  BY <1>4, <1>7, <1>8, <1>9, <1>10, <1>11, <1>12

LEMMA SOInvNext == SOInv /\ [SONext]_soVars => SOInv'
<1> SUFFICES ASSUME SOInv, [SONext]_soVars PROVE SOInv'
  OBVIOUS
<1>1. ASSUME NEW score \in (-EntryScore)..EntryScore PROVE score \in Int
  BY ConfigAssumption DEF ValidStrategyConfig
<1> QED
  BY <1>1, SignalKeeps, VenueFillKeeps, VenueCancelKeeps, DeliverKeeps, HostKeeps, RestoreKeeps,
     StutterKeeps DEF SONext

-----------------------------------------------------------------------------
(* The theorems *)

\* What a score machine believes of its position is exact once it settles, never ahead of
\* the venue while an intent is in flight, and a long-only strategy is never short, in every
\* order of fills, cancels, late and repeated reports and host declarations.
THEOREM MachineTracksVenue == SOSpec => []ScoreSafety
<1>1. SOInv => ScoreSafety
  <2> SUFFICES ASSUME SOInv PROVE ScoreSafety
    OBVIOUS
  <2>1. machine \in Machines /\ order \in Orders /\ position \in Int
    BY DEF SOInv, ShapeInv
  <2>2. SOTypeOK
    BY <2>1, IntentAssumption DEF SOInv, ShapeInv, ReportShape, SOTypeOK, Machines
  <2>3. SettledIsExact
    BY DEF SOInv, VenueInv, SettledInv, SettledIsExact, Settled
  <2>4. NeverAhead
    <3> SUFFICES ASSUME excess = 0 PROVE NeverAhead
      BY DEF NeverAhead
    <3>1. FlightInv /\ ReportInv
      BY DEF SOInv, VenueInv
    <3>2. machine.net \in Int /\ machine.start \in Int /\ order.filled \in Nat
      BY <2>1 DEF Machines, Orders
    <3>3. machine.phase = "EnteringLong" => machine.net \in 0..position
      BY <2>1, <3>1, <3>2 DEF FlightInv
    <3>4. machine.phase = "EnteringShort" => -machine.net \in 0..(-position)
      BY <2>1, <3>1, <3>2 DEF FlightInv
    <3>5. machine.phase = "ExitingLong" => machine.net >= position /\ position >= 0
      <4>1. machine.phase = "ExitingLong" => order.quantity = machine.start
        BY <3>1, <3>2 DEF FlightInv, Expected, AbsQ, Entering, Exiting
      <4> QED
        BY <2>1, <3>1, <3>2, <4>1 DEF FlightInv, ReportInv
    <3>6. machine.phase = "ExitingShort" => machine.net <= position /\ position <= 0
      <4>1. machine.phase = "ExitingShort" => order.quantity = -machine.start
        BY <3>1, <3>2 DEF FlightInv, Expected, AbsQ, Entering, Exiting
      <4> QED
        BY <2>1, <3>1, <3>2, <4>1 DEF FlightInv, ReportInv
    <3> QED
      BY <3>3, <3>4, <3>5, <3>6 DEF NeverAhead
  <2>5. LongOnlyNeverShort
    BY DEF SOInv, VenueInv, BackedInv, LongOnlyNeverShort
  <2> QED
    BY <2>2, <2>3, <2>4, <2>5 DEF ScoreSafety
<1> QED
  BY <1>1, SOInvInit, SOInvNext, PTL DEF SOSpec

\* A machine asks for an order only when it is settled and none is in flight: not while it
\* has lost track, holds or is halted.
THEOREM LostAsksNothing == SOSpec => NoOrderWhileLost
<1>1. ASSUME SOInv, [SONext]_soVars, nextIntent' # nextIntent
      PROVE  machine.phase \in {"Flat", "Long", "Short"} /\ machine.active = NoIntent
  <2>1. PICK score \in (-EntryScore)..EntryScore : Signal(score)
    BY <1>1 DEF SONext, soVars, VenueFill, VenueCancel, DeliverReport, ExternalUnknown, SafeHold,
       HaltStrategy, Restore, HostDeclares
  <2>2. PICK d : d = OnSignal(machine, score, nextIntent)
    OBVIOUS
  <2>3. d.side # "none" /\ nextIntent <= MaxIntents
    BY <1>1, <2>1, <2>2 DEF Signal
  <2>4. score \in Int /\ machine \in Machines /\ nextIntent \in 1..MaxIntents
    BY <1>1, <2>3, ConfigAssumption, IntentAssumption DEF ValidStrategyConfig, SOInv, ShapeInv
  <2>5. machine.phase \in {"Flat", "Long", "Short"}
    <3>1. SignalResult(machine, nextIntent, d)
      BY <2>2, <2>4, SignalCases
    <3> QED
      BY <2>3, <3>1 DEF SignalResult
  <2> QED
    BY <1>1, <2>5 DEF SOInv, MachineInv, Settled
<1> QED
  BY <1>1, SOInvInit, SOInvNext, PTL DEF SOSpec, NoOrderWhileLost

-----------------------------------------------------------------------------
(* The live policy *)


RecordStates == {"None", "Open", "Unknown", "Rejected", "Filled", "Canceled"}
TicketStates == [st : RecordStates, filled : Nat]
PlanSet == [owner : PolicyIds \cup {NoTicket}, dir : {-1, 0, 1}, size : Nat, reduce : BOOLEAN]
Views == [net : Int, entry : Int, peak : NoPrice .. MaxReturn]

PolicyTypes ==
  /\ intent \in [Tickets -> PlanSet] /\ netAtVenue \in Int /\ seenNet \in Int
  /\ atVenue \in [Tickets -> TicketStates] /\ record \in [Tickets -> TicketStates]
  /\ latest \in [Tickets -> TicketStates] /\ seenOrders \in [Tickets -> TicketStates]
  /\ kept \in [Tickets -> Nat]
  /\ attempted \in [PolicyIds -> {NoTicket} \cup Tickets]
  /\ view \in Views /\ best \in Int /\ stage \in {"idle", "orders", "fills"}
  /\ onHold \in BOOLEAN /\ gateOpen \in BOOLEAN /\ starting \in BOOLEAN /\ soFarClean \in BOOLEAN

\* Nothing the daemon knows of would trade.
AtRest(r) == r = Nowhere \/ Over(r)

\* An order: what was never decided is nowhere, what the store counts the venue filled,
\* and an order that can trade is on record as such, holds its policy locked, and is in
\* the orders a tick has read.
TicketInv(o) ==
  /\ intent[o] = NoPlan => atVenue[o] = Nowhere /\ record[o] = Nowhere /\ latest[o] = Nowhere
  /\ intent[o] # NoPlan =>
       intent[o].owner \in PolicyIds /\ intent[o].dir \in {1, -1} /\ intent[o].size > 0
  /\ record[o].filled <= atVenue[o].filled /\ atVenue[o].filled <= intent[o].size
  /\ kept[o] <= atVenue[o].filled
  /\ Sent(o) =>
       /\ atVenue[o].filled < intent[o].size /\ ~AtRest(record[o])
       /\ ~starting => ~Over(latest[o]) /\ (latest[o] # Nowhere \/ attempted[intent[o].owner] = o)
       /\ stage = "orders" => seenOrders[o].st = "Open"

PolicyInv == PolicyTypes /\ PeakIsBest /\ \A o \in Tickets : TicketInv(o)

LEMMA PolicyNumbers ==
  PolicyQty \in Nat /\ PolicyQty > 0 /\ MaxReturn \in Nat /\ MaxPolicyOrders \in Nat
  /\ Tickets \in SUBSET Nat /\ NoTicket \notin Tickets /\ NoTicket \notin PolicyIds
  BY PolicyAssumption DEF Tickets, NoTicket

LEMMA NowhereIs == Nowhere \in TicketStates /\ ~Over(Nowhere) /\ Nowhere.st = "None" /\ Nowhere.filled = 0
  BY DEF Nowhere, TicketStates, RecordStates, Over

LEMMA PolicyInvInit == LPInit => PolicyInv
<1> SUFFICES ASSUME LPInit PROVE PolicyInv
  OBVIOUS
<1>1. NoPlan \in PlanSet /\ NoPlan.size = 0
  BY DEF NoPlan, PlanSet
<1>2. NoView \in Views /\ NoView.net = 0
  BY PolicyNumbers DEF NoView, Views, NoPrice
<1>3. PolicyTypes
  <2>1. /\ intent \in [Tickets -> PlanSet] /\ netAtVenue \in Int /\ seenNet \in Int
        /\ atVenue \in [Tickets -> TicketStates] /\ record \in [Tickets -> TicketStates]
        /\ latest \in [Tickets -> TicketStates] /\ seenOrders \in [Tickets -> TicketStates]
    BY <1>1, NowhereIs DEF LPInit
  <2>2. /\ kept \in [Tickets -> Nat] /\ attempted \in [PolicyIds -> {NoTicket} \cup Tickets]
    BY DEF LPInit
  <2>3. view \in Views /\ best \in Int /\ stage \in {"idle", "orders", "fills"}
    BY <1>2 DEF LPInit, NoPrice
  <2>4. onHold \in BOOLEAN /\ gateOpen \in BOOLEAN /\ starting \in BOOLEAN /\ soFarClean \in BOOLEAN
    BY DEF LPInit
  <2> QED
    BY <2>1, <2>2, <2>3, <2>4 DEF PolicyTypes
<1>4. PeakIsBest
  BY <1>2 DEF LPInit, PeakIsBest
<1>5. ASSUME NEW o \in Tickets PROVE TicketInv(o)
  <2>1. intent[o] = NoPlan /\ atVenue[o] = Nowhere /\ record[o] = Nowhere /\ latest[o] = Nowhere /\ kept[o] = 0
    BY DEF LPInit
  <2>2. ~Sent(o)
    BY <2>1, NowhereIs DEF Sent
  <2> QED
    BY <1>1, <2>1, <2>2, NowhereIs DEF TicketInv
<1> QED
  BY <1>3, <1>4, <1>5 DEF PolicyInv

\* A step that leaves an order alone keeps what is known of it.
LEMMA TicketKept ==
  ASSUME NEW o \in Tickets, TicketInv(o), UNCHANGED <<attempted, starting, stage>>,
         intent'[o] = intent[o], atVenue'[o] = atVenue[o], record'[o] = record[o],
         latest'[o] = latest[o], seenOrders'[o] = seenOrders[o], kept'[o] = kept[o]
  PROVE  TicketInv(o)'
  BY DEF TicketInv, Sent, AtRest, Over

-----------------------------------------------------------------------------
LEMMA TradesStep ==
  ASSUME PolicyInv, NEW o \in Tickets, Trades(o)
  PROVE  /\ PolicyInv' /\ Sent(o) /\ netAtVenue' = netAtVenue + intent[o].dir
         /\ UNCHANGED <<intent, record, kept, latest, attempted, view, onHold, gateOpen, best, stage,
                        seenOrders, seenNet, soFarClean, starting, starts>>
         /\ atVenue'[o].filled = atVenue[o].filled + 1 /\ atVenue'[o].filled <= intent[o].size
         /\ \A u \in Tickets : u # o => atVenue'[u] = atVenue[u]
         /\ \A u \in Tickets : Sent(u)' => Sent(u)
<1>0. PolicyTypes /\ TicketInv(o)
  BY DEF PolicyInv
<1>1. /\ UNCHANGED <<intent, record, kept, latest, attempted, view, onHold, gateOpen, best, stage,
                     seenOrders, seenNet, soFarClean, starting, starts>>
      /\ Sent(o) /\ netAtVenue' = netAtVenue + intent[o].dir
  BY DEF Trades, MayTrade, lpStore, lpMemory, lpTick
<1>2. PICK q \in Nat : q = atVenue[o].filled + 1
  BY <1>0 DEF PolicyTypes, TicketStates
<1>3. PICK st \in {"Filled", "Open"} : (st = "Open" => q # intent[o].size) /\
        atVenue' = [atVenue EXCEPT ![o] = [st |-> st, filled |-> q]]
  BY <1>2 DEF Trades
<1>4. [st |-> st, filled |-> q] \in TicketStates
  BY DEF TicketStates, RecordStates
<1>5. /\ atVenue' \in [Tickets -> TicketStates] /\ atVenue'[o].st = st /\ atVenue'[o].filled = q
      /\ \A u \in Tickets : u # o => atVenue'[u] = atVenue[u]
  BY <1>0, <1>3, <1>4 DEF PolicyTypes
<1>6. q <= intent[o].size /\ intent[o].size \in Nat /\ atVenue[o].filled \in Nat
  BY <1>0, <1>1, <1>2 DEF TicketInv, PolicyTypes, PlanSet, TicketStates
<1>7. PolicyTypes'
  <2>1. netAtVenue' \in Int
    BY <1>0, <1>1 DEF PolicyTypes, PlanSet
  <2> QED
    BY <1>0, <1>1, <1>5, <2>1 DEF PolicyTypes
<1>8. intent[o] # NoPlan
  BY <1>0, <1>1, NowhereIs DEF TicketInv, Sent
<1>9. TicketInv(o)'
  <2>1. record[o].filled \in Nat /\ kept[o] \in Nat
    BY <1>0 DEF PolicyTypes, TicketStates
  <2>2. record'[o].filled <= atVenue'[o].filled /\ kept'[o] <= atVenue'[o].filled
    BY <1>0, <1>1, <1>2, <1>5, <1>6, <2>1 DEF TicketInv
  <2>3. atVenue'[o].filled <= intent'[o].size
    BY <1>1, <1>5, <1>6
  <2>4. Sent(o)' => atVenue'[o].filled < intent'[o].size
    BY <1>1, <1>3, <1>5, <1>6 DEF Sent
  <2> QED
    BY <1>0, <1>1, <1>8, <2>2, <2>3, <2>4 DEF TicketInv, AtRest, Over
<1>10. \A u \in Tickets : TicketInv(u)'
  <2>1. ASSUME NEW u \in Tickets, u # o PROVE TicketInv(u)'
    BY <1>1, <1>5, <2>1, TicketKept DEF PolicyInv
  <2> QED
    BY <1>9, <2>1
<1>11. PeakIsBest'
  BY <1>1 DEF PolicyInv, PeakIsBest
<1>12. \A u \in Tickets : Sent(u)' => Sent(u)
  BY <1>1, <1>5 DEF Sent
<1> QED
  BY <1>1, <1>2, <1>5, <1>6, <1>7, <1>10, <1>11, <1>12 DEF PolicyInv

LEMMA VenueCancelsStep ==
  ASSUME PolicyInv, NEW o \in Tickets, VenueCancels(o)
  PROVE  /\ PolicyInv'
         /\ UNCHANGED <<intent, netAtVenue, record, kept, latest, attempted, view, onHold, gateOpen, best,
                        stage, seenOrders, seenNet, soFarClean, starting, starts>>
         /\ \A u \in Tickets : (Sent(u)' => Sent(u)) /\ atVenue'[u].filled = atVenue[u].filled
<1>0. PolicyTypes /\ TicketInv(o) /\ Sent(o)
  BY DEF PolicyInv, VenueCancels
<1>1. UNCHANGED <<intent, netAtVenue, record, kept, latest, attempted, view, onHold, gateOpen, best, stage,
                  seenOrders, seenNet, soFarClean, starting, starts>>
  BY DEF VenueCancels, lpStore, lpMemory, lpTick
<1>2. /\ atVenue' \in [Tickets -> TicketStates] /\ atVenue'[o].st = "Canceled"
      /\ atVenue'[o].filled = atVenue[o].filled
      /\ \A u \in Tickets : u # o => atVenue'[u] = atVenue[u]
  BY <1>0 DEF PolicyTypes, VenueCancels, TicketStates, RecordStates
<1>3. PolicyTypes'
  BY <1>0, <1>1, <1>2 DEF PolicyTypes
<1>4. intent[o] # NoPlan /\ ~Sent(o)'
  BY <1>0, <1>2, NowhereIs DEF TicketInv, Sent
<1>5. TicketInv(o)'
  BY <1>0, <1>1, <1>2, <1>4 DEF TicketInv
<1>6. \A u \in Tickets : TicketInv(u)'
  <2>1. ASSUME NEW u \in Tickets, u # o PROVE TicketInv(u)'
    BY <1>1, <1>2, <2>1, TicketKept DEF PolicyInv
  <2> QED
    BY <1>5, <2>1
<1>7. PeakIsBest'
  BY <1>1 DEF PolicyInv, PeakIsBest
<1>8. \A u \in Tickets : Sent(u)' => Sent(u)
  BY <1>0, <1>2 DEF Sent
<1>9. \A u \in Tickets : atVenue'[u].filled = atVenue[u].filled
  BY <1>2
<1> QED
  BY <1>1, <1>3, <1>6, <1>7, <1>8, <1>9 DEF PolicyInv

LEMMA SettleStep ==
  ASSUME PolicyInv, NEW o \in Tickets, SettleOrder(o)
  PROVE  /\ PolicyInv' /\ stage = "idle"
         /\ UNCHANGED <<intent, atVenue, netAtVenue, latest, attempted, view, onHold, gateOpen, best, stage,
                        seenOrders, seenNet, soFarClean, starting, starts>>
<1>0. PolicyTypes /\ TicketInv(o)
  BY DEF PolicyInv
<1>1. /\ UNCHANGED <<intent, atVenue, netAtVenue, latest, attempted, view, onHold, gateOpen, best, stage,
                     seenOrders, seenNet, soFarClean, starting, starts>>
      /\ record[o] # Nowhere /\ stage = "idle"
  BY DEF SettleOrder, lpVenue, lpMemory, lpTick, Known
<1>2. /\ record' \in [Tickets -> TicketStates] /\ record'[o] = atVenue[o]
      /\ \A u \in Tickets : u # o => record'[u] = record[u]
  BY <1>0 DEF PolicyTypes, SettleOrder
<1>3. /\ kept' \in [Tickets -> Nat] /\ kept'[o] = atVenue[o].filled
      /\ \A u \in Tickets : u # o => kept'[u] = kept[u]
  BY <1>0 DEF PolicyTypes, SettleOrder, TicketStates
<1>4. PolicyTypes'
  BY <1>0, <1>1, <1>2, <1>3 DEF PolicyTypes
<1>5. intent[o] # NoPlan
  BY <1>0, <1>1 DEF TicketInv
<1>6. Sent(o) => ~AtRest(atVenue[o])
  BY NowhereIs DEF Sent, AtRest, Over
<1>7. atVenue[o].filled \in Nat
  BY <1>0 DEF PolicyTypes, TicketStates
<1>8. TicketInv(o)'
  BY <1>0, <1>1, <1>2, <1>3, <1>5, <1>6, <1>7 DEF TicketInv, AtRest, Sent
<1>9. \A u \in Tickets : TicketInv(u)'
  <2>1. ASSUME NEW u \in Tickets, u # o PROVE TicketInv(u)'
    BY <1>1, <1>2, <1>3, <2>1, TicketKept DEF PolicyInv
  <2> QED
    BY <1>8, <2>1
<1>10. PeakIsBest'
  BY <1>1 DEF PolicyInv, PeakIsBest
<1> QED
  BY <1>1, <1>4, <1>9, <1>10 DEF PolicyInv

LEMMA MaxOfTwo ==
  ASSUME NEW a \in Int, NEW b \in Int PROVE Max({a, b}) = IF a >= b THEN a ELSE b
  BY DEF Max

\* What a decision leaves: the new order, its owner and whatever became of it.
LEMMA DecideStep ==
  ASSUME PolicyInv, NEW p \in PolicyIds, NEW o \in Tickets, Decide(p, o)
  PROVE  /\ PolicyInv' /\ stage = "idle" /\ ~starting /\ ~Busy(p)
         /\ UNCHANGED <<netAtVenue, kept, latest, view, onHold, gateOpen, best, stage, seenOrders, seenNet,
                        soFarClean, starting, starts>>
         /\ intent[o] = NoPlan /\ intent'[o] \in Plans(p)
         /\ \A u \in Tickets : u # o =>
              intent'[u] = intent[u] /\ atVenue'[u] = atVenue[u] /\ record'[u] = record[u]
         /\ atVenue'[o].filled = 0 /\ attempted'[p] = o
<1>0. PolicyTypes /\ TicketInv(o)
  BY DEF PolicyInv
<1>1. /\ UNCHANGED <<netAtVenue, kept, latest, view, onHold, gateOpen, best, stage, seenOrders, seenNet,
                     soFarClean, starting, starts>>
      /\ intent[o] = NoPlan /\ stage = "idle" /\ ~starting /\ ~Busy(p)
      /\ attempted' = [attempted EXCEPT ![p] = o]
  BY DEF Decide, lpTick
<1>2. PICK plan \in Plans(p), result \in Outcomes :
        /\ intent' = [intent EXCEPT ![o] = plan]
        /\ atVenue' = [atVenue EXCEPT ![o].st = result.venue]
        /\ record' = [record EXCEPT ![o].st = result.record]
  BY DEF Decide
<1>3. atVenue[o] = Nowhere /\ record[o] = Nowhere /\ latest[o] = Nowhere
  BY <1>0, <1>1 DEF TicketInv
<1>4. /\ result.venue \in RecordStates /\ result.record \in RecordStates
      /\ result.venue = "Open" => result.record \in {"Open", "Unknown"}
  BY <1>2 DEF Outcomes, RecordStates
<1>5. /\ plan \in PlanSet /\ plan.owner = p /\ plan.dir \in {1, -1} /\ plan.size > 0 /\ plan.size \in Nat
  <2>1. CASE view.net # 0
    <3>1. plan = ExitPlan(p)
      BY <1>2, <2>1 DEF Plans
    <3>2. Abs(view.net) \in Nat /\ Abs(view.net) > 0
      BY <1>0, <2>1 DEF Abs, PolicyTypes, Views
    <3> QED
      BY <3>1, <3>2 DEF ExitPlan, PlanSet
  <2>2. CASE view.net = 0
    <3>1. PICK side \in {1, -1} : plan = EntryPlan(p, side)
      BY <1>2, <2>2 DEF Plans, EntrySides
    <3> QED
      BY <3>1, PolicyNumbers DEF EntryPlan, PlanSet
  <2> QED
    BY <2>1, <2>2
<1>6. plan # NoPlan
  BY <1>5 DEF NoPlan
<1>7. /\ intent' \in [Tickets -> PlanSet] /\ intent'[o] = plan
      /\ \A u \in Tickets : u # o => intent'[u] = intent[u]
  BY <1>0, <1>2, <1>5 DEF PolicyTypes
<1>8. /\ atVenue' \in [Tickets -> TicketStates]
      /\ atVenue'[o].st = result.venue /\ atVenue'[o].filled = 0
      /\ \A u \in Tickets : u # o => atVenue'[u] = atVenue[u]
  BY <1>0, <1>2, <1>3, <1>4, NowhereIs DEF PolicyTypes, TicketStates
<1>9. /\ record' \in [Tickets -> TicketStates]
      /\ record'[o].st = result.record /\ record'[o].filled = 0
      /\ \A u \in Tickets : u # o => record'[u] = record[u]
  BY <1>0, <1>2, <1>3, <1>4, NowhereIs DEF PolicyTypes, TicketStates
<1>10. /\ attempted' \in [PolicyIds -> {NoTicket} \cup Tickets] /\ attempted'[p] = o
       /\ \A k \in PolicyIds : k # p => attempted'[k] = attempted[k]
  BY <1>0, <1>1 DEF PolicyTypes
<1>11. PolicyTypes'
  BY <1>0, <1>1, <1>7, <1>8, <1>9, <1>10 DEF PolicyTypes
<1>12. TicketInv(o)'
  <2>1. kept[o] = 0 /\ latest[o] = Nowhere
    BY <1>0, <1>3, NowhereIs DEF TicketInv, PolicyTypes
  <2>2. Sent(o)' => ~AtRest(record'[o])
    BY <1>4, <1>8, <1>9, NowhereIs DEF Sent, AtRest, Over
  <2> QED
    BY <1>1, <1>5, <1>6, <1>7, <1>8, <1>9, <1>10, <2>1, <2>2, NowhereIs DEF TicketInv
<1>13. ASSUME NEW u \in Tickets, u # o PROVE TicketInv(u)'
  <2>0. TicketInv(u)
    BY DEF PolicyInv
  <2>1. /\ intent'[u] = intent[u] /\ atVenue'[u] = atVenue[u] /\ record'[u] = record[u]
        /\ latest'[u] = latest[u] /\ kept'[u] = kept[u] /\ seenOrders'[u] = seenOrders[u]
        /\ UNCHANGED <<starting, stage>>
    BY <1>1, <1>7, <1>8, <1>9, <1>13
  <2>2. ASSUME Sent(u), latest[u] = Nowhere PROVE attempted'[intent[u].owner] = u
    <3>1. attempted[intent[u].owner] = u /\ intent[u].owner \in PolicyIds
      BY <1>1, <2>0, <2>2, NowhereIs DEF TicketInv, Sent
    <3>2. u # NoTicket
      BY PolicyNumbers
    <3>3. intent[u].owner # p
      BY <1>1, <2>2, <3>1, <3>2, NowhereIs DEF Busy
    <3> QED
      BY <1>10, <3>1, <3>3
  <2> QED
    BY <2>0, <2>1, <2>2 DEF TicketInv, Sent
<1>14. PeakIsBest'
  BY <1>1 DEF PolicyInv, PeakIsBest
<1>15. \A u \in Tickets : TicketInv(u)'
  BY <1>12, <1>13
<1> QED
  BY <1>1, <1>2, <1>7, <1>8, <1>9, <1>10, <1>11, <1>14, <1>15 DEF PolicyInv

LEMMA MarkStep ==
  ASSUME PolicyInv, NEW r \in 0 .. MaxReturn, Mark(r)
  PROVE  /\ PolicyInv' /\ stage = "idle" /\ view'.net = view.net
         /\ UNCHANGED <<intent, atVenue, netAtVenue, record, kept, latest, attempted, onHold, gateOpen, stage,
                        seenOrders, seenNet, soFarClean, starting, starts>>
<1>0. PolicyTypes
  BY DEF PolicyInv
<1>1. /\ UNCHANGED <<intent, atVenue, netAtVenue, record, kept, latest, attempted, onHold, gateOpen, stage,
                     seenOrders, seenNet, soFarClean, starting, starts>>
      /\ stage = "idle" /\ view.net # 0 /\ view.entry # NoPrice
  BY DEF Mark, lpVenue, lpStore, lpTick
<1>2. PICK m : m = Max({view.peak, r})
  OBVIOUS
<1>3. view.peak \in NoPrice .. MaxReturn /\ view.peak \in Int /\ r \in Int /\ view.peak = best
  BY <1>0, <1>1, PolicyNumbers DEF PolicyInv, PeakIsBest, PolicyTypes, Views, NoPrice
<1>4. m \in NoPrice .. MaxReturn /\ m \in Int
  BY <1>2, <1>3, MaxOfTwo, PolicyNumbers DEF NoPrice
<1>5. view' = [view EXCEPT !.peak = m] /\ best' = m
  BY <1>2, <1>3 DEF Mark
<1>6. view' \in Views /\ view'.net = view.net /\ view'.peak = m
  BY <1>0, <1>4, <1>5 DEF PolicyTypes, Views
<1>7. PolicyTypes' /\ PeakIsBest'
  BY <1>0, <1>1, <1>4, <1>5, <1>6 DEF PolicyTypes, PeakIsBest
<1>8. \A u \in Tickets : TicketInv(u)'
  BY <1>1, TicketKept DEF PolicyInv
<1> QED
  BY <1>1, <1>6, <1>7, <1>8 DEF PolicyInv

LEMMA ReadOrdersStep ==
  ASSUME PolicyInv, ReadOrders
  PROVE  /\ PolicyInv'
         /\ stage' = "fills" => ~soFarClean'
         /\ UNCHANGED <<intent, atVenue, netAtVenue, kept, latest, attempted, view, onHold, gateOpen, best,
                        seenNet, starting, starts>>
<1>0. PolicyTypes
  BY DEF PolicyInv
<1>1. /\ UNCHANGED <<intent, atVenue, netAtVenue, kept, latest, attempted, view, onHold, gateOpen, best,
                     seenNet, starting, starts>>
      /\ record' = Recovered /\ seenOrders' = atVenue
  BY DEF ReadOrders, lpVenue, lpMemory
<1>2. /\ stage' \in {"idle", "orders", "fills"} /\ soFarClean' \in BOOLEAN
      /\ stage' = "fills" => ~soFarClean'
  <2>1. PICK failed \in BOOLEAN : failed = \E u \in Tickets : Contradicted(u)
    OBVIOUS
  <2>2. /\ stage' = IF ~failed THEN "orders" ELSE IF starting THEN "idle" ELSE "fills"
        /\ soFarClean' = ~failed
    BY <2>1 DEF ReadOrders
  <2> QED
    BY <2>2
<1>3. \A o \in Tickets : \/ record'[o] = record[o]
                         \/ record'[o] = atVenue[o] /\ record[o] # Nowhere
                            /\ atVenue[o].filled = record[o].filled
  BY <1>1, NowhereIs DEF Recovered, Agree, Ambiguous
<1>4. record' \in [Tickets -> TicketStates]
  BY <1>0, <1>1 DEF Recovered, PolicyTypes
<1>5. PolicyTypes'
  BY <1>0, <1>1, <1>2, <1>4 DEF PolicyTypes
<1>6. ASSUME NEW o \in Tickets PROVE TicketInv(o)'
  <2>0. TicketInv(o)
    BY DEF PolicyInv
  <2>1. record'[o].filled <= atVenue[o].filled /\ (intent[o] = NoPlan => record'[o] = Nowhere)
    BY <1>0, <1>3, <2>0 DEF TicketInv, PolicyTypes, TicketStates
  <2>2. Sent(o) => ~AtRest(record'[o]) /\ seenOrders'[o].st = "Open"
    <3>1. Sent(o) => ~AtRest(atVenue[o])
      BY NowhereIs DEF Sent, AtRest, Over
    <3> QED
      BY <1>1, <1>3, <2>0, <3>1 DEF TicketInv, Sent
  <2> QED
    BY <1>1, <2>0, <2>1, <2>2 DEF TicketInv, Sent
<1>7. PeakIsBest'
  BY <1>1 DEF PolicyInv, PeakIsBest
<1> QED
  BY <1>1, <1>2, <1>5, <1>6, <1>7 DEF PolicyInv

LEMMA ReadPositionsStep ==
  ASSUME PolicyInv, ReadPositions
  PROVE  /\ PolicyInv' /\ stage = "orders" /\ stage' = "fills" /\ seenNet' = netAtVenue
         /\ UNCHANGED <<intent, atVenue, netAtVenue, kept, latest, attempted, view, onHold, gateOpen, best,
                        starting, starts>>
<1>0. PolicyTypes
  BY DEF PolicyInv
<1>1. /\ UNCHANGED <<intent, atVenue, netAtVenue, kept, latest, attempted, view, onHold, gateOpen, best,
                     seenOrders, starting, starts>>
      /\ stage = "orders" /\ stage' = "fills" /\ seenNet' = netAtVenue
  BY DEF ReadPositions, lpVenue, lpMemory
<1>2. PICK clean \in BOOLEAN :
        clean = (/\ \A o \in Tickets : Known(o) => OrderClean(o, seenOrders[o])
                 /\ netAtVenue # 0 /\ SomethingFilled => Owners(netAtVenue) # {})
  OBVIOUS
<1>3. /\ soFarClean' = clean
      /\ record' = [o \in Tickets |->
           IF clean /\ Known(o) /\ ~Over(record[o]) THEN seenOrders[o] ELSE record[o]]
  BY <1>2 DEF ReadPositions
<1>4. clean => \A o \in Tickets : Known(o) => OrderClean(o, seenOrders[o])
  BY <1>2
<1>5. \A o \in Tickets : \/ record'[o] = record[o]
                         \/ record'[o] = seenOrders[o] /\ record[o] # Nowhere
                            /\ seenOrders[o].filled = record[o].filled
  BY <1>3, <1>4 DEF OrderClean, Agree, Known
<1>6. record' \in [Tickets -> TicketStates]
  BY <1>0, <1>3 DEF PolicyTypes
<1>7. PolicyTypes'
  BY <1>0, <1>1, <1>3, <1>6 DEF PolicyTypes
<1>8. ASSUME NEW o \in Tickets PROVE TicketInv(o)'
  <2>0. TicketInv(o)
    BY DEF PolicyInv
  <2>1. record'[o].filled <= atVenue[o].filled /\ (intent[o] = NoPlan => record'[o] = Nowhere)
    BY <1>0, <1>5, <2>0 DEF TicketInv, PolicyTypes, TicketStates
  <2>2. Sent(o) => ~AtRest(record'[o])
    <3>1. Sent(o) => ~AtRest(seenOrders[o])
      BY <1>1, <2>0, NowhereIs DEF TicketInv, AtRest, Over
    <3> QED
      BY <1>5, <2>0, <3>1 DEF TicketInv
  <2> QED
    BY <1>1, <2>0, <2>1, <2>2 DEF TicketInv, Sent
<1>9. PeakIsBest'
  BY <1>1 DEF PolicyInv, PeakIsBest
<1> QED
  BY <1>1, <1>7, <1>8, <1>9 DEF PolicyInv

\* rebuild_position_views: a net of 0 or of the position read, and the peak of the old
\* view exactly when net and entry price are the old ones.
LEMMA RebuiltIs ==
  ASSUME PolicyTypes, NEW net \in Int, NEW priced \in BOOLEAN
  PROVE  /\ Rebuilt(net, priced) \in Views
         /\ Rebuilt(net, priced).net \in {0, net}
         /\ Rebuilt(net, priced).net = 0 => net = 0 \/ Owners(net) = {}
         /\ Rebuilt(net, priced).net # 0 /\ Rebuilt(net, priced).entry # NoPrice =>
              Rebuilt(net, priced).peak =
                IF Rebuilt(net, priced).net = view.net /\ Rebuilt(net, priced).entry = view.entry
                THEN view.peak ELSE NoPrice
<1>1. NoView \in Views /\ NoView.net = 0
  BY PolicyNumbers DEF NoView, Views, NoPrice
<1>2. EntryPrice(Ingested) \in Int
  <2>1. IsFiniteSet(Tickets)
    BY PolicyNumbers, FS_Interval DEF Tickets
  <2>2. \A o \in Tickets : Ingested[o] \in Int
    BY DEF Ingested, PolicyTypes, TicketStates
  <2>3. PICK e \in SUBSET Tickets : e = {o \in Tickets : ~intent[o].reduce}
    OBVIOUS
  <2>4. EntryPrice(Ingested) = WeightOf(Ingested, e)
    BY <2>3 DEF EntryPrice, WeightOf
  <2> QED
    BY <2>1, <2>2, <2>4, WeightType
<1>3. CASE net = 0 \/ Owners(net) = {}
  <2>1. Rebuilt(net, priced) = NoView
    BY <1>3 DEF Rebuilt
  <2> QED
    BY <1>1, <1>3, <2>1
<1>4. CASE net # 0 /\ Owners(net) # {}
  <2>1. PICK e \in Int : e = IF priced THEN EntryPrice(Ingested) ELSE NoPrice
    BY <1>2 DEF NoPrice
  <2>2. PICK k \in NoPrice .. MaxReturn :
          k = IF priced THEN (IF net = view.net /\ e = view.entry THEN view.peak ELSE NoPrice) ELSE NoPrice
    BY PolicyNumbers DEF PolicyTypes, Views, NoPrice
  <2>3. Rebuilt(net, priced) = [net |-> net, entry |-> e, peak |-> k]
    BY <1>4, <2>1, <2>2 DEF Rebuilt, CarriedPeak
  <2>4. e # NoPrice => priced
    BY <2>1
  <2> QED
    BY <1>4, <2>1, <2>2, <2>3, <2>4 DEF Views
<1> QED
  BY <1>3, <1>4

LEMMA FinishTickStep ==
  ASSUME PolicyInv, FinishTick
  PROVE  /\ PolicyInv' /\ stage = "fills" /\ stage' = "idle"
         /\ UNCHANGED <<intent, atVenue, netAtVenue, record, attempted, seenOrders, seenNet, soFarClean, starts>>
         /\ view'.net \in {view.net, 0, seenNet}
         /\ gateOpen' /\ ~onHold' /\ view'.net = 0 => seenNet = 0 /\ soFarClean /\ latest' = record
<1>0. PolicyTypes
  BY DEF PolicyInv
<1>1. /\ UNCHANGED <<intent, atVenue, netAtVenue, record, attempted, seenOrders, seenNet, soFarClean, starts>>
      /\ stage = "fills" /\ stage' = "idle" /\ starting' = FALSE /\ kept' = Ingested
  BY DEF FinishTick, lpVenue
<1>2. PICK priced \in BOOLEAN : priced = ViewClean(seenNet)
  BY DEF ViewClean
<1>3. PICK clean \in BOOLEAN : clean = (soFarClean /\ FillsClean /\ ViewClean(seenNet))
  OBVIOUS
<1>4. PICK v : v = Rebuilt(seenNet, priced)
  OBVIOUS
<1>5. seenNet \in Int
  BY <1>0 DEF PolicyTypes
<1>6. /\ v \in Views /\ v.net \in {0, seenNet}
      /\ v.net = 0 => seenNet = 0 \/ Owners(seenNet) = {}
      /\ v.net # 0 /\ v.entry # NoPrice =>
           v.peak = IF v.net = view.net /\ v.entry = view.entry THEN view.peak ELSE NoPrice
  BY <1>0, <1>4, <1>5, RebuiltIs
<1>7. PICK h \in BOOLEAN : h = (Held(seenNet) \/ ~soFarClean)
  OBVIOUS
<1>8. \/ /\ clean \/ starting
         /\ latest' = record /\ view' = v /\ onHold' = h /\ gateOpen' = clean
         /\ best' = IF v.net = view.net /\ v.entry = view.entry THEN best ELSE NoPrice
      \/ /\ ~starting /\ gateOpen' = FALSE /\ onHold' = (onHold \/ ~soFarClean)
         /\ UNCHANGED <<latest, view, best>>
  BY <1>2, <1>3, <1>4, <1>7 DEF FinishTick, Adopts
<1>9. kept' \in [Tickets -> Nat] /\ \A o \in Tickets : kept'[o] <= atVenue[o].filled
  BY <1>0, <1>1 DEF Ingested, PolicyTypes, TicketStates
<1>10. /\ latest' \in [Tickets -> TicketStates] /\ view' \in Views /\ best' \in Int
       /\ onHold' \in BOOLEAN /\ gateOpen' \in BOOLEAN
  <2>1. latest' \in [Tickets -> TicketStates] /\ view' \in Views /\ best' \in Int
    BY <1>0, <1>6, <1>8 DEF PolicyTypes, NoPrice
  <2>2. onHold' \in BOOLEAN
    BY <1>0, <1>7, <1>8 DEF PolicyTypes
  <2>3. gateOpen' \in BOOLEAN
    BY <1>0, <1>3, <1>8 DEF PolicyTypes
  <2> QED
    BY <2>1, <2>2, <2>3
<1>11. PolicyTypes'
  <2>1. starting' \in BOOLEAN /\ soFarClean' \in BOOLEAN /\ stage' \in {"idle", "orders", "fills"}
    BY <1>0, <1>1 DEF PolicyTypes
  <2> QED
    BY <1>0, <1>1, <1>9, <1>10, <2>1 DEF PolicyTypes
<1>12. PeakIsBest'
  <2>1. CASE view' = v /\ best' = IF v.net = view.net /\ v.entry = view.entry THEN best ELSE NoPrice
    <3>1. view.net # 0 /\ view.entry # NoPrice => view.peak = best
      BY DEF PolicyInv, PeakIsBest
    <3> QED
      BY <1>6, <2>1, <3>1 DEF PeakIsBest
  <2>2. CASE UNCHANGED <<view, best>>
    BY <2>2 DEF PeakIsBest, PolicyInv
  <2> QED
    BY <1>8, <2>1, <2>2
<1>13. ASSUME NEW o \in Tickets PROVE TicketInv(o)'
  <2>0. TicketInv(o)
    BY DEF PolicyInv
  <2>1. intent[o] = NoPlan => latest'[o] = Nowhere
    BY <1>8, <2>0 DEF TicketInv
  <2>2. Sent(o) => ~Over(latest'[o]) /\ (latest'[o] # Nowhere \/ attempted[intent[o].owner] = o)
    BY <1>8, <2>0 DEF TicketInv, AtRest
  <2> QED
    BY <1>1, <1>9, <2>0, <2>1, <2>2 DEF TicketInv, Sent
<1>14. gateOpen' /\ ~onHold' /\ view'.net = 0 => seenNet = 0 /\ soFarClean /\ latest' = record
  <2> SUFFICES ASSUME gateOpen', ~onHold', view'.net = 0
               PROVE  seenNet = 0 /\ soFarClean /\ latest' = record
    OBVIOUS
  <2>1. latest' = record /\ view' = v /\ ~h
    BY <1>8
  <2>2. soFarClean /\ ~Held(seenNet)
    BY <1>7, <2>1
  <2>3. seenNet = 0 \/ Owners(seenNet) # {}
    BY <2>2 DEF Held
  <2> QED
    BY <1>6, <2>1, <2>2, <2>3
<1>15. view'.net \in {view.net, 0, seenNet}
  BY <1>6, <1>8
<1> QED
  BY <1>1, <1>11, <1>12, <1>13, <1>14, <1>15 DEF PolicyInv

LEMMA RestartStep ==
  ASSUME PolicyInv, RestartDaemon
  PROVE  /\ PolicyInv' /\ UNCHANGED <<intent, atVenue, netAtVenue, record, kept>>
         /\ view'.net = 0 /\ seenNet' = 0 /\ starting' = TRUE /\ stage' = "idle"
<1>0. PolicyTypes
  BY DEF PolicyInv
<1>1. /\ UNCHANGED <<intent, atVenue, netAtVenue, record, kept>>
      /\ latest' = [o \in Tickets |-> Nowhere] /\ seenOrders' = [o \in Tickets |-> Nowhere]
      /\ attempted' = [p \in PolicyIds |-> NoTicket]
      /\ view' = NoView /\ best' = NoPrice /\ seenNet' = 0 /\ stage' = "idle"
      /\ onHold' = FALSE /\ gateOpen' = FALSE /\ soFarClean' = FALSE /\ starting' = TRUE
  BY DEF RestartDaemon, lpVenue, lpStore
<1>2. view' \in Views /\ view'.net = 0
  BY <1>1, PolicyNumbers DEF NoView, Views, NoPrice
<1>3. PolicyTypes'
  <2>1. latest' \in [Tickets -> TicketStates] /\ seenOrders' \in [Tickets -> TicketStates]
    BY <1>1, NowhereIs
  <2>2. attempted' \in [PolicyIds -> {NoTicket} \cup Tickets] /\ best' \in Int /\ seenNet' \in Int
    BY <1>1 DEF NoPrice
  <2>3. onHold' \in BOOLEAN /\ gateOpen' \in BOOLEAN /\ soFarClean' \in BOOLEAN /\ starting' \in BOOLEAN
    BY <1>1
  <2> QED
    BY <1>0, <1>1, <1>2, <2>1, <2>2, <2>3 DEF PolicyTypes
<1>4. PeakIsBest'
  BY <1>2 DEF PeakIsBest
<1>5. ASSUME NEW o \in Tickets PROVE TicketInv(o)'
  <2>0. TicketInv(o)
    BY DEF PolicyInv
  <2>1. latest'[o] = Nowhere /\ starting' /\ stage' # "orders"
    BY <1>1
  <2> QED
    BY <1>1, <2>0, <2>1 DEF TicketInv, Sent
<1> QED
  BY <1>1, <1>2, <1>3, <1>4, <1>5 DEF PolicyInv

LEMMA PolicyStutter == ASSUME PolicyInv, UNCHANGED lpVars PROVE PolicyInv'
<1>1. UNCHANGED <<intent, atVenue, netAtVenue, record, kept, latest, attempted, view, onHold, gateOpen, best,
                  stage, seenOrders, seenNet, soFarClean, starting, starts>>
  BY DEF lpVars, lpVenue, lpStore, lpMemory, lpTick
<1>2. PolicyTypes' /\ PeakIsBest'
  BY <1>1 DEF PolicyInv, PolicyTypes, PeakIsBest
<1>3. \A o \in Tickets : TicketInv(o)'
  BY <1>1, TicketKept DEF PolicyInv
<1> QED
  BY <1>2, <1>3 DEF PolicyInv

LEMMA PolicyInvStep == PolicyInv /\ [LPNext]_lpVars => PolicyInv'
<1> SUFFICES ASSUME PolicyInv, [LPNext]_lpVars PROVE PolicyInv'
  OBVIOUS
<1>1. CASE \E o \in Tickets : Trades(o) \/ VenueCancels(o) \/ SettleOrder(o)
  BY <1>1, TradesStep, VenueCancelsStep, SettleStep
<1>2. CASE \E p \in PolicyIds, o \in Tickets : Decide(p, o)
  BY <1>2, DecideStep
<1>3. CASE \E r \in 0 .. MaxReturn : Mark(r)
  BY <1>3, MarkStep
<1>4. CASE ReadOrders \/ ReadPositions \/ FinishTick \/ RestartDaemon
  BY <1>4, ReadOrdersStep, ReadPositionsStep, FinishTickStep, RestartStep
<1>5. CASE UNCHANGED lpVars
  BY <1>5, PolicyStutter
<1> QED
  BY <1>1, <1>2, <1>3, <1>4, <1>5 DEF LPNext

LEMMA PolicyInvHolds == LPSpec => []PolicyInv
<1>1. LPInit => PolicyInv
  BY PolicyInvInit
<1>2. PolicyInv /\ [LPNext]_lpVars => PolicyInv'
  BY PolicyInvStep
<1> QED
  BY <1>1, <1>2, PTL DEF LPSpec

LEMMA SentMeansBusy ==
  ASSUME PolicyInv, ~starting, NEW o \in Tickets, Sent(o)
  PROVE  intent[o].owner \in PolicyIds /\ Busy(intent[o].owner)
<1>1. TicketInv(o) /\ PolicyTypes
  BY DEF PolicyInv
<1>2. intent[o] # NoPlan /\ intent[o].owner \in PolicyIds
  BY <1>1, NowhereIs DEF TicketInv, Sent
<1>3. o \in OwnedBy(intent[o].owner)
  BY DEF OwnedBy
<1>4. o # NoTicket
  BY PolicyNumbers
<1>5. ~Over(latest[o]) /\ (latest[o] # Nowhere \/ attempted[intent[o].owner] = o)
  BY <1>1 DEF TicketInv
<1> QED
  BY <1>2, <1>3, <1>4, <1>5 DEF Busy

LEMMA PolicyInvMeans == PolicyInv => UnlockedMeansOver /\ PeakIsBest
<1> SUFFICES ASSUME PolicyInv PROVE UnlockedMeansOver /\ PeakIsBest
  OBVIOUS
<1>1. ASSUME ~starting, NEW p \in PolicyIds, NEW o \in OwnedBy(p), Sent(o) PROVE Busy(p)
  <2>1. o \in Tickets /\ intent[o].owner = p
    BY DEF OwnedBy
  <2> QED
    BY <1>1, <2>1, SentMeansBusy
<1>2. UnlockedMeansOver
  BY <1>1 DEF UnlockedMeansOver
<1> QED
  BY <1>2 DEF PolicyInv

\* Whatever policies trade the instrument: a policy is unlocked only when none of its
\* orders can trade any more (policy_order_busy, live_daemon.rs), and no tick makes the
\* position view forget the best return since the position changed.
THEOREM UnlockedPolicyIsIdle == LPSpec => [](UnlockedMeansOver /\ PeakIsBest)
  BY PolicyInvHolds, PolicyInvMeans, PTL

-----------------------------------------------------------------------------
(* The only policy of an instrument *)

\* What an order adds to the position.
HeldBy == [o \in Tickets |-> intent[o].dir * atVenue[o].filled]

Within(n) == n \in Int /\ -PolicyQty <= n /\ n <= PolicyQty

\* An entry has the size of the policy, and while it can trade the position is its own.
EntryInv(o) ==
  /\ intent[o].size <= PolicyQty
  /\ intent[o] # NoPlan /\ ~intent[o].reduce => intent[o].size = PolicyQty
  /\ Sent(o) /\ ~intent[o].reduce => netAtVenue = intent[o].dir * atVenue[o].filled

\* A tick that found nothing able to trade has read the position that still stands.
ReadStands ==
  stage = "fills" /\ soFarClean /\ (\A o \in Tickets : AtRest(record[o])) => netAtVenue = seenNet

\* An unlocked policy that may enter is flat at the venue.
EntryFlat(p) == ~starting /\ gateOpen /\ ~onHold /\ view.net = 0 /\ ~Busy(p) => netAtVenue = 0

OneInv(p) ==
  /\ PolicyInv /\ \A o, u \in Tickets : Sent(o) /\ Sent(u) => o = u
  /\ \A o \in Tickets : EntryInv(o)
  /\ Within(netAtVenue) /\ Within(seenNet) /\ Within(view.net)
  /\ ReadStands /\ EntryFlat(p) /\ WeightOf(HeldBy, OwnedBy(p)) = netAtVenue

LEMMA TicketsFinite ==
  ASSUME NEW p PROVE IsFiniteSet(Tickets) /\ OwnedBy(p) \in SUBSET Tickets /\ IsFiniteSet(OwnedBy(p))
<1>1. IsFiniteSet(Tickets) /\ OwnedBy(p) \in SUBSET Tickets
  BY PolicyNumbers, FS_Interval DEF Tickets, OwnedBy
<1> QED
  BY <1>1, FS_Subset

LEMMA HeldByInt == ASSUME PolicyTypes PROVE \A o \in Tickets : HeldBy[o] \in Int
<1>1. ASSUME NEW a \in {-1, 0, 1}, NEW b \in Nat PROVE a * b \in Int
  OBVIOUS
<1>2. ASSUME NEW o \in Tickets PROVE intent[o].dir \in {-1, 0, 1} /\ atVenue[o].filled \in Nat
  BY DEF PolicyTypes, PlanSet, TicketStates
<1> QED
  BY <1>1, <1>2 DEF HeldBy

\* The net fills of a policy, as a sum of weights.
LEMMA OwnNetIsWeight == ASSUME NEW p PROVE OwnNet(p) = WeightOf(HeldBy, OwnedBy(p))
<1> DEFINE S == OwnedBy(p)
           q == [o \in Tickets |-> atVenue[o].filled]
           Counts(g) == g = [s \in SUBSET S |->
                         IF s = {} THEN 0 ELSE intent[Pick(s)].dir * q[Pick(s)] + g[s \ {Pick(s)}]]
<1>1. OwnNet(p) = (CHOOSE g : Counts(g))[S]
  BY Zenon DEF OwnNet, Signed, MapThenSumSet, MapThenFoldSet, Pick
<1>2. ASSUME NEW g PROVE Counts(g) <=> Adds(g, HeldBy, S)
  <2>1. \A s \in SUBSET S : s # {} => HeldBy[Pick(s)] = intent[Pick(s)].dir * q[Pick(s)]
    BY PickIn DEF HeldBy, OwnedBy
  <2>2. [s \in SUBSET S |-> IF s = {} THEN 0 ELSE intent[Pick(s)].dir * q[Pick(s)] + g[s \ {Pick(s)}]]
          = [s \in SUBSET S |-> IF s = {} THEN 0 ELSE HeldBy[Pick(s)] + g[s \ {Pick(s)}]]
    BY <2>1
  <2> QED
    BY <2>2 DEF Adds
<1> HIDE DEF Counts
<1>3. (CHOOSE g : Counts(g)) = (CHOOSE g : Adds(g, HeldBy, S))
  BY <1>2, Zenon
<1> QED
  BY <1>1, <1>3, WeightIsFold

LEMMA OneInvInit == ASSUME NEW p \in PolicyIds PROVE LPInit => OneInv(p)
<1> SUFFICES ASSUME LPInit PROVE OneInv(p)
  OBVIOUS
<1>1. PolicyInv
  BY PolicyInvInit
<1>2. ASSUME NEW o \in Tickets
      PROVE  intent[o] = NoPlan /\ NoPlan.size = 0 /\ NoPlan.owner = NoTicket /\ ~Sent(o)
  BY NowhereIs DEF LPInit, NoPlan, Sent
<1>3. netAtVenue = 0 /\ seenNet = 0 /\ view.net = 0 /\ starting /\ stage = "idle"
  BY DEF LPInit, NoView
<1>4. Within(netAtVenue) /\ Within(seenNet) /\ Within(view.net)
  BY <1>3, PolicyNumbers DEF Within
<1>5. OwnedBy(p) = {}
  BY <1>2, PolicyNumbers DEF OwnedBy
<1>6. WeightOf(HeldBy, OwnedBy(p)) = 0
  BY <1>5, TicketsFinite, WeightUnfolds
<1>7. ASSUME NEW o \in Tickets PROVE EntryInv(o)
  <2>1. intent[o] = NoPlan /\ intent[o].size = 0 /\ ~Sent(o)
    BY <1>2
  <2>2. 0 <= PolicyQty
    BY PolicyNumbers
  <2> QED
    BY <2>1, <2>2 DEF EntryInv
<1>8. ReadStands /\ EntryFlat(p)
  BY <1>3 DEF ReadStands, EntryFlat
<1> QED
  BY <1>1, <1>2, <1>3, <1>4, <1>6, <1>7, <1>8 DEF OneInv

\* A step that moves no position keeps the sums and the sizes.
LEMMA OneKept ==
  ASSUME NEW p \in PolicyIds, OneInv(p), PolicyInv', UNCHANGED <<intent, netAtVenue>>,
         \A u \in Tickets : (Sent(u)' => Sent(u)) /\ atVenue'[u].filled = atVenue[u].filled,
         Within(seenNet'), Within(view'.net), ReadStands', EntryFlat(p)'
  PROVE  OneInv(p)'
<1>1. \A o, u \in Tickets : Sent(o)' /\ Sent(u)' => o = u
  BY DEF OneInv
<1>2. \A o \in Tickets : EntryInv(o)'
  BY DEF OneInv, EntryInv
<1>3. HeldBy' = HeldBy /\ OwnedBy(p)' = OwnedBy(p)
  BY DEF HeldBy, OwnedBy
<1>4. WeightOf(HeldBy, OwnedBy(p))' = netAtVenue'
  BY <1>3 DEF OneInv
<1> QED
  BY <1>1, <1>2, <1>4 DEF OneInv

LEMMA BusyKept ==
  ASSUME NEW p, UNCHANGED <<intent, latest, attempted>> PROVE Busy(p)' = Busy(p)
  BY DEF Busy, OwnedBy

LEMMA OnePassive ==
  ASSUME NEW p \in PolicyIds, OneInv(p),
         \/ \E o \in Tickets : VenueCancels(o) \/ SettleOrder(o)
         \/ \E r \in 0 .. MaxReturn : Mark(r)
         \/ ReadOrders \/ ReadPositions \/ RestartDaemon
  PROVE  OneInv(p)'
<1>0. PolicyInv /\ Within(netAtVenue) /\ Within(seenNet) /\ Within(view.net) /\ ReadStands /\ EntryFlat(p)
  BY DEF OneInv
<1>w. Within(0)
  BY PolicyNumbers DEF Within
<1>1. ASSUME NEW o \in Tickets, VenueCancels(o) PROVE OneInv(p)'
  <2>1. /\ PolicyInv' /\ UNCHANGED <<intent, netAtVenue, record, latest, attempted, view, onHold, gateOpen,
                                     stage, seenNet, soFarClean, starting>>
        /\ \A u \in Tickets : (Sent(u)' => Sent(u)) /\ atVenue'[u].filled = atVenue[u].filled
    BY <1>0, <1>1, VenueCancelsStep
  <2>2. ReadStands' /\ EntryFlat(p)'
    BY <1>0, <2>1, BusyKept DEF ReadStands, EntryFlat, AtRest, Over
  <2> QED
    BY <1>0, <2>1, <2>2, OneKept
<1>2. ASSUME NEW o \in Tickets, SettleOrder(o) PROVE OneInv(p)'
  <2>1. /\ PolicyInv' /\ UNCHANGED <<intent, atVenue, netAtVenue, latest, attempted, view, onHold, gateOpen,
                                     stage, seenNet, starting>>
        /\ stage = "idle"
    BY <1>0, <1>2, SettleStep
  <2>2. ReadStands' /\ EntryFlat(p)'
    BY <1>0, <2>1, BusyKept DEF ReadStands, EntryFlat
  <2> QED
    BY <1>0, <2>1, <2>2, OneKept DEF Sent
<1>3. ASSUME NEW r \in 0 .. MaxReturn, Mark(r) PROVE OneInv(p)'
  <2>1. /\ PolicyInv' /\ UNCHANGED <<intent, atVenue, netAtVenue, latest, attempted, onHold, gateOpen,
                                     stage, seenNet, starting>>
        /\ stage = "idle" /\ view'.net = view.net
    BY <1>0, <1>3, MarkStep
  <2>2. ReadStands' /\ EntryFlat(p)'
    BY <1>0, <2>1, BusyKept DEF ReadStands, EntryFlat
  <2> QED
    BY <1>0, <2>1, <2>2, OneKept DEF Sent
<1>4. ASSUME ReadOrders PROVE OneInv(p)'
  <2>1. /\ PolicyInv' /\ UNCHANGED <<intent, atVenue, netAtVenue, latest, attempted, view, onHold, gateOpen,
                                     seenNet, starting>>
        /\ stage' = "fills" => ~soFarClean'
    BY <1>0, <1>4, ReadOrdersStep
  <2>2. ReadStands' /\ EntryFlat(p)'
    BY <1>0, <2>1, BusyKept DEF ReadStands, EntryFlat
  <2> QED
    BY <1>0, <2>1, <2>2, OneKept DEF Sent
<1>5. ASSUME ReadPositions PROVE OneInv(p)'
  <2>1. /\ PolicyInv' /\ UNCHANGED <<intent, atVenue, netAtVenue, latest, attempted, view, onHold, gateOpen,
                                     starting>>
        /\ seenNet' = netAtVenue
    BY <1>0, <1>5, ReadPositionsStep
  <2>2. ReadStands' /\ EntryFlat(p)'
    BY <1>0, <2>1, BusyKept DEF ReadStands, EntryFlat
  <2> QED
    BY <1>0, <2>1, <2>2, OneKept DEF Sent
<1>6. ASSUME RestartDaemon PROVE OneInv(p)'
  <2>1. /\ PolicyInv' /\ UNCHANGED <<intent, atVenue, netAtVenue>>
        /\ view'.net = 0 /\ seenNet' = 0 /\ starting' = TRUE /\ stage' = "idle"
    BY <1>0, <1>6, RestartStep
  <2>2. ReadStands' /\ EntryFlat(p)'
    BY <1>0, <2>1 DEF ReadStands, EntryFlat
  <2> QED
    BY <1>0, <1>w, <2>1, <2>2, OneKept DEF Sent
<1> QED
  BY <1>1, <1>2, <1>3, <1>4, <1>5, <1>6

\* The only policy is locked while any order can trade, so nothing trades once it is not.
LEMMA LoneLock ==
  ASSUME NEW p, PolicyIds = {p}, PolicyInv, ~starting, ~Busy(p) PROVE \A o \in Tickets : ~Sent(o)
  BY SentMeansBusy

\* A clean tick that opens the gate on a flat view has read a position that stands.
LEMMA OneFinish ==
  ASSUME NEW p, PolicyIds = {p}, OneInv(p), FinishTick PROVE OneInv(p)'
<1>0. /\ PolicyInv /\ Within(netAtVenue) /\ Within(seenNet) /\ Within(view.net) /\ ReadStands
      /\ p \in PolicyIds
  BY DEF OneInv
<1>w. Within(0)
  BY PolicyNumbers DEF Within
<1>1. /\ PolicyInv' /\ stage = "fills" /\ stage' = "idle"
      /\ UNCHANGED <<intent, atVenue, netAtVenue, record, attempted, seenOrders, seenNet, soFarClean, starts>>
      /\ view'.net \in {view.net, 0, seenNet}
      /\ gateOpen' /\ ~onHold' /\ view'.net = 0 => seenNet = 0 /\ soFarClean /\ latest' = record
  BY <1>0, FinishTickStep
<1>2. EntryFlat(p)'
  <2> SUFFICES ASSUME gateOpen', ~onHold', view'.net = 0, ~Busy(p)' PROVE netAtVenue' = 0
    BY DEF EntryFlat
  <2>1. seenNet = 0 /\ soFarClean /\ latest' = record
    BY <1>1
  <2>2. ASSUME NEW o \in Tickets PROVE AtRest(record[o])
    <3>1. TicketInv(o)
      BY <1>0 DEF PolicyInv
    <3>2. CASE intent[o] = NoPlan
      BY <3>1, <3>2 DEF TicketInv, AtRest
    <3>3. CASE intent[o] # NoPlan
      <4>1. o \in OwnedBy(p)'
        BY <1>1, <3>1, <3>3 DEF OwnedBy, TicketInv
      <4>2. latest'[o] = Nowhere \/ Over(latest'[o])
        BY <4>1 DEF Busy, Over
      <4> QED
        BY <2>1, <4>2 DEF AtRest
    <3> QED
      BY <3>2, <3>3
  <2>3. netAtVenue = seenNet
    BY <1>0, <1>1, <2>1, <2>2 DEF ReadStands
  <2> QED
    BY <1>1, <2>1, <2>3
<1>3. ReadStands'
  BY <1>1 DEF ReadStands
<1>4. Within(seenNet') /\ Within(view'.net)
  <2>1. view'.net = view.net \/ view'.net = 0 \/ view'.net = seenNet
    BY <1>1
  <2> QED
    BY <1>0, <1>1, <1>w, <2>1
<1>5. \A u \in Tickets : (Sent(u)' => Sent(u)) /\ atVenue'[u].filled = atVenue[u].filled
  BY <1>1 DEF Sent
<1> QED
  BY <1>0, <1>1, <1>2, <1>3, <1>4, <1>5, OneKept

\* One contract more, and where the position goes.
LEMMA OneMore ==
  ASSUME NEW d \in {1, -1}, NEW f \in Nat, NEW n \in Int
  PROVE  /\ d * (f + 1) = d * f + d /\ d * f \in Int /\ d * (f + 1) \in Int
         /\ f + 1 <= PolicyQty => Within(d * (f + 1))
         /\ Within(n) /\ d * n < 0 => Within(n + d)
  BY PolicyNumbers DEF Within

LEMMA OneTrades ==
  ASSUME NEW p, PolicyIds = {p}, OneInv(p), NEW o \in Tickets, Trades(o) PROVE OneInv(p)'
<1>0. /\ PolicyInv /\ PolicyTypes /\ TicketInv(o) /\ EntryInv(o) /\ p \in PolicyIds
      /\ Within(netAtVenue) /\ Within(seenNet) /\ Within(view.net) /\ ReadStands /\ EntryFlat(p)
      /\ \A a, b \in Tickets : Sent(a) /\ Sent(b) => a = b
      /\ WeightOf(HeldBy, OwnedBy(p)) = netAtVenue
  BY DEF OneInv, PolicyInv
<1>1. /\ PolicyInv' /\ Sent(o) /\ netAtVenue' = netAtVenue + intent[o].dir
      /\ UNCHANGED <<intent, record, kept, latest, attempted, view, onHold, gateOpen, best, stage,
                     seenOrders, seenNet, soFarClean, starting, starts>>
      /\ atVenue'[o].filled = atVenue[o].filled + 1 /\ atVenue'[o].filled <= intent[o].size
      /\ \A u \in Tickets : u # o => atVenue'[u] = atVenue[u]
      /\ \A u \in Tickets : Sent(u)' => Sent(u)
  BY <1>0, TradesStep
<1>2. intent[o].reduce => intent[o].dir * netAtVenue < 0
  BY DEF Trades, MayTrade
<1>3. PICK d, f, n : d = intent[o].dir /\ f = atVenue[o].filled /\ n = netAtVenue
  OBVIOUS
<1>4. intent[o] # NoPlan /\ intent[o].owner = p /\ d \in {1, -1} /\ ~AtRest(record[o])
  BY <1>0, <1>1, <1>3, NowhereIs DEF TicketInv, Sent
<1>5. f \in Nat /\ n \in Int /\ intent[o].size \in Nat
  BY <1>0, <1>3 DEF PolicyTypes, TicketStates, PlanSet
<1>6. /\ d * (f + 1) = d * f + d /\ d * f \in Int /\ d * (f + 1) \in Int
      /\ f + 1 <= PolicyQty => Within(d * (f + 1))
      /\ Within(n) /\ d * n < 0 => Within(n + d)
  BY <1>4, <1>5, OneMore
<1>7. netAtVenue' = n + d /\ atVenue'[o].filled = f + 1 /\ intent'[o] = intent[o]
  BY <1>1, <1>3
<1>8. ~intent[o].reduce => n = d * f /\ n + d = d * (f + 1)
  BY <1>0, <1>1, <1>3, <1>6 DEF EntryInv
<1>9. Within(netAtVenue')
  <2>1. CASE intent[o].reduce
    BY <1>0, <1>2, <1>3, <1>6, <1>7, <2>1
  <2>2. CASE ~intent[o].reduce
    <3>1. f + 1 <= PolicyQty
      BY <1>0, <1>1, <1>4, <1>7, <2>2 DEF EntryInv
    <3> QED
      BY <1>6, <1>7, <1>8, <2>2, <3>1
  <2> QED
    BY <1>0, <2>1, <2>2 DEF PolicyTypes, PlanSet
<1>10. ASSUME NEW u \in Tickets PROVE EntryInv(u)'
  <2>1. EntryInv(u)
    BY DEF OneInv
  <2>2. CASE u = o
    BY <1>1, <1>3, <1>7, <1>8, <2>1, <2>2 DEF EntryInv
  <2>3. CASE u # o
    <3>1. ~Sent(u)'
      BY <1>0, <1>1, <2>3
    <3> QED
      BY <1>1, <2>1, <3>1 DEF EntryInv
  <2> QED
    BY <2>2, <2>3
<1>11. ReadStands'
  BY <1>0, <1>1, <1>4 DEF ReadStands, AtRest, Over
<1>12. EntryFlat(p)'
  BY <1>0, <1>1, LoneLock, BusyKept DEF EntryFlat
<1>13. WeightOf(HeldBy, OwnedBy(p))' = netAtVenue'
  <2>1. OwnedBy(p)' = OwnedBy(p) /\ o \in OwnedBy(p) /\ OwnedBy(p) \in SUBSET Tickets
    BY <1>1, <1>4 DEF OwnedBy
  <2>2. PICK w, v : w = HeldBy /\ v = HeldBy'
    OBVIOUS
  <2>3. \A y \in OwnedBy(p) : w[y] \in Int /\ v[y] \in Int
    <3>1. \A y \in Tickets : w[y] \in Int
      BY <1>0, <2>2, HeldByInt
    <3>2. \A y \in Tickets : v[y] \in Int
      <4>1. PolicyTypes'
        BY <1>1 DEF PolicyInv
      <4>2. ASSUME NEW y \in Tickets PROVE intent'[y].dir * atVenue'[y].filled \in Int
        <5>1. intent'[y].dir \in {-1, 0, 1} /\ atVenue'[y].filled \in Nat
          BY <4>1 DEF PolicyTypes, PlanSet, TicketStates
        <5> QED
          BY <5>1
      <4> QED
        BY <2>2, <4>2 DEF HeldBy
    <3> QED
      BY <2>1, <3>1, <3>2
  <2>4. \A y \in OwnedBy(p) : y # o => w[y] = v[y]
    BY <1>1, <2>1, <2>2 DEF HeldBy
  <2>5. w[o] = d * f /\ v[o] = d * (f + 1)
    BY <1>3, <1>7, <2>2 DEF HeldBy
  <2>6. WeightOf(v, OwnedBy(p)) = WeightOf(w, OwnedBy(p)) + (v[o] - w[o])
    BY <2>1, <2>3, <2>4, TicketsFinite, WeightChange
  <2>7. v[o] - w[o] = d
    BY <1>4, <1>6, <2>5
  <2>8. WeightOf(v, OwnedBy(p)) = n + d
    BY <1>0, <1>3, <2>2, <2>6, <2>7
  <2> QED
    BY <1>7, <2>1, <2>2, <2>8
<1>14. \A a, b \in Tickets : Sent(a)' /\ Sent(b)' => a = b
  BY <1>0, <1>1
<1>15. Within(seenNet)' /\ Within(view.net)'
  BY <1>0, <1>1
<1> QED
  BY <1>1, <1>9, <1>10, <1>11, <1>12, <1>13, <1>14, <1>15 DEF OneInv

LEMMA OneDecide ==
  ASSUME NEW p, PolicyIds = {p}, OneInv(p), NEW o \in Tickets, Decide(p, o) PROVE OneInv(p)'
<1>0. /\ PolicyInv /\ PolicyTypes /\ TicketInv(o) /\ p \in PolicyIds
      /\ Within(netAtVenue) /\ Within(seenNet) /\ Within(view.net) /\ EntryFlat(p)
      /\ WeightOf(HeldBy, OwnedBy(p)) = netAtVenue
  BY DEF OneInv, PolicyInv
<1>1. /\ PolicyInv' /\ stage = "idle" /\ ~starting /\ ~Busy(p)
      /\ UNCHANGED <<netAtVenue, kept, latest, view, onHold, gateOpen, best, stage, seenOrders, seenNet,
                     soFarClean, starting, starts>>
      /\ intent[o] = NoPlan /\ intent'[o] \in Plans(p)
      /\ \A u \in Tickets : u # o =>
           intent'[u] = intent[u] /\ atVenue'[u] = atVenue[u] /\ record'[u] = record[u]
      /\ atVenue'[o].filled = 0 /\ attempted'[p] = o
  BY <1>0, DecideStep
<1>2. \A u \in Tickets : Sent(u)' => u = o
  BY <1>0, <1>1, LoneLock DEF Sent
<1>3. /\ intent'[o].owner = p /\ intent'[o].dir \in {1, -1} /\ intent'[o].size <= PolicyQty
      /\ ~intent'[o].reduce => intent'[o].size = PolicyQty /\ netAtVenue = 0
  <2>1. CASE view.net # 0
    <3>1. intent'[o] = ExitPlan(p)
      BY <1>1, <2>1 DEF Plans
    <3>2. Abs(view.net) <= PolicyQty
      BY <1>0, PolicyNumbers DEF Abs, Within
    <3> QED
      BY <3>1, <3>2 DEF ExitPlan
  <2>2. CASE view.net = 0
    <3>1. gateOpen /\ ~onHold
      BY <1>1, <2>2 DEF Plans
    <3>2. PICK side \in {1, -1} : intent'[o] = EntryPlan(p, side)
      BY <1>1, <2>2 DEF Plans, EntrySides
    <3>3. netAtVenue = 0
      BY <1>0, <1>1, <2>2, <3>1 DEF EntryFlat
    <3> QED
      BY <3>2, <3>3, PolicyNumbers DEF EntryPlan
  <2> QED
    BY <2>1, <2>2
<1>4. ASSUME NEW u \in Tickets PROVE EntryInv(u)'
  <2>1. EntryInv(u)
    BY DEF OneInv
  <2>2. CASE u = o
    <3>1. intent'[o].dir * atVenue'[o].filled = 0
      BY <1>1, <1>3
    <3> QED
      BY <1>1, <1>3, <2>2, <3>1 DEF EntryInv
  <2>3. CASE u # o
    BY <1>1, <1>2, <2>1, <2>3 DEF EntryInv
  <2> QED
    BY <2>2, <2>3
<1>5. ReadStands'
  BY <1>1 DEF ReadStands
<1>6. EntryFlat(p)'
  <2>1. latest'[o] = Nowhere /\ o # NoTicket
    BY <1>0, <1>1, PolicyNumbers DEF TicketInv
  <2>2. Busy(p)'
    BY <1>1, <2>1, NowhereIs DEF Busy, Over
  <2> QED
    BY <2>2 DEF EntryFlat
<1>7. WeightOf(HeldBy, OwnedBy(p))' = netAtVenue'
  <2>1. o \notin OwnedBy(p) /\ OwnedBy(p)' = OwnedBy(p) \cup {o} /\ OwnedBy(p) \in SUBSET Tickets
    <3>1. intent[o].owner # p
      BY <1>1, PolicyNumbers DEF NoPlan
    <3> QED
      BY <1>1, <1>3, <3>1 DEF OwnedBy
  <2>2. PICK w, v : w = HeldBy /\ v = HeldBy'
    OBVIOUS
  <2>3. \A y \in Tickets : v[y] \in Int
    <3>1. PolicyTypes'
      BY <1>1 DEF PolicyInv
    <3>2. ASSUME NEW y \in Tickets PROVE intent'[y].dir * atVenue'[y].filled \in Int
      <4>1. intent'[y].dir \in {-1, 0, 1} /\ atVenue'[y].filled \in Nat
        BY <3>1 DEF PolicyTypes, PlanSet, TicketStates
      <4> QED
        BY <4>1
    <3> QED
      BY <2>2, <3>2 DEF HeldBy
  <2>4. \A y \in OwnedBy(p) : v[y] = w[y]
    BY <1>1, <2>1, <2>2 DEF HeldBy
  <2>5. v[o] = 0
    BY <1>1, <1>3, <2>2 DEF HeldBy
  <2>6. WeightOf(v, OwnedBy(p) \cup {o}) = WeightOf(v, OwnedBy(p)) + v[o]
    BY <2>1, <2>3, TicketsFinite, WeightAdd
  <2>7. WeightOf(v, OwnedBy(p)) = WeightOf(w, OwnedBy(p))
    BY <2>4, WeightSame
  <2>8. WeightOf(v, OwnedBy(p) \cup {o}) = netAtVenue
    BY <1>0, <2>2, <2>5, <2>6, <2>7 DEF PolicyTypes
  <2> QED
    BY <1>1, <2>1, <2>2, <2>8
<1>8. \A a, b \in Tickets : Sent(a)' /\ Sent(b)' => a = b
  BY <1>2
<1>9. Within(netAtVenue)' /\ Within(seenNet)' /\ Within(view.net)'
  BY <1>0, <1>1
<1> QED
  BY <1>1, <1>4, <1>5, <1>6, <1>7, <1>8, <1>9 DEF OneInv

LEMMA OneInvStep ==
  ASSUME NEW p, PolicyIds = {p} PROVE OneInv(p) /\ [LPNext]_lpVars => OneInv(p)'
<1> SUFFICES ASSUME OneInv(p), [LPNext]_lpVars PROVE OneInv(p)'
  OBVIOUS
<1>1. CASE \E o \in Tickets : Trades(o)
  BY <1>1, OneTrades
<1>2. CASE \/ \E o \in Tickets : VenueCancels(o) \/ SettleOrder(o)
           \/ \E r \in 0 .. MaxReturn : Mark(r)
           \/ ReadOrders \/ ReadPositions \/ RestartDaemon
  BY <1>2, OnePassive
<1>3. CASE \E k \in PolicyIds, o \in Tickets : Decide(k, o)
  BY <1>3, OneDecide
<1>4. CASE FinishTick
  BY <1>4, OneFinish
<1>5. CASE UNCHANGED lpVars
  <2>1. UNCHANGED <<intent, atVenue, netAtVenue, record, latest, attempted, view, onHold, gateOpen,
                    stage, seenNet, soFarClean, starting>>
    BY <1>5 DEF lpVars, lpVenue, lpStore, lpMemory, lpTick
  <2>2. PolicyInv' /\ ReadStands' /\ EntryFlat(p)'
    BY <1>5, <2>1, PolicyStutter, BusyKept DEF OneInv, ReadStands, EntryFlat, AtRest, Over
  <2>3. \A u \in Tickets : (Sent(u)' => Sent(u)) /\ atVenue'[u].filled = atVenue[u].filled
    BY <2>1 DEF Sent
  <2>4. Within(seenNet') /\ Within(view'.net)
    BY <2>1 DEF OneInv
  <2> QED
    BY <2>1, <2>2, <2>3, <2>4, OneKept
<1> QED
  BY <1>1, <1>2, <1>3, <1>4, <1>5 DEF LPNext

LEMMA OneInvMeans == ASSUME NEW p, PolicyIds = {p} PROVE OneInv(p) => LivePolicySafety
<1> SUFFICES ASSUME OneInv(p) PROVE LivePolicySafety
  OBVIOUS
<1>0. /\ PolicyInv /\ PolicyTypes /\ Within(netAtVenue) /\ EntryFlat(p)
      /\ OwnNet(p) = netAtVenue
  BY OwnNetIsWeight DEF OneInv, PolicyInv
<1>1. LPTypeOK
  <2>1. ASSUME NEW o \in Tickets
        PROVE  /\ intent[o].size \in 0 .. PolicyQty /\ intent[o].dir \in {-1, 0, 1}
               /\ atVenue[o].filled \in 0 .. intent[o].size
               /\ record[o].filled \in 0 .. intent[o].size /\ kept[o] \in 0 .. intent[o].size
    <3>1. /\ intent[o].size \in Nat /\ intent[o].dir \in {-1, 0, 1} /\ atVenue[o].filled \in Nat
          /\ record[o].filled \in Nat /\ kept[o] \in Nat
      BY <1>0 DEF PolicyTypes, PlanSet, TicketStates
    <3>2. /\ intent[o].size <= PolicyQty /\ record[o].filled <= atVenue[o].filled
          /\ atVenue[o].filled <= intent[o].size /\ kept[o] <= atVenue[o].filled
      BY DEF OneInv, PolicyInv, EntryInv, TicketInv
    <3> QED
      BY <3>1, <3>2, PolicyNumbers
  <2> QED
    BY <1>0, <2>1 DEF LPTypeOK, PolicyTypes, Views
<1>2. UnlockedMeansOver /\ PeakIsBest
  BY <1>0, PolicyInvMeans
<1>3. EntersFromFlat
  BY <1>0 DEF EntersFromFlat, EntryFlat
<1>4. OwnExposureBounded
  BY <1>0, PolicyNumbers DEF OwnExposureBounded, Abs, Within
<1> QED
  BY <1>1, <1>2, <1>3, <1>4 DEF LivePolicySafety

\* The only policy of an instrument: whatever answers are lost, ticks are dirty or
\* processes restart, it enters only when it is flat and nothing of it can trade, and
\* never holds more than its order quantity (policy_intent and the tick, live_daemon.rs).
THEOREM LonePolicyIsSafe ==
  ASSUME NEW p, PolicyIds = {p} PROVE LPSpec => []LivePolicySafety
<1>1. LPInit => OneInv(p)
  BY OneInvInit
<1>2. OneInv(p) /\ [LPNext]_lpVars => OneInv(p)'
  BY OneInvStep
<1>3. OneInv(p) => LivePolicySafety
  BY OneInvMeans
<1> QED
  BY <1>1, <1>2, <1>3, PTL DEF LPSpec

-----------------------------------------------------------------------------
(* The registry of strategies *)

RegMachines == [phase : Phases, net : Int, active : {NoIntent, "intent"}, start : Int,
                allowShort : {d.short : d \in Defs}]
Entries == [inst : Instruments, driven : {d.driven : d \in Defs}, machine : RegMachines]

\* The registry after the files P.
RegShape(r, P) ==
  /\ r = [strategies |-> r.strategies, sources |-> r.sources, templates |-> r.templates]
  /\ r.strategies \in [DOMAIN r.strategies -> Entries]
  /\ r.sources = [q \in P |-> r.sources[q]]
  /\ r.templates \in [DOMAIN r.templates -> Defs] /\ DOMAIN r.templates \subseteq P

RegParted(r, P) ==
  /\ \A id \in DOMAIN r.strategies : \E q \in P : id \in r.sources[q]
  /\ \A q \in P : r.sources[q] \subseteq DOMAIN r.strategies
  /\ \A q1, q2 \in P : q1 # q2 => r.sources[q1] \cap r.sources[q2] = {}

\* The instances of a template are named by their instruments.
NamedBy(d, i, id) == id = <<d.base, i.venue, i.asset>> /\ i.venue \in d.venues

RegTemplated(r) ==
  \A q \in DOMAIN r.templates :
    /\ r.templates[q].kind = "dynamic"
    /\ \A id \in r.sources[q] : NamedBy(r.templates[q], r.strategies[id].inst, id)

RegInv(r, P) == RegShape(r, P) /\ RegParted(r, P) /\ RegTemplated(r)

\* Instances at work stay as they are.
Survives(r, r2) ==
  \A id \in DOMAIN r.strategies :
    ~Removable(r.strategies[id].machine) =>
      id \in DOMAIN r2.strategies /\ r2.strategies[id] = r.strategies[id]

LEMMA RegistryNumbers ==
  /\ Len(PathOrder) \in Nat /\ DOMAIN PathOrder = 1 .. Len(PathOrder)
  /\ \A i, j \in 1 .. Len(PathOrder) : PathOrder[i] = PathOrder[j] => i = j
  /\ Paths = {PathOrder[i] : i \in 1 .. Len(PathOrder)}
<1>1. PathOrder \in Seq(Range(PathOrder)) /\ IsInjective(PathOrder)
  BY RegistryAssumption
<1>2. Len(PathOrder) \in Nat /\ DOMAIN PathOrder = 1 .. Len(PathOrder)
  BY <1>1
<1> QED
  BY <1>1, <1>2 DEF IsInjective, Paths, Range

LEMMA DefFields ==
  ASSUME NEW d \in Defs PROVE d.kind \in {"bad", "static", "dynamic"} /\ d.insts \subseteq Instruments
  BY RegistryAssumption

-----------------------------------------------------------------------------
(* One file after another *)

\* Induction up to a number.
LEMMA UpTo ==
  ASSUME NEW N \in Nat, NEW G, 0 \in G, \A n \in 1 .. N : n - 1 \in G => n \in G
  PROVE  \A n \in 0 .. N : n \in G
<1>1. PICK B : B = {n \in 0 .. N : n \notin G}
  OBVIOUS
<1>2. CASE B = {}
  BY <1>1, <1>2
<1>3. CASE B # {}
  <2>1. B \in SUBSET Nat
    BY <1>1
  <2>2. PICK m : m \in B /\ \A n \in B : m <= n
    BY <1>3, <2>1, SmallestOf
  <2>3. m \in 0 .. N /\ m \notin G /\ m # 0
    BY <1>1, <2>2
  <2>4. m \in 1 .. N /\ m - 1 \in 0 .. N /\ ~(m <= m - 1)
    BY <2>3
  <2>5. m - 1 \in G
    BY <1>1, <2>2, <2>4
  <2> QED
    BY <2>3, <2>4, <2>5
<1> QED
  BY <1>2, <1>3

After(job, prev, n) == IF prev.ok THEN OnFile(job, prev.reg, PathOrder[n]) ELSE prev
Runs(run, job, r, N) == run = [n \in 0 .. N |-> IF n = 0 THEN Done(r) ELSE After(job, run[n - 1], n)]

LEMMA RunExists == ASSUME NEW job, NEW r PROVE \A N \in 0 .. Len(PathOrder) : \E run : Runs(run, job, r, N)
<1>1. PICK G : G = {n \in 0 .. Len(PathOrder) : \E run : Runs(run, job, r, n)}
  OBVIOUS
<1>2. 0 \in G
  <2>1. PICK g : g = [n \in 0 .. 0 |-> Done(r)]
    OBVIOUS
  <2>2. g = [n \in 0 .. 0 |-> IF n = 0 THEN Done(r) ELSE After(job, g[n - 1], n)]
    BY <2>1
  <2> QED
    BY <1>1, <2>2, RegistryNumbers DEF Runs
<1>3. ASSUME NEW n \in 1 .. Len(PathOrder), n - 1 \in G PROVE n \in G
  <2>0. n \in Nat /\ n # 0 /\ n - 1 \in Nat /\ n \in 0 .. Len(PathOrder)
    BY RegistryNumbers
  <2>1. PICK g : Runs(g, job, r, n - 1)
    BY <1>1, <1>3
  <2>2. PICK h : h = [i \in 0 .. n |-> IF i = n THEN After(job, g[n - 1], n) ELSE g[i]]
    OBVIOUS
  <2>3. ASSUME NEW i \in 0 .. n PROVE h[i] = IF i = 0 THEN Done(r) ELSE After(job, h[i - 1], i)
    <3>1. i \in Nat /\ h[i] = IF i = n THEN After(job, g[n - 1], n) ELSE g[i]
      BY <2>2
    <3>2. CASE i = n
      <4>1. n - 1 \in 0 .. n /\ n - 1 # n
        BY <2>0
      <4>2. h[n - 1] = g[n - 1]
        BY <2>2, <4>1
      <4> QED
        BY <2>0, <3>1, <3>2, <4>2
    <3>3. CASE i # n
      <4>1. i \in 0 .. n - 1
        BY <2>0, <3>1, <3>3
      <4>2. g[i] = IF i = 0 THEN Done(r) ELSE After(job, g[i - 1], i)
        BY <2>1, <4>1 DEF Runs
      <4>3. i # 0 => i - 1 \in 0 .. n /\ i - 1 # n
        BY <2>0, <4>1
      <4>4. i # 0 => h[i - 1] = g[i - 1]
        BY <2>2, <4>3
      <4> QED
        BY <3>1, <3>3, <4>2, <4>4
    <3> QED
      BY <3>2, <3>3
  <2>4. h = [i \in 0 .. n |-> IF i = 0 THEN Done(r) ELSE After(job, h[i - 1], i)]
    BY <2>2, <2>3
  <2> QED
    BY <1>1, <2>0, <2>4 DEF Runs
<1> QED
  BY <1>1, <1>2, <1>3, UpTo, RegistryNumbers

\* OverFiles applies OnFile to one file after another.
LEMMA RunUnfolds ==
  ASSUME NEW job, NEW r
  PROVE  \E run : /\ OverFiles(job, r) = run[Len(PathOrder)] /\ run[0] = Done(r)
                  /\ \A n \in 1 .. Len(PathOrder) : run[n] = After(job, run[n - 1], n)
<1>1. PICK run : run = CHOOSE f : Runs(f, job, r, Len(PathOrder))
  OBVIOUS
<1>2. Len(PathOrder) \in 0 .. Len(PathOrder)
  BY RegistryNumbers
<1>3. \E f : Runs(f, job, r, Len(PathOrder))
  BY <1>2, RunExists
<1>4. Runs(run, job, r, Len(PathOrder))
  BY <1>1, <1>3, Zenon
<1>5. OverFiles(job, r) = run[Len(PathOrder)]
  BY <1>1, Zenon DEF OverFiles, Runs, After
<1>6. run[0] = Done(r) /\ \A n \in 1 .. Len(PathOrder) : run[n] = After(job, run[n - 1], n)
  <2>1. \A n \in 0 .. Len(PathOrder) : run[n] = IF n = 0 THEN Done(r) ELSE After(job, run[n - 1], n)
    BY <1>4 DEF Runs
  <2>2. 0 \in 0 .. Len(PathOrder) /\ \A n \in 1 .. Len(PathOrder) : n \in 0 .. Len(PathOrder) /\ n # 0
    BY RegistryNumbers
  <2> QED
    BY <2>1, <2>2
<1> QED
  BY <1>5, <1>6

-----------------------------------------------------------------------------
(* What a file changes *)

LEMMA BuiltInstances ==
  ASSUME NEW d \in Defs, NEW insts \in SUBSET Instruments, NEW new, new = Instances(d, insts)
  PROVE  /\ new \in [DOMAIN new -> Entries]
         /\ \A id \in DOMAIN new : new[id].inst \in insts /\ IdOf(d, insts, new[id].inst) = id
         /\ d.enabled => \A i \in insts : IdOf(d, insts, i) \in DOMAIN new
<1>1. CASE ~d.enabled
  <2>1. new = <<>>
    BY <1>1 DEF Instances
  <2> QED
    BY <1>1, <2>1
<1>2. CASE d.enabled
  <2>1. PICK ids : ids = {IdOf(d, insts, i) : i \in insts}
    OBVIOUS
  <2>2. new = [id \in ids |-> [inst |-> CHOOSE i \in insts : IdOf(d, insts, i) = id,
                               driven |-> d.driven, machine |-> NewMachine(d.short)]]
    BY <1>2, <2>1, Zenon DEF Instances
  <2>3. NewMachine(d.short) \in RegMachines
    BY DEF NewMachine, RegMachines, Phases
  <2>4. ASSUME NEW id \in ids
        PROVE  new[id] \in Entries /\ new[id].inst \in insts /\ IdOf(d, insts, new[id].inst) = id
    <3>1. PICK i : i = CHOOSE k \in insts : IdOf(d, insts, k) = id
      OBVIOUS
    <3>2. \E k \in insts : IdOf(d, insts, k) = id
      BY <2>1
    <3>3. i \in insts /\ IdOf(d, insts, i) = id
      BY <3>1, <3>2, Zenon
    <3>4. new[id] = [inst |-> i, driven |-> d.driven, machine |-> NewMachine(d.short)]
      BY <2>2, <3>1
    <3>5. new[id].inst = i /\ new[id] \in Entries
      BY <2>3, <3>3, <3>4 DEF Entries
    <3> QED
      BY <3>3, <3>5
  <2>5. DOMAIN new = ids /\ new \in [ids -> Entries]
    BY <2>2, <2>4
  <2>6. \A i \in insts : IdOf(d, insts, i) \in ids
    BY <2>1
  <2> QED
    BY <2>4, <2>5, <2>6
<1> QED
  BY <1>1, <1>2

\* A file takes instances away and brings others.
Swap(r, r2, p, P, gone, come) ==
  /\ r2 = [strategies |-> r2.strategies, sources |-> r2.sources, templates |-> r2.templates]
  /\ gone \subseteq SourceIds(r, p) /\ come \cap (DOMAIN r.strategies \ gone) = {}
  /\ DOMAIN r2.strategies = (DOMAIN r.strategies \ gone) \cup come
  /\ r2.strategies \in [DOMAIN r2.strategies -> Entries]
  /\ \A id \in DOMAIN r.strategies \ gone : r2.strategies[id] = r.strategies[id]
  /\ r2.sources = [q \in P \cup {p} |-> IF q = p THEN (SourceIds(r, p) \ gone) \cup come ELSE r.sources[q]]

LEMMA SourcesOf ==
  ASSUME NEW r, NEW P, RegShape(r, P), NEW p
  PROVE  DOMAIN r.sources = P /\ (p \in P => SourceIds(r, p) = r.sources[p]) /\ (p \notin P => SourceIds(r, p) = {})
<1>1. DOMAIN r.sources = P
  BY DEF RegShape
<1> QED
  BY <1>1 DEF SourceIds

LEMMA SwapParts ==
  ASSUME NEW r, NEW r2, NEW P, NEW p, NEW gone, NEW come, RegShape(r, P), RegParted(r, P), Swap(r, r2, p, P, gone, come)
  PROVE  RegParted(r2, P \cup {p})
<1>1. PICK old : old = SourceIds(r, p) /\ (p \in P => old = r.sources[p]) /\ (p \notin P => old = {})
  BY SourcesOf
<1>2. /\ gone \subseteq old /\ come \cap (DOMAIN r.strategies \ gone) = {}
      /\ DOMAIN r2.strategies = (DOMAIN r.strategies \ gone) \cup come
  BY <1>1 DEF Swap
<1>3. /\ r2.sources[p] = (old \ gone) \cup come
      /\ \A q \in P : q # p => r2.sources[q] = r.sources[q]
  BY <1>1 DEF Swap
<1>4. old \subseteq DOMAIN r.strategies /\ \A q \in P : q # p => r.sources[q] \cap old = {} /\ r.sources[q] \subseteq DOMAIN r.strategies
  BY <1>1 DEF RegParted
<1>5. ASSUME NEW id \in DOMAIN r2.strategies PROVE \E q \in P \cup {p} : id \in r2.sources[q]
  <2>1. CASE id \in come
    BY <1>3, <2>1
  <2>2. CASE id \notin come
    <3>1. id \in DOMAIN r.strategies /\ id \notin gone
      BY <1>2, <2>2
    <3>2. PICK q \in P : id \in r.sources[q]
      BY <3>1 DEF RegParted
    <3>3. CASE q = p
      BY <1>1, <1>3, <3>1, <3>2, <3>3
    <3>4. CASE q # p
      BY <1>3, <3>2, <3>4
    <3> QED
      BY <3>3, <3>4
  <2> QED
    BY <2>1, <2>2
<1>6. ASSUME NEW q \in P \cup {p} PROVE r2.sources[q] \subseteq DOMAIN r2.strategies
  <2>1. CASE q = p
    BY <1>2, <1>3, <1>4, <2>1
  <2>2. CASE q # p
    BY <1>2, <1>3, <1>4, <2>2
  <2> QED
    BY <2>1, <2>2
<1>7. ASSUME NEW q \in P, q # p PROVE r2.sources[q] \cap r2.sources[p] = {}
  BY <1>2, <1>3, <1>4, <1>7
<1>8. ASSUME NEW q1 \in P, NEW q2 \in P, q1 # p, q2 # p, q1 # q2 PROVE r2.sources[q1] \cap r2.sources[q2] = {}
  BY <1>3, <1>8 DEF RegParted
<1>9. \A q1, q2 \in P \cup {p} : q1 # q2 => r2.sources[q1] \cap r2.sources[q2] = {}
  BY <1>7, <1>8
<1> QED
  BY <1>5, <1>6, <1>9 DEF RegParted

LEMMA SwapSurvives ==
  ASSUME NEW r, NEW r2, NEW P, NEW p, NEW gone, NEW come, Swap(r, r2, p, P, gone, come),
         gone \subseteq DOMAIN r.strategies, \A id \in gone : Removable(r.strategies[id].machine)
  PROVE  Survives(r, r2)
  BY DEF Survives, Swap

LEMMA SurvivesOn ==
  ASSUME NEW r, NEW r2, NEW r3, Survives(r, r2), Survives(r2, r3) PROVE Survives(r, r3)
  BY DEF Survives

\* The other templates are as they were.
LEMMA SwapTemplates ==
  ASSUME NEW r, NEW r2, NEW P, NEW p, NEW gone, NEW come, RegInv(r, P), Swap(r, r2, p, P, gone, come),
         \A q \in DOMAIN r2.templates : q # p => q \in DOMAIN r.templates /\ r2.templates[q] = r.templates[q],
         p \in DOMAIN r2.templates =>
           /\ r2.templates[p].kind = "dynamic"
           /\ \A id \in r2.sources[p] : NamedBy(r2.templates[p], r2.strategies[id].inst, id)
  PROVE  RegTemplated(r2)
<1> SUFFICES ASSUME NEW q \in DOMAIN r2.templates, q # p
             PROVE  /\ r2.templates[q].kind = "dynamic"
                    /\ \A id \in r2.sources[q] : NamedBy(r2.templates[q], r2.strategies[id].inst, id)
  BY DEF RegTemplated
<1>1. q \in DOMAIN r.templates /\ r2.templates[q] = r.templates[q] /\ q \in P
  BY DEF RegInv, RegShape
<1>2. r2.sources[q] = r.sources[q]
  BY <1>1 DEF Swap
<1>3. ASSUME NEW id \in r.sources[q] PROVE r2.strategies[id] = r.strategies[id]
  <2>1. id \in DOMAIN r.strategies
    BY <1>1 DEF RegInv, RegParted
  <2>2. id \notin gone
    <3>1. p \in P => id \notin r.sources[p]
      BY <1>1 DEF RegInv, RegParted
    <3>2. id \notin SourceIds(r, p)
      BY <3>1, SourcesOf DEF RegInv
    <3> QED
      BY <3>2 DEF Swap
  <2> QED
    BY <2>1, <2>2 DEF Swap
<1> QED
  BY <1>1, <1>2, <1>3 DEF RegInv, RegTemplated

\* Every change of the instances is a swap: some of the file's own go, and of the
\* new ones some come that no other file has.
MaySwap(r, P, p, gone, come, new) ==
  /\ RegShape(r, P) /\ new \in [DOMAIN new -> Entries] /\ come \subseteq DOMAIN new
  /\ gone \subseteq SourceIds(r, p) /\ come \cap (DOMAIN r.strategies \ gone) = {}

WithSwap(r, p, gone, come, new, t) ==
  [strategies |-> Overlay(Without(r.strategies, gone), Restrict(new, come)),
   sources |-> Put(r.sources, p, (SourceIds(r, p) \ gone) \cup come), templates |-> t]

LEMMA OverlayIsSwap ==
  ASSUME NEW r, NEW P, NEW p, NEW gone, NEW come, NEW new, NEW t, NEW r2, MaySwap(r, P, p, gone, come, new),
         r2 = WithSwap(r, p, gone, come, new, t)
  PROVE  Swap(r, r2, p, P, gone, come) /\ \A id \in come : r2.strategies[id] = new[id]
<1>0. /\ RegShape(r, P) /\ new \in [DOMAIN new -> Entries] /\ come \subseteq DOMAIN new
      /\ gone \subseteq SourceIds(r, p) /\ come \cap (DOMAIN r.strategies \ gone) = {}
  BY DEF MaySwap
<1>1. PICK S : S = r.strategies /\ S \in [DOMAIN S -> Entries]
  BY <1>0 DEF RegShape
<1>8. r2 = [strategies |-> Overlay(Without(r.strategies, gone), Restrict(new, come)),
             sources |-> Put(r.sources, p, (SourceIds(r, p) \ gone) \cup come), templates |-> t]
  BY DEF WithSwap
<1>2. r2.strategies = [id \in (DOMAIN S \ gone) \cup come |-> IF id \in come THEN new[id] ELSE S[id]]
  BY <1>1, <1>8 DEF Overlay, Without, Restrict
<1>3. /\ DOMAIN r2.strategies = (DOMAIN S \ gone) \cup come
      /\ \A id \in come : r2.strategies[id] = new[id]
      /\ \A id \in DOMAIN S \ gone : r2.strategies[id] = S[id]
  BY <1>0, <1>1, <1>2
<1>4. r2.strategies \in [DOMAIN r2.strategies -> Entries]
  BY <1>0, <1>1, <1>2
<1>5. DOMAIN r.sources = P
  BY <1>0 DEF RegShape
<1>6. r2.sources = [q \in P \cup {p} |-> IF q = p THEN (SourceIds(r, p) \ gone) \cup come ELSE r.sources[q]]
  BY <1>5, <1>8 DEF Put, Overlay
<1>7. r2 = [strategies |-> r2.strategies, sources |-> r2.sources, templates |-> r2.templates]
  BY <1>8
<1> QED
  BY <1>0, <1>1, <1>3, <1>4, <1>6, <1>7 DEF Swap

LEMMA WholeIsRestricted ==
  ASSUME NEW new, NEW D, new \in [DOMAIN new -> D] PROVE Restrict(new, DOMAIN new) = new
  BY DEF Restrict

LEMMA WithoutNothing ==
  ASSUME NEW f, NEW D, f \in [DOMAIN f -> D], NEW x, x \notin DOMAIN f
  PROVE  Without(f, {}) = f /\ Without(f, {x}) = f
<1>1. DOMAIN f \ {} = DOMAIN f /\ DOMAIN f \ {x} = DOMAIN f
  OBVIOUS
<1> QED
  BY <1>1 DEF Without, Restrict

LEMMA LoadFileKeeps ==
  ASSUME NEW r, NEW P, RegInv(r, P), NEW p, p \notin P, NEW d \in Defs, LoadFile(r, p, d).ok
  PROVE  RegInv(LoadFile(r, p, d).reg, P \cup {p})
<1>0. RegShape(r, P) /\ RegParted(r, P) /\ RegTemplated(r) /\ SourceIds(r, p) = {} /\ p \notin DOMAIN r.templates
  BY SourcesOf DEF RegInv, RegShape
<1>1. PICK new : new = Instances(d, d.insts)
  OBVIOUS
<1>2. d.kind \in {"bad", "static", "dynamic"} /\ d.insts \in SUBSET Instruments
  BY DefFields
<1>3. PICK r2 : r2 = LoadFile(r, p, d).reg
  OBVIOUS
<1>4. Without(r.strategies, {}) = r.strategies
  <2>1. Restrict(r.strategies, DOMAIN r.strategies) = r.strategies /\ DOMAIN r.strategies \ {} = DOMAIN r.strategies
    BY <1>0, WholeIsRestricted DEF RegShape
  <2> QED
    BY <2>1 DEF Without
<1>5. d.kind # "bad"
  BY DEF LoadFile, Fail
<1>6. CASE d.kind = "dynamic"
  <2>1. r2 = AsTemplate(r, p, d)
    BY <1>3, <1>6 DEF LoadFile, Done
  <2>2. r2 = [strategies |-> r.strategies, sources |-> Put(r.sources, p, {}), templates |-> Put(r.templates, p, d)]
    BY <1>0, <2>1 DEF AsTemplate, RegShape
  <2>3. PICK e : e = [x \in {} |-> new]
    OBVIOUS
  <2>4. e \in [DOMAIN e -> Entries] /\ DOMAIN e = {}
    BY <2>3
  <2>5. Overlay(r.strategies, Restrict(e, {})) = r.strategies
    BY <1>0 DEF Overlay, Restrict, RegShape
  <2>6. Swap(r, r2, p, P, {}, {})
    <3>1. r2 = WithSwap(r, p, {}, {}, e, Put(r.templates, p, d))
      BY <1>0, <1>4, <2>2, <2>5 DEF WithSwap
    <3>2. MaySwap(r, P, p, {}, {}, e)
      BY <1>0, <2>4 DEF MaySwap
    <3> QED
      BY <3>1, <3>2, OverlayIsSwap
  <2>7. /\ DOMAIN r2.templates = DOMAIN r.templates \cup {p} /\ r2.templates[p] = d
        /\ \A q \in DOMAIN r.templates : q # p => r2.templates[q] = r.templates[q]
    BY <2>2 DEF Put, Overlay
  <2>8. r2.templates \in [DOMAIN r2.templates -> Defs]
    BY <1>0, <2>2 DEF Put, Overlay, RegShape
  <2>9. RegShape(r2, P \cup {p})
    BY <1>0, <2>6, <2>7, <2>8 DEF Swap, RegShape
  <2>10. r2.sources[p] = {}
    BY <2>2 DEF Put, Overlay
  <2>11. RegTemplated(r2)
    BY <1>6, <2>6, <2>7, <2>10, SwapTemplates
  <2> QED
    BY <1>0, <1>3, <2>6, <2>9, <2>11, SwapParts DEF RegInv
<1>7. CASE d.kind # "dynamic"
  <2>1. ~Taken(r, DOMAIN new) /\ r2 = [r EXCEPT !.strategies = Overlay(@, new), !.sources = Put(@, p, DOMAIN new)]
    BY <1>1, <1>3, <1>5, <1>7 DEF LoadFile, Done, Fail
  <2>2. r2 = [strategies |-> Overlay(r.strategies, new), sources |-> Put(r.sources, p, DOMAIN new), templates |-> r.templates]
    BY <1>0, <2>1 DEF RegShape
  <2>3. new \in [DOMAIN new -> Entries]
    BY <1>1, <1>2, BuiltInstances
  <2>4. Swap(r, r2, p, P, {}, DOMAIN new)
    <3>1. Restrict(new, DOMAIN new) = new
      BY <2>3, WholeIsRestricted
    <3>2. r2 = WithSwap(r, p, {}, DOMAIN new, new, r.templates)
      BY <1>0, <1>4, <2>2, <3>1 DEF WithSwap
    <3>3. DOMAIN new \cap (DOMAIN r.strategies \ {}) = {}
      BY <2>1 DEF Taken
    <3>4. MaySwap(r, P, p, {}, DOMAIN new, new)
      BY <1>0, <2>3, <3>3 DEF MaySwap
    <3> QED
      BY <3>2, <3>4, OverlayIsSwap
  <2>5. r2.templates = r.templates
    BY <2>2
  <2>6. RegShape(r2, P \cup {p})
    BY <1>0, <2>4, <2>5 DEF Swap, RegShape
  <2>7. RegTemplated(r2)
    BY <1>0, <2>4, <2>5, SwapTemplates
  <2> QED
    BY <1>0, <1>3, <2>4, <2>6, <2>7, SwapParts DEF RegInv
<1> QED
  BY <1>6, <1>7

LEMMA ReloadFileKeeps ==
  ASSUME NEW r, NEW P, RegInv(r, P), NEW p \in P, NEW d \in Defs, NEW r2, r2 = ReloadFile(r, p, d).reg
  PROVE  RegInv(r2, P) /\ Survives(r, r2)
<1>0. RegShape(r, P) /\ RegParted(r, P) /\ RegTemplated(r) /\ SourceIds(r, p) = r.sources[p] /\ P \cup {p} = P
  BY SourcesOf DEF RegInv
<1>1. PICK new, old : new = Instances(d, d.insts) /\ old = SourceIds(r, p)
  OBVIOUS
<1>2. d.kind \in {"bad", "static", "dynamic"} /\ d.insts \in SUBSET Instruments
  BY DefFields
<1>3. old \subseteq DOMAIN r.strategies
  BY <1>0, <1>1 DEF RegParted
<1>4. CASE ~AllRemovable(r, old) \/ d.kind = "bad"
  <2>1. r2 = r
    BY <1>1, <1>4 DEF ReloadFile, Fail
  <2> QED
    BY <2>1 DEF Survives
<1>5. CASE AllRemovable(r, old) /\ d.kind # "bad"
  <2>0. \A id \in old : Removable(r.strategies[id].machine)
    BY <1>3, <1>5 DEF AllRemovable
  <2>1. CASE d.kind = "dynamic"
    <3>1. r2 = AsTemplate([r EXCEPT !.strategies = Without(@, old)], p, d)
      BY <1>1, <1>5, <2>1 DEF ReloadFile, Done
    <3>2. r2 = [strategies |-> Without(r.strategies, old), sources |-> Put(r.sources, p, {}),
                templates |-> Put(r.templates, p, d)]
      BY <1>0, <3>1 DEF AsTemplate, RegShape
    <3>3. PICK e : e = [x \in {} |-> new]
      OBVIOUS
    <3>4. e \in [DOMAIN e -> Entries] /\ DOMAIN e = {}
      BY <3>3
    <3>5. Overlay(Without(r.strategies, old), Restrict(e, {})) = Without(r.strategies, old)
      BY DEF Overlay, Restrict, Without
    <3>6. Swap(r, r2, p, P, old, {})
      <4>1. r2 = WithSwap(r, p, old, {}, e, Put(r.templates, p, d))
        <5>1. (SourceIds(r, p) \ old) \cup {} = {}
          BY <1>1
        <5> QED
          BY <3>2, <3>5, <5>1 DEF WithSwap
      <4>2. MaySwap(r, P, p, old, {}, e)
        BY <1>0, <1>1, <3>4 DEF MaySwap
      <4> QED
        BY <4>1, <4>2, OverlayIsSwap
    <3>7. /\ DOMAIN r2.templates = DOMAIN r.templates \cup {p} /\ r2.templates[p] = d
          /\ \A q \in DOMAIN r.templates : q # p => r2.templates[q] = r.templates[q]
      BY <3>2 DEF Put, Overlay
    <3>8. r2.templates \in [DOMAIN r2.templates -> Defs]
      BY <1>0, <3>2 DEF Put, Overlay, RegShape
    <3>9. RegShape(r2, P)
      BY <1>0, <3>6, <3>7, <3>8 DEF Swap, RegShape
    <3>10. r2.sources[p] = {}
      BY <3>2 DEF Put, Overlay
    <3>11. RegTemplated(r2)
      BY <2>1, <3>6, <3>7, <3>10, SwapTemplates
    <3>12. RegParted(r2, P)
      <4>1. RegParted(r2, P \cup {p})
        BY <1>0, <3>6, SwapParts
      <4> QED
        BY <1>0, <4>1
    <3> QED
      BY <1>3, <2>0, <3>6, <3>9, <3>11, <3>12, SwapSurvives DEF RegInv
  <2>2. CASE d.kind # "dynamic" /\ (~Buildable(d, d.insts) \/ Taken(r, DOMAIN new \ old))
    <3>1. r2 = [r EXCEPT !.templates = Without(@, {p})]
      BY <1>1, <1>5, <2>2 DEF ReloadFile, Fail
    <3>2. r2 = [strategies |-> r.strategies, sources |-> r.sources, templates |-> Without(r.templates, {p})]
      BY <1>0, <3>1 DEF RegShape
    <3>3. /\ DOMAIN r2.templates = DOMAIN r.templates \ {p}
          /\ \A q \in DOMAIN r2.templates : r2.templates[q] = r.templates[q]
          /\ r2.templates \in [DOMAIN r2.templates -> Defs]
      BY <1>0, <3>2 DEF Without, Restrict, RegShape
    <3>4. RegShape(r2, P)
      BY <1>0, <3>2, <3>3 DEF RegShape
    <3>5. RegParted(r2, P) /\ RegTemplated(r2)
      <4>1. r2.strategies = r.strategies /\ r2.sources = r.sources
        BY <3>2
      <4>2. RegParted(r2, P)
        BY <1>0, <4>1 DEF RegParted
      <4>3. RegTemplated(r2)
        BY <1>0, <3>3, <4>1 DEF RegTemplated
      <4> QED
        BY <4>2, <4>3
    <3>6. Survives(r, r2)
      BY <3>2 DEF Survives
    <3> QED
      BY <3>4, <3>5, <3>6 DEF RegInv
  <2>3. CASE d.kind # "dynamic" /\ ~(~Buildable(d, d.insts) \/ Taken(r, DOMAIN new \ old))
    <3>1. r2 = [[r EXCEPT !.templates = Without(@, {p})]
                  EXCEPT !.strategies = Overlay([r EXCEPT !.strategies = Without(@, old)].strategies, new),
                         !.sources = Put(@, p, DOMAIN new)]
      BY <1>1, <1>5, <2>3 DEF ReloadFile, Done
    <3>2. r2 = [strategies |-> Overlay(Without(r.strategies, old), new),
                sources |-> Put(r.sources, p, DOMAIN new), templates |-> Without(r.templates, {p})]
      BY <1>0, <3>1 DEF RegShape
    <3>3. new \in [DOMAIN new -> Entries]
      BY <1>1, <1>2, BuiltInstances
    <3>4. Swap(r, r2, p, P, old, DOMAIN new)
      <4>1. Restrict(new, DOMAIN new) = new
        BY <3>3, WholeIsRestricted
      <4>2. (SourceIds(r, p) \ old) \cup DOMAIN new = DOMAIN new
        BY <1>1
      <4>3. r2 = WithSwap(r, p, old, DOMAIN new, new, Without(r.templates, {p}))
        BY <3>2, <4>1, <4>2 DEF WithSwap
      <4>4. DOMAIN new \cap (DOMAIN r.strategies \ old) = {}
        BY <2>3 DEF Taken
      <4>5. old \subseteq SourceIds(r, p) /\ DOMAIN new \subseteq DOMAIN new
        BY <1>1
      <4>6. MaySwap(r, P, p, old, DOMAIN new, new)
        BY <1>0, <3>3, <4>4, <4>5 DEF MaySwap
      <4> QED
        BY <4>3, <4>6, OverlayIsSwap
    <3>5. /\ DOMAIN r2.templates = DOMAIN r.templates \ {p}
          /\ \A q \in DOMAIN r2.templates : r2.templates[q] = r.templates[q]
          /\ r2.templates \in [DOMAIN r2.templates -> Defs]
      BY <1>0, <3>2 DEF Without, Restrict, RegShape
    <3>6. RegShape(r2, P)
      BY <1>0, <3>4, <3>5 DEF Swap, RegShape
    <3>7. RegTemplated(r2)
      BY <3>4, <3>5, SwapTemplates
    <3>8. RegParted(r2, P)
      <4>1. RegParted(r2, P \cup {p})
        BY <1>0, <3>4, SwapParts
      <4> QED
        BY <1>0, <4>1
    <3> QED
      BY <1>3, <2>0, <3>4, <3>6, <3>7, <3>8, SwapSurvives DEF RegInv
  <2> QED
    BY <2>1, <2>2, <2>3
<1> QED
  BY <1>4, <1>5

\* Instances of enabled templates on the instruments Pins stay as they are.
PinsStay(r, r2, Pins) ==
  /\ r2.templates = r.templates
  /\ \A q \in DOMAIN r.templates : r.templates[q].enabled =>
       \A id \in r.sources[q] : r.strategies[id].inst \in Pins =>
         id \in DOMAIN r2.strategies /\ id \in r2.sources[q] /\ r2.strategies[id] = r.strategies[id]

LEMMA ApplyDynamicKeeps ==
  ASSUME NEW r, NEW P, RegInv(r, P), NEW p \in DOMAIN r.templates, NEW insts \in SUBSET Instruments,
         NEW Pins, \A i \in insts : i.venue \in r.templates[p].venues,
         \A i \in Pins : i.venue \in r.templates[p].venues => i \in insts,
         NEW r2, r2 = ApplyDynamic(r, p, insts).reg
  PROVE  RegInv(r2, P) /\ Survives(r, r2) /\ PinsStay(r, r2, Pins)
<1>0. /\ RegShape(r, P) /\ RegParted(r, P) /\ RegTemplated(r) /\ p \in P
      /\ SourceIds(r, p) = r.sources[p] /\ P \cup {p} = P
  BY SourcesOf DEF RegInv, RegShape
<1>1. PICK d, new, old : d = r.templates[p] /\ new = Instances(d, insts) /\ old = SourceIds(r, p)
  OBVIOUS
<1>2. PICK added, removed : added = DOMAIN new \ old /\ removed = old \ DOMAIN new
  OBVIOUS
<1>3. old \subseteq DOMAIN r.strategies
  BY <1>0, <1>1 DEF RegParted
<1>4. d \in Defs /\ d.kind = "dynamic"
  BY <1>0, <1>1 DEF RegShape, RegTemplated
<1>5. /\ new \in [DOMAIN new -> Entries]
      /\ \A id \in DOMAIN new : new[id].inst \in insts /\ IdOf(d, insts, new[id].inst) = id
      /\ d.enabled => \A i \in insts : IdOf(d, insts, i) \in DOMAIN new
  BY <1>1, <1>4, BuiltInstances
<1>6. \A i : IdOf(d, insts, i) = <<d.base, i.venue, i.asset>>
  BY <1>4 DEF IdOf
<1>7. CASE ~Buildable(d, insts) \/ Taken(r, added) \/ ~AllRemovable(r, removed)
  <2>1. r2 = r
    BY <1>1, <1>2, <1>7 DEF ApplyDynamic, Fail
  <2>2. \A q \in DOMAIN r.templates : q \in P /\ r.sources[q] \subseteq DOMAIN r.strategies
    BY <1>0 DEF RegShape, RegParted
  <2> QED
    BY <2>1, <2>2 DEF Survives, PinsStay
<1>8. CASE ~(~Buildable(d, insts) \/ Taken(r, added) \/ ~AllRemovable(r, removed))
  <2>1. r2 = [r EXCEPT !.strategies = Overlay(Without(@, removed), Restrict(new, added)),
                       !.sources = Put(@, p, DOMAIN new)]
    BY <1>1, <1>2, <1>8 DEF ApplyDynamic, Done
  <2>2. r2 = [strategies |-> Overlay(Without(r.strategies, removed), Restrict(new, added)),
              sources |-> Put(r.sources, p, DOMAIN new), templates |-> r.templates]
    BY <1>0, <2>1 DEF RegShape
  <2>3. Swap(r, r2, p, P, removed, added) /\ \A id \in added : r2.strategies[id] = new[id]
    <3>1. (SourceIds(r, p) \ removed) \cup added = DOMAIN new
      BY <1>1, <1>2
    <3>2. r2 = WithSwap(r, p, removed, added, new, r.templates)
      BY <2>2, <3>1 DEF WithSwap
    <3>3. /\ added \cap (DOMAIN r.strategies \ removed) = {} /\ removed \subseteq SourceIds(r, p)
          /\ added \subseteq DOMAIN new
      <4>1. \A id \in added : id \notin DOMAIN r.strategies
        BY <1>8 DEF Taken
      <4> QED
        BY <1>1, <1>2, <4>1
    <3>4. new \in [DOMAIN new -> Entries] /\ RegShape(r, P)
      BY <1>0, <1>5
    <3>5. MaySwap(r, P, p, removed, added, new)
      BY <3>3, <3>4 DEF MaySwap
    <3> QED
      BY <3>2, <3>5, OverlayIsSwap
  <2>4. removed \subseteq DOMAIN r.strategies /\ \A id \in removed : Removable(r.strategies[id].machine)
    BY <1>2, <1>3, <1>8 DEF AllRemovable
  <2>5. r2.templates = r.templates /\ r2.sources[p] = DOMAIN new
    BY <2>2 DEF Put, Overlay
  <2>6. RegShape(r2, P)
    BY <1>0, <2>3, <2>5 DEF Swap, RegShape
  <2>7. ASSUME NEW id \in DOMAIN new PROVE NamedBy(d, r2.strategies[id].inst, id)
    <3>1. CASE id \in added
      <4>1. r2.strategies[id] = new[id] /\ new[id].inst \in insts /\ IdOf(d, insts, new[id].inst) = id
        BY <1>5, <2>3, <3>1
      <4> QED
        BY <1>1, <1>6, <4>1 DEF NamedBy
    <3>2. CASE id \notin added
      <4>1. id \in old /\ id \notin removed
        BY <1>2, <3>2
      <4>2. r2.strategies[id] = r.strategies[id]
        BY <1>3, <2>3, <4>1 DEF Swap
      <4> QED
        BY <1>0, <1>1, <4>1, <4>2 DEF RegTemplated
    <3> QED
      BY <3>1, <3>2
  <2>8. RegTemplated(r2)
    BY <1>1, <1>4, <2>3, <2>5, <2>7, SwapTemplates
  <2>9. RegParted(r2, P)
    <3>1. RegParted(r2, P \cup {p})
      BY <1>0, <2>3, SwapParts
    <3> QED
      BY <1>0, <3>1
  <2>10. ASSUME NEW q \in DOMAIN r.templates, r.templates[q].enabled, NEW id \in r.sources[q], r.strategies[id].inst \in Pins
         PROVE  id \in DOMAIN r2.strategies /\ id \in r2.sources[q] /\ r2.strategies[id] = r.strategies[id]
    <3>0. q \in P /\ id \in DOMAIN r.strategies
      BY <1>0 DEF RegShape, RegParted
    <3>1. CASE q = p
      <4>1. NamedBy(d, r.strategies[id].inst, id)
        BY <1>0, <1>1, <3>1 DEF RegTemplated
      <4>2. r.strategies[id].inst \in insts
        BY <1>1, <2>10, <4>1 DEF NamedBy
      <4>3. id \in DOMAIN new
        BY <1>1, <1>5, <1>6, <2>10, <3>1, <4>1, <4>2 DEF NamedBy
      <4>4. id \notin removed
        BY <1>2, <4>3
      <4> QED
        BY <2>3, <2>5, <3>0, <3>1, <4>3, <4>4 DEF Swap
    <3>2. CASE q # p
      <4>1. id \notin r.sources[p]
        BY <1>0, <3>0, <3>2 DEF RegParted
      <4>2. id \notin removed
        BY <1>0, <1>1, <1>2, <4>1
      <4>3. r2.sources[q] = r.sources[q]
        BY <2>3, <3>0, <3>2 DEF Swap
      <4> QED
        BY <2>3, <3>0, <4>2, <4>3 DEF Swap
    <3> QED
      BY <3>1, <3>2
  <2>11. Survives(r, r2)
    BY <2>3, <2>4, SwapSurvives
  <2>12. PinsStay(r, r2, Pins)
    BY <2>5, <2>10 DEF PinsStay
  <2> QED
    BY <2>6, <2>8, <2>9, <2>11, <2>12 DEF RegInv
<1> QED
  BY <1>7, <1>8

-----------------------------------------------------------------------------
(* Whole directories *)

Files(n) == {PathOrder[i] : i \in 1 .. n}

LEMMA NextFile ==
  ASSUME NEW n \in 1 .. Len(PathOrder)
  PROVE  /\ PathOrder[n] \in Paths /\ PathOrder[n] \notin Files(n - 1) /\ Files(n) = Files(n - 1) \cup {PathOrder[n]}
<1>1. n \in Nat /\ n - 1 \in Nat /\ Len(PathOrder) \in Nat
  BY RegistryNumbers
<1>2. PathOrder[n] \in Paths
  BY RegistryNumbers
<1>3. ASSUME NEW i \in 1 .. n - 1 PROVE i \in 1 .. Len(PathOrder) /\ i # n /\ i \in 1 .. n
  BY <1>1
<1>4. PathOrder[n] \notin Files(n - 1)
  BY <1>3, RegistryNumbers DEF Files
<1>5. ASSUME NEW i \in 1 .. n PROVE i = n \/ i \in 1 .. n - 1
  BY <1>1
<1>6. n \in 1 .. n
  BY <1>1
<1> QED
  BY <1>2, <1>3, <1>4, <1>5, <1>6 DEF Files

LEMMA EmptyIsGood == RegInv(EmptyRegistry, {})
<1>1. <<>> \in [{} -> Entries] /\ <<>> \in [{} -> Defs] /\ DOMAIN <<>> = {} /\ <<>> = [q \in {} |-> <<>>[q]]
  OBVIOUS
<1> QED
  BY <1>1 DEF EmptyRegistry, RegInv, RegShape, RegParted, RegTemplated

LEMMA LoadDirKeeps ==
  ASSUME NEW files \in [Paths -> Defs], LoadDir(files).ok PROVE RegInv(LoadDir(files).reg, Paths)
<1>1. PICK job : job = [what |-> "load", files |-> files]
  OBVIOUS
<1>2. PICK run : /\ OverFiles(job, EmptyRegistry) = run[Len(PathOrder)] /\ run[0] = Done(EmptyRegistry)
                 /\ \A n \in 1 .. Len(PathOrder) : run[n] = After(job, run[n - 1], n)
  BY RunUnfolds
<1>3. PICK G : G = {n \in 0 .. Len(PathOrder) : run[n].ok => RegInv(run[n].reg, Files(n))}
  OBVIOUS
<1>4. 0 \in G
  <2>1. Files(0) = {}
    BY DEF Files
  <2>2. run[0].reg = EmptyRegistry
    BY <1>2 DEF Done
  <2> QED
    <3>1. RegInv(run[0].reg, Files(0))
      BY <2>1, <2>2, EmptyIsGood, Zenon
    <3>2. 0 \in 0 .. Len(PathOrder)
      BY RegistryNumbers
    <3> QED
      BY <1>3, <3>1, <3>2, Zenon
<1>5. ASSUME NEW n \in 1 .. Len(PathOrder), n - 1 \in G PROVE n \in G
  <2> SUFFICES ASSUME run[n].ok PROVE RegInv(run[n].reg, Files(n))
    BY <1>3, RegistryNumbers
  <2>1. PICK prev, p : prev = run[n - 1] /\ p = PathOrder[n] /\ run[n] = After(job, prev, n)
    BY <1>2
  <2>2. prev.ok /\ run[n] = LoadFile(prev.reg, p, files[p])
    BY <1>1, <2>1 DEF After, OnFile
  <2>3. RegInv(prev.reg, Files(n - 1))
    BY <1>3, <1>5, <2>1, <2>2
  <2>4. p \in Paths /\ p \notin Files(n - 1) /\ Files(n) = Files(n - 1) \cup {p} /\ files[p] \in Defs
    BY <2>1, NextFile
  <2>5. RegInv(LoadFile(prev.reg, p, files[p]).reg, Files(n - 1) \cup {p})
    BY <2>2, <2>3, <2>4, LoadFileKeeps
  <2> QED
    BY <2>2, <2>4, <2>5
<1>6. Len(PathOrder) \in G /\ Files(Len(PathOrder)) = Paths
  <2>1. Len(PathOrder) \in Nat /\ Len(PathOrder) \in 0 .. Len(PathOrder)
    BY RegistryNumbers
  <2>2. \A n \in 0 .. Len(PathOrder) : n \in G
    BY <1>4, <1>5, <2>1, UpTo
  <2>3. Files(Len(PathOrder)) = Paths
    BY RegistryNumbers DEF Files
  <2> QED
    BY <2>1, <2>2, <2>3
<1>7. LoadDir(files) = run[Len(PathOrder)]
  BY <1>1, <1>2 DEF LoadDir
<1> QED
  BY <1>3, <1>6, <1>7

LEMMA ReloadKeeps ==
  ASSUME NEW files \in [Paths -> Defs], NEW r, RegInv(r, Paths), NEW job, job = [what |-> "reload", files |-> files]
  PROVE  RegInv(OverFiles(job, r).reg, Paths) /\ Survives(r, OverFiles(job, r).reg)
<1>2. PICK run : /\ OverFiles(job, r) = run[Len(PathOrder)] /\ run[0] = Done(r)
                 /\ \A n \in 1 .. Len(PathOrder) : run[n] = After(job, run[n - 1], n)
  BY RunUnfolds
<1>3. PICK G : G = {n \in 0 .. Len(PathOrder) : RegInv(run[n].reg, Paths) /\ Survives(r, run[n].reg)}
  OBVIOUS
<1>4. 0 \in G
  <2>1. run[0].reg = r
    BY <1>2 DEF Done
  <2>2. Survives(r, r)
    BY DEF Survives
  <2> QED
    BY <1>3, <2>1, <2>2, RegistryNumbers
<1>5. ASSUME NEW n \in 1 .. Len(PathOrder), n - 1 \in G PROVE n \in G
  <2>1. PICK prev, p : prev = run[n - 1] /\ p = PathOrder[n] /\ run[n] = After(job, prev, n)
    BY <1>2
  <2>2. RegInv(prev.reg, Paths) /\ Survives(r, prev.reg)
    BY <1>3, <1>5, <2>1
  <2>3. RegInv(run[n].reg, Paths) /\ Survives(r, run[n].reg)
    <3>1. CASE ~prev.ok
      BY <2>1, <2>2, <3>1 DEF After
    <3>2. CASE prev.ok
      <4>1. run[n] = ReloadFile(prev.reg, p, files[p])
        BY <2>1, <3>2 DEF After, OnFile
      <4>2. p \in Paths /\ files[p] \in Defs
        BY <2>1, NextFile
      <4>3. RegInv(run[n].reg, Paths) /\ Survives(prev.reg, run[n].reg)
        BY <2>2, <4>1, <4>2, ReloadFileKeeps
      <4> QED
        BY <2>2, <4>3, SurvivesOn
    <3> QED
      BY <3>1, <3>2
  <2> QED
    BY <1>3, <2>3, RegistryNumbers
<1>6. Len(PathOrder) \in G
  <2>1. Len(PathOrder) \in Nat /\ Len(PathOrder) \in 0 .. Len(PathOrder)
    BY RegistryNumbers
  <2>2. \A n \in 0 .. Len(PathOrder) : n \in G
    BY <1>4, <1>5, <2>1, UpTo
  <2> QED
    BY <2>1, <2>2
<1> QED
  BY <1>2, <1>3, <1>6

LEMMA PinsStayOn ==
  ASSUME NEW r, NEW r2, NEW r3, NEW Pins, PinsStay(r, r2, Pins), PinsStay(r2, r3, Pins) PROVE PinsStay(r, r3, Pins)
  BY DEF PinsStay

LEMMA RefreshKeeps ==
  ASSUME pins \subseteq Instruments, NEW found \in SUBSET Instruments, NEW r, RegInv(r, Paths),
         NEW job, job = [what |-> "refresh", found |-> found]
  PROVE  /\ RegInv(OverFiles(job, r).reg, Paths) /\ Survives(r, OverFiles(job, r).reg)
         /\ PinsStay(r, OverFiles(job, r).reg, pins)
<1>2. PICK run : /\ OverFiles(job, r) = run[Len(PathOrder)] /\ run[0] = Done(r)
                 /\ \A n \in 1 .. Len(PathOrder) : run[n] = After(job, run[n - 1], n)
  BY RunUnfolds
<1>3. PICK G : G = {n \in 0 .. Len(PathOrder) : RegInv(run[n].reg, Paths) /\ Survives(r, run[n].reg) /\ PinsStay(r, run[n].reg, pins)}
  OBVIOUS
<1>0. ASSUME NEW s, RegInv(s, Paths) PROVE Survives(s, s) /\ PinsStay(s, s, pins)
  <2>1. \A q \in DOMAIN s.templates : q \in Paths /\ s.sources[q] \subseteq DOMAIN s.strategies
    BY <1>0 DEF RegInv, RegShape, RegParted
  <2> QED
    BY <2>1 DEF Survives, PinsStay
<1>4. 0 \in G
  <2>1. run[0].reg = r
    BY <1>2 DEF Done
  <2> QED
    BY <1>0, <1>3, <2>1, RegistryNumbers
<1>5. ASSUME NEW n \in 1 .. Len(PathOrder), n - 1 \in G PROVE n \in G
  <2>1. PICK prev, p, s : prev = run[n - 1] /\ p = PathOrder[n] /\ run[n] = After(job, prev, n) /\ s = prev.reg
    BY <1>2
  <2>2. RegInv(s, Paths) /\ Survives(r, s) /\ PinsStay(r, s, pins)
    BY <1>3, <1>5, <2>1
  <2>3. RegInv(run[n].reg, Paths) /\ Survives(s, run[n].reg) /\ PinsStay(s, run[n].reg, pins)
    <3>1. CASE ~prev.ok
      BY <1>0, <2>1, <2>2, <3>1 DEF After
    <3>2. CASE prev.ok /\ p \notin DOMAIN s.templates
      <4>1. run[n].reg = s
        BY <2>1, <3>2 DEF After, OnFile, Done
      <4> QED
        BY <1>0, <2>2, <4>1
    <3>3. CASE prev.ok /\ p \in DOMAIN s.templates
      <4>1. PICK insts : insts = Selected(s.templates[p], found)
        OBVIOUS
      <4>2. run[n] = ApplyDynamic(s, p, insts)
        BY <2>1, <3>3, <4>1 DEF After, OnFile
      <4>3. /\ insts \in SUBSET Instruments /\ \A i \in insts : i.venue \in s.templates[p].venues
            /\ \A i \in pins : i.venue \in s.templates[p].venues => i \in insts
        BY <4>1 DEF Selected
      <4> QED
        BY <2>2, <3>3, <4>2, <4>3, ApplyDynamicKeeps
    <3> QED
      BY <3>1, <3>2, <3>3
  <2>4. Survives(r, run[n].reg) /\ PinsStay(r, run[n].reg, pins)
    BY <2>2, <2>3, SurvivesOn, PinsStayOn
  <2> QED
    BY <1>3, <2>3, <2>4, RegistryNumbers
<1>6. Len(PathOrder) \in G
  <2>1. Len(PathOrder) \in Nat /\ Len(PathOrder) \in 0 .. Len(PathOrder)
    BY RegistryNumbers
  <2>2. \A n \in 0 .. Len(PathOrder) : n \in G
    BY <1>4, <1>5, <2>1, UpTo
  <2> QED
    BY <2>1, <2>2
<1> QED
  BY <1>2, <1>3, <1>6

-----------------------------------------------------------------------------
(* The registry's invariant *)

\* What a score machine opened belongs to an instance at work.
ExposureInv(e, r) ==
  /\ e = [id \in DOMAIN e |-> e[id]]
  /\ \A id \in DOMAIN e :
       /\ e[id].inst \in Instruments
       /\ e[id].by = "score" => id \in DOMAIN r.strategies /\ ~Removable(r.strategies[id].machine)

SRInv ==
  /\ disk \in [Paths -> Defs] /\ RegInv(reg, Paths) /\ ExposureInv(exposed, reg)
  /\ pins \subseteq Instruments /\ universe \in {"valid", "frozen"} /\ outcome \in {"none", "reloaded", "rejected"}
  /\ counts \in [edits : Int, reloads : Int, refreshes : Int]

LEMMA SRInvInit == SRInit => SRInv
<1> SUFFICES ASSUME SRInit PROVE SRInv
  OBVIOUS
<1>1. disk \in [Paths -> Defs] /\ RegInv(reg, Paths)
  BY LoadDirKeeps DEF SRInit
<1>2. ExposureInv(exposed, reg)
  BY DEF SRInit, ExposureInv
<1> QED
  BY <1>1, <1>2 DEF SRInit, SRInv

LEMMA EventKeepsMachine ==
  ASSUME NEW m \in RegMachines, NEW o, o = OnSignal(m, EntryScore, "intent")
  PROVE  /\ o.machine \in RegMachines /\ (~Removable(m) => ~Removable(o.machine))
         /\ o.side # "none" => ~Removable(o.machine)
<1>0. EntryScore \in Int /\ EntryScore > 0 /\ ExitScore \in Int /\ ExitScore >= 0 /\ ExitScore < EntryScore
  BY ConfigAssumption DEF ValidStrategyConfig
<1>1. /\ EntryScore >= EntryScore /\ ~(EntryScore <= -EntryScore) /\ ~(EntryScore <= ExitScore)
      /\ EntryScore >= -ExitScore
  BY <1>0
<1>2. CASE m.phase = "Flat"
  <2>1. o = SubmitEntry(m, "Buy", "EnteringLong", "intent")
    BY <1>1, <1>2 DEF OnSignal
  <2>2. o.machine = [m EXCEPT !.phase = "EnteringLong", !.active = "intent", !.start = m.net]
    BY <2>1 DEF SubmitEntry, Begin
  <2>3. o.machine \in RegMachines /\ o.machine.phase = "EnteringLong"
    BY <2>2 DEF RegMachines, Phases
  <2> QED
    BY <2>3 DEF Removable
<1>3. CASE m.phase = "Short"
  <2>1. o = SubmitExit(m, "Buy", "ExitingShort", "intent")
    BY <1>1, <1>3 DEF OnSignal
  <2>2. CASE m.net = 0
    <3>1. o.machine = [m EXCEPT !.phase = "Unknown"]
      BY <2>1, <2>2 DEF SubmitExit, NoOrder
    <3>2. o.machine \in RegMachines /\ o.machine.phase = "Unknown"
      BY <3>1 DEF RegMachines, Phases
    <3> QED
      BY <3>2 DEF Removable
  <2>3. CASE m.net # 0
    <3>1. o.machine = [m EXCEPT !.phase = "ExitingShort", !.active = "intent", !.start = m.net]
      BY <2>1, <2>3 DEF SubmitExit, Begin
    <3>2. o.machine \in RegMachines /\ o.machine.phase = "ExitingShort"
      BY <3>1 DEF RegMachines, Phases
    <3> QED
      BY <3>2 DEF Removable
  <2> QED
    BY <2>2, <2>3
<1>4. CASE m.phase # "Flat" /\ m.phase # "Short"
  <2>1. o = NoOrder(m)
    BY <1>1, <1>4 DEF OnSignal
  <2> QED
    BY <2>1 DEF NoOrder
<1> QED
  BY <1>2, <1>3, <1>4

\* A registry that differs in its machines only, none of which becomes removable.
LEMMA RouteEventKeeps ==
  ASSUME SRInv, NEW i \in Instruments, NEW admitted, RouteEvent(i, EntryScore, admitted)
  PROVE  /\ SRInv'
         /\ \A id \in DOMAIN reg.strategies : ~Removable(reg.strategies[id].machine) =>
              id \in DOMAIN reg'.strategies /\ ~Removable(reg'.strategies[id].machine)
<1>0. UNCHANGED <<disk, pins, universe, outcome, counts>> /\ RegInv(reg, Paths) /\ ExposureInv(exposed, reg)
  BY DEF RouteEvent, SRInv
<1>1. PICK S, R : S = reg.strategies /\ R = RoutedTo(i)
  OBVIOUS
<1>2. S \in [DOMAIN S -> Entries] /\ R \subseteq DOMAIN S
  BY <1>0, <1>1 DEF RegInv, RegShape, RoutedTo
<1>3. PICK D : D = [id \in R |-> OnSignal(S[id].machine, EntryScore, "intent")]
  OBVIOUS
<1>4. PICK S2 : S2 = [id \in DOMAIN S |-> IF id \in R THEN [S[id] EXCEPT !.machine = D[id].machine] ELSE S[id]]
  OBVIOUS
<1>5. reg' = [reg EXCEPT !.strategies = S2]
  BY <1>1, <1>3, <1>4 DEF RouteEvent
<1>6. reg' = [strategies |-> S2, sources |-> reg.sources, templates |-> reg.templates]
  BY <1>0, <1>5 DEF RegInv, RegShape
<1>7. ASSUME NEW id \in R
      PROVE  /\ D[id].machine \in RegMachines
             /\ (~Removable(S[id].machine) => ~Removable(D[id].machine))
             /\ D[id].side # "none" => ~Removable(D[id].machine)
  <2>1. S[id].machine \in RegMachines
    BY <1>2 DEF Entries
  <2> QED
    BY <1>3, <2>1, EventKeepsMachine
<1>8. ASSUME NEW id \in DOMAIN S
      PROVE  /\ S2[id] \in Entries /\ S2[id].inst = S[id].inst
             /\ S2[id].machine = IF id \in R THEN D[id].machine ELSE S[id].machine
  <2>1. S[id] \in Entries
    BY <1>2
  <2>2. CASE id \in R
    <3>1. S2[id] = [S[id] EXCEPT !.machine = D[id].machine]
      BY <1>4, <2>2
    <3> QED
      BY <1>7, <2>1, <2>2, <3>1 DEF Entries
  <2>3. CASE id \notin R
    BY <1>4, <2>1, <2>3
  <2> QED
    BY <2>2, <2>3
<1>9. DOMAIN S2 = DOMAIN S /\ S2 \in [DOMAIN S2 -> Entries]
  BY <1>4, <1>8
<1>10. ASSUME NEW id \in DOMAIN S, ~Removable(S[id].machine) PROVE ~Removable(S2[id].machine)
  BY <1>7, <1>8, <1>10
<1>11. RegInv(reg', Paths)
  <2>1. RegShape(reg', Paths)
    BY <1>0, <1>6, <1>9 DEF RegInv, RegShape
  <2>2. RegParted(reg', Paths)
    BY <1>0, <1>1, <1>6, <1>9 DEF RegInv, RegParted
  <2>3. RegTemplated(reg')
    <3>1. \A q \in DOMAIN reg.templates : \A id \in reg.sources[q] : id \in DOMAIN S
      BY <1>0, <1>1 DEF RegInv, RegShape, RegParted
    <3>2. reg'.strategies = S2 /\ reg'.sources = reg.sources /\ reg'.templates = reg.templates
      BY <1>6
    <3> QED
      BY <1>0, <1>1, <1>8, <3>1, <3>2 DEF RegInv, RegTemplated
  <2> QED
    BY <2>1, <2>2, <2>3 DEF RegInv
<1>12. PICK sent \in SUBSET R : /\ \A id \in sent : D[id].side # "none"
                                /\ exposed' = Overlay(exposed, [id \in sent |-> [inst |-> i, by |-> "score"]])
  <2>1. PICK asking : asking = {id \in R : D[id].side # "none"}
    OBVIOUS
  <2>2. PICK sent : sent = IF admitted THEN {id \in asking : ~S[id].driven} ELSE {}
    OBVIOUS
  <2>3. exposed' = Overlay(exposed, [id \in sent |-> [inst |-> i, by |-> "score"]])
    BY <1>1, <1>3, <2>1, <2>2 DEF RouteEvent
  <2>4. sent \in SUBSET R /\ \A id \in sent : D[id].side # "none"
    BY <2>1, <2>2
  <2> QED
    BY <2>3, <2>4
<1>13. ExposureInv(exposed', reg')
  <2>1. exposed' = [id \in DOMAIN exposed \cup sent |-> IF id \in sent THEN [inst |-> i, by |-> "score"] ELSE exposed[id]]
    BY <1>12 DEF Overlay
  <2>2. reg'.strategies = S2
    BY <1>6
  <2>3. ASSUME NEW id \in sent PROVE exposed'[id].inst \in Instruments /\ id \in DOMAIN S2 /\ ~Removable(S2[id].machine)
    BY <1>2, <1>7, <1>8, <1>9, <1>12, <2>1
  <2>4. ASSUME NEW id \in DOMAIN exposed, id \notin sent
        PROVE  /\ exposed'[id].inst \in Instruments
               /\ exposed'[id].by = "score" => id \in DOMAIN S2 /\ ~Removable(S2[id].machine)
    <3>1. exposed'[id] = exposed[id]
      BY <2>1, <2>4
    <3> QED
      BY <1>0, <1>1, <1>9, <1>10, <3>1 DEF ExposureInv
  <2>5. DOMAIN exposed' = DOMAIN exposed \cup sent
    BY <2>1
  <2>6. exposed' = [id \in DOMAIN exposed' |-> exposed'[id]]
    BY <2>1
  <2> QED
    BY <2>2, <2>3, <2>4, <2>5, <2>6 DEF ExposureInv
<1>14. SRInv'
  BY <1>0, <1>11, <1>13 DEF SRInv
<1>15. reg'.strategies = S2
  BY <1>6
<1> QED
  BY <1>1, <1>9, <1>10, <1>14, <1>15

\* An instance at work keeps working.
WorkGoesOn ==
  \A id \in DOMAIN reg.strategies :
    ~Removable(reg.strategies[id].machine) =>
      id \in DOMAIN reg'.strategies /\ ~Removable(reg'.strategies[id].machine)

LEMMA SurvivorsWork ==
  ASSUME Survives(reg, reg'), ExposureInv(exposed, reg), UNCHANGED exposed
  PROVE  WorkGoesOn /\ ExposureInv(exposed', reg')
<1>1. WorkGoesOn
  BY DEF Survives, WorkGoesOn
<1>2. ExposureInv(exposed, reg')
  BY DEF Survives, ExposureInv
<1> QED
  BY <1>1, <1>2

LEMMA RegistryStep == ASSUME SRInv, SRNext PROVE SRInv' /\ WorkGoesOn
<1>0. /\ disk \in [Paths -> Defs] /\ RegInv(reg, Paths) /\ ExposureInv(exposed, reg) /\ pins \subseteq Instruments
      /\ counts \in [edits : Int, reloads : Int, refreshes : Int]
  BY DEF SRInv
<1>1. ASSUME NEW p \in Paths, NEW d \in Defs, EditFile(p, d) PROVE SRInv' /\ WorkGoesOn
  <2>1. UNCHANGED <<reg, exposed, pins, universe, outcome>> /\ disk' = [disk EXCEPT ![p] = d]
    BY <1>1 DEF EditFile
  <2>2. counts' \in [edits : Int, reloads : Int, refreshes : Int]
    BY <1>0, <1>1 DEF EditFile
  <2>3. disk' \in [Paths -> Defs]
    BY <1>0, <2>1
  <2> QED
    BY <1>0, <2>1, <2>2, <2>3 DEF SRInv, WorkGoesOn
<1>2. CASE ReloadStrategies
  <2>1. PICK job : job = [what |-> "reload", files |-> disk]
    OBVIOUS
  <2>2. /\ UNCHANGED <<disk, exposed, pins, universe>> /\ reg' = OverFiles(job, reg).reg
        /\ outcome' = IF OverFiles(job, reg).ok THEN "reloaded" ELSE "rejected"
    BY <1>2, <2>1 DEF ReloadStrategies
  <2>3. RegInv(reg', Paths) /\ Survives(reg, reg')
    BY <1>0, <2>1, <2>2, ReloadKeeps
  <2>4. counts' \in [edits : Int, reloads : Int, refreshes : Int]
    BY <1>0, <1>2 DEF ReloadStrategies
  <2>5. outcome' \in {"none", "reloaded", "rejected"}
    BY <2>2
  <2>6. WorkGoesOn /\ ExposureInv(exposed', reg')
    BY <1>0, <2>2, <2>3, SurvivorsWork
  <2> QED
    BY <2>2, <2>3, <2>4, <2>5, <2>6 DEF SRInv
<1>3. ASSUME NEW found \in SUBSET Instruments, RefreshUniverse(found) PROVE SRInv' /\ WorkGoesOn
  <2>1. PICK job : job = [what |-> "refresh", found |-> found]
    OBVIOUS
  <2>2. /\ UNCHANGED <<disk, exposed, pins, outcome>> /\ reg' = OverFiles(job, reg).reg
        /\ universe' = IF OverFiles(job, reg).ok THEN "valid" ELSE "frozen"
    BY <1>3, <2>1 DEF RefreshUniverse
  <2>3. RegInv(reg', Paths) /\ Survives(reg, reg')
    BY <1>0, <2>1, <2>2, RefreshKeeps
  <2>4. counts' \in [edits : Int, reloads : Int, refreshes : Int]
    BY <1>0, <1>3 DEF RefreshUniverse
  <2>5. universe' \in {"valid", "frozen"}
    BY <2>2
  <2>6. WorkGoesOn /\ ExposureInv(exposed', reg')
    BY <1>0, <2>2, <2>3, SurvivorsWork
  <2> QED
    BY <2>2, <2>3, <2>4, <2>5, <2>6 DEF SRInv
<1>4. CASE RefreshFails
  <2>1. UNCHANGED <<disk, reg, exposed, pins, outcome>> /\ universe' = "frozen"
    BY <1>4 DEF RefreshFails
  <2>2. counts' \in [edits : Int, reloads : Int, refreshes : Int]
    BY <1>0, <1>4 DEF RefreshFails
  <2> QED
    BY <1>0, <2>1, <2>2 DEF SRInv, WorkGoesOn
<1>5. ASSUME NEW i \in Instruments, NEW a \in BOOLEAN, RouteEvent(i, EntryScore, a) PROVE SRInv' /\ WorkGoesOn
  BY <1>5, RouteEventKeeps DEF WorkGoesOn
<1>6. ASSUME NEW id \in DOMAIN reg.strategies, RoutePolicy(id) PROVE SRInv' /\ WorkGoesOn
  <2>1. UNCHANGED <<disk, reg, pins, universe, outcome, counts>>
    BY <1>6 DEF RoutePolicy
  <2>2. exposed' = [k \in DOMAIN exposed \cup {id} |-> IF k = id THEN [inst |-> reg.strategies[id].inst, by |-> "policy"] ELSE exposed[k]]
    BY <1>6 DEF RoutePolicy, Put, Overlay
  <2>3. reg.strategies[id].inst \in Instruments
    BY <1>0 DEF RegInv, RegShape, Entries
  <2>4. ASSUME NEW k \in DOMAIN exposed'
        PROVE  /\ exposed'[k].inst \in Instruments
               /\ exposed'[k].by = "score" => k \in DOMAIN reg.strategies /\ ~Removable(reg.strategies[k].machine)
    <3>1. CASE k = id
      BY <2>2, <2>3, <3>1
    <3>2. CASE k # id
      <4>1. k \in DOMAIN exposed /\ exposed'[k] = exposed[k]
        BY <2>2, <3>2
      <4> QED
        BY <1>0, <4>1 DEF ExposureInv
    <3> QED
      BY <3>1, <3>2
  <2>5. exposed' = [k \in DOMAIN exposed' |-> exposed'[k]]
    BY <2>2
  <2>6. ExposureInv(exposed', reg)
    BY <2>4, <2>5 DEF ExposureInv
  <2> QED
    BY <1>0, <2>1, <2>6 DEF SRInv, WorkGoesOn
<1>7. ASSUME NEW id \in DOMAIN exposed, Flattened(id) PROVE SRInv' /\ WorkGoesOn
  <2>1. UNCHANGED <<disk, reg, pins, universe, outcome, counts>>
    BY <1>7 DEF Flattened
  <2>2. exposed' = [k \in DOMAIN exposed \ {id} |-> exposed[k]]
    BY <1>7 DEF Flattened, Without, Restrict
  <2>3. ExposureInv(exposed', reg)
    BY <1>0, <2>2 DEF ExposureInv
  <2> QED
    BY <1>0, <2>1, <2>3 DEF SRInv, WorkGoesOn
<1>8. CASE PinExposure
  <2>1. UNCHANGED <<disk, reg, exposed, universe, outcome, counts>> /\ pins' = {exposed[id].inst : id \in DOMAIN exposed}
    BY <1>8 DEF PinExposure
  <2>2. pins' \subseteq Instruments
    BY <1>0, <2>1 DEF ExposureInv
  <2> QED
    BY <1>0, <2>1, <2>2 DEF SRInv, WorkGoesOn
<1> QED
  BY <1>1, <1>2, <1>3, <1>4, <1>5, <1>6, <1>7, <1>8 DEF SRNext

LEMMA SRInvNext == SRInv /\ [SRNext]_srVars => SRInv'
<1>1. ASSUME SRInv, UNCHANGED srVars PROVE SRInv'
  BY <1>1 DEF srVars, SRInv
<1> QED
  BY <1>1, RegistryStep

\* After any sequence of edits, reloads and refreshes, those that fail half way included,
\* the files partition the running instances, and what a score machine opened has its
\* instance (StrategyRegistry, reload_strategies, refresh_dynamic_universe).
THEOREM RegistryStaysWhole == SRSpec => []RegistrySafety
<1>1. SRInv => RegistrySafety
  <2> SUFFICES ASSUME SRInv PROVE RegistrySafety
    OBVIOUS
  <2>1. RegShape(reg, Paths) /\ RegParted(reg, Paths) /\ ExposureInv(exposed, reg)
    BY DEF SRInv, RegInv
  <2>2. \A id \in DOMAIN reg.strategies : reg.strategies[id].machine.phase \in Phases
    <3>1. ASSUME NEW id \in DOMAIN reg.strategies PROVE reg.strategies[id] \in Entries
      BY <2>1 DEF RegShape
    <3> QED
      BY <3>1 DEF Entries, RegMachines
  <2>3. DOMAIN reg.sources = Paths /\ DOMAIN reg.templates \subseteq Paths
    BY <2>1 DEF RegShape
  <2>4. SRTypeOK
    BY <2>2, <2>3 DEF SRInv, SRTypeOK
  <2>5. SourcesPartition
    BY <2>1 DEF RegParted, SourcesPartition
  <2>6. ScoredExposureIsOwned
    BY <2>1 DEF ExposureInv, ScoredExposureIsOwned
  <2> QED
    BY <2>4, <2>5, <2>6 DEF RegistrySafety
<1> QED
  BY <1>1, SRInvInit, SRInvNext, PTL DEF SRSpec

\* No reload and no refresh drops or resets an instance that is at work
\* (ensure_ids_removable).
THEOREM WorkSurvives == SRSpec => WorkingInstanceSurvives
<1>1. SRInv /\ [SRNext]_srVars =>
        [\A id \in DOMAIN reg.strategies :
           ~Removable(reg.strategies[id].machine) =>
             id \in DOMAIN reg'.strategies /\ ~Removable(reg'.strategies[id].machine)]_srVars
  BY RegistryStep DEF WorkGoesOn
<1> QED
  BY <1>1, SRInvInit, SRInvNext, PTL DEF SRSpec, WorkingInstanceSurvives

\* A refresh keeps every instance of an enabled template on a pinned instrument, also when
\* another template fails (apply_dynamic_instruments with the pins of the last reconcile).
THEOREM PinsSurvive == SRSpec => PinnedSurvivesRefresh
<1>1. SRInv /\ [SRNext]_srVars =>
        [counts'.refreshes # counts.refreshes =>
           \A p \in DOMAIN reg.templates : reg.templates[p].enabled =>
             \A id \in reg.sources[p] :
               reg.strategies[id].inst \in pins => id \in DOMAIN reg'.strategies]_srVars
  <2> SUFFICES ASSUME SRInv, SRNext, counts'.refreshes # counts.refreshes,
                      NEW p \in DOMAIN reg.templates, reg.templates[p].enabled,
                      NEW id \in reg.sources[p], reg.strategies[id].inst \in pins
               PROVE  id \in DOMAIN reg'.strategies
    OBVIOUS
  <2>0. /\ RegInv(reg, Paths) /\ pins \subseteq Instruments
        /\ counts \in [edits : Int, reloads : Int, refreshes : Int]
    BY DEF SRInv
  <2>1. ASSUME NEW q \in Paths, NEW d \in Defs, EditFile(q, d) PROVE FALSE
    BY <2>0, <2>1 DEF EditFile
  <2>2. ~ReloadStrategies
    BY <2>0 DEF ReloadStrategies
  <2>3. ASSUME NEW found \in SUBSET Instruments, RefreshUniverse(found) PROVE id \in DOMAIN reg'.strategies
    <3>1. PICK job : job = [what |-> "refresh", found |-> found]
      OBVIOUS
    <3>2. reg' = OverFiles(job, reg).reg
      BY <2>3, <3>1 DEF RefreshUniverse
    <3>3. PinsStay(reg, reg', pins)
      BY <2>0, <3>1, <3>2, RefreshKeeps
    <3> QED
      BY <3>3 DEF PinsStay
  <2>4. ASSUME RefreshFails PROVE id \in DOMAIN reg'.strategies
    <3>1. id \in DOMAIN reg.strategies /\ reg' = reg
      BY <2>0, <2>4 DEF RefreshFails, RegInv, RegShape, RegParted
    <3> QED
      BY <3>1
  <2>5. ASSUME NEW i \in Instruments, NEW a \in BOOLEAN, RouteEvent(i, EntryScore, a) PROVE FALSE
    BY <2>5 DEF RouteEvent
  <2>6. \A k : ~RoutePolicy(k) /\ ~Flattened(k)
    BY DEF RoutePolicy, Flattened
  <2>7. ~PinExposure
    BY DEF PinExposure
  <2> QED
    BY <2>1, <2>2, <2>3, <2>4, <2>5, <2>6, <2>7 DEF SRNext
<1> QED
  BY <1>1, SRInvInit, SRInvNext, PTL DEF SRSpec, PinnedSurvivesRefresh

-----------------------------------------------------------------------------
(* The three parts together *)

\* A behaviour of the composition is one of the machine and one of the registry.
LEMMA PartsBehave == StrategySpec => SOSpec /\ SRSpec
<1>1. StrategyInit => SOInit /\ SRInit
  BY DEF StrategyInit
<1>2. [StrategyNext]_strategyVars => [SONext]_soVars
  BY DEF StrategyNext, strategyVars, MachinePart, RegistryPart, PolicyPart
<1>3. [StrategyNext]_strategyVars => [SRNext]_srVars
  BY DEF StrategyNext, strategyVars, MachinePart, RegistryPart, PolicyPart
<1> QED
  BY <1>1, <1>2, <1>3, PTL DEF StrategySpec, SOSpec, SRSpec

\* No step of the strategies orders while a machine has lost track, drops an instance at
\* work, or takes a pinned instrument's instance away in a refresh.
THEOREM StrategiesStepSafely == StrategySpec => StrategySteps
  BY PartsBehave, LostAsksNothing, WorkSurvives, PinsSurvive, PTL DEF StrategySteps

=============================================================================
