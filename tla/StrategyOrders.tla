--------------------------- MODULE StrategyOrders ----------------------------
(***************************************************************************)
(* One position machine with the venue its orders go to.  Fill reports     *)
(* carry the cumulative quantity of one intent; they may arrive late, in   *)
(* another order and more than once.  The host may declare the state       *)
(* unknown, hold, halt, and restore the machine after a reconcile.         *)
(***************************************************************************)
EXTENDS StrategyMachine, FiniteSets

CONSTANTS
  MaxIntents    \* bound: intents the machine emits

ASSUME IntentAssumption == MaxIntents \in Nat /\ NoIntent \notin 1..MaxIntents

VARIABLES
  machine,     \* StrategyMachine.state
  nextIntent,  \* the next intent id
  order,       \* the venue's order of the last intent
  reports,     \* fill reports sent so far: <<intent, cumulative, full>>
  position,    \* the venue's position
  excess       \* how much the venue may fill beyond an order's quantity

soVars == <<machine, nextIntent, order, reports, position, excess>>

NoOrderYet == [intent |-> NoIntent, side |-> "none", quantity |-> 0, filled |-> 0, live |-> FALSE]

SOInit ==
  /\ machine \in {NewMachine(short) : short \in BOOLEAN}
  /\ nextIntent = 1
  /\ order = NoOrderYet
  /\ reports = {}
  /\ position = 0
  /\ excess \in 0..1

SOTypeOK ==
  /\ machine.phase \in Phases
  /\ machine.net \in Int /\ machine.start \in Int /\ position \in Int
  /\ machine.active \in 1..MaxIntents \cup {NoIntent}
  /\ nextIntent \in 1..(MaxIntents + 1)
  /\ \A r \in reports : r[1] \in 1..MaxIntents /\ r[2] \in Nat /\ r[3] \in BOOLEAN

\* A signal; an order it asks for reaches the venue.
Signal(score) ==
  LET d == OnSignal(machine, score, nextIntent)
  IN /\ nextIntent <= MaxIntents
     /\ machine' = d.machine
     /\ IF d.side = "none"
          THEN UNCHANGED <<nextIntent, order>>
          ELSE /\ order' = [intent |-> nextIntent, side |-> d.side,
                            quantity |-> d.quantity, filled |-> 0, live |-> TRUE]
               /\ nextIntent' = nextIntent + 1
     /\ UNCHANGED <<reports, position, excess>>

\* The venue fills one more unit and reports the total.
VenueFill ==
  /\ order.live
  /\ order.filled < order.quantity + excess
  /\ LET filled == order.filled + 1
         full == filled >= order.quantity
     IN /\ order' = [order EXCEPT !.filled = filled, !.live = filled < order.quantity + excess]
        /\ reports' = reports \cup {<<order.intent, filled, full>>}
        /\ position' = position + (IF order.side = "Buy" THEN 1 ELSE -1)
  /\ UNCHANGED <<machine, nextIntent, excess>>

\* The venue ends the order short of its quantity, reported as final.
VenueCancel ==
  /\ order.live
  /\ order' = [order EXCEPT !.live = FALSE]
  /\ reports' = reports \cup {<<order.intent, order.filled, TRUE>>}
  /\ UNCHANGED <<machine, nextIntent, position, excess>>

\* A report is delivered; it stays, so it may be delivered again later.
DeliverReport(r) ==
  /\ r \in reports
  /\ machine' = OnFillProgress(machine, r[1], r[2], r[3])
  /\ UNCHANGED <<nextIntent, order, reports, position, excess>>

HostDeclares(m) ==
  /\ machine' = m
  /\ UNCHANGED <<nextIntent, order, reports, position, excess>>

ExternalUnknown == HostDeclares(StateUnknown(machine))
SafeHold == HostDeclares(EnterSafeHold(machine))
HaltStrategy == HostDeclares(Halt(machine))

\* A clean reconcile: no order of the strategy is live at the venue.
Restore ==
  /\ ~order.live
  /\ HostDeclares(RestoreAfterReconcile(machine, position))

SONext ==
  \/ \E s \in (-EntryScore)..EntryScore : Signal(s)
  \/ VenueFill \/ VenueCancel
  \/ \E r \in reports : DeliverReport(r)
  \/ ExternalUnknown \/ SafeHold \/ HaltStrategy \/ Restore

SOSpec == SOInit /\ [][SONext]_soVars

-----------------------------------------------------------------------------
\* A settled phase owns exactly what the venue holds, whatever order the
\* reports came in and however often (on_intent_fill_progress), unless the
\* venue filled more than the order asked for after its final report.
SettledIsExact ==
  machine.phase \in {"Flat", "Long", "Short"} /\ excess = 0 =>
    machine.net = position /\ ~order.live

\* While an intent is in flight the believed quantity never runs ahead of the
\* venue: entering it is at most the venue's, exiting at least.
NeverAhead ==
  excess = 0 =>
    /\ machine.phase = "EnteringLong"  => machine.net \in 0..position
    /\ machine.phase = "EnteringShort" => -machine.net \in 0..(-position)
    /\ machine.phase = "ExitingLong"   => machine.net >= position /\ position >= 0
    /\ machine.phase = "ExitingShort"  => machine.net <= position /\ position <= 0

\* The venue is never short on behalf of a long-only strategy: entries open
\* from flat and an exit is never larger than what is owned.
LongOnlyNeverShort == ~machine.allowShort /\ excess = 0 => position >= 0

\* What a score machine believes of its position is never more than the venue can have
\* done, and exact once it settles.
ScoreSafety == SOTypeOK /\ SettledIsExact /\ NeverAhead /\ LongOnlyNeverShort

\* A machine that lost track, holds or is halted asks for no order until a
\* reconcile restores it, and an order is asked for only when none is in
\* flight (on_signal).
NoOrderWhileLost ==
  [][nextIntent' # nextIntent =>
       machine.phase \in {"Flat", "Long", "Short"} /\ machine.active = NoIntent]_soVars
=============================================================================
