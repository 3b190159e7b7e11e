--------------------------- MODULE StrategyMachine ---------------------------
(***************************************************************************)
(* The per-strategy position machine of pg-strategy: phases, the intent in *)
(* flight and the quantity the strategy believes it owns, as operators on  *)
(* a machine record.  A score is a small integer and so is a quantity; a   *)
(* positive net quantity is long.                                          *)
(***************************************************************************)
EXTENDS Integers

CONSTANTS
  OrderQuantity,   \* StrategyConfig.order_quantity
  EntryScore,      \* StrategyConfig.entry_score
  ExitScore,       \* StrategyConfig.exit_score
  NoIntent         \* active_intent_id: None

\* What StrategyConfig::validate accepts.
ValidStrategyConfig ==
  /\ OrderQuantity \in Nat \ {0}
  /\ EntryScore \in Nat \ {0}
  /\ ExitScore \in 0..(EntryScore - 1)

ASSUME ConfigAssumption == ValidStrategyConfig

Phases == {"Flat", "EnteringLong", "Long", "ExitingLong", "EnteringShort",
           "Short", "ExitingShort", "SafeHold", "Unknown", "Halted"}

Entering == {"EnteringLong", "EnteringShort"}
Exiting == {"ExitingLong", "ExitingShort"}

AbsQ(q) == IF q < 0 THEN -q ELSE q

\* A new instance; allow_short comes from its definition.
NewMachine(short) ==
  [phase |-> "Flat", net |-> 0, active |-> NoIntent, start |-> 0, allowShort |-> short]

\* The phase that a settled quantity stands for.
SettledPhase(net) == IF net > 0 THEN "Long" ELSE IF net < 0 THEN "Short" ELSE "Flat"

Begin(m, phase, intent) ==
  [m EXCEPT !.phase = phase, !.active = intent, !.start = m.net]

(***************************************************************************)
(* on_signal, for a fresh signal (not expired, not the last one again).    *)
(* The result is the machine and the side of the order it asks for, "none" *)
(* when it asks for none.  An exit with nothing owned makes the state      *)
(* unknown.                                                                *)
(***************************************************************************)
SubmitEntry(m, side, phase, intent) ==
  [machine |-> Begin(m, phase, intent), side |-> side,
   quantity |-> OrderQuantity, reduceOnly |-> FALSE]

NoOrder(m) == [machine |-> m, side |-> "none", quantity |-> 0, reduceOnly |-> FALSE]

ExitQuantity(m) == AbsQ(m.net)

SubmitExit(m, side, phase, intent) ==
  IF m.net = 0
    THEN NoOrder([m EXCEPT !.phase = "Unknown"])
    ELSE [machine |-> Begin(m, phase, intent), side |-> side,
          quantity |-> ExitQuantity(m), reduceOnly |-> TRUE]

OnSignal(m, score, intent) ==
  CASE m.phase = "Flat" /\ score >= EntryScore ->
         SubmitEntry(m, "Buy", "EnteringLong", intent)
    [] m.phase = "Flat" /\ m.allowShort /\ score <= -EntryScore ->
         SubmitEntry(m, "Sell", "EnteringShort", intent)
    [] m.phase = "Long" /\ score <= ExitScore ->
         SubmitExit(m, "Sell", "ExitingLong", intent)
    [] m.phase = "Short" /\ score >= -ExitScore ->
         SubmitExit(m, "Buy", "ExitingShort", intent)
    [] OTHER -> NoOrder(m)

(***************************************************************************)
(* on_intent_fill_progress: a report of the quantity of one intent filled  *)
(* so far.                                                                 *)
(***************************************************************************)
Expected(m) == IF m.phase \in Entering THEN OrderQuantity ELSE AbsQ(m.start)

\* Mutant: a cumulative quantity is added as if it were new.
NetAdded(m, cumulative) == m.net + cumulative

NetAfter(m, cumulative) ==
  CASE m.phase = "EnteringLong"  -> cumulative
    [] m.phase = "EnteringShort" -> -cumulative
    [] m.phase = "ExitingLong"   -> m.start - cumulative
    [] m.phase = "ExitingShort"  -> m.start + cumulative

StateUnknown(m) == [m EXCEPT !.phase = "Unknown"]

EnterSafeHold(m) == [m EXCEPT !.phase = "SafeHold", !.active = NoIntent, !.start = 0]

Halt(m) == [m EXCEPT !.phase = "Halted", !.active = NoIntent, !.start = 0]

Concerns(m, intent) == m.active = intent /\ m.phase \in Entering \cup Exiting

OnFillProgress(m, intent, cumulative, full) ==
  LET next == [m EXCEPT !.net = NetAfter(m, cumulative)]
  IN IF ~Concerns(m, intent) THEN m
     ELSE IF cumulative > Expected(m) THEN StateUnknown(m)
     ELSE IF ~full THEN next
     ELSE IF cumulative # Expected(m) THEN EnterSafeHold(next)
     ELSE [next EXCEPT !.phase = SettledPhase(next.net), !.active = NoIntent, !.start = 0]

RestoreAfterReconcile(m, net) ==
  [m EXCEPT !.phase = SettledPhase(net), !.net = net, !.active = NoIntent, !.start = 0]

\* What the registry asks before it drops an instance.
Removable(m) == m.net = 0 /\ m.active = NoIntent /\ m.phase \in {"Flat", "Halted"}
=============================================================================
