------------------------------ MODULE MCMarket -------------------------------
(* Market data for TLC: the depth bridge of a live book, the matching       *)
(* kernels that replay one, and the signals drawn from the events.  They    *)
(* share no state, so a behaviour picks one of the three and the others     *)
(* keep still, the simulated orders all canceled.  The weights and the      *)
(* confidence of the signals are the defaults, in twentieths.               *)
EXTENDS DepthBook, Simulator, LiveSignals, TLC

VARIABLE part

marketVars == <<part, vars, simVars, lsVars>>

MCPositions == {-2, -1, 1}
MCFirstOrders == {p \in Plans : p.side = 1 /\ p.display < 2}
FirstBook == CHOOSE b \in Books : ValidBook(b)
FirstPlan == CHOOSE p \in MCFirstOrders : TRUE

MCWeight == ("vwap_deviation_bps" :> 5) @@ ("trade_imbalance" :> 6)
              @@ ("book_imbalance" :> 5) @@ ("momentum_bps" :> 4)
MCMinConfidence == <<9, 20>>
MCFilter == [momentum |-> 0, volume |-> 1, trade |-> 0, book |-> NoValue,
             spread |-> 1, variance |-> NoValue]

Rule(filter, entry, exit) == [filter |-> filter, entry |-> entry, exit |-> exit]
MCRules == {
  Rule({"spread_bps"}, {"vwap_deviation_bps", "volume_ratio"}, {"average_entry_price"}),
  Rule({}, {"confidence"}, {"net_quantity"}),
  Rule({"book_imbalance"}, {"trade_imbalance"}, {"realized_volatility_bps"})}

DepthPart == part = "depth" /\ UNCHANGED <<part, simVars, lsVars>>
SimulatorPart == part = "simulator" /\ UNCHANGED <<part, vars, lsVars>>
SignalPart == part = "signals" /\ UNCHANGED <<part, vars, simVars>>

MarketInit ==
  /\ part \in {"depth", "simulator", "signals"}
  /\ part = "depth" \/ hist = <<FirstBook>>
  /\ Init
  /\ \/ part = "simulator" /\ SimInit
     \/ /\ part # "simulator"
        /\ plan = [o \in OrderIds |-> FirstPlan] /\ link = "Oco" /\ position = 0
        /\ engine = [o \in OrderIds |-> [qty |-> SimQuantity, filled |-> 0, st |-> "Canceled"]]
        /\ coord = [o \in OrderIds |-> [qty |-> SimQuantity, active |-> TRUE]]
  /\ LSInit /\ (part # "signals" => setup.engine = "score")

MarketNext ==
  \/ DepthPart /\ Next
  \/ SimulatorPart /\ SimNext
  \/ SignalPart /\ LSNext

MarketSpec == MarketInit /\ [][MarketNext]_marketVars

\* What is drawn from market data is as sound as the data: the kernels agree and keep to
\* their orders (Simulator), and signals rest on what was seen (LiveSignals).
MarketSafety == SimulatorSafety /\ SignalSafety
=============================================================================
