------------------------------ MODULE MCStrategy -----------------------------
(* The strategies for TLC: the score machine with its orders, the registry  *)
(* of instances and the live policies.  They share no state, so a behaviour *)
(* picks one of the three and the others keep still.  The registry has two  *)
(* files and three instruments on two venues.                               *)
EXTENDS StrategyOrders, StrategyRegistry, LivePolicy

VARIABLE part

strategyVars == <<part, soVars, srVars, lpVars>>

HL(a) == [venue |-> "HL", asset |-> a]
IB(a) == [venue |-> "IB", asset |-> a]

MCPathOrder == <<"a.toml", "b.toml">>
MCInstruments == {HL("X"), HL("Y"), IB("X")}
MCServed == [v \in {"HL", "IB"} |-> IF v = "HL" THEN {"1m"} ELSE {"5s"}]

Def(kind, base, insts, interval, enabled, driven) ==
  [kind |-> kind, base |-> base, insts |-> insts, venues |-> {"HL"},
   interval |-> interval, enabled |-> enabled, driven |-> driven,
   sane |-> TRUE, short |-> FALSE]

MCDefs == {
  Def("static", "s", {HL("X")}, "default", TRUE, FALSE),
  Def("static", "s", {HL("X"), HL("Y")}, "1m", TRUE, TRUE),
  Def("static", "t", {HL("X"), IB("X")}, "1m", TRUE, FALSE),
  Def("dynamic", "s", {}, "default", TRUE, TRUE),
  Def("dynamic", "t", {}, "1m", FALSE, FALSE),
  Def("bad", "s", {}, "default", TRUE, FALSE)}

AnyLoadable == CHOOSE d \in [Paths -> Defs] : LoadDir(d).ok

MachinePart == part = "machine" /\ UNCHANGED <<part, srVars, lpVars>>
RegistryPart == part = "registry" /\ UNCHANGED <<part, soVars, lpVars>>
PolicyPart == part = "policy" /\ UNCHANGED <<part, soVars, srVars>>

StrategyInit ==
  /\ part \in {"machine", "registry", "policy"}
  /\ SOInit /\ (part # "machine" => machine = NewMachine(FALSE) /\ excess = 0)
  /\ SRInit /\ (part # "registry" => disk = AnyLoadable)
  /\ LPInit

StrategyNext ==
  \/ MachinePart /\ SONext
  \/ RegistryPart /\ SRNext
  \/ PolicyPart /\ LPNext

StrategySpec == StrategyInit /\ [][StrategyNext]_strategyVars

\* What a step of the strategies may never do: order while the machine lost track, drop
\* a working instance, or take a pinned instrument's instance away in a refresh.
StrategySteps == NoOrderWhileLost /\ WorkingInstanceSurvives /\ PinnedSurvivesRefresh
=============================================================================
