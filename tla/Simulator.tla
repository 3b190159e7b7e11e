------------------------------ MODULE Simulator ------------------------------
(***************************************************************************)
(* The two matching kernels of research and replay.  pg-sim's engine keeps *)
(* orders, matches one of them at a time and applies its contingency to    *)
(* the peer.  pg-execution's match_order is a function of one order and    *)
(* one top of book, and its CompositeCoordinator says what a fill does to  *)
(* linked orders.  Two orders "a" and "b" are linked to each other; a      *)
(* price is abstracted to whether the touch reaches the order's limit.     *)
(***************************************************************************)
EXTENDS Integers, FiniteSets, FiniteSetsExt

CONSTANTS
  SimQuantity,   \* quantity of the orders
  SimPositions,  \* positions to start from
  FirstOrders    \* bound: the plans of order "a"

OrderIds == {"a", "b"}
PeerOf(o) == IF o = "a" THEN "b" ELSE "a"

TIFs == {"Ioc", "Fok", "Gtc", "Gtd", "Day", "AtTheOpen", "AtTheClose"}
Phases == {"PreOpen", "Opening", "Continuous", "Closing", "Closed"}
Plans == [side : {1, -1}, limit : BOOLEAN, tif : TIFs, postOnly : BOOLEAN, reduce : BOOLEAN,
          display : 0 .. SimQuantity]
Links == {"Oco", "Oto", "Ouo"}

\* A top of book, with what it offers and whether it reaches a limit; `late` says that
\* the deadline of a GTD order is over.
Markets == [depth : 0 .. SimQuantity, reaches : BOOLEAN, phase : Phases, late : BOOLEAN]

ASSUME SimAssumption ==
  /\ SimQuantity \in Nat \ {0} /\ SimPositions \subseteq Int /\ FirstOrders \subseteq Plans

VARIABLES
  plan,     \* order -> SimOrder
  link,     \* the contingency the two orders carry
  engine,   \* order -> SimOrderRecord: quantity, filled and state
  position,
  coord     \* order -> its quantity as the coordinator would have it, and active

simVars == <<plan, link, engine, position, coord>>

Closed == {"Filled", "Canceled", "Rejected"}

\* submit of both orders; the child of an OTO starts dormant.
SimInit ==
  /\ plan \in [OrderIds -> Plans]
  /\ plan["a"] \in FirstOrders
  /\ plan["b"] \in [side : {1, -1}, limit : {FALSE}, tif : {"Gtc"}, postOnly : {FALSE},
                    reduce : BOOLEAN, display : {0}]
  /\ link \in Links
  /\ position \in SimPositions
  /\ engine = [o \in OrderIds |->
       [qty |-> SimQuantity, filled |-> 0,
        st |-> IF link = "Oto" /\ o = "b" THEN "Dormant" ELSE "Resting"]]
  /\ coord = [o \in OrderIds |-> [qty |-> SimQuantity, active |-> ~(link = "Oto" /\ o = "b")]]

Remaining(o) == Max({engine[o].qty - engine[o].filled, 0})

-----------------------------------------------------------------------------
(* Conditions both kernels share *)

Crosses(p, m) == p.limit => m.reaches

\* How much of a quantity reduces the position.
Reducible(p, q) ==
  IF ~p.reduce THEN q
  ELSE IF p.side * position < 0 THEN Max({position, -position}) ELSE 0

Slice(p, q) == IF p.display = 0 THEN q ELSE Min({p.display, q})

Expired(p, m) == (p.tif = "Gtd" /\ m.late) \/ (p.tif = "Day" /\ m.phase = "Closed")

-----------------------------------------------------------------------------
(* pg-sim *)

\* phase_allows
PhaseAllows(p, m) ==
  CASE p.tif = "AtTheOpen" -> m.phase = "Opening"
    [] p.tif = "AtTheClose" -> m.phase = "Closing"
    [] OTHER -> m.phase \notin {"PreOpen", "Closed"}

Executable(o, m) ==
  Min({Remaining(o), m.depth, Slice(plan[o], Remaining(o)), Reducible(plan[o], Remaining(o))})

\* match_once up to the fill: the state and the quantity an order gets.
Unchanged(o) == [st |-> engine[o].st, fill |-> 0]
Ends(st) == [st |-> st, fill |-> 0]

Filled(o, m) ==
  LET q == Executable(o, m)
      p == plan[o]
      exhausted == p.reduce /\ q = Reducible(p, Remaining(o)) /\ q < Remaining(o)
  IN  IF p.tif = "Fok" /\ q < Remaining(o) THEN Ends("Canceled")
      ELSE IF q = 0 THEN (IF p.tif = "Ioc" THEN Ends("Canceled") ELSE Unchanged(o))
      ELSE [fill |-> q,
            st |-> IF q = Remaining(o) THEN "Filled"
                   ELSE IF p.tif = "Ioc" \/ exhausted THEN "Canceled" ELSE "PartiallyFilled"]

MatchOnce(o, m) ==
  LET p == plan[o]
  IN  IF engine[o].st \in Closed \cup {"Dormant"} THEN Unchanged(o)
      ELSE IF Expired(p, m) THEN Ends("Canceled")
      ELSE IF ~PhaseAllows(p, m) THEN Unchanged(o)
      ELSE IF p.postOnly /\ Crosses(p, m) THEN Ends("Rejected")
      ELSE IF ~Crosses(p, m) THEN Unchanged(o)
      ELSE IF p.reduce /\ Reducible(p, Remaining(o)) = 0 THEN Ends("Rejected")
      ELSE Filled(o, m)

\* OUO: the peer loses what was filled, but not what it has filled itself.
PeerUpdated(r, delta) ==
  LET q == Max({r.qty - delta, r.filled})
  IN  [r EXCEPT !.qty = q, !.st = IF q = r.filled THEN "Canceled" ELSE @]

\* What a match does to the peer.
PeerAfter(r, done, fill) ==
  CASE link = "Oco" /\ done /\ r.st \notin Closed -> [r EXCEPT !.st = "Canceled"]
    [] link = "Oto" /\ done /\ r.st = "Dormant" -> [r EXCEPT !.st = "Resting"]
    [] link = "Ouo" /\ fill > 0 /\ r.st \notin Closed -> PeerUpdated(r, fill)
    [] OTHER -> r

-----------------------------------------------------------------------------
(* CompositeCoordinator::on_fill, for a cumulative fill of o *)

CoordAfter(o, cumulative) ==
  LET peer == PeerOf(o)
      complete == cumulative >= SimQuantity
  IN  CASE link = "Oco" -> [coord EXCEPT ![peer].active = FALSE]
        [] link = "Ouo" -> [coord EXCEPT ![peer].qty = Max({SimQuantity - cumulative, 0})]
        [] link = "Oto" /\ o = "a" /\ complete -> [coord EXCEPT ![peer].active = TRUE]
        [] OTHER -> coord

Match(o, m) ==
  LET result == MatchOnce(o, m)
      r == [engine[o] EXCEPT !.st = result.st, !.filled = @ + result.fill]
  IN  /\ engine' = [engine EXCEPT ![o] = r,
            ![PeerOf(o)] = PeerAfter(@, result.fill > 0 /\ result.st = "Filled", result.fill)]
      /\ position' = position + plan[o].side * result.fill
      /\ coord' = IF result.fill = 0 THEN coord ELSE CoordAfter(o, r.filled)
      /\ UNCHANGED <<plan, link>>

\* cancel
CancelSim(o) ==
  /\ engine[o].st \notin Closed
  /\ engine' = [engine EXCEPT ![o].st = "Canceled"]
  /\ UNCHANGED <<plan, link, position, coord>>

SimNext == \E o \in OrderIds : CancelSim(o) \/ \E m \in Markets : Match(o, m)

SimSpec == SimInit /\ [][SimNext]_simVars

-----------------------------------------------------------------------------
(* match_order of pg-execution, for a new order of quantity q *)

Outcome(disposition, fill) == [disposition |-> disposition, fill |-> fill]

OrderExecutable(p, q, m) == Min({m.depth, Min({Reducible(p, q), q}), Slice(p, q)})

\* AdvancedOrderIntent::validate
ValidIntent(p, q) == q > 0 /\ (p.postOnly => p.limit) /\ (p.display > 0 => p.display < q)

Immediate(p) == p.tif \in {"Ioc", "Fok"}

MatchOrder(p, q, m) ==
  LET x == OrderExecutable(p, q, m)
  IN  IF ~ValidIntent(p, q) THEN Outcome("Rejected", 0)
      ELSE IF Expired(p, m) THEN Outcome("Expired", 0)
      ELSE IF p.tif = "AtTheOpen" /\ m.phase # "Opening" THEN Outcome("Resting", 0)
      ELSE IF p.tif = "AtTheClose" /\ m.phase # "Closing" THEN Outcome("Resting", 0)
      ELSE IF p.postOnly /\ Crosses(p, m) THEN Outcome("Rejected", 0)
      ELSE IF p.reduce /\ Reducible(p, q) = 0 THEN Outcome("Rejected", 0)
      ELSE IF ~Crosses(p, m) THEN Outcome(IF Immediate(p) THEN "Canceled" ELSE "Resting", 0)
      ELSE IF p.tif = "Fok" /\ x < q THEN Outcome("Canceled", 0)
      ELSE IF x = 0 THEN Outcome("Rejected", 0)
      ELSE Outcome(IF x = q THEN "Filled"
                   ELSE IF p.tif = "Ioc" THEN "PartiallyFilledAndCanceled" ELSE "Resting", x)

-----------------------------------------------------------------------------
(* Properties *)

\* Type: no order is filled beyond its quantity, which only shrinks.
SimTypeOK ==
  /\ \A o \in OrderIds :
       /\ engine[o].qty \in 0 .. SimQuantity /\ engine[o].filled \in 0 .. engine[o].qty
       /\ engine[o].st \in Closed \cup {"Dormant", "Resting", "PartiallyFilled"}
       /\ coord[o].qty \in 0 .. SimQuantity /\ coord[o].active \in BOOLEAN

\* Both kernels fill an order by the same amount whenever trading is open: two
\* implementations of IOC, FOK, post-only, reduce-only and iceberg agree on every
\* remaining order, market and position that an episode reaches.
KernelsAgree ==
  \A o \in OrderIds :
    engine[o].st \in {"Resting", "PartiallyFilled"} /\ ValidIntent(plan[o], Remaining(o)) =>
      \A m \in Markets :
        m.phase \notin {"PreOpen", "Closed"} =>
          MatchOnce(o, m).fill = MatchOrder(plan[o], Remaining(o), m).fill

\* OUO: whatever the order of partial fills, the two orders together never fill more
\* than one quantity.
OuoSharesOneQuantity ==
  link = "Ouo" => engine["a"].filled + engine["b"].filled <= SimQuantity

\* The engine's peer of an OUO or OTO is where the coordinator puts it.
CoordinatorAgrees ==
  \A o \in OrderIds :
    engine[o].st \notin Closed =>
      /\ link = "Ouo" => engine[o].qty = Max({coord[o].qty, engine[o].filled})
      /\ link = "Oto" => (engine[o].st # "Dormant") = coord[o].active

\* The child of an OTO fills only after its parent is complete.
ChildFollowsParent ==
  link = "Oto" /\ engine["b"].filled > 0 => engine["a"].filled = SimQuantity

\* The simulator as a whole: the two kernels agree, and linked orders stay linked over
\* any sequence of fills, markets and cancellations.
SimulatorSafety ==
  /\ SimTypeOK /\ KernelsAgree /\ OuoSharesOneQuantity /\ CoordinatorAgrees
  /\ ChildFollowsParent

=============================================================================
