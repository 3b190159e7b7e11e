--------------------------- MODULE Shadow_proofs ---------------------------
(***************************************************************************)
(* The shadow daemon, for every list of policies and every number of       *)
(* orders, reconnects and starts: it adds exposure only after a clean      *)
(* reconcile of its own, keeps one working order per policy, leaves        *)
(* nothing working when it shuts down, and exits never go through flat.    *)
(***************************************************************************)
EXTENDS ShadowDaemon, TLAPS

-----------------------------------------------------------------------------
(* The venue's book *)

BookOrders == [side : {"Buy", "Sell"}, qty : Nat \ {0}, filled : Nat,
               st : {"Open", "Filled", "Canceled"}]

IsBook(b) ==
  /\ b = [orders |-> b.orders, net |-> b.net, priced |-> b.priced, entries |-> b.entries]
  /\ b.net \in Int
  /\ \A c \in DOMAIN b.orders : b.orders[c] \in BookOrders

BookIntents == [side : {"Buy", "Sell"}, qty : Nat \ {0}, reduceOnly : BOOLEAN]

\* A new venue knows no order and no position.
LEMMA BookEmpty ==
  /\ IsBook(EmptyBook) /\ DOMAIN EmptyBook.orders = {} /\ OpenOrders(EmptyBook) = {}
  /\ EmptyBook.net = 0
BY DEF EmptyBook, IsBook, OpenOrders

BookOf(os, net, p, e) == [orders |-> os, net |-> net, priced |-> p, entries |-> e]

LEMMA BookFields ==
  ASSUME NEW os, NEW net \in Int, NEW p, NEW e, \A c \in DOMAIN os : os[c] \in BookOrders
  PROVE  IsBook(BookOf(os, net, p, e)) /\ BookOf(os, net, p, e).orders = os
         /\ BookOf(os, net, p, e).net = net
BY DEF IsBook, BookOf

\* What submit does to the book: the one new order, and its fill.
Submitted(b, c, intent, mode) == SubmitTo(b, c, intent, mode, TRUE)

LEMMA BookSubmit ==
  ASSUME NEW b, IsBook(b), NEW c, c \notin DOMAIN b.orders, NEW intent \in BookIntents,
         NEW mode \in {"rest", "immediate"}, NEW m, m = Submitted(b, c, intent, mode)
  PROVE  /\ IsBook(m)
         /\ DOMAIN m.orders = DOMAIN b.orders \cup {c}
         /\ \A d \in DOMAIN b.orders : m.orders[d] = b.orders[d]
         /\ mode = "immediate" => m.orders[c].st = "Filled"
                                  /\ m.net = b.net + Signed(intent.side, intent.qty)
         /\ mode = "rest" => m.net = b.net
<1>0. PICK n : n = m
  OBVIOUS
<1>1. PICK order : order = [side |-> intent.side, qty |-> intent.qty,
                            filled |-> IF mode = "immediate" THEN intent.qty ELSE 0,
                            st |-> IF mode = "immediate" THEN "Filled" ELSE "Open"]
  OBVIOUS
<1>2. order \in BookOrders
  BY <1>1 DEF BookOrders, BookIntents
<1>3. PICK os : os = [d \in DOMAIN b.orders \cup {c} |-> IF d = c THEN order ELSE b.orders[d]]
  OBVIOUS
<1>4. PICK placed : placed = [b EXCEPT !.orders = os]
  OBVIOUS
<1>5. /\ placed = [orders |-> os, net |-> b.net, priced |-> b.priced, entries |-> b.entries]
  BY <1>4 DEF IsBook
<1>6. n = IF mode = "immediate" THEN ApplyFill(placed, intent.side, intent.qty, TRUE) ELSE placed
  BY <1>0, <1>1, <1>3, <1>4 DEF Submitted, SubmitTo
<1>7. \A d \in DOMAIN os : os[d] \in BookOrders
  BY <1>2, <1>3 DEF IsBook
<1>8. CASE mode = "rest"
  <2>1. n = placed
    BY <1>6, <1>8
  <2>2. b.net \in Int
    BY DEF IsBook
  <2>3. IsBook(n) /\ n.orders = os /\ n.net = b.net
    <3>1. n = BookOf(os, b.net, b.priced, b.entries)
      BY <1>5, <2>1 DEF BookOf
    <3> QED
      <4>1. IsBook(BookOf(os, b.net, b.priced, b.entries))
        BY <1>7, <2>2, BookFields
      <4>2. n.orders = os
        BY <3>1 DEF BookOf
      <4>3. n.net = b.net
        BY <3>1 DEF BookOf
      <4> QED
        BY <3>1, <4>1, <4>2, <4>3
  <2>4. /\ DOMAIN n.orders = DOMAIN b.orders \cup {c}
        /\ \A d \in DOMAIN b.orders : n.orders[d] = b.orders[d]
    BY <1>3, <2>3
  <2> QED
    BY <1>0, <1>8, <2>3, <2>4
<1>9. CASE mode = "immediate"
  <2>1. PICK p : p = AveragePriced(placed, Signed(intent.side, intent.qty), TRUE)
    OBVIOUS
  <2>2. n = [placed EXCEPT !.net = @ + Signed(intent.side, intent.qty), !.entries = @ + 1,
                           !.priced = p]
    BY <1>6, <1>9, <2>1 DEF ApplyFill
  <2>3. n = [orders |-> os, net |-> b.net + Signed(intent.side, intent.qty), priced |-> p,
             entries |-> b.entries + 1]
    BY <1>5, <2>2
  <2>4. b.net + Signed(intent.side, intent.qty) \in Int
    BY DEF Signed, BookIntents, IsBook
  <2>5. IsBook(n) /\ n.orders = os /\ n.net = b.net + Signed(intent.side, intent.qty)
    <3>0. PICK y : y = b.entries + 1
      OBVIOUS
    <3>1. PICK x \in Int : x = b.net + Signed(intent.side, intent.qty)
      BY <2>4
    <3>2. n = BookOf(os, x, p, y)
      BY <2>3, <3>0, <3>1 DEF BookOf
    <3> QED
      <4>1. IsBook(BookOf(os, x, p, y))
        BY <1>7, BookFields
      <4>2. n.orders = os
        BY <3>2 DEF BookOf
      <4>3. n.net = x
        BY <3>2 DEF BookOf
      <4> QED
        BY <3>1, <3>2, <4>1, <4>2, <4>3
  <2>6. /\ DOMAIN n.orders = DOMAIN b.orders \cup {c}
        /\ \A d \in DOMAIN b.orders : n.orders[d] = b.orders[d]
        /\ n.orders[c] = order
    BY <1>3, <2>5
  <2>7. order.st = "Filled"
    BY <1>1, <1>9
  <2> QED
    BY <1>0, <1>9, <2>5, <2>6, <2>7
<1> QED
  BY <1>0, <1>8, <1>9

\* cancel_all leaves nothing working and the position alone.
LEMMA BookCancel ==
  ASSUME NEW b, IsBook(b), NEW n, n = CancelAll(b)
  PROVE  /\ IsBook(n) /\ DOMAIN n.orders = DOMAIN b.orders /\ OpenOrders(n) = {}
         /\ n.net = b.net
<1>1. PICK os : os = [c \in DOMAIN b.orders |->
         IF b.orders[c].st = "Open" THEN [b.orders[c] EXCEPT !.st = "Canceled"] ELSE b.orders[c]]
  OBVIOUS
<1>2. n = [orders |-> os, net |-> b.net, priced |-> b.priced, entries |-> b.entries]
  BY <1>1 DEF CancelAll, IsBook
<1>3. ASSUME NEW c \in DOMAIN os PROVE os[c] \in BookOrders /\ os[c].st # "Open"
  BY <1>1, <1>3 DEF IsBook, BookOrders
<1> QED
  BY <1>1, <1>2, <1>3 DEF IsBook, OpenOrders

\* The injected order is one more working order.
LEMMA BookInject ==
  ASSUME NEW b, IsBook(b), NEW c, NEW n, n = InjectOrder(b, c)
  PROVE  /\ IsBook(n) /\ DOMAIN n.orders = DOMAIN b.orders \cup {c} /\ n.net = b.net
         /\ \A d \in DOMAIN b.orders \ {c} : n.orders[d] = b.orders[d]
<1>1. PICK os : os = [d \in DOMAIN b.orders \cup {c} |->
         IF d = c THEN [side |-> "Buy", qty |-> 1, filled |-> 0, st |-> "Open"] ELSE b.orders[d]]
  OBVIOUS
<1>2. n = [orders |-> os, net |-> b.net, priced |-> b.priced, entries |-> b.entries]
  BY <1>1 DEF InjectOrder, IsBook
<1>3. \A d \in DOMAIN os : os[d] \in BookOrders
  BY <1>1 DEF IsBook, BookOrders
<1> QED
  BY <1>1, <1>2, <1>3 DEF IsBook

\* An order the reduce-only guard lets through moves the position towards flat.
LEMMA ReducingFill ==
  ASSUME NEW b, b.net \in Int, NEW intent \in BookIntents, intent.reduceOnly, Accepts(b, intent),
         NEW d, d = b.net + Signed(intent.side, intent.qty)
  PROVE  IF b.net > 0 THEN d \in 0..b.net ELSE -d \in 0..(-b.net)
BY DEF Accepts, ReduceOnlyOk, SignOf, Signed, BookIntents

-----------------------------------------------------------------------------
(* The inductive invariant *)

RunInv ==
  /\ config \in [fill : {"rest", "immediate"}, shutdown : {"preserve", "cancel", "flatten"},
                 fault : BOOLEAN]
  /\ run \in {"down", "loop", "cancel", "flatten", "release"}
  /\ boots \in Nat /\ boots <= MaxBoots
  /\ nextId \in Nat \ {0} /\ nextId <= MaxOrders + boots + 1

\* Flattening takes one client order id per start, beyond the bound on the others.
IdInv == run \in {"loop", "cancel", "flatten"} => boots >= 1 /\ nextId <= MaxOrders + boots

FeedInv ==
  /\ feed \in [task : {"connecting", "streaming", "fatal"}, failures : 0..MaxReconnects,
               status : {"Reconnecting", "Connected", "Stale", "Failed"}]
  /\ feed.task # "fatal" => feed.failures < MaxReconnects

TurnInv ==
  /\ turn \in [left : Seq(Strategies), view : Int]
  /\ intents \in [Strategies -> 1..MaxOrders \cup {NoOrder}]

RecordsInv ==
  /\ DOMAIN records \subseteq 1..(nextId - 1)
  /\ \A c \in DOMAIN records : records[c] \in {"PendingSubmit", "Open", "Unknown"} \cup Terminal

BookInv ==
  /\ IsBook(book)
  /\ DOMAIN book.orders \subseteq DOMAIN records \cup {Ghost}
  /\ config.fill = "rest" => book.net = 0

\* The records below the mark of the last reconcile are at the venue, without fills.
Covered ==
  \A c \in DOMAIN records : c < gate.seen /\ records[c] \notin Terminal =>
    c \in DOMAIN book.orders /\ book.orders[c].filled = 0

\* reconcile_clean says nothing before the first reconcile; the biased select is what
\* makes it mean something by the time the gate reads it.
GateInv ==
  /\ gate \in [market : BOOLEAN, clean : BOOLEAN, allow : BOOLEAN, ready : BOOLEAN, seen : Nat]
  /\ due \in [reconcile : BOOLEAN, health : BOOLEAN]
  /\ gate.seen <= nextId
  /\ gate.allow => gate.clean /\ gate.seen > 0
  /\ run = "loop" /\ ~due.reconcile => gate.seen > 0
  /\ run = "loop" /\ gate.clean => Covered

FlattenInv == run = "flatten" => OpenOrders(book) = {} /\ config.shutdown = "flatten"

SDInv ==
  /\ RunInv /\ IdInv /\ FeedInv /\ TurnInv /\ RecordsInv /\ BookInv /\ GateInv
  /\ OneWorkingOrderPerPolicy /\ FlattenInv /\ ShutdownLeavesNothing

\* The next client order id is new to the records and to the venue.
LEMMA FreshId ==
  ASSUME SDInv, nextId <= MaxOrders + MaxBoots
  PROVE  nextId \notin DOMAIN records /\ nextId \notin DOMAIN book.orders
<1>1. nextId \notin DOMAIN records /\ nextId \in 1..(MaxOrders + MaxBoots)
  BY ShadowAssumption DEF SDInv, RunInv, RecordsInv
<1> QED
  BY <1>1, ShadowAssumption DEF SDInv, BookInv

LEMMA SDInvInit == SDInit => SDInv
<1> SUFFICES ASSUME SDInit PROVE SDInv
  OBVIOUS
<1>1. book = EmptyBook /\ run = "down" /\ DOMAIN records = {}
  BY DEF SDInit
<1>2. RunInv /\ IdInv
  BY ShadowAssumption DEF SDInit, RunInv, IdInv
<1>3. FeedInv
  BY ShadowAssumption DEF SDInit, FeedInv, Connecting
<1>4. TurnInv
  BY DEF SDInit, TurnInv, Idle
<1>5. RecordsInv
  BY <1>1 DEF RecordsInv
<1>6. BookInv
  BY <1>1, BookEmpty DEF BookInv
<1>7. GateInv
  BY <1>1 DEF SDInit, GateInv, ClosedGate
<1> QED
  BY <1>1, <1>2, <1>3, <1>4, <1>5, <1>6, <1>7
  DEF SDInv, OneWorkingOrderPerPolicy, FlattenInv, ShutdownLeavesNothing

LEMMA BootKeeps == ASSUME SDInv, Boot PROVE SDInv'
<1>1. /\ run' = "loop" /\ boots' = boots + 1 /\ boots < MaxBoots /\ book' = EmptyBook
      /\ feed' = Connecting /\ due' = [reconcile |-> TRUE, health |-> TRUE] /\ gate' = ClosedGate
      /\ turn' = Idle /\ intents' = [s \in Strategies |-> NoOrder]
      /\ UNCHANGED <<config, records, nextId>>
  BY DEF Boot
<1>2. RunInv' /\ IdInv'
  BY <1>1, ShadowAssumption DEF SDInv, RunInv, IdInv
<1>3. FeedInv'
  BY <1>1, ShadowAssumption DEF FeedInv, Connecting
<1>4. TurnInv'
  BY <1>1 DEF TurnInv, Idle, Strategies
<1>5. RecordsInv'
  BY <1>1 DEF SDInv, RecordsInv
<1>6. BookInv' /\ OpenOrders(book') = {}
  <2>1. IsBook(book)' /\ DOMAIN book'.orders = {} /\ book'.net = 0 /\ OpenOrders(book') = {}
    BY <1>1, BookEmpty DEF IsBook
  <2> QED
    BY <2>1 DEF BookInv
<1>7. GateInv'
  <2>1. Covered'
    BY <1>1 DEF SDInv, RecordsInv, RunInv, Covered, ClosedGate
  <2> QED
    BY <1>1, <2>1 DEF SDInv, RunInv, GateInv, ClosedGate
<1>8. OneWorkingOrderPerPolicy' /\ FlattenInv' /\ ShutdownLeavesNothing'
  BY <1>1, <1>6 DEF OneWorkingOrderPerPolicy, FlattenInv, ShutdownLeavesNothing, OpenOrders
<1> QED
  BY <1>2, <1>3, <1>4, <1>5, <1>6, <1>7, <1>8 DEF SDInv

\* A step of the feed task, a tick and a health check leave the orders alone.
LEMMA QuietStepKeeps ==
  ASSUME SDInv, UNCHANGED <<config, run, book, records, nextId, lost, boots, turn, intents>>,
         FeedInv', GateInv'
  PROVE  SDInv'
<1>1. RunInv' /\ IdInv' /\ TurnInv' /\ RecordsInv'
  BY DEF SDInv, RunInv, IdInv, TurnInv, RecordsInv
<1>2. BookInv'
  BY DEF SDInv, BookInv, IsBook
<1>3. OneWorkingOrderPerPolicy' /\ FlattenInv' /\ ShutdownLeavesNothing'
  BY DEF SDInv, OneWorkingOrderPerPolicy, FlattenInv, ShutdownLeavesNothing, OpenOrders
<1> QED
  BY <1>1, <1>2, <1>3 DEF SDInv

LEMMA SameGate ==
  ASSUME SDInv, UNCHANGED <<run, book, records, nextId, gate, due>>
  PROVE  GateInv'
BY DEF SDInv, GateInv, Covered

LEMMA FeedKeeps == ASSUME SDInv, FeedConnects \/ FeedEnds PROVE SDInv'
<1>1. UNCHANGED <<config, run, book, records, due, gate, turn, intents, nextId, lost, boots>>
  BY DEF FeedConnects, FeedEnds, FeedStep
<1>2. FeedInv'
  <2>1. CASE FeedConnects
    BY <2>1 DEF SDInv, FeedInv, FeedConnects, FeedStep
  <2>2. CASE FeedEnds
    <3>1. PICK n \in Nat : n = feed.failures + 1
      BY DEF SDInv, FeedInv
    <3>2. n <= MaxReconnects
      BY <2>2, <3>1, ShadowAssumption DEF SDInv, FeedInv, FeedEnds
    <3>3. PICK t : t = IF Exhausted(n) THEN "fatal" ELSE "connecting"
      OBVIOUS
    <3>4. feed' = [feed EXCEPT !.failures = n, !.task = t]
      BY <2>2, <3>1, <3>3 DEF FeedEnds, FeedStep
    <3>5. t \in {"connecting", "fatal"} /\ (t # "fatal" => n < MaxReconnects)
      BY <3>3, ShadowAssumption DEF Exhausted
    <3>6. n \in 0..MaxReconnects
      BY <3>2, ShadowAssumption
    <3>7. /\ feed' \in [task : {"connecting", "streaming", "fatal"}, failures : 0..MaxReconnects,
                       status : {"Reconnecting", "Connected", "Stale", "Failed"}]
          /\ feed'.task = t /\ feed'.failures = n
      BY <3>4, <3>5, <3>6 DEF SDInv, FeedInv
    <3> QED
      BY <3>5, <3>7 DEF FeedInv
  <2> QED
    BY <2>1, <2>2
<1> QED
  BY <1>1, <1>2, SameGate, QuietStepKeeps

LEMMA TickKeeps ==
  ASSUME SDInv, NEW w \in {"reconcile", "health"}, TickElapses(w) PROVE SDInv'
<1>1. /\ UNCHANGED <<config, run, book, records, feed, gate, turn, intents, nextId, lost, boots>>
      /\ due' = [due EXCEPT ![w] = TRUE]
  BY DEF TickElapses
<1>2. FeedInv'
  BY <1>1 DEF SDInv, FeedInv
<1>3. Covered => Covered'
  BY <1>1 DEF Covered
<1>4. GateInv'
  BY <1>1, <1>3 DEF SDInv, GateInv
<1> QED
  BY <1>1, <1>2, <1>4, QuietStepKeeps

LEMMA LeaveKeeps == ASSUME SDInv, FeedFatal \/ LeaseLost \/ CtrlC PROVE SDInv'
<1>1. PICK status \in {"Reconnecting", "Connected", "Stale", "Failed"} : Leave(status)
  BY DEF SDInv, FeedInv, FeedFatal, LeaseLost, CtrlC
<1>2. /\ run = "loop" /\ run' = "cancel" /\ gate' = [gate EXCEPT !.ready = FALSE]
      /\ feed' = [feed EXCEPT !.status = status]
      /\ UNCHANGED <<config, book, records, due, turn, intents, nextId, lost, boots>>
  BY <1>1 DEF Leave, FeedFatal, LeaseLost, CtrlC, Free
<1>3. RunInv' /\ IdInv' /\ TurnInv' /\ RecordsInv'
  BY <1>2 DEF SDInv, RunInv, IdInv, TurnInv, RecordsInv
<1>4. FeedInv'
  BY <1>2 DEF SDInv, FeedInv
<1>5. BookInv'
  BY <1>2 DEF SDInv, BookInv, IsBook
<1>6. GateInv'
  BY <1>2 DEF SDInv, GateInv
<1>7. OneWorkingOrderPerPolicy' /\ FlattenInv' /\ ShutdownLeavesNothing'
  BY <1>2 DEF OneWorkingOrderPerPolicy, FlattenInv, ShutdownLeavesNothing
<1> QED
  BY <1>3, <1>4, <1>5, <1>6, <1>7 DEF SDInv

\* The health tick reads reconcile_clean only when no reconcile is due, that is, after one.
LEMMA HealthKeeps == ASSUME SDInv, NEW stale \in BOOLEAN, HealthTick(stale) PROVE SDInv'
<1>1. PICK status : status = IF stale THEN "Stale" ELSE feed.status
  OBVIOUS
<1>2. PICK connected \in BOOLEAN : connected = (status = "Connected")
  OBVIOUS
<1>3. PICK open \in BOOLEAN : open = (connected /\ gate.clean)
  OBVIOUS
<1>4. /\ run = "loop" /\ ~due.reconcile
      /\ feed' = [feed EXCEPT !.status = status]
      /\ gate' = [gate EXCEPT !.market = connected, !.allow = open, !.ready = open]
      /\ due' = [due EXCEPT !.health = FALSE]
      /\ UNCHANGED <<config, run, book, records, turn, intents, nextId, lost, boots>>
  BY <1>1, <1>2, <1>3, Zenon DEF HealthTick, Free, ReconcileFirst
<1>5. FeedInv'
  BY <1>1, <1>4 DEF SDInv, FeedInv
<1>6. GateInv'
  <2>1. gate' \in [market : BOOLEAN, clean : BOOLEAN, allow : BOOLEAN, ready : BOOLEAN, seen : Nat]
        /\ gate'.seen = gate.seen /\ gate'.clean = gate.clean /\ gate'.allow = open
    BY <1>4 DEF SDInv, GateInv
  <2>2. due' \in [reconcile : BOOLEAN, health : BOOLEAN] /\ due'.reconcile = due.reconcile
    BY <1>4 DEF SDInv, GateInv
  <2>3. gate.seen > 0 /\ gate.seen <= nextId' /\ (gate.clean => Covered)
    BY <1>4 DEF SDInv, GateInv
  <2>4. Covered => Covered'
    BY <1>4, <2>1 DEF Covered
  <2>5. open => gate.clean
    BY <1>3
  <2> QED
    BY <2>1, <2>2, <2>3, <2>4, <2>5 DEF GateInv
<1> QED
  BY <1>4, <1>5, <1>6, QuietStepKeeps

LEMMA PolicyOrderType == PolicyOrder \in Seq(Strategies)
BY ShadowAssumption DEF Strategies

LEMMA MarketKeeps == ASSUME SDInv, MarketEvent PROVE SDInv'
<1>1. /\ feed' = [feed EXCEPT !.status = "Connected"]
      /\ turn' = [left |-> PolicyOrder, view |-> book.net]
      /\ UNCHANGED <<config, run, book, records, due, gate, intents, nextId, lost, boots>>
  BY DEF MarketEvent
<1>2. FeedInv'
  BY <1>1 DEF SDInv, FeedInv
<1>3. TurnInv'
  BY <1>1, PolicyOrderType DEF SDInv, TurnInv, BookInv, IsBook, Strategies
<1>4. GateInv'
  BY <1>1, SameGate
<1>5. RunInv' /\ IdInv' /\ RecordsInv'
  BY <1>1 DEF SDInv, RunInv, IdInv, RecordsInv
<1>6. BookInv'
  BY <1>1 DEF SDInv, BookInv, IsBook
<1>7. OneWorkingOrderPerPolicy' /\ FlattenInv' /\ ShutdownLeavesNothing'
  BY <1>1 DEF SDInv, OneWorkingOrderPerPolicy, FlattenInv, ShutdownLeavesNothing, OpenOrders
<1> QED
  BY <1>2, <1>3, <1>4, <1>5, <1>6, <1>7 DEF SDInv

\* A policy that sends nothing forgets its order only when that order no longer works.
LEMMA QuietKeeps == ASSUME SDInv, PolicyQuiet PROVE SDInv'
<1>1. PICK s : s = Head(turn.left)
  OBVIOUS
<1>2. /\ turn.left # <<>> /\ turn' = [turn EXCEPT !.left = Tail(turn.left)]
      /\ intents' = [intents EXCEPT ![s] = IF Busy(s) THEN intents[s] ELSE NoOrder]
      /\ UNCHANGED <<config, run, book, records, feed, due, gate, nextId, lost, boots>>
  BY <1>1 DEF PolicyQuiet
<1>3. TurnInv'
  <2>1. Tail(turn.left) \in Seq(Strategies) /\ s \in Strategies
    BY <1>1, <1>2 DEF SDInv, TurnInv
  <2>2. turn' \in [left : Seq(Strategies), view : Int]
    BY <1>2, <2>1 DEF SDInv, TurnInv
  <2>3. intents' \in [Strategies -> 1..MaxOrders \cup {NoOrder}]
    BY <1>2, <2>1 DEF SDInv, TurnInv
  <2> QED
    BY <2>2, <2>3 DEF TurnInv, Strategies
<1>4. FeedInv' /\ RunInv' /\ IdInv' /\ RecordsInv'
  BY <1>2 DEF SDInv, FeedInv, RunInv, IdInv, RecordsInv
<1>5. GateInv'
  BY <1>2, SameGate
<1>6. BookInv'
  BY <1>2 DEF SDInv, BookInv, IsBook
<1>7. OneWorkingOrderPerPolicy'
  <2> SUFFICES ASSUME run = "loop", NEW c \in OpenOrders(book) \ (lost \cup {Ghost})
               PROVE  \E r \in Strategies : intents'[r] = c
    BY <1>2 DEF OneWorkingOrderPerPolicy, Strategies, OpenOrders
  <2>1. PICK r \in Strategies : intents[r] = c
    BY DEF SDInv, OneWorkingOrderPerPolicy
  <2>2. r = s => Busy(s)
    BY <2>1 DEF Busy
  <2>3. intents'[r] = c
    BY <1>2, <2>1, <2>2 DEF SDInv, TurnInv
  <2> QED
    BY <2>3
<1>8. FlattenInv' /\ ShutdownLeavesNothing'
  BY <1>2 DEF SDInv, FlattenInv, ShutdownLeavesNothing, OpenOrders
<1> QED
  BY <1>3, <1>4, <1>5, <1>6, <1>7, <1>8 DEF SDInv

\* A clean report means that every open record is at the venue without fills: this is what
\* the gate may rely on from then on.
LEMMA ReconcileKeeps ==
  ASSUME SDInv, NEW reachable \in BOOLEAN, ReconcileTick(reachable) PROVE SDInv'
<1>1. PICK b : b = IF config.fault THEN InjectOrder(book, Ghost) ELSE book
  OBVIOUS
<1>2. PICK clean \in BOOLEAN : clean = (reachable /\ CleanReport(b))
  OBVIOUS
<1>3. /\ run = "loop" /\ book' = b /\ config' = [config EXCEPT !.fault = FALSE]
      /\ records' = IF reachable THEN Reconciled(b) ELSE records
      /\ gate' = GateAfterReconcile(clean)
      /\ due' = [due EXCEPT !.reconcile = FALSE]
      /\ UNCHANGED <<run, feed, turn, intents, nextId, lost, boots>>
  BY <1>1, <1>2, Zenon DEF ReconcileTick, Free
<1>4. IsBook(book)
  BY DEF SDInv, BookInv
<1>5. /\ IsBook(b) /\ b.net = book.net /\ DOMAIN b.orders \subseteq DOMAIN book.orders \cup {Ghost}
      /\ \A d \in DOMAIN b.orders \ {Ghost} : d \in DOMAIN book.orders /\ b.orders[d] = book.orders[d]
  <2>1. CASE config.fault
    <3>1. PICK n : n = InjectOrder(book, Ghost)
      OBVIOUS
    <3>2. /\ IsBook(n) /\ DOMAIN n.orders = DOMAIN book.orders \cup {Ghost} /\ n.net = book.net
          /\ \A d \in DOMAIN book.orders \ {Ghost} : n.orders[d] = book.orders[d]
      BY <1>4, <3>1, BookInject
    <3>3. b = n
      BY <1>1, <2>1, <3>1
    <3> QED
      BY <3>2, <3>3
  <2>2. CASE ~config.fault
    BY <1>1, <1>4, <2>2
  <2> QED
    BY <2>1, <2>2
<1>6. RunInv' /\ IdInv' /\ config'.fill = config.fill /\ config'.shutdown = config.shutdown
  BY <1>3 DEF SDInv, RunInv, IdInv
<1>7. FeedInv' /\ TurnInv'
  BY <1>3 DEF SDInv, FeedInv, TurnInv, Strategies
<1>8. DOMAIN records' = DOMAIN records
  BY <1>3 DEF Reconciled
<1>9. RecordsInv'
  <2>1. ASSUME NEW c \in DOMAIN records
        PROVE  records'[c] \in {"PendingSubmit", "Open", "Unknown"} \cup Terminal
    <3>1. records[c] \in {"PendingSubmit", "Open", "Unknown"} \cup Terminal
      BY DEF SDInv, RecordsInv
    <3>2. c \in DOMAIN b.orders => b.orders[c].st \in {"Open"} \cup Terminal
      BY <1>5 DEF IsBook, BookOrders, Terminal
    <3>3. \/ records'[c] \in {"Unknown", records[c]}
          \/ c \in DOMAIN b.orders /\ records'[c] = b.orders[c].st
      <4>1. CASE ~reachable
        <5>1. records' = records
          BY <1>3, <4>1
        <5> QED
          BY <5>1
      <4>2. CASE reachable
        <5>1. records'[c] = IF c \in Missing(b) /\ records[c] = "PendingSubmit" THEN "Unknown"
                            ELSE IF c \in DOMAIN b.orders /\ CleanReport(b) /\ records[c] \notin Terminal
                              THEN b.orders[c].st
                            ELSE records[c]
          BY <1>3, <4>2 DEF Reconciled
        <5>2. CASE c \in Missing(b) /\ records[c] = "PendingSubmit"
          BY <5>1, <5>2
        <5>3. CASE ~(c \in Missing(b) /\ records[c] = "PendingSubmit")
          BY <5>1, <5>3
        <5> QED
          BY <5>2, <5>3
      <4> QED
        BY <4>1, <4>2
    <3> QED
      BY <3>1, <3>2, <3>3
  <2> QED
    BY <1>3, <1>8, <2>1 DEF SDInv, RecordsInv, Terminal
<1>10. BookInv'
  <2>1. IsBook(book)'
    BY <1>3, <1>5 DEF IsBook
  <2> QED
    BY <1>3, <1>5, <1>6, <1>8, <2>1 DEF SDInv, BookInv
<1>11. GateInv'
  <2>1. /\ gate' \in [market : BOOLEAN, clean : BOOLEAN, allow : BOOLEAN, ready : BOOLEAN, seen : Nat]
        /\ gate'.seen = nextId /\ gate'.clean = clean /\ (gate'.allow => clean)
    <3>1. gate' = [gate EXCEPT !.clean = clean, !.seen = nextId,
                     !.allow = clean /\ gate.market /\ AllConnected,
                     !.ready = gate.ready /\ clean]
      BY <1>3 DEF GateAfterReconcile
    <3>2. PICK al \in BOOLEAN, re \in BOOLEAN :
             al = (clean /\ gate.market /\ AllConnected) /\ re = (gate.ready /\ clean)
      OBVIOUS
    <3>3. gate' = [gate EXCEPT !.clean = clean, !.seen = nextId, !.allow = al, !.ready = re]
      BY <3>1, <3>2, Zenon
    <3>4. al => clean
      BY <3>2
    <3> QED
      BY <3>3, <3>4 DEF SDInv, GateInv, RunInv
  <2>2. due' \in [reconcile : BOOLEAN, health : BOOLEAN]
    BY <1>3 DEF SDInv, GateInv
  <2>3. ASSUME clean, NEW c \in DOMAIN records, records'[c] \notin Terminal
        PROVE  c \in DOMAIN b.orders /\ b.orders[c].filled = 0
    <3>1. reachable /\ Missing(b) = {} /\ Mismatched(b) = {}
      BY <1>2, <2>3 DEF CleanReport
    <3>2. records'[c] = IF c \in DOMAIN b.orders /\ records[c] \notin Terminal
                          THEN b.orders[c].st ELSE records[c]
      BY <1>2, <1>3, <2>3, <3>1 DEF Reconciled
    <3>3. records[c] \notin Terminal
      BY <2>3, <3>2
    <3>4. c \in DOMAIN b.orders
      BY <3>1, <3>3 DEF Missing
    <3> QED
      BY <3>1, <3>3, <3>4 DEF Mismatched
  <2>4. clean => Covered'
    BY <1>3, <1>8, <2>3 DEF Covered, Terminal
  <2> QED
    BY <1>3, <2>1, <2>2, <2>4 DEF SDInv, RunInv, GateInv
<1>12. OneWorkingOrderPerPolicy'
  <2>1. ASSUME NEW c \in OpenOrders(b) \ (lost \cup {Ghost})
        PROVE  \E s \in Strategies : intents[s] = c
    <3>1. c \in OpenOrders(book) \ (lost \cup {Ghost})
      BY <1>5 DEF OpenOrders
    <3> QED
      BY <1>3, <3>1 DEF SDInv, OneWorkingOrderPerPolicy
  <2>2. OpenOrders(book)' = OpenOrders(b)
    BY <1>3 DEF OpenOrders
  <2> QED
    BY <1>3, <2>1, <2>2 DEF OneWorkingOrderPerPolicy, Strategies
<1>13. FlattenInv' /\ ShutdownLeavesNothing'
  BY <1>3 DEF FlattenInv, ShutdownLeavesNothing
<1> QED
  BY <1>6, <1>7, <1>9, <1>10, <1>11, <1>12, <1>13 DEF SDInv

\* submit_intent either leaves the book alone or adds the one order it was accepted for;
\* the order is tracked, or noted as lost, when it reached the venue.
LEMMA DispatchedEffect ==
  ASSUME SDInv, NEW intent, NEW how \in Outcomes, Dispatched(nextId, intent, how)
  PROVE  /\ DOMAIN records' = DOMAIN records \cup {nextId}
         /\ \A c \in DOMAIN records \ {nextId} : records'[c] = records[c]
         /\ records'[nextId] \in {"PendingSubmit", "Rejected", "Open"}
         /\ \/ book' = book /\ lost' = lost /\ how \in {"notSent", "refused"}
            \/ /\ Accepts(book, intent)
               /\ book' = SubmitTo(book, nextId, intent, config.fill, TRUE)
               /\ \/ how = "acknowledged" /\ lost' = lost
                  \/ how = "ackLost" /\ lost' = lost \cup {nextId}
<1>1. ASSUME NEW st, SetRecord(nextId, st)
      PROVE  /\ DOMAIN records' = DOMAIN records \cup {nextId}
             /\ \A c \in DOMAIN records \ {nextId} : records'[c] = records[c]
             /\ records'[nextId] = st
  BY <1>1 DEF SetRecord
<1>2. CASE how = "notSent"
  <2>1. SetRecord(nextId, "PendingSubmit") /\ book' = book /\ lost' = lost
    BY <1>2 DEF Dispatched
  <2> QED
    BY <1>1, <1>2, <2>1
<1>3. CASE how = "refused"
  <2>1. SetRecord(nextId, "Rejected") /\ book' = book /\ lost' = lost
    BY <1>3 DEF Dispatched
  <2> QED
    BY <1>1, <1>3, <2>1
<1>4. CASE how = "acknowledged"
  <2>1. /\ Accepts(book, intent) /\ SetRecord(nextId, "Open") /\ lost' = lost
        /\ book' = SubmitTo(book, nextId, intent, config.fill, TRUE)
    BY <1>4 DEF Dispatched
  <2> QED
    BY <1>1, <1>4, <2>1
<1>5. CASE how = "ackLost"
  <2>1. /\ Accepts(book, intent) /\ SetRecord(nextId, "PendingSubmit")
        /\ lost' = lost \cup {nextId}
        /\ book' = SubmitTo(book, nextId, intent, config.fill, TRUE)
    BY <1>5 DEF Dispatched
  <2> QED
    BY <1>1, <1>5, <2>1
<1> QED
  BY <1>2, <1>3, <1>4, <1>5 DEF Outcomes

\* What any dispatch leaves of the book and the records.
LEMMA DispatchedKeeps ==
  ASSUME SDInv, NEW intent \in BookIntents, NEW how \in Outcomes,
         Dispatched(nextId, intent, how), nextId <= MaxOrders + MaxBoots,
         nextId' = nextId + 1, config' = config
  PROVE  /\ RecordsInv' /\ BookInv'
         /\ nextId \notin DOMAIN records /\ nextId \notin DOMAIN book.orders
         /\ DOMAIN book.orders \subseteq DOMAIN book'.orders
         /\ DOMAIN book'.orders \subseteq DOMAIN book.orders \cup {nextId}
         /\ \A d \in DOMAIN book.orders : book'.orders[d] = book.orders[d]
<1>1. nextId \notin DOMAIN records /\ nextId \notin DOMAIN book.orders
  BY FreshId
<1>2. /\ DOMAIN records' = DOMAIN records \cup {nextId}
      /\ \A c \in DOMAIN records \ {nextId} : records'[c] = records[c]
      /\ records'[nextId] \in {"PendingSubmit", "Rejected", "Open"}
      /\ book' = book \/ book' = SubmitTo(book, nextId, intent, config.fill, TRUE)
  BY DispatchedEffect
<1>3. RecordsInv'
  <2>1. DOMAIN records' \subseteq 1..(nextId' - 1)
    BY <1>2 DEF SDInv, RunInv, RecordsInv
  <2>2. ASSUME NEW c \in DOMAIN records'
        PROVE  records'[c] \in {"PendingSubmit", "Open", "Unknown"} \cup Terminal
    BY <1>2 DEF SDInv, RecordsInv, Terminal
  <2> QED
    BY <2>1, <2>2 DEF RecordsInv, Terminal
<1>4. CASE book' = book
  <2>1. BookInv'
    BY <1>2, <1>4 DEF SDInv, BookInv, IsBook
  <2> QED
    BY <1>1, <1>3, <1>4, <2>1
<1>5. CASE book' = SubmitTo(book, nextId, intent, config.fill, TRUE)
  <2>1. IsBook(book) /\ config.fill \in {"rest", "immediate"}
    BY DEF SDInv, BookInv, RunInv
  <2>2. PICK mode \in {"rest", "immediate"}, n \in {book'} :
          mode = config.fill /\ n = SubmitTo(book, nextId, intent, mode, TRUE)
    BY <1>5, <2>1
  <2>3. /\ IsBook(n) /\ DOMAIN n.orders = DOMAIN book.orders \cup {nextId}
        /\ \A d \in DOMAIN book.orders : n.orders[d] = book.orders[d]
        /\ config.fill = "rest" => n.net = book.net
    <3>1. /\ IsBook(n) /\ DOMAIN n.orders = DOMAIN book.orders \cup {nextId}
          /\ \A d \in DOMAIN book.orders : n.orders[d] = book.orders[d]
          /\ mode = "rest" => n.net = book.net
      <4>1. PICK b, c : b = book /\ c = nextId
        OBVIOUS
      <4>2. IsBook(b) /\ c \notin DOMAIN b.orders /\ n = Submitted(b, c, intent, mode)
        BY <1>1, <2>1, <2>2, <4>1 DEF Submitted
      <4>3. /\ IsBook(n) /\ DOMAIN n.orders = DOMAIN b.orders \cup {c}
            /\ \A d \in DOMAIN b.orders : n.orders[d] = b.orders[d]
            /\ mode = "rest" => n.net = b.net
        BY <4>2, BookSubmit
      <4> QED
        BY <4>1, <4>3
    <3> QED
      BY <2>2, <3>1
  <2>4. book' = n
    BY <2>2
  <2>5. BookInv'
    <3>1. IsBook(book)'
      BY <2>3, <2>4 DEF IsBook
    <3> QED
      BY <1>2, <2>3, <2>4, <3>1 DEF SDInv, BookInv
  <2> QED
    BY <1>1, <1>3, <2>3, <2>4, <2>5
<1> QED
  BY <1>2, <1>4, <1>5

LEMMA IntentType ==
  ASSUME NEW intent \in [side : {"Buy", "Sell"}, qty : 1..MaxOrders, reduceOnly : BOOLEAN]
  PROVE  intent \in BookIntents
BY ShadowAssumption DEF BookIntents

\* A policy that sends an order has none working, and its order is the one it tracks.
LEMMA SendsKeeps ==
  ASSUME SDInv, NEW how \in Outcomes,
         NEW intent \in [side : {"Buy", "Sell"}, qty : 1..MaxOrders, reduceOnly : BOOLEAN],
         PolicySends(intent, how)
  PROVE  SDInv'
<1>1. PICK s : s = Head(turn.left)
  OBVIOUS
<1>2. PICK tracked : tracked = IF how = "acknowledged" THEN nextId ELSE NoOrder
  OBVIOUS
<1>3. /\ run = "loop" /\ turn.left # <<>> /\ nextId <= MaxOrders /\ ~Busy(s)
      /\ Dispatched(nextId, intent, how)
      /\ intents' = [intents EXCEPT ![s] = tracked] /\ nextId' = nextId + 1
      /\ turn' = [turn EXCEPT !.left = Tail(turn.left)]
      /\ UNCHANGED <<config, run, feed, due, gate, boots>>
  BY <1>1, <1>2, Zenon DEF PolicySends
<1>4. nextId <= MaxOrders + MaxBoots /\ nextId \in 1..MaxOrders /\ boots >= 1
  BY <1>3, ShadowAssumption DEF SDInv, RunInv, IdInv
<1>5. /\ RecordsInv' /\ BookInv'
      /\ nextId \notin DOMAIN records /\ nextId \notin DOMAIN book.orders
      /\ DOMAIN book.orders \subseteq DOMAIN book'.orders
      /\ DOMAIN book'.orders \subseteq DOMAIN book.orders \cup {nextId}
      /\ \A d \in DOMAIN book.orders : book'.orders[d] = book.orders[d]
  BY <1>3, <1>4, IntentType, DispatchedKeeps
<1>6. s \in Strategies /\ Tail(turn.left) \in Seq(Strategies)
  BY <1>1, <1>3 DEF SDInv, TurnInv
<1>7. TurnInv'
  <2>1. turn' \in [left : Seq(Strategies), view : Int]
    BY <1>3, <1>6 DEF SDInv, TurnInv
  <2>2. intents' \in [Strategies -> 1..MaxOrders \cup {NoOrder}]
    BY <1>2, <1>3, <1>4, <1>6 DEF SDInv, TurnInv
  <2> QED
    BY <2>1, <2>2 DEF TurnInv, Strategies
<1>8. RunInv' /\ IdInv'
  BY <1>3, <1>4, ShadowAssumption DEF SDInv, RunInv, IdInv
<1>9. FeedInv'
  BY <1>3 DEF SDInv, FeedInv
<1>10. GateInv'
  <2>1. /\ DOMAIN records' = DOMAIN records \cup {nextId}
        /\ \A c \in DOMAIN records \ {nextId} : records'[c] = records[c]
    BY <1>3, DispatchedEffect
  <2>2. gate.seen <= nextId /\ nextId \in Nat /\ gate.seen \in Nat
    BY DEF SDInv, GateInv, RunInv
  <2>3. ASSUME Covered, NEW c \in DOMAIN records', c < gate.seen, records'[c] \notin Terminal
        PROVE  c \in DOMAIN book'.orders /\ book'.orders[c].filled = 0
    <3>1. c # nextId
      BY <2>2, <2>3
    <3>2. c \in DOMAIN records /\ records[c] \notin Terminal
      BY <2>1, <2>3, <3>1
    <3>3. c \in DOMAIN book.orders /\ book.orders[c].filled = 0
      BY <2>3, <3>2 DEF Covered
    <3> QED
      BY <1>5, <3>3
  <2>4. Covered => Covered'
    BY <1>3, <2>3 DEF Covered, Terminal
  <2> QED
    BY <1>3, <2>2, <2>4 DEF SDInv, GateInv
<1>11. OneWorkingOrderPerPolicy'
  <2>1. \/ book' = book /\ lost' = lost
        \/ how = "acknowledged" /\ lost' = lost
        \/ how = "ackLost" /\ lost' = lost \cup {nextId}
    BY <1>3, DispatchedEffect
  <2>2. ASSUME NEW c \in OpenOrders(book'), c \notin lost', c # Ghost
        PROVE  \E r \in Strategies : intents'[r] = c
    <3>1. CASE c = nextId
      <4>1. how = "acknowledged"
        BY <1>5, <2>1, <2>2, <3>1 DEF OpenOrders
      <4>2. intents'[s] = nextId
        BY <1>2, <1>3, <1>6, <4>1 DEF SDInv, TurnInv
      <4> QED
        BY <1>6, <3>1, <4>2
    <3>2. CASE c # nextId
      <4>1. c \in OpenOrders(book)
        BY <1>5, <2>2, <3>2 DEF OpenOrders
      <4>2. c \notin lost
        BY <2>1, <2>2
      <4>3. PICK r \in Strategies : intents[r] = c
        BY <1>3, <2>2, <4>1, <4>2 DEF SDInv, OneWorkingOrderPerPolicy
      <4>4. r # s
        BY <1>3, <4>1, <4>3 DEF Busy
      <4>5. intents'[r] = c
        BY <1>3, <4>3, <4>4 DEF SDInv, TurnInv
      <4> QED
        BY <4>5
    <3> QED
      BY <3>1, <3>2
  <2>3. OpenOrders(book)' = OpenOrders(book')
    BY DEF OpenOrders
  <2> QED
    BY <2>2, <2>3 DEF OneWorkingOrderPerPolicy, Strategies
<1>12. FlattenInv' /\ ShutdownLeavesNothing'
  BY <1>3 DEF FlattenInv, ShutdownLeavesNothing
<1> QED
  BY <1>5, <1>7, <1>8, <1>9, <1>10, <1>11, <1>12 DEF SDInv

\* The shutdown policy cancels before it flattens, so nothing works while it flattens.
LEMMA ShutdownCancelKeeps == ASSUME SDInv, ShutdownCancel PROVE SDInv'
<1>1. /\ run = "cancel"
      /\ book' = IF config.shutdown = "preserve" THEN book ELSE CancelAll(book)
      /\ run' = IF config.shutdown = "flatten" THEN "flatten" ELSE "release"
      /\ UNCHANGED <<config, records, feed, due, gate, turn, intents, nextId, lost, boots>>
  BY DEF ShutdownCancel
<1>2. RunInv' /\ IdInv' /\ FeedInv' /\ TurnInv' /\ RecordsInv'
  BY <1>1 DEF SDInv, RunInv, IdInv, FeedInv, TurnInv, RecordsInv
<1>3. GateInv'
  BY <1>1 DEF SDInv, GateInv
<1>4. /\ IsBook(book') /\ DOMAIN book'.orders = DOMAIN book.orders /\ book'.net = book.net
      /\ config.shutdown # "preserve" => OpenOrders(book') = {}
  <2>1. IsBook(book)
    BY DEF SDInv, BookInv
  <2>2. CASE config.shutdown = "preserve"
    BY <1>1, <2>1, <2>2
  <2>3. CASE config.shutdown # "preserve"
    <3>1. PICK n : n = CancelAll(book)
      OBVIOUS
    <3>2. /\ IsBook(n) /\ DOMAIN n.orders = DOMAIN book.orders /\ n.net = book.net
          /\ OpenOrders(n) = {}
      BY <2>1, <3>1, BookCancel
    <3>3. book' = n
      BY <1>1, <2>3, <3>1
    <3> QED
      BY <3>2, <3>3
  <2> QED
    BY <2>2, <2>3
<1>5. BookInv'
  <2>1. IsBook(book)'
    BY <1>4 DEF IsBook
  <2> QED
    BY <1>1, <1>4, <2>1 DEF SDInv, BookInv
<1>6. OneWorkingOrderPerPolicy' /\ FlattenInv' /\ ShutdownLeavesNothing'
  <2>1. OpenOrders(book)' = OpenOrders(book')
    BY DEF OpenOrders
  <2> QED
    BY <1>1, <1>4, <2>1 DEF OneWorkingOrderPerPolicy, FlattenInv, ShutdownLeavesNothing
<1> QED
  BY <1>2, <1>3, <1>5, <1>6 DEF SDInv

\* Flattening sends the whole position the other way; an order that reached the venue
\* filled at once, because a position exists only where fills are immediate.
LEMMA FlattenKeeps == ASSUME SDInv, NEW how \in Outcomes, ShutdownFlatten(how) PROVE SDInv'
<1>1. /\ run = "flatten" /\ run' = "release"
      /\ UNCHANGED <<config, feed, due, gate, turn, intents, boots>>
  BY DEF ShutdownFlatten
<1>2. OpenOrders(book) = {} /\ config.shutdown = "flatten" /\ boots >= 1 /\ book.net \in Int
      /\ nextId <= MaxOrders + boots /\ nextId <= MaxOrders + MaxBoots /\ nextId \in Nat
  BY <1>1, ShadowAssumption DEF SDInv, FlattenInv, IdInv, RunInv, BookInv, IsBook
<1>3. FeedInv' /\ TurnInv'
  BY <1>1 DEF SDInv, FeedInv, TurnInv, Strategies
<1>4. OneWorkingOrderPerPolicy' /\ FlattenInv'
  BY <1>1 DEF OneWorkingOrderPerPolicy, FlattenInv
<1>5. CASE book.net = 0
  <2>1. UNCHANGED <<records, book, lost, nextId>>
    BY <1>5 DEF ShutdownFlatten
  <2>2. RunInv' /\ IdInv' /\ RecordsInv'
    BY <1>1, <2>1 DEF SDInv, RunInv, IdInv, RecordsInv
  <2>3. BookInv'
    BY <1>1, <2>1 DEF SDInv, BookInv, IsBook
  <2>4. GateInv'
    BY <1>1, <2>1 DEF SDInv, GateInv
  <2>5. ShutdownLeavesNothing'
    BY <1>2, <1>5, <2>1 DEF ShutdownLeavesNothing, OpenOrders
  <2> QED
    BY <1>3, <1>4, <2>2, <2>3, <2>4, <2>5 DEF SDInv
<1>6. CASE book.net # 0
  <2>1. PICK intent : intent = FlattenIntent
    OBVIOUS
  <2>2. Dispatched(nextId, intent, how) /\ nextId' = nextId + 1
    BY <1>6, <2>1 DEF ShutdownFlatten
  <2>3. intent \in BookIntents /\ book.net + Signed(intent.side, intent.qty) = 0
    <3>1. CASE book.net > 0
      <4>1. intent = [side |-> "Sell", qty |-> book.net, reduceOnly |-> TRUE]
        BY <2>1, <3>1 DEF FlattenIntent
      <4> QED
        BY <1>2, <3>1, <4>1 DEF BookIntents, Signed
    <3>2. CASE ~(book.net > 0)
      <4>1. intent = [side |-> "Buy", qty |-> -book.net, reduceOnly |-> TRUE]
        BY <2>1, <3>2 DEF FlattenIntent
      <4>2. -book.net \in Nat \ {0}
        BY <1>2, <1>6, <3>2
      <4> QED
        BY <1>2, <4>1, <4>2 DEF BookIntents, Signed
    <3> QED
      BY <3>1, <3>2
  <2>4. /\ RecordsInv' /\ BookInv' /\ nextId \notin DOMAIN book.orders
        /\ DOMAIN book'.orders \subseteq DOMAIN book.orders \cup {nextId}
        /\ \A d \in DOMAIN book.orders : book'.orders[d] = book.orders[d]
    BY <1>1, <1>2, <2>2, <2>3, DispatchedKeeps
  <2>5. RunInv' /\ IdInv'
    BY <1>1, <1>2, <2>2, ShadowAssumption DEF SDInv, RunInv, IdInv
  <2>6. GateInv'
    BY <1>1, <1>2, <2>2 DEF SDInv, GateInv
  <2>7. \/ book' = book
        \/ book' = Submitted(book, nextId, intent, config.fill)
    BY <2>2, DispatchedEffect DEF Submitted
  <2>8. CASE book' = book
    <3>1. OpenOrders(book)' = {}
      BY <1>2, <2>8 DEF OpenOrders
    <3>2. (nextId' - 1) \notin DOMAIN book'.orders
      BY <1>2, <2>2, <2>4, <2>8
    <3>3. ShutdownLeavesNothing'
      BY <3>1, <3>2 DEF ShutdownLeavesNothing
    <3> QED
      BY <1>3, <1>4, <2>4, <2>5, <2>6, <3>3 DEF SDInv
  <2>9. CASE book' = Submitted(book, nextId, intent, config.fill)
    <3>1. PICK mode \in {"rest", "immediate"} : mode = config.fill /\ mode = "immediate"
      BY <1>6 DEF SDInv, RunInv, BookInv
    <3>2. PICK n, b, c : n = book' /\ b = book /\ c = nextId
      OBVIOUS
    <3>3. IsBook(b) /\ c \notin DOMAIN b.orders /\ n = Submitted(b, c, intent, mode)
      BY <2>4, <2>9, <3>1, <3>2 DEF SDInv, BookInv
    <3>4. /\ DOMAIN n.orders = DOMAIN b.orders \cup {c}
          /\ \A d \in DOMAIN b.orders : n.orders[d] = b.orders[d]
          /\ n.orders[c].st = "Filled" /\ n.net = b.net + Signed(intent.side, intent.qty)
      BY <2>3, <3>1, <3>3, BookSubmit
    <3>5. OpenOrders(n) = {}
      BY <1>2, <3>2, <3>4 DEF OpenOrders
    <3>6. OpenOrders(book)' = {} /\ book'.net = 0
      BY <2>3, <3>2, <3>4, <3>5 DEF OpenOrders
    <3>7. ShutdownLeavesNothing'
      BY <3>6 DEF ShutdownLeavesNothing
    <3> QED
      BY <1>3, <1>4, <2>4, <2>5, <2>6, <3>7 DEF SDInv
  <2> QED
    BY <2>7, <2>8, <2>9
<1> QED
  BY <1>5, <1>6

LEMMA EndKeeps == ASSUME SDInv, Exit \/ Killed PROVE SDInv'
<1>1. /\ run' = "down" /\ book' = EmptyBook /\ turn' = Idle
      /\ UNCHANGED <<config, records, feed, due, gate, intents, nextId, lost, boots>>
  BY DEF Exit, Killed
<1>2. RunInv' /\ IdInv' /\ FeedInv' /\ RecordsInv'
  BY <1>1 DEF SDInv, RunInv, IdInv, FeedInv, RecordsInv
<1>3. TurnInv'
  BY <1>1 DEF SDInv, TurnInv, Idle, Strategies
<1>4. BookInv'
  <2>1. IsBook(book)' /\ DOMAIN book'.orders = {} /\ book'.net = 0
    BY <1>1, BookEmpty DEF IsBook
  <2> QED
    BY <2>1 DEF BookInv
<1>5. GateInv'
  BY <1>1 DEF SDInv, GateInv
<1>6. OneWorkingOrderPerPolicy' /\ FlattenInv' /\ ShutdownLeavesNothing'
  BY <1>1 DEF OneWorkingOrderPerPolicy, FlattenInv, ShutdownLeavesNothing
<1> QED
  BY <1>2, <1>3, <1>4, <1>5, <1>6 DEF SDInv

LEMMA SDInvNext == SDInv /\ [SDNext]_sdVars => SDInv'
<1> SUFFICES ASSUME SDInv, [SDNext]_sdVars PROVE SDInv'
  OBVIOUS
<1>1. CASE UNCHANGED sdVars
  <2>1. UNCHANGED <<config, run, book, records, feed, due, gate, turn, intents, nextId, lost, boots>>
    BY <1>1 DEF sdVars
  <2>2. FeedInv'
    BY <2>1 DEF SDInv, FeedInv
  <2> QED
    BY <2>1, <2>2, SameGate, QuietStepKeeps
<1>2. CASE SDNext
  BY <1>2, BootKeeps, FeedKeeps, TickKeeps, LeaveKeeps, ReconcileKeeps, HealthKeeps, MarketKeeps,
     QuietKeeps, SendsKeeps, ShutdownCancelKeeps, FlattenKeeps, EndKeeps DEF SDNext
<1> QED
  BY <1>1, <1>2

-----------------------------------------------------------------------------
(* The theorems *)

\* The shadow daemon adds exposure only after a clean reconcile of this very process, a
\* policy has one working order at a time, and an orderly shutdown leaves nothing working
\* and, when it flattens, no position.
THEOREM ShadowDaemonIsSafe == SDSpec => []ShadowSafety
<1>1. SDInv => ShadowSafety
  <2> SUFFICES ASSUME SDInv PROVE ShadowSafety
    OBVIOUS
  <2>1. SDTypeOK
    <3>1. DOMAIN records \subseteq 1..(MaxOrders + MaxBoots) /\ nextId \in 1..(MaxOrders + MaxBoots + 1)
      BY ShadowAssumption DEF SDInv, RunInv, RecordsInv
    <3>2. \A s \in Strategies : intents[s] \in 1..MaxOrders \cup {NoOrder}
      BY DEF SDInv, TurnInv
    <3>3. feed.failures \in 0..MaxReconnects /\ book.net \in Int
      BY DEF SDInv, FeedInv, BookInv, IsBook
    <3> QED
      BY <3>1, <3>2, <3>3 DEF SDInv, SDTypeOK, RunInv, RecordsInv, BookInv
  <2>2. NoExposureBeforeReconcile
    BY DEF SDInv, GateInv, NoExposureBeforeReconcile
  <2>3. DriftKeepsGateClosed
    BY DEF SDInv, GateInv, Covered, DriftKeepsGateClosed
  <2> QED
    BY <2>1, <2>2, <2>3 DEF SDInv, ShadowSafety
<1> QED
  BY <1>1, SDInvInit, SDInvNext, PTL DEF SDSpec

\* While a turn's policies exit a position, no order makes the position larger or opens the
\* opposite one, although every policy of the turn acts on the same early reading of it.
THEOREM ExitsNeverReverse == SDSpec => ExitsOnlyReduce
<1>1. ASSUME SDInv, [SDNext]_sdVars, turn.view # 0, run = "loop", run' = "loop"
      PROVE  IF book.net > 0 THEN book'.net \in 0..book.net ELSE -book'.net \in 0..(-book.net)
  <2>1. book.net \in Int
    BY <1>1 DEF SDInv, BookInv, IsBook
  <2>2. CASE book'.net = book.net
    BY <2>1, <2>2
  <2>3. ASSUME NEW how \in Outcomes,
               NEW intent \in [side : {"Buy", "Sell"}, qty : 1..MaxOrders, reduceOnly : BOOLEAN],
               PolicySends(intent, how)
        PROVE  IF book.net > 0 THEN book'.net \in 0..book.net ELSE -book'.net \in 0..(-book.net)
    <3>1. /\ Dispatched(nextId, intent, how) /\ nextId <= MaxOrders
          /\ intent \in PolicyIntents(Head(turn.left), turn.view)
      BY <2>3, Zenon DEF PolicySends
    <3>2. intent \in BookIntents /\ intent.reduceOnly
      BY <1>1, <3>1, IntentType DEF PolicyIntents
    <3>3. \/ book' = book
          \/ Accepts(book, intent) /\ book' = Submitted(book, nextId, intent, config.fill)
      BY <1>1, <3>1, DispatchedEffect DEF Submitted
    <3>4. CASE Accepts(book, intent) /\ book' = Submitted(book, nextId, intent, config.fill)
      <4>1. PICK mode \in {"rest", "immediate"} : mode = config.fill
        BY <1>1 DEF SDInv, RunInv
      <4>2. PICK n, b, c : n = book' /\ b = book /\ c = nextId
        OBVIOUS
      <4>3. nextId <= MaxOrders + MaxBoots
        BY <1>1, <3>1, ShadowAssumption DEF SDInv, RunInv
      <4>4. IsBook(b) /\ c \notin DOMAIN b.orders /\ n = Submitted(b, c, intent, mode)
        BY <1>1, <3>4, <4>1, <4>2, <4>3, FreshId DEF SDInv, BookInv
      <4>5. n.net = b.net \/ n.net = b.net + Signed(intent.side, intent.qty)
        BY <3>2, <4>1, <4>4, BookSubmit
      <4>6. IF b.net > 0 THEN n.net \in 0..b.net ELSE -n.net \in 0..(-b.net)
        <5>1. CASE n.net = b.net
          BY <2>1, <4>2, <5>1
        <5>2. CASE n.net = b.net + Signed(intent.side, intent.qty)
          BY <2>1, <3>2, <3>4, <4>2, <5>2, ReducingFill
        <5> QED
          BY <4>5, <5>1, <5>2
      <4> QED
        BY <4>2, <4>6
    <3> QED
      BY <2>2, <3>3, <3>4
  <2>4. ASSUME NEW ok \in BOOLEAN, ReconcileTick(ok) PROVE book'.net = book.net
    <3>1. PICK n, b : n = book' /\ b = book
      OBVIOUS
    <3>2. n = InjectOrder(b, Ghost) \/ n = b
      BY <2>4, <3>1, Zenon DEF ReconcileTick
    <3>3. IsBook(b)
      BY <1>1, <3>1 DEF SDInv, BookInv
    <3>4. n.net = b.net
      BY <3>2, <3>3, BookInject
    <3> QED
      BY <3>1, <3>4
  <2>5. ASSUME \/ Boot \/ FeedFatal \/ LeaseLost \/ CtrlC \/ ShutdownCancel \/ Exit \/ Killed
               \/ \E how \in Outcomes : ShutdownFlatten(how)
        PROVE  FALSE
    BY <1>1, <2>5 DEF Boot, FeedFatal, LeaseLost, CtrlC, Leave, ShutdownCancel, Exit, Killed,
       ShutdownFlatten
  <2>6. ASSUME \/ FeedConnects \/ FeedEnds \/ MarketEvent \/ PolicyQuiet \/ UNCHANGED sdVars
               \/ \E w \in {"reconcile", "health"} : TickElapses(w)
               \/ \E ok \in BOOLEAN : HealthTick(ok)
        PROVE  book' = book
    BY <2>6 DEF FeedConnects, FeedEnds, FeedStep, MarketEvent, PolicyQuiet, TickElapses, HealthTick,
       sdVars
  <2> QED
    BY <1>1, <2>2, <2>3, <2>4, <2>5, <2>6 DEF SDNext
<1> QED
  BY <1>1, SDInvInit, SDInvNext, PTL DEF SDSpec, ExitsOnlyReduce
=============================================================================
