---------------------------- MODULE ShadowDaemon -----------------------------
(***************************************************************************)
(* The shadow daemon: one event loop over a market-data feed, a reconcile  *)
(* tick, a health tick and a shutdown signal, with portable policies that  *)
(* send orders through the risk gate and the durable path to the           *)
(* in-process venue.  The select is biased: a feed failure or a lost lease *)
(* comes first, then the reconcile tick, the health tick, and market       *)
(* events last.  The venue's book dies with the process; the order records *)
(* do not.  Any database call may fail.                                    *)
(***************************************************************************)
EXTENDS ShadowVenue, Sequences, SequencesExt

CONSTANTS
  PolicyOrder,    \* the policy-driven strategies of the instrument, by id
  AllowShort,     \* strategies whose definition opts in to shorts
  NoOrder,        \* no client order id
  Ghost,          \* client id of the injected order
  MaxOrders,      \* bound: client order ids
  MaxReconnects,  \* PG_MARKET_MAX_RECONNECTS
  MaxBoots        \* bound: starts of the process

ASSUME ShadowAssumption ==
  /\ MaxReconnects \in Nat \ {0}
  /\ PolicyOrder \in Seq(Range(PolicyOrder)) /\ AllowShort \subseteq Range(PolicyOrder)
  /\ MaxOrders \in Nat /\ MaxBoots \in Nat /\ Ghost \notin 1..(MaxOrders + MaxBoots)

VARIABLES
  config,    \* fill mode, shutdown policy and whether the fault is armed
  run,       \* "down", "loop", "cancel", "flatten" or "release"
  book,      \* ShadowBook
  records,   \* durable order records: client id -> OMS state
  feed,      \* the feed task and its status in the supervisor
  due,       \* which of the two ticks have elapsed
  gate,      \* market gate, reconcile_clean, allow_new_exposure, ready, and the
             \* first client id the last reconcile could not see (0: none ran)
  turn,      \* the market event being handled: strategies left, position seen
  intents,   \* live_policy_intents
  nextId,    \* the next client order id
  lost,      \* orders at the venue whose acknowledgement was not journalled
  boots

sdVars == <<config, run, book, records, feed, due, gate, turn, intents, nextId, lost, boots>>

Strategies == Range(PolicyOrder)
Idle == [left |-> <<>>, view |-> 0]
ClosedGate == [market |-> FALSE, clean |-> TRUE, allow |-> FALSE, ready |-> FALSE, seen |-> 0]
Connecting == [task |-> "connecting", failures |-> 0, status |-> "Reconnecting"]

Terminal == {"Filled", "Canceled", "Rejected"}

SDInit ==
  /\ config \in [fill : {"rest", "immediate"}, shutdown : {"preserve", "cancel", "flatten"},
                 fault : BOOLEAN]
  /\ run = "down"
  /\ book = EmptyBook
  /\ records = <<>>
  /\ feed = Connecting
  /\ due = [reconcile |-> FALSE, health |-> FALSE]
  /\ gate = ClosedGate
  /\ turn = Idle
  /\ intents = [s \in Strategies |-> NoOrder]
  /\ nextId = 1
  /\ lost = {}
  /\ boots = 0

SetRecord(c, st) ==
  records' = [d \in DOMAIN records \cup {c} |-> IF d = c THEN st ELSE records[d]]

-----------------------------------------------------------------------------
(* Startup and the feed task *)

\* serve, up to its loop: a new venue, both ticks due at once, gate closed.
Boot ==
  /\ run = "down" /\ boots < MaxBoots
  /\ run' = "loop"
  /\ boots' = boots + 1
  /\ book' = EmptyBook
  /\ feed' = Connecting
  /\ due' = [reconcile |-> TRUE, health |-> TRUE]
  /\ gate' = ClosedGate
  /\ turn' = Idle
  /\ intents' = [s \in Strategies |-> NoOrder]
  /\ lost' = {}
  /\ UNCHANGED <<config, records, nextId>>

FeedStep(next) ==
  /\ run = "loop"
  /\ feed' = next
  /\ UNCHANGED <<config, run, book, records, due, gate, turn, intents, nextId, lost, boots>>

FeedConnects == feed.task = "connecting" /\ FeedStep([feed EXCEPT !.task = "streaming"])

\* The stream ends, with or without an error.  Failures are counted over the
\* life of the task; the last one is fatal.
Exhausted(failures) == failures >= MaxReconnects

FeedEnds ==
  /\ feed.task \in {"connecting", "streaming"}
  /\ FeedStep([feed EXCEPT !.failures = @ + 1,
        !.task = IF Exhausted(feed.failures + 1) THEN "fatal" ELSE "connecting"])

-----------------------------------------------------------------------------
(* The loop.  Nothing preempts a branch; Free says the loop is between two. *)

Free == run = "loop" /\ turn.left = <<>>

TickElapses(which) ==
  /\ Free
  /\ ~due[which]
  /\ due' = [due EXCEPT ![which] = TRUE]
  /\ UNCHANGED <<config, run, book, records, feed, gate, turn, intents, nextId, lost, boots>>

Leave(status) ==
  /\ run' = "cancel"
  /\ feed' = [feed EXCEPT !.status = status]
  /\ gate' = [gate EXCEPT !.ready = FALSE]
  /\ UNCHANGED <<config, book, records, due, turn, intents, nextId, lost, boots>>

\* Mutant: a fatal feed is only noted.
FeedFatalNoted ==
  /\ Free /\ feed.task = "fatal" /\ feed.status # "Failed"
  /\ FeedStep([feed EXCEPT !.status = "Failed"])

FeedFatal == Free /\ feed.task = "fatal" /\ Leave("Failed")
LeaseLost == Free /\ feed.task # "fatal" /\ Leave(feed.status)
CtrlC == Free /\ ~due.reconcile /\ ~due.health /\ feed.task # "fatal" /\ Leave(feed.status)

\* recover_ambiguous and reconcile_once against the venue's book: the report
\* is clean when every open record is found with the fills it knows of (none
\* is ever recorded here), and every open order of the venue has a record.
Missing(b) == {c \in DOMAIN records : records[c] \notin Terminal /\ c \notin DOMAIN b.orders}
Mismatched(b) ==
  {c \in DOMAIN records \cap DOMAIN b.orders :
     /\ records[c] \notin Terminal \/ b.orders[c].st = "Open"
     /\ b.orders[c].filled # 0 \/ records[c] \in Terminal \cup {"Created"}}
Unowned(b) == OpenOrders(b) \ DOMAIN records

CleanReport(b) == Missing(b) \cup Mismatched(b) \cup Unowned(b) = {}

\* What the two calls write: an ambiguous record that is not found becomes
\* unknown; on a clean report every open record takes the venue's state.
Reconciled(b) ==
  [c \in DOMAIN records |->
     IF c \in Missing(b) /\ records[c] = "PendingSubmit" THEN "Unknown"
     ELSE IF c \in DOMAIN b.orders /\ CleanReport(b) /\ records[c] \notin Terminal
       THEN b.orders[c].st
     ELSE records[c]]

AllConnected == feed.status = "Connected"

\* Mutant: the gate opens whatever the reconcile found.
GateUncheckedReconcile(clean) ==
  [gate EXCEPT !.clean = TRUE, !.seen = nextId,
               !.allow = gate.market /\ AllConnected]

\* The gate after a reconcile and after a health tick.
GateAfterReconcile(clean) ==
  [gate EXCEPT !.clean = clean, !.seen = nextId,
               !.allow = clean /\ gate.market /\ AllConnected,
               !.ready = @ /\ clean]

ReconcileTick(reachable) ==
  LET b == IF config.fault THEN InjectOrder(book, Ghost) ELSE book
      clean == reachable /\ CleanReport(b)
  IN /\ Free /\ due.reconcile /\ feed.task # "fatal"
     /\ book' = b
     /\ config' = [config EXCEPT !.fault = FALSE]
     /\ records' = IF reachable THEN Reconciled(b) ELSE records
     /\ gate' = GateAfterReconcile(clean)
     /\ due' = [due EXCEPT !.reconcile = FALSE]
     /\ UNCHANGED <<run, feed, turn, intents, nextId, lost, boots>>

\* The select is biased: a due reconcile tick goes first.
ReconcileFirst == ~due.reconcile

\* refresh_staleness, then the market gate, readiness and the exposure gate.
HealthTick(stale) ==
  LET status == IF stale THEN "Stale" ELSE feed.status
      connected == status = "Connected"
      open == connected /\ gate.clean
  IN /\ Free /\ due.health /\ ReconcileFirst /\ feed.task # "fatal"
     /\ feed.status = "Reconnecting" => stale
     /\ feed' = [feed EXCEPT !.status = status]
     /\ gate' = [gate EXCEPT !.market = connected, !.allow = open, !.ready = open]
     /\ due' = [due EXCEPT !.health = FALSE]
     /\ UNCHANGED <<config, run, book, records, turn, intents, nextId, lost, boots>>

\* A market event: the supervisor sees it, the position is read once, and the
\* policies of the instrument are evaluated in turn.  Every strategy here has a rule
\* graph, so what its score machine asks for is suppressed.
MarketEvent ==
  /\ Free /\ ReconcileFirst /\ ~due.health /\ feed.task = "streaming"
  /\ feed' = [feed EXCEPT !.status = "Connected"]
  /\ turn' = [left |-> PolicyOrder, view |-> book.net]
  /\ UNCHANGED <<config, run, book, records, due, gate, intents, nextId, lost, boots>>

\* strategy_is_busy: the order it tracks is still working at the venue.
Busy(s) == intents[s] \in OpenOrders(book)

\* policy_intent: an exit closes the position that was seen, an entry opens
\* from flat, and a short needs the definition's consent.
PolicyIntents(s, view) ==
  IF view # 0
    THEN {[side |-> IF view > 0 THEN "Sell" ELSE "Buy",
           qty |-> IF view > 0 THEN view ELSE -view, reduceOnly |-> TRUE]}
    ELSE {[side |-> side, qty |-> 1, reduceOnly |-> FALSE] :
            side \in IF s \in AllowShort THEN {"Buy", "Sell"} ELSE {"Buy"}}

\* evaluate_order.
RiskAllows(intent) == intent.reduceOnly \/ gate.allow

\* submit_intent with dispatch: how far the durable path got.  `c` is tracked
\* only when the acknowledgement was journalled.
Dispatched(c, intent, how) ==
  CASE how = "notSent"    -> SetRecord(c, "PendingSubmit") /\ UNCHANGED <<book, lost>>
    [] how = "refused"    -> /\ ~Accepts(book, intent)
                             /\ SetRecord(c, "Rejected")
                             /\ UNCHANGED <<book, lost>>
    [] how = "acknowledged" -> /\ Accepts(book, intent)
                               /\ SetRecord(c, "Open")
                               /\ book' = SubmitTo(book, c, intent, config.fill, TRUE)
                               /\ UNCHANGED lost
    [] how = "ackLost"    -> /\ Accepts(book, intent)
                             /\ SetRecord(c, "PendingSubmit")
                             /\ book' = SubmitTo(book, c, intent, config.fill, TRUE)
                             /\ lost' = lost \cup {c}

Outcomes == {"notSent", "refused", "acknowledged", "ackLost"}

\* One policy of the turn sends nothing: no rule matched, it is busy, the
\* risk gate refuses, or its intent could not be stored.
PolicyQuiet ==
  /\ run = "loop" /\ turn.left # <<>>
  /\ turn' = [turn EXCEPT !.left = Tail(@)]
  /\ intents' = [intents EXCEPT ![Head(turn.left)] = IF Busy(Head(turn.left)) THEN @ ELSE NoOrder]
  /\ UNCHANGED <<config, run, book, records, feed, due, gate, nextId, lost, boots>>

\* One policy of the turn sends an order.
PolicySends(intent, how) ==
  LET s == Head(turn.left)
  IN /\ run = "loop" /\ turn.left # <<>> /\ nextId <= MaxOrders
     /\ ~Busy(s)
     /\ intent \in PolicyIntents(s, turn.view)
     /\ RiskAllows(intent)
     /\ Dispatched(nextId, intent, how)
     /\ intents' = [intents EXCEPT ![s] = IF how = "acknowledged" THEN nextId ELSE NoOrder]
     /\ nextId' = nextId + 1
     /\ turn' = [turn EXCEPT !.left = Tail(@)]
     /\ UNCHANGED <<config, run, feed, due, gate, boots>>

-----------------------------------------------------------------------------
(* apply_shutdown_policy, then the lease is released *)

ShutdownCancel ==
  /\ run = "cancel"
  /\ book' = IF config.shutdown = "preserve" THEN book ELSE CancelAll(book)
  /\ run' = IF config.shutdown = "flatten" THEN "flatten" ELSE "release"
  /\ UNCHANGED <<config, records, feed, due, gate, turn, intents, nextId, lost, boots>>

FlattenIntent == [side |-> IF book.net > 0 THEN "Sell" ELSE "Buy",
                  qty |-> IF book.net > 0 THEN book.net ELSE -book.net, reduceOnly |-> TRUE]

ShutdownFlatten(how) ==
  /\ run = "flatten"
  /\ run' = "release"
  /\ IF book.net = 0
       THEN UNCHANGED <<records, book, lost, nextId>>
       ELSE /\ RiskAllows(FlattenIntent)
            /\ Dispatched(nextId, FlattenIntent, how)
            /\ nextId' = nextId + 1
  /\ UNCHANGED <<config, feed, due, gate, turn, intents, boots>>

\* The process ends, in order or not; the book is gone.
Exit ==
  /\ run = "release"
  /\ run' = "down"
  /\ book' = EmptyBook
  /\ turn' = Idle
  /\ UNCHANGED <<config, records, feed, due, gate, intents, nextId, lost, boots>>

Killed ==
  /\ run # "down" /\ run' = "down"
  /\ book' = EmptyBook
  /\ turn' = Idle
  /\ UNCHANGED <<config, records, feed, due, gate, intents, nextId, lost, boots>>

SDNext ==
  \/ Boot \/ FeedConnects \/ FeedEnds
  \/ \E w \in {"reconcile", "health"} : TickElapses(w)
  \/ FeedFatal \/ LeaseLost \/ CtrlC
  \/ \E ok \in BOOLEAN : ReconcileTick(ok) \/ HealthTick(ok)
  \/ MarketEvent \/ PolicyQuiet
  \/ \E how \in Outcomes :
       \/ ShutdownFlatten(how)
       \/ \E intent \in [side : {"Buy", "Sell"}, qty : 1..MaxOrders, reduceOnly : BOOLEAN] :
            PolicySends(intent, how)
  \/ ShutdownCancel \/ Exit \/ Killed

SDSpec ==
  /\ SDInit /\ [][SDNext]_sdVars
  /\ WF_sdVars(FeedFatal) /\ WF_sdVars(PolicyQuiet) /\ WF_sdVars(ShutdownCancel)
  /\ WF_sdVars(\E how \in Outcomes : ShutdownFlatten(how)) /\ WF_sdVars(Exit)

-----------------------------------------------------------------------------
SDTypeOK ==
  /\ run \in {"down", "loop", "cancel", "flatten", "release"}
  /\ DOMAIN records \subseteq 1..(MaxOrders + MaxBoots)
  /\ \A c \in DOMAIN records : records[c] \in {"PendingSubmit", "Open", "Unknown"} \cup Terminal
  /\ DOMAIN book.orders \subseteq DOMAIN records \cup {Ghost}
  /\ book.net \in Int
  /\ feed.failures \in 0..MaxReconnects
  /\ nextId \in 1..(MaxOrders + MaxBoots + 1)
  /\ \A s \in Strategies : intents[s] \in 1..MaxOrders \cup {NoOrder}

\* New exposure needs a reconcile of this very process, although
\* reconcile_clean starts as true: the biased select runs the reconcile tick
\* before the first health tick.
NoExposureBeforeReconcile == gate.allow => gate.seen > 0

\* An order left open by an earlier process, or filled without the records
\* knowing, keeps the gate closed once a reconcile could see it: the records
\* never take fills from a snapshot, and a new process has an empty venue.
DriftKeepsGateClosed ==
  run = "loop" /\ gate.allow =>
    \A c \in DOMAIN records : c < gate.seen /\ records[c] \notin Terminal =>
      c \in DOMAIN book.orders /\ book.orders[c].filled = 0

\* A policy has at most one order working at the venue, apart from orders
\* whose acknowledgement could not be journalled (strategy_is_busy).
OneWorkingOrderPerPolicy ==
  run = "loop" =>
    \A c \in OpenOrders(book) \ (lost \cup {Ghost}) : \E s \in Strategies : intents[s] = c

\* While a turn's policies exit a position, no order makes the position
\* larger or opens the opposite one: the position is read once per turn, so a
\* second policy's exit is refused by the venue's reduce-only guard.
ExitsOnlyReduce ==
  [][turn.view # 0 /\ run = "loop" /\ run' = "loop" =>
       IF book.net > 0 THEN book'.net \in 0..book.net ELSE -book'.net \in 0..(-book.net)]_sdVars

\* An orderly shutdown that cancels leaves no working order, and flattening
\* leaves no position once its order reached the venue.
ShutdownLeavesNothing ==
  run = "release" /\ config.shutdown # "preserve" =>
    /\ OpenOrders(book) = {}
    /\ config.shutdown = "flatten" /\ (nextId - 1) \in DOMAIN book.orders => book.net = 0

\* The shadow daemon as a whole: it adds exposure only after its own clean reconcile, one
\* order per policy at a time, and shuts down without leaving one behind.
ShadowSafety ==
  /\ SDTypeOK /\ NoExposureBeforeReconcile /\ DriftKeepsGateClosed
  /\ OneWorkingOrderPerPolicy /\ ShutdownLeavesNothing

\* A feed that failed for good ends the process (fatal_rx is polled first).
FatalEndsProcess == (run = "loop" /\ feed.task = "fatal") ~> (run = "down")
=============================================================================
