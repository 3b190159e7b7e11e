----------------------------- MODULE UserStream -----------------------------
(***************************************************************************)
(* The Binance Portfolio Margin user stream: one websocket session after   *)
(* another, the bounded channel to the consumer, and the consumer's order  *)
(* tracker, which says when a REST reconciliation is due.  Trades of an    *)
(* order are numbered by its cumulative quantity.  The caller's part (read *)
(* the order truth, then mark_reconciled; safe hold when a session returns *)
(* an error that its gate could not announce) is external.                 *)
(***************************************************************************)
EXTENDS Integers, Sequences, FiniteSets

CONSTANTS
  StreamOrders,   \* orders of the account
  MaxTrades,      \* bound: trades per order
  SinkCapacity,   \* the caller's channel capacity
  MaxSessions     \* bound: sessions

ASSUME StreamAssumption ==
  MaxTrades \in Nat /\ SinkCapacity \in Nat \ {0} /\ MaxSessions \in Nat

VARIABLES
  traded,     \* order -> cumulative quantity at the venue
  socket,     \* events on their way to the session
  sink,       \* the channel to the consumer
  session,    \* where the session stands
  sessions,   \* sessions started
  gateLost,   \* the final gate of a session could not be sent; the caller has the error
  healthy, cumulative, seen,   \* UserOrderTracker
  recon,      \* the caller's reconciliation: "none", "due" or "read"
  book,       \* order -> trades in the caller's ledger
  covered,    \* the last reconciliation was read while the socket was connected
  skipped     \* the venue left out an event

usVars == <<traded, socket, sink, session, sessions, gateLost, healthy, cumulative, seen,
            recon, book, covered, skipped>>
tracker == <<healthy, cumulative, seen>>
caller == <<recon, book, covered>>

None == -1
Reconcile == [kind |-> "reconcile"]
OrderEvent(o, n, trade) == [kind |-> "order", order |-> o, filled |-> n, trade |-> trade]

USInit ==
  /\ traded = [o \in StreamOrders |-> 0]
  /\ socket = <<>> /\ sink = <<>>
  /\ session = "down" /\ sessions = 0 /\ gateLost = FALSE
  /\ healthy = FALSE
  /\ cumulative = [o \in StreamOrders |-> None]
  /\ seen = [o \in StreamOrders |-> {}]
  /\ recon = "none" /\ book = [o \in StreamOrders |-> {}] /\ covered = FALSE
  /\ skipped = FALSE

-----------------------------------------------------------------------------
(* The venue *)

Emitted(e) == IF session = "running" THEN Append(socket, e) ELSE socket

Trade(o, lost) ==
  /\ traded[o] < MaxTrades
  /\ traded' = [traded EXCEPT ![o] = @ + 1]
  /\ socket' = IF lost THEN socket ELSE Emitted(OrderEvent(o, traded[o] + 1, TRUE))
  /\ skipped' = (skipped \/ (lost /\ session = "running"))
  /\ UNCHANGED <<sink, session, sessions, gateLost, tracker, caller>>

\* A report without a trade, a repeated trade report, or an event that calls
\* for reconciliation.
Report(e) ==
  /\ session = "running" /\ Len(socket) < 2
  /\ socket' = Append(socket, e)
  /\ UNCHANGED <<traded, sink, session, sessions, gateLost, tracker, caller, skipped>>

Reports ==
  {Reconcile} \cup {OrderEvent(o, traded[o], t) : o \in StreamOrders, t \in BOOLEAN}
ValidReport(e) == e.kind = "order" /\ e.trade => e.filled > 0

-----------------------------------------------------------------------------
(* The session *)

Room == Len(sink) < SinkCapacity

SessionStep(pc, events, queue, lost) ==
  /\ session' = pc /\ socket' = events /\ sink' = queue /\ gateLost' = lost
  /\ UNCHANGED <<traded, tracker, caller, skipped>>

\* stream_once: the first gate must reach the consumer before anything else.
StartSession ==
  /\ session = "down" /\ ~gateLost /\ sessions < MaxSessions
  /\ sessions' = sessions + 1
  /\ IF Room THEN SessionStep("connecting", <<>>, Append(sink, Reconcile), gateLost)
     ELSE SessionStep("down", <<>>, sink, TRUE)

\* create_listen_key and the websocket handshake.
SessionConnected ==
  /\ session = "connecting"
  /\ SessionStep("running", socket, sink, gateLost) /\ UNCHANGED sessions

\* decode_user_event and send_bounded.
Forward ==
  /\ session = "running" /\ socket # <<>> /\ Room
  /\ SessionStep("running", Tail(socket), Append(sink, Head(socket)), gateLost)
  /\ UNCHANGED sessions

\* Every way out of stream_session: no key, no connection, renewal, ping,
\* rotation, an event that cannot be decoded or that the consumer does not take.
SessionBreaks ==
  /\ session \in {"connecting", "running"}
  /\ SessionStep("ended", <<>>, sink, gateLost) /\ UNCHANGED sessions

\* Mutant: the session ends without the gate.
QuietEnd ==
  /\ session = "ended"
  /\ SessionStep("down", socket, sink, gateLost) /\ UNCHANGED sessions

\* fenced_session: the gate after the session; without room its error returns.
FinalGate ==
  /\ session = "ended"
  /\ IF Room THEN SessionStep("down", socket, Append(sink, Reconcile), gateLost)
     ELSE SessionStep("down", socket, sink, TRUE)
  /\ UNCHANGED sessions

-----------------------------------------------------------------------------
(* UserOrderTracker and its caller *)

Disconnect ==
  /\ healthy' = FALSE
  /\ cumulative' = [o \in StreamOrders |-> None]
  /\ seen' = [o \in StreamOrders |-> {}]

\* accept: once an order has a snapshot, its quantity grows by new trades only.
Consistent(e) ==
  LET delta == e.filled - cumulative[e.order]
      known == e.filled \in seen[e.order]
  IN CASE delta < 0 -> FALSE
       [] delta > 0 -> e.trade /\ delta = 1 /\ ~known
       [] delta = 0 -> ~e.trade \/ known

Accept(e) ==
  IF ~healthy THEN UNCHANGED <<tracker, recon, book>>
  ELSE IF e.kind = "reconcile" \/ (cumulative[e.order] # None /\ ~Consistent(e))
    THEN Disconnect /\ recon' = "due" /\ UNCHANGED book
  ELSE
    /\ cumulative' = [cumulative EXCEPT ![e.order] = e.filled]
    /\ seen' = [seen EXCEPT ![e.order] = IF e.trade THEN @ \cup {e.filled} ELSE @]
    /\ book' = [book EXCEPT ![e.order] = IF e.trade THEN @ \cup {e.filled} ELSE @]
    /\ UNCHANGED <<healthy, recon>>

\* The consumer takes the next event once a reconciliation is done.
TakeEvent ==
  /\ recon = "none" /\ sink # <<>>
  /\ sink' = Tail(sink)
  /\ IF Head(sink).kind = "reconcile" THEN Disconnect /\ recon' = "due" /\ UNCHANGED book
     ELSE Accept(Head(sink))
  /\ UNCHANGED <<traded, socket, session, sessions, gateLost, covered, skipped>>

\* The caller reads orders and trades, then trusts the stream again.
ReadTruth ==
  /\ recon = "due"
  /\ recon' = "read"
  /\ book' = [o \in StreamOrders |-> 1..traded[o]]
  /\ covered' = (session = "running")
  /\ UNCHANGED <<traded, socket, sink, session, sessions, gateLost, tracker, skipped>>

MarkReconciled ==
  /\ recon = "read"
  /\ recon' = "none" /\ healthy' = TRUE
  /\ UNCHANGED <<traded, socket, sink, session, sessions, gateLost, cumulative, seen,
                 book, covered, skipped>>

\* The caller enters safe hold on an error of stream_once.
SafeHoldOnError ==
  /\ gateLost
  /\ gateLost' = FALSE /\ recon' = "due" /\ Disconnect
  /\ UNCHANGED <<traded, socket, sink, session, sessions, book, covered, skipped>>

USNext ==
  \/ \E o \in StreamOrders, lost \in BOOLEAN : Trade(o, lost)
  \/ \E e \in Reports : ValidReport(e) /\ Report(e)
  \/ StartSession \/ SessionConnected \/ Forward \/ SessionBreaks \/ FinalGate
  \/ TakeEvent \/ ReadTruth \/ MarkReconciled \/ SafeHoldOnError

USSpec == USInit /\ [][USNext]_usVars

-----------------------------------------------------------------------------
USTypeOK ==
  /\ session \in {"down", "connecting", "running", "ended"}
  /\ Len(sink) <= SinkCapacity
  /\ recon \in {"none", "due", "read"}
  /\ \A o \in StreamOrders : cumulative[o] \in {None} \cup 0..traded[o]
  /\ \A o \in StreamOrders : seen[o] \subseteq 1..traded[o]

\* The trades the tracker saw of an order run without a gap to the quantity it
\* holds for it: a missing or contradictory report drops the connection.
SeenIsGapless ==
  \A o \in StreamOrders : \A t \in seen[o] : t..cumulative[o] \subseteq seen[o]

\* Nothing is left for the consumer to take, and no error waits for the caller.
Drained ==
  session \in {"down", "running"} /\ socket = <<>> /\ sink = <<>> /\ ~gateLost

Complete == \A o \in StreamOrders : book[o] = 1..traded[o]

\* A tracker that is healthy with nothing left to take missed no trade, in any
\* order of trades, breaks and reconciliations, provided the reconciliation was
\* read on a connected session and the venue left no event out.
HealthyIsComplete == healthy /\ covered /\ ~skipped /\ Drained => Complete

\* The private stream misses no trade it could have seen: what the tracker holds has no
\* gap, and a healthy tracker holds everything.
StreamSafety == USTypeOK /\ SeenIsGapless /\ HealthyIsComplete

\* "An unknown event, disconnect, gap or inconsistent fill forces REST reconcile".
GapForcesReconcile ==
  healthy /\ ~skipped /\ Drained /\ session = "running" => Complete
=============================================================================
