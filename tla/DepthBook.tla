----------------------------- MODULE DepthBook -----------------------------
(***************************************************************************)
(* The order book of one symbol as pg-marketdata rebuilds it from a REST   *)
(* snapshot and a stream of diffs (BinanceDepthBridge), and the session    *)
(* that feeds it (stream_depth of adapters/pg-binance/market_transport).   *)
(*                                                                         *)
(* A level is its price; its quantity is abstracted to present or absent,  *)
(* which is what the two maps of the bridge can get wrong.  The venue's    *)
(* own book at every update id is kept in hist, so a diff is the ids it    *)
(* spans and its levels are read off hist: every level that changed after  *)
(* update pu, with the quantity it has at update u.                        *)
(*                                                                         *)
(* Books have no more levels than a snapshot carries (1000 in the code);   *)
(* the cut of a published book at its best 50 levels is left out.          *)
(*                                                                         *)
(* The venue, the websocket and the REST endpoint are the environment:     *)
(* diffs are lost or repeated, a snapshot may be as old as a cache makes   *)
(* it, frames may be damaged, the connection may break at any await.       *)
(***************************************************************************)
EXTENDS Integers, Sequences

CONSTANTS
  Prices,       \* the prices a level can have
  MAX_BUFFER,   \* diffs kept while the snapshot loads (2048 in the code)
  MaxId         \* bound of the model: the venue's last update id

ASSUME DepthAssumption ==
  /\ Prices \subseteq Nat
  /\ MAX_BUFFER \in Nat \ {0}
  /\ MaxId \in Nat \ {0}

VARIABLES
  hist,       \* hist[i]: the venue's book after update i
  sent,       \* final_update_id of the last diff the venue produced
  wire,       \* diffs on the socket of the session, oldest first
  pc,         \* where stream_depth is
  loaded,     \* snapshot_loaded
  book,       \* bids and asks of the bridge
  last,       \* last_update_id, 0 for None
  bridged,
  buffered,
  latest,     \* the book install_snapshot will return, NoBook for None
  published   \* the last L2Book sent to the sink, NoBook before the first

vars == <<hist, sent, wire, pc, loaded, book, last, bridged, buffered, latest,
          published>>
bridgeVars == <<book, last, bridged, buffered, latest>>

Books == [bids : SUBSET Prices, asks : SUBSET Prices]
EmptyBook == [bids |-> {}, asks |-> {}]

\* BinanceDepthDelta: the ids U and u of the updates it spans, and pu.
Deltas == [U : 1..MaxId, u : 1..MaxId, pu : 0..MaxId]

\* L2Book: its sequence and levels.
NoBook == [seq |-> 0, levels |-> EmptyBook]
L2Books == [seq : 1..MaxId, levels : Books] \cup {NoBook}

TypeOK ==
  /\ hist \in Seq(Books) /\ Len(hist) \in 1..MaxId
  /\ sent \in 0..Len(hist)
  /\ wire \in Seq(Deltas)
  /\ pc \in {"down", "first", "stream", "replay"}
  /\ loaded \in BOOLEAN
  /\ book \in Books
  /\ last \in 0..MaxId
  /\ bridged \in BOOLEAN
  /\ buffered \in Seq(Deltas) /\ Len(buffered) <= MAX_BUFFER
  /\ latest \in L2Books
  /\ published \in L2Books

-----------------------------------------------------------------------------
\* valid_book: both sides have a level and the best bid is below the best ask.
ValidBook(b) ==
  /\ b.bids # {} /\ b.asks # {}
  /\ \A x \in b.bids, y \in b.asks : x < y

\* The levels of one side in the diff d: those that had, at or after update
\* pu, another quantity than the one they have at u.
Touched(d, side) ==
  {p \in Prices : \E i \in (IF d.pu = 0 THEN 1 ELSE d.pu)..d.u :
                    (p \in hist[i][side]) # (p \in hist[d.u][side])}

\* apply, the two loops over parse_updates: each level of the diff replaces
\* the one of the book, an absent quantity removes it.
Updated(b, d) ==
  [bids |-> (b.bids \ Touched(d, "bids")) \cup (hist[d.u].bids \cap Touched(d, "bids")),
   asks |-> (b.asks \ Touched(d, "asks")) \cup (hist[d.u].asks \cap Touched(d, "asks"))]

\* apply: the diff is behind the book and is dropped without an error.
Outdated(d) == IF bridged THEN d.u <= last ELSE d.u < last

\* apply, sequence_valid: the first diff spans the snapshot, every later one
\* starts where the one before it ended.
InSequence(d) == IF bridged THEN d.pu = last ELSE d.U <= last /\ d.u >= last

\* apply succeeds and returns a book.
Applies(d) ==
  /\ ~Outdated(d)
  /\ InSequence(d)
  /\ ValidBook(Updated(book, d))

\* apply returns an error after it invalidated the bridge.
Fails(d) == ~Outdated(d) /\ ~Applies(d)

ApplyDelta(d) ==
  /\ book' = Updated(book, d)
  /\ bridged' = TRUE
  /\ last' = d.u

\* Mutant: the levels are collected before the loops.
PublishedBeforeUpdate(d) == [seq |-> d.u, levels |-> book]

\* The L2Book apply returns, collected after both loops.
Published(d) == [seq |-> d.u, levels |-> Updated(book, d)]

-----------------------------------------------------------------------------
Init ==
  /\ hist \in {<<b>> : b \in {c \in Books : ValidBook(c)}}
  /\ sent = 0
  /\ wire = <<>>
  /\ pc = "down"
  /\ loaded = FALSE
  /\ book = EmptyBook
  /\ last = 0
  /\ bridged = FALSE
  /\ buffered = <<>>
  /\ latest = NoBook
  /\ published = NoBook

(***************************************************************************)
(* The venue and the network.                                              *)
(***************************************************************************)
\* One level of the venue's book appears or goes.  The book is never crossed,
\* but a side may run empty.
VenueUpdates ==
  /\ Len(hist) < MaxId
  /\ \E p \in Prices, side \in {"bids", "asks"} :
       LET b == hist[Len(hist)]
           c == [b EXCEPT ![side] = IF p \in @ THEN @ \ {p} ELSE @ \cup {p}]
       IN /\ \A x \in c.bids, y \in c.asks : x < y
          /\ hist' = Append(hist, c)
  /\ UNCHANGED <<sent, wire, pc, loaded, bridgeVars, published>>

\* The venue sends a diff of everything since the last one.  Ids are shared
\* with other symbols, so its first id need not follow pu immediately.  It
\* reaches the socket once, twice or never.
VenueSends ==
  /\ sent < Len(hist)
  /\ sent' = Len(hist)
  /\ \E U \in sent + 1 .. Len(hist) :
       LET d == [U |-> U, u |-> Len(hist), pu |-> sent]
       IN wire' \in IF pc = "down" THEN {wire}
                    ELSE {wire, Append(wire, d), Append(Append(wire, d), d)}
  /\ UNCHANGED <<hist, pc, loaded, bridgeVars, published>>

-----------------------------------------------------------------------------
(***************************************************************************)
(* The session.  Every error of the bridge ends it: stream_depth returns,  *)
(* its bridge is dropped, and the next session starts with a new one.      *)
(***************************************************************************)
NewBridge ==
  /\ book' = EmptyBook
  /\ last' = 0
  /\ bridged' = FALSE
  /\ buffered' = <<>>
  /\ latest' = NoBook

SessionEnds ==
  /\ pc' = "down"
  /\ wire' = <<>>
  /\ loaded' = FALSE
  /\ NewBridge
  /\ UNCHANGED <<hist, sent, published>>

\* stream: a fresh socket and a fresh bridge.
Connect ==
  /\ pc = "down"
  /\ pc' = "first"
  /\ UNCHANGED <<hist, sent, wire, loaded, bridgeVars, published>>

\* push before a snapshot is installed.
Buffer(d) ==
  /\ Len(buffered) < MAX_BUFFER
  /\ buffered' = Append(buffered, d)
  /\ UNCHANGED <<book, last, bridged, latest, published>>

BufferFull == Len(buffered) >= MAX_BUFFER

\* One diff is buffered before the snapshot is requested.
FirstDelta ==
  /\ pc = "first"
  /\ wire # <<>>
  /\ Buffer(Head(wire))
  /\ wire' = Tail(wire)
  /\ pc' = "stream"
  /\ UNCHANGED <<hist, sent, loaded>>

\* Mutant: the snapshot is published without a diff that spans it.
SnapshotArrivesAlone ==
  /\ pc = "stream"
  /\ ~loaded
  /\ \E i \in 1..Len(hist) :
       /\ ValidBook(hist[i])
       /\ book' = hist[i]
       /\ last' = i
       /\ bridged' = FALSE
       /\ loaded' = TRUE
       /\ pc' = "replay"
       /\ published' = [seq |-> i, levels |-> hist[i]]
       /\ UNCHANGED <<hist, sent, wire, buffered, latest>>

\* The snapshot branch of select!: install_snapshot up to its replay loop.
\* The snapshot is the venue's book at some update, however old.
SnapshotArrives ==
  /\ pc = "stream"
  /\ ~loaded
  /\ \E i \in 1..Len(hist) :
       \/ /\ ValidBook(hist[i])
          /\ book' = hist[i]
          /\ last' = i
          /\ bridged' = FALSE
          /\ loaded' = TRUE
          /\ pc' = "replay"
          /\ UNCHANGED <<hist, sent, wire, buffered, latest, published>>
       \/ ~ValidBook(hist[i]) /\ SessionEnds

\* One turn of the replay loop of install_snapshot.
Replay ==
  /\ pc = "replay"
  /\ buffered # <<>>
  /\ LET d == Head(buffered)
     IN \/ /\ Applies(d)
           /\ ApplyDelta(d)
           /\ latest' = Published(d)
           /\ buffered' = Tail(buffered)
           /\ UNCHANGED <<hist, sent, wire, pc, loaded, published>>
        \/ /\ Outdated(d)
           /\ buffered' = Tail(buffered)
           /\ UNCHANGED <<hist, sent, wire, pc, loaded, book, last, bridged,
                          latest, published>>
        \/ Fails(d) /\ SessionEnds

\* install_snapshot returns; the last book it made, if any, is published.
ReplayDone ==
  /\ pc = "replay"
  /\ buffered = <<>>
  /\ pc' = "stream"
  /\ published' = IF latest = NoBook THEN published ELSE latest
  /\ latest' = NoBook
  /\ UNCHANGED <<hist, sent, wire, loaded, book, last, bridged, buffered>>

\* The socket branch of select!: push, then publish what it returns.
ReceiveDelta ==
  /\ pc = "stream"
  /\ wire # <<>>
  /\ LET d == Head(wire)
     IN \/ /\ ~loaded
           /\ Buffer(d)
           /\ wire' = Tail(wire)
           /\ UNCHANGED <<hist, sent, pc, loaded>>
        \/ ~loaded /\ BufferFull /\ SessionEnds
        \/ /\ loaded
           /\ Applies(d)
           /\ ApplyDelta(d)
           /\ published' = Published(d)
           /\ wire' = Tail(wire)
           /\ UNCHANGED <<hist, sent, pc, loaded, buffered, latest>>
        \/ /\ loaded
           /\ Outdated(d)
           /\ wire' = Tail(wire)
           /\ UNCHANGED <<hist, sent, pc, loaded, bridgeVars, published>>
        \/ loaded /\ Fails(d) /\ SessionEnds

\* An end of file, an idle timeout, a damaged frame or a failed snapshot.
Disconnect ==
  /\ pc \in {"first", "stream"}
  /\ SessionEnds

Next ==
  \/ VenueUpdates \/ VenueSends
  \/ Connect \/ FirstDelta \/ SnapshotArrives \/ Replay \/ ReplayDone
  \/ ReceiveDelta \/ Disconnect

Spec == Init /\ [][Next]_vars

-----------------------------------------------------------------------------
(***************************************************************************)
(* Properties.                                                             *)
(***************************************************************************)
\* The book handed to the strategies under sequence u is the venue's book at
\* update u, level by level, whatever was lost, repeated or cached on the way
\* (BinanceDepthBridge::apply and install_snapshot).
PublishedIsVenueBook ==
  published # NoBook => published.levels = hist[published.seq]

\* A strategy never sees an older book after a newer one, across reconnects
\* too, although the snapshot of a new session may be older than the book
\* already published (install_snapshot returns no book before a diff spans the
\* snapshot).
PublishedNeverGoesBack ==
  [][published' # published => published'.seq > published.seq]_vars

\* The bridge keeps the venue's book at last_update_id from the moment a
\* snapshot is installed, and diffs wait in its buffer only before that moment
\* or during the replay (push, install_snapshot).
BridgeIsVenueBook ==
  /\ last # 0 => book = hist[last]
  /\ last = 0 => ~bridged
  /\ pc # "replay" /\ last # 0 => buffered = <<>>
=============================================================================
