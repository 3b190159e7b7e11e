---------------------------- MODULE Market_proofs ----------------------------
(***************************************************************************)
(* Theorems about market data and what is drawn from it: the rebuilt order *)
(* book, for every set of prices, buffer limit and number of updates; the  *)
(* matching kernels, for every pair of linked orders and every sequence of *)
(* markets; and the signals, for every configuration and set of rules.     *)
(***************************************************************************)
EXTENDS MCMarket, FiniteSums, SequenceTheorems

\* A diff spans updates the venue has made and sent.
WellFormed(d) == d.pu < d.U /\ d.U <= d.u /\ d.u <= sent

DeltasWellFormed ==
  /\ \A i \in 1..Len(wire) : WellFormed(wire[i])
  /\ \A i \in 1..Len(buffered) : WellFormed(buffered[i])

\* Whatever the bridge may hand out is a book the venue had.
BooksAreVenueBooks ==
  /\ last <= Len(hist)
  /\ last # 0 => book = hist[last]
  /\ latest # NoBook => latest.seq <= Len(hist) /\ latest.levels = hist[latest.seq]
  /\ published.seq <= Len(hist)
  /\ PublishedIsVenueBook

\* Until a diff spans the snapshot, every diff the session can still see is
\* newer than what is published; afterwards the bridge itself is.
SessionIsNewer ==
  /\ published.seq <= sent
  /\ bridged => published.seq <= last
  /\ latest # NoBook => bridged /\ published.seq < latest.seq /\ latest.seq <= last
  /\ latest # NoBook => pc = "replay"
  /\ last <= sent \/ ~bridged
  /\ ~bridged => /\ \A i \in 1..Len(wire) : published.seq < wire[i].u
                 /\ \A i \in 1..Len(buffered) : published.seq < buffered[i].u

\* Control: the snapshot is installed exactly when last_update_id is set.
Control ==
  /\ loaded <=> last # 0
  /\ bridged => loaded
  /\ pc \in {"down", "first"} => ~loaded /\ buffered = <<>>
  /\ pc = "down" => wire = <<>>
  /\ pc = "replay" => loaded
  /\ pc = "stream" /\ loaded => buffered = <<>>

DInv ==
  /\ TypeOK
  /\ Control
  /\ DeltasWellFormed
  /\ BooksAreVenueBooks
  /\ SessionIsNewer

-----------------------------------------------------------------------------
\* The levels of a diff turn the venue's book at any update it spans into the
\* venue's book at its last update.
LEMMA SpanUpdates ==
  ASSUME hist \in Seq(Books), NEW d \in Deltas, NEW s \in 1..Len(hist),
         d.pu <= s, s <= d.u, d.u <= Len(hist)
  PROVE  Updated(hist[s], d) = hist[d.u]
<1>1. /\ hist[s] \in Books /\ hist[d.u] \in Books
      /\ d.u \in Nat /\ d.pu \in Nat /\ s \in Nat
  BY DepthAssumption DEF Deltas
<1>2. s \in (IF d.pu = 0 THEN 1 ELSE d.pu)..d.u
  BY <1>1
<1>3. (hist[s].bids \ Touched(d, "bids")) \cup (hist[d.u].bids \cap Touched(d, "bids"))
        = hist[d.u].bids
  <2>1. hist[s].bids \subseteq Prices /\ hist[d.u].bids \subseteq Prices
    BY <1>1 DEF Books
  <2>2. \A p \in Prices : p \notin Touched(d, "bids") =>
           (p \in hist[s].bids <=> p \in hist[d.u].bids)
    BY <1>2 DEF Touched
  <2> QED  BY <2>1, <2>2
<1>4. (hist[s].asks \ Touched(d, "asks")) \cup (hist[d.u].asks \cap Touched(d, "asks"))
        = hist[d.u].asks
  <2>1. hist[s].asks \subseteq Prices /\ hist[d.u].asks \subseteq Prices
    BY <1>1 DEF Books
  <2>2. \A p \in Prices : p \notin Touched(d, "asks") =>
           (p \in hist[s].asks <=> p \in hist[d.u].asks)
    BY <1>2 DEF Touched
  <2> QED  BY <2>1, <2>2
<1> QED
  BY <1>1, <1>3, <1>4 DEF Updated, Books

\* A diff that apply accepts moves the bridge forward along the venue's books.
LEMMA AppliedIsVenueBook ==
  ASSUME DInv, NEW d \in Deltas, WellFormed(d), loaded, Applies(d)
  PROVE  /\ Updated(book, d) = hist[d.u]
         /\ d.u \in 1..Len(hist)
         /\ d.u <= sent
         /\ last <= d.u
         /\ bridged => last < d.u
<1>1. /\ last \in 1..Len(hist) /\ book = hist[last]
      /\ hist \in Seq(Books) /\ sent \in 0..Len(hist) /\ Len(hist) \in Nat
  BY DepthAssumption DEF DInv, TypeOK, Control, BooksAreVenueBooks
<1>2. d.u \in Nat /\ d.U \in Nat /\ d.pu \in Nat /\ d.u >= 1
  BY DEF Deltas
<1>3. d.pu <= last /\ last <= d.u /\ (bridged => last < d.u)
  BY <1>1, <1>2 DEF Applies, Outdated, InSequence, WellFormed
<1>4. d.u <= sent /\ d.u <= Len(hist)
  BY <1>1, <1>2 DEF WellFormed
<1> QED
  BY <1>1, <1>2, <1>3, <1>4, SpanUpdates

-----------------------------------------------------------------------------
\* Types of what every action moves around.
LEMMA Shapes ==
  /\ EmptyBook \in Books
  /\ NoBook \in L2Books
  /\ NoBook.seq = 0
  /\ <<>> \in Seq(Deltas) /\ Len(<<>>) = 0
  /\ \A x \in L2Books : x.seq \in 0..MaxId /\ (x # NoBook => x.seq \in 1..MaxId)
  /\ \A d \in Deltas : d.U \in 1..MaxId /\ d.u \in 1..MaxId /\ d.pu \in 0..MaxId
  BY DepthAssumption DEF EmptyBook, Books, NoBook, L2Books, Deltas

LEMMA DInvInit == Init => DInv
<1> SUFFICES ASSUME Init PROVE DInv
  OBVIOUS
<1>1. PICK b \in Books : hist = <<b>>
  BY DEF Init
<1>2. hist \in Seq(Books) /\ Len(hist) = 1
  BY <1>1
<1>4. TypeOK
  <2>1. hist \in Seq(Books) /\ Len(hist) \in 1..MaxId /\ sent \in 0..Len(hist)
    BY <1>2, DepthAssumption DEF Init
  <2>2. loaded \in BOOLEAN /\ bridged \in BOOLEAN
    BY DEF Init
  <2>3. /\ wire \in Seq(Deltas) /\ buffered \in Seq(Deltas) /\ Len(buffered) <= MAX_BUFFER
        /\ last \in 0..MaxId
    BY Shapes, DepthAssumption DEF Init
  <2> QED  BY <2>1, <2>2, <2>3, Shapes DEF Init, TypeOK
<1>5. Control /\ DeltasWellFormed
  BY DEF Init, Control, DeltasWellFormed
<1>6. BooksAreVenueBooks /\ SessionIsNewer
  BY <1>2 DEF Init, BooksAreVenueBooks, SessionIsNewer, PublishedIsVenueBook, NoBook
<1> QED
  BY <1>4, <1>5, <1>6 DEF DInv

\* The end of a session leaves nothing of it behind but what it published.
LEMMA SessionEndsInv == DInv /\ SessionEnds => DInv'
<1> SUFFICES ASSUME DInv, SessionEnds PROVE DInv'
  OBVIOUS
<1> USE DEF DInv, SessionEnds, NewBridge
<1>2. TypeOK'
  <2>1. loaded' \in BOOLEAN /\ bridged' \in BOOLEAN
    OBVIOUS
  <2>2. /\ wire' \in Seq(Deltas) /\ buffered' \in Seq(Deltas) /\ Len(buffered') <= MAX_BUFFER
        /\ last' \in 0..MaxId
    BY Shapes, DepthAssumption
  <2> QED  BY <2>1, <2>2, Shapes DEF TypeOK
<1>3. Control' /\ DeltasWellFormed'
  BY DEF Control, DeltasWellFormed
<1>4. Len(hist) \in Nat
  BY DepthAssumption DEF TypeOK
<1>5. BooksAreVenueBooks' /\ SessionIsNewer'
  BY <1>4 DEF BooksAreVenueBooks, SessionIsNewer, PublishedIsVenueBook, NoBook
<1> QED
  BY <1>2, <1>3, <1>5

LEMMA VenueUpdatesInv == DInv /\ VenueUpdates => DInv'
<1> SUFFICES ASSUME DInv, VenueUpdates PROVE DInv'
  OBVIOUS
<1> USE DEF DInv
<1>0. /\ hist \in Seq(Books) /\ Len(hist) \in 1..MaxId /\ Len(hist) < MaxId
      /\ UNCHANGED <<sent, wire, pc, loaded, book, last, bridged, buffered, latest,
                     published>>
  BY DEF TypeOK, VenueUpdates, bridgeVars
<1>1. PICK c : c \in Books /\ hist' = Append(hist, c)
  <2>1. PICK p \in Prices, side \in {"bids", "asks"} :
          hist' = Append(hist, [hist[Len(hist)] EXCEPT ![side] =
                                  IF p \in @ THEN @ \ {p} ELSE @ \cup {p}])
    BY DEF VenueUpdates
  <2>2. hist[Len(hist)] \in Books
    BY <1>0
  <2>3. [hist[Len(hist)] EXCEPT ![side] =
           IF p \in @ THEN @ \ {p} ELSE @ \cup {p}] \in Books
    <3>1. CASE side = "bids"
      BY <3>1, <2>2 DEF Books
    <3>2. CASE side = "asks"
      BY <3>2, <2>2 DEF Books
    <3> QED  BY <3>1, <3>2
  <2> QED  BY <2>1, <2>3
<1>2. /\ hist' \in Seq(Books) /\ Len(hist') = Len(hist) + 1
      /\ \A i \in 1..Len(hist) : hist'[i] = hist[i]
  BY <1>0, <1>1
<1>3. TypeOK'
  BY <1>0, <1>2, DepthAssumption DEF TypeOK, L2Books, NoBook
<1>4. Control' /\ DeltasWellFormed' /\ SessionIsNewer'
  BY <1>0 DEF Control, DeltasWellFormed, SessionIsNewer, WellFormed
<1>5. BooksAreVenueBooks'
  <2>1. Len(hist) \in Nat /\ last \in 0..MaxId /\ latest \in L2Books /\ published \in L2Books
    BY <1>0, DepthAssumption DEF TypeOK
  <2>2. last # 0 => book = hist'[last]
    BY <1>2, <2>1 DEF BooksAreVenueBooks
  <2>3. latest # NoBook => latest.seq <= Len(hist) /\ latest.levels = hist'[latest.seq]
    BY <1>2, <2>1, Shapes DEF BooksAreVenueBooks
  <2>4. published # NoBook => published.levels = hist'[published.seq]
    BY <1>2, <2>1, Shapes DEF BooksAreVenueBooks, PublishedIsVenueBook
  <2>5. last <= Len(hist') /\ published.seq <= Len(hist')
        /\ (latest # NoBook => latest.seq <= Len(hist'))
    BY <1>2, <2>1, <2>3, Shapes DEF BooksAreVenueBooks
  <2> QED  BY <1>0, <2>2, <2>3, <2>4, <2>5 DEF BooksAreVenueBooks, PublishedIsVenueBook
<1> QED
  BY <1>3, <1>4, <1>5

LEMMA VenueSendsInv == DInv /\ VenueSends => DInv'
<1> SUFFICES ASSUME DInv, VenueSends PROVE DInv'
  OBVIOUS
<1> USE DEF DInv
<1>0. /\ wire \in Seq(Deltas) /\ buffered \in Seq(Deltas)
      /\ sent \in 0..Len(hist) /\ Len(hist) \in 1..MaxId /\ sent < Len(hist)
      /\ sent' = Len(hist) /\ MaxId \in Nat
      /\ UNCHANGED <<hist, pc, loaded, book, last, bridged, buffered, latest,
                     published>>
  BY DepthAssumption DEF TypeOK, VenueSends, bridgeVars
<1>1. PICK d \in Deltas : /\ d.pu = sent /\ sent < d.U /\ d.U <= d.u /\ d.u = Len(hist)
                          /\ \/ wire' = wire
                             \/ pc # "down" /\ wire' = Append(wire, d)
                             \/ pc # "down" /\ wire' = Append(Append(wire, d), d)
  <2>1. PICK U \in sent + 1 .. Len(hist) :
          wire' \in IF pc = "down" THEN {wire}
                    ELSE {wire, Append(wire, [U |-> U, u |-> Len(hist), pu |-> sent]),
                          Append(Append(wire, [U |-> U, u |-> Len(hist), pu |-> sent]),
                                 [U |-> U, u |-> Len(hist), pu |-> sent])}
    BY DEF VenueSends
  <2> DEFINE d == [U |-> U, u |-> Len(hist), pu |-> sent]
  <2>2. /\ d \in Deltas /\ d.pu = sent /\ sent < d.U /\ d.U <= d.u /\ d.u = Len(hist)
    BY <1>0 DEF Deltas
  <2>3. \/ wire' = wire
        \/ pc # "down" /\ wire' = Append(wire, d)
        \/ pc # "down" /\ wire' = Append(Append(wire, d), d)
    BY <2>1
  <2> HIDE DEF d
  <2> QED  BY <2>2, <2>3
<1>2. /\ wire' \in Seq(Deltas)
      /\ \A i \in 1..Len(wire') : wire'[i] = d \/ (i \in 1..Len(wire) /\ wire'[i] = wire[i])
      /\ pc = "down" => wire' = wire
  <2>1. CASE wire' = wire
    BY <2>1, <1>0
  <2>2. CASE pc # "down" /\ wire' = Append(wire, d)
    BY <2>2, <1>0
  <2>3. CASE pc # "down" /\ wire' = Append(Append(wire, d), d)
    <3>1. Append(wire, d) \in Seq(Deltas) /\ Len(Append(wire, d)) = Len(wire) + 1
      BY <1>0
    <3> QED  BY <2>3, <3>1, <1>0
  <2> QED  BY <1>1, <2>1, <2>2, <2>3
<1>3. TypeOK'
  BY <1>0, <1>2 DEF TypeOK
<1>4. Control' /\ BooksAreVenueBooks'
  BY <1>0, <1>2 DEF Control, BooksAreVenueBooks, PublishedIsVenueBook
<1>5. DeltasWellFormed'
  <2>2. WellFormed(d)'
    BY <1>0, <1>1 DEF WellFormed
  <2>3. \A i \in 1..Len(wire') : WellFormed(wire[i])'
    <3> SUFFICES ASSUME NEW i \in 1..Len(wire') PROVE WellFormed(wire[i])'
      OBVIOUS
    <3>1. CASE wire'[i] = d
      BY <3>1, <2>2 DEF WellFormed
    <3>2. CASE i \in 1..Len(wire) /\ wire'[i] = wire[i]
      <4>1. wire[i] \in Deltas /\ WellFormed(wire[i])
        BY <3>2, <1>0 DEF DeltasWellFormed
      <4> QED  BY <3>2, <4>1, <1>0, Shapes DEF WellFormed
    <3> QED  BY <1>2, <3>1, <3>2
  <2>4. \A i \in 1..Len(buffered') : WellFormed(buffered[i])'
    <3> SUFFICES ASSUME NEW i \in 1..Len(buffered) PROVE WellFormed(buffered[i])'
      BY <1>0
    <3>1. buffered[i] \in Deltas /\ WellFormed(buffered[i])
      BY <1>0 DEF DeltasWellFormed
    <3> QED  BY <3>1, <1>0, Shapes DEF WellFormed
  <2> QED  BY <2>3, <2>4 DEF DeltasWellFormed
<1>6. SessionIsNewer'
  <2>1. published.seq \in Nat /\ published.seq <= sent
    BY DepthAssumption DEF TypeOK, L2Books, NoBook, SessionIsNewer
  <2>2. last <= sent' \/ ~bridged
    BY <1>0, DepthAssumption DEF SessionIsNewer, TypeOK
  <2>3. ~bridged => \A i \in 1..Len(wire') : published.seq < wire'[i].u
    BY <1>0, <1>1, <1>2, <2>1 DEF SessionIsNewer
  <2> QED  BY <1>0, <2>1, <2>2, <2>3 DEF SessionIsNewer
<1> QED
  BY <1>3, <1>4, <1>5, <1>6

-----------------------------------------------------------------------------
\* What Head and Tail are to a queue of diffs.
LEMMA Popped ==
  ASSUME NEW s \in Seq(Deltas), s # <<>>
  PROVE  /\ Head(s) \in Deltas /\ Tail(s) \in Seq(Deltas)
         /\ Len(s) \in Nat \ {0} /\ Len(Tail(s)) = Len(s) - 1
         /\ Head(s) = s[1]
         /\ \A i \in 1..Len(Tail(s)) : Tail(s)[i] = s[i + 1] /\ i + 1 \in 1..Len(s)
  OBVIOUS

LEMMA ConnectInv == DInv /\ Connect => DInv'
<1> SUFFICES ASSUME DInv, Connect PROVE DInv'
  OBVIOUS
<1> USE DEF DInv, Connect, bridgeVars
<1>1. TypeOK' /\ Control'
  BY DEF TypeOK, Control
<1>2. DeltasWellFormed' /\ BooksAreVenueBooks'
  BY DEF DeltasWellFormed, WellFormed, BooksAreVenueBooks, PublishedIsVenueBook
<1>3. SessionIsNewer'
  BY DEF SessionIsNewer
<1> QED
  BY <1>1, <1>2, <1>3

\* A diff moves from the socket to the buffer, while no snapshot is installed.
LEMMA BufferInv ==
  ASSUME DInv, ~loaded, wire # <<>>, Buffer(Head(wire)), wire' = Tail(wire),
         pc' = "stream", UNCHANGED <<hist, sent, loaded>>
  PROVE  DInv'
<1> USE DEF DInv, Buffer
<1>0. /\ wire \in Seq(Deltas) /\ buffered \in Seq(Deltas)
      /\ MAX_BUFFER \in Nat /\ Len(buffered) < MAX_BUFFER /\ last = 0 /\ ~bridged
  BY DepthAssumption DEF TypeOK, Control
<1>1. /\ Head(wire) \in Deltas /\ wire' \in Seq(Deltas)
      /\ Head(wire) = wire[1] /\ 1 \in 1..Len(wire)
      /\ \A i \in 1..Len(wire') : wire'[i] = wire[i + 1] /\ i + 1 \in 1..Len(wire)
  BY <1>0, Popped
<1>2. /\ buffered' \in Seq(Deltas) /\ Len(buffered') = Len(buffered) + 1
      /\ \A i \in 1..Len(buffered') :
           \/ i \in 1..Len(buffered) /\ buffered'[i] = buffered[i]
           \/ buffered'[i] = wire[1]
  BY <1>0, <1>1
<1>3. TypeOK'
  BY <1>0, <1>1, <1>2 DEF TypeOK
<1>4. Control'
  BY <1>0 DEF Control
<1>5. DeltasWellFormed'
  BY <1>1, <1>2 DEF DeltasWellFormed, WellFormed
<1>6. BooksAreVenueBooks'
  BY DEF BooksAreVenueBooks, PublishedIsVenueBook
<1>7. SessionIsNewer'
  <2>1. latest = NoBook
    BY <1>0 DEF SessionIsNewer
  <2>2. /\ \A i \in 1..Len(wire') : published.seq < wire'[i].u
        /\ \A i \in 1..Len(buffered') : published.seq < buffered'[i].u
    BY <1>0, <1>1, <1>2 DEF SessionIsNewer
  <2> QED  BY <1>0, <2>1, <2>2 DEF SessionIsNewer
<1> QED
  BY <1>3, <1>4, <1>5, <1>6, <1>7

LEMMA FirstDeltaInv == DInv /\ FirstDelta => DInv'
<1> SUFFICES ASSUME DInv, FirstDelta PROVE DInv'
  OBVIOUS
<1>1. ~loaded
  BY DEF DInv, Control, FirstDelta
<1> QED
  BY <1>1, BufferInv DEF FirstDelta

LEMMA SnapshotArrivesInv == DInv /\ SnapshotArrives => DInv'
<1> SUFFICES ASSUME DInv, SnapshotArrives, ~SessionEnds PROVE DInv'
  BY SessionEndsInv
<1> USE DEF DInv
<1>1. PICK i \in 1..Len(hist) :
        /\ book' = hist[i] /\ last' = i /\ bridged' = FALSE /\ loaded' = TRUE
        /\ pc' = "replay" /\ UNCHANGED <<hist, sent, wire, buffered, latest, published>>
  BY DEF SnapshotArrives
<1>2. /\ hist \in Seq(Books) /\ Len(hist) \in 1..MaxId /\ MaxId \in Nat
      /\ ~bridged /\ last = 0 /\ pc = "stream"
  BY DepthAssumption DEF TypeOK, Control, SnapshotArrives
<1>3. book' \in Books /\ last' \in 1..MaxId /\ last' <= Len(hist)
  BY <1>1, <1>2
<1>4. TypeOK'
  <2>1. last' \in 0..MaxId
    BY <1>2, <1>3
  <2>2. loaded' \in BOOLEAN /\ bridged' \in BOOLEAN
    BY <1>1
  <2> QED  BY <1>1, <1>3, <2>1, <2>2 DEF TypeOK
<1>5. Control'
  BY <1>1, <1>2 DEF Control
<1>6. DeltasWellFormed'
  BY <1>1 DEF DeltasWellFormed, WellFormed
<1>7. BooksAreVenueBooks'
  BY <1>1, <1>3 DEF BooksAreVenueBooks, PublishedIsVenueBook
<1>8. SessionIsNewer'
  BY <1>1, <1>2 DEF SessionIsNewer
<1> QED
  BY <1>4, <1>5, <1>6, <1>7, <1>8

LEMMA ReplayInv == DInv /\ Replay => DInv'
<1> SUFFICES ASSUME DInv, Replay, ~SessionEnds PROVE DInv'
  BY SessionEndsInv
<1> USE DEF DInv
<1> DEFINE d == Head(buffered)
<1>0. /\ buffered \in Seq(Deltas) /\ buffered # <<>> /\ pc = "replay" /\ loaded
      /\ buffered' = Tail(buffered)
      /\ UNCHANGED <<hist, sent, wire, pc, loaded, published>>
      /\ MaxId \in Nat /\ Len(hist) \in 1..MaxId /\ sent \in 0..Len(hist)
      /\ MAX_BUFFER \in Nat
  BY DepthAssumption DEF TypeOK, Replay, Control
<1>1. /\ d \in Deltas /\ buffered' \in Seq(Deltas)
      /\ Len(buffered) \in Nat /\ Len(buffered') = Len(buffered) - 1
      /\ d = buffered[1] /\ 1 \in 1..Len(buffered)
      /\ \A i \in 1..Len(buffered') : buffered'[i] = buffered[i + 1] /\ i + 1 \in 1..Len(buffered)
  BY <1>0, Popped
<1>2. WellFormed(d) /\ (~bridged => published.seq < d.u)
  BY <1>1 DEF DeltasWellFormed, SessionIsNewer
<1>3. DeltasWellFormed'
  BY <1>0, <1>1 DEF DeltasWellFormed, WellFormed
<1>4. published \in L2Books /\ published.seq \in Nat /\ last \in Nat /\ d.u \in 1..MaxId
  BY <1>1, Shapes, DepthAssumption DEF TypeOK
<1> HIDE DEF d
<1>5. CASE Outdated(d) /\ UNCHANGED <<book, last, bridged, latest>>
  <2>1. TypeOK' /\ Control'
    BY <1>0, <1>1, <1>5 DEF TypeOK, Control
  <2>2. BooksAreVenueBooks'
    BY <1>0, <1>5 DEF BooksAreVenueBooks, PublishedIsVenueBook
  <2>3. SessionIsNewer'
    BY <1>0, <1>1, <1>5 DEF SessionIsNewer
  <2> QED  BY <1>3, <2>1, <2>2, <2>3
<1>6. CASE Applies(d) /\ ApplyDelta(d) /\ latest' = Published(d)
  <2>1. /\ Updated(book, d) = hist[d.u] /\ d.u \in 1..Len(hist) /\ d.u <= sent
        /\ last <= d.u /\ (bridged => last < d.u)
    BY <1>0, <1>1, <1>2, <1>6, AppliedIsVenueBook
  <2>2. /\ book' = hist[d.u] /\ last' = d.u /\ bridged' = TRUE
        /\ latest' = [seq |-> d.u, levels |-> hist[d.u]]
    BY <1>6, <2>1 DEF ApplyDelta, Published
  <2>3. hist[d.u] \in Books
    BY <2>1 DEF TypeOK
  <2>4. latest' \in L2Books /\ latest'.seq = d.u /\ latest'.levels = hist[d.u]
    BY <1>4, <2>2, <2>3 DEF L2Books
  <2>5. published.seq < d.u
    BY <1>2, <1>4, <2>1 DEF SessionIsNewer
  <2>6. TypeOK'
    BY <1>0, <1>1, <1>4, <2>2, <2>3, <2>4 DEF TypeOK
  <2>7. Control'
    BY <1>0, <1>4, <2>2 DEF Control
  <2>8. BooksAreVenueBooks'
    BY <1>0, <2>1, <2>2, <2>4 DEF BooksAreVenueBooks, PublishedIsVenueBook
  <2>9. SessionIsNewer'
    BY <1>0, <1>4, <2>1, <2>2, <2>4, <2>5 DEF SessionIsNewer
  <2> QED  BY <1>3, <2>6, <2>7, <2>8, <2>9
<1> QED
  BY <1>5, <1>6 DEF Replay, d

LEMMA ReplayDoneInv == DInv /\ ReplayDone => DInv'
<1> SUFFICES ASSUME DInv, ReplayDone PROVE DInv'
  OBVIOUS
<1> USE DEF DInv, ReplayDone
<1>1. TypeOK'
  BY Shapes DEF TypeOK
<1>2. Control' /\ DeltasWellFormed'
  BY DEF Control, DeltasWellFormed, WellFormed
<1>3. /\ Len(hist) \in Nat /\ sent \in Nat /\ last \in Nat
      /\ latest.seq \in Nat /\ published.seq \in Nat
  BY Shapes, DepthAssumption DEF TypeOK
<1>4. BooksAreVenueBooks'
  BY <1>3 DEF BooksAreVenueBooks, PublishedIsVenueBook
<1>5. SessionIsNewer'
  BY <1>3 DEF SessionIsNewer
<1> QED
  BY <1>1, <1>2, <1>4, <1>5

LEMMA ReceiveDeltaInv == DInv /\ ReceiveDelta => DInv'
<1> SUFFICES ASSUME DInv, ReceiveDelta, ~SessionEnds PROVE DInv'
  BY SessionEndsInv
<1> USE DEF DInv
<1> DEFINE d == Head(wire)
<1>0. /\ wire \in Seq(Deltas) /\ wire # <<>> /\ pc = "stream"
      /\ wire' = Tail(wire) /\ UNCHANGED <<hist, sent, pc, loaded>>
      /\ MaxId \in Nat /\ Len(hist) \in 1..MaxId /\ sent \in 0..Len(hist)
  BY DepthAssumption DEF TypeOK, ReceiveDelta, Buffer
<1>1. /\ d \in Deltas /\ wire' \in Seq(Deltas)
      /\ d = wire[1] /\ 1 \in 1..Len(wire)
      /\ \A i \in 1..Len(wire') : wire'[i] = wire[i + 1] /\ i + 1 \in 1..Len(wire)
  BY <1>0, Popped
<1>2. WellFormed(d) /\ (~bridged => published.seq < d.u)
  BY <1>1 DEF DeltasWellFormed, SessionIsNewer
<1>3. published \in L2Books /\ published.seq \in Nat /\ last \in Nat /\ d.u \in 1..MaxId
  BY <1>1, Shapes, DepthAssumption DEF TypeOK
<1>4. CASE ~loaded /\ Buffer(d)
  BY <1>0, <1>4, BufferInv
<1> HIDE DEF d
<1>5. CASE loaded /\ Outdated(d) /\ UNCHANGED <<bridgeVars, published>>
  <2>1. TypeOK' /\ Control'
    BY <1>0, <1>1, <1>5 DEF TypeOK, Control, bridgeVars
  <2>2. DeltasWellFormed' /\ BooksAreVenueBooks'
    BY <1>0, <1>1, <1>5
       DEF DeltasWellFormed, WellFormed, BooksAreVenueBooks, PublishedIsVenueBook, bridgeVars
  <2>3. SessionIsNewer'
    BY <1>0, <1>1, <1>5 DEF SessionIsNewer, bridgeVars
  <2> QED  BY <2>1, <2>2, <2>3
<1>6. CASE /\ loaded /\ Applies(d) /\ ApplyDelta(d) /\ published' = Published(d)
           /\ UNCHANGED <<buffered, latest>>
  <2>1. /\ Updated(book, d) = hist[d.u] /\ d.u \in 1..Len(hist) /\ d.u <= sent
        /\ last <= d.u /\ (bridged => last < d.u)
    BY <1>0, <1>1, <1>2, <1>6, AppliedIsVenueBook
  <2>2. /\ book' = hist[d.u] /\ last' = d.u /\ bridged' = TRUE
        /\ published' = [seq |-> d.u, levels |-> hist[d.u]]
    BY <1>6, <2>1 DEF ApplyDelta, Published
  <2>3. hist[d.u] \in Books
    BY <2>1 DEF TypeOK
  <2>4. published' \in L2Books /\ published'.seq = d.u /\ published'.levels = hist[d.u]
    BY <1>3, <2>2, <2>3 DEF L2Books
  <2>5. latest = NoBook /\ buffered = <<>>
    BY <1>0, <1>6 DEF SessionIsNewer, Control
  <2>6. TypeOK'
    BY <1>0, <1>1, <1>3, <1>6, <2>2, <2>3, <2>4 DEF TypeOK
  <2>7. Control' /\ DeltasWellFormed'
    BY <1>0, <1>1, <1>3, <1>6, <2>2, <2>5 DEF Control, DeltasWellFormed, WellFormed
  <2>8. BooksAreVenueBooks'
    BY <1>0, <1>6, <2>1, <2>2, <2>4, <2>5 DEF BooksAreVenueBooks, PublishedIsVenueBook
  <2>9. SessionIsNewer'
    BY <1>0, <1>3, <1>6, <2>1, <2>2, <2>4, <2>5 DEF SessionIsNewer
  <2> QED  BY <2>6, <2>7, <2>8, <2>9
<1> QED
  BY <1>4, <1>5, <1>6 DEF ReceiveDelta, d

-----------------------------------------------------------------------------
LEMMA DInvStep == DInv /\ [Next]_vars => DInv'
<1> SUFFICES ASSUME DInv, [Next]_vars PROVE DInv'
  OBVIOUS
<1>1. CASE Next
  BY <1>1, VenueUpdatesInv, VenueSendsInv, ConnectInv, FirstDeltaInv,
     SnapshotArrivesInv, ReplayInv, ReplayDoneInv, ReceiveDeltaInv, SessionEndsInv
     DEF Next, Disconnect
<1>2. CASE UNCHANGED vars
  BY <1>2 DEF vars, DInv, TypeOK, Control, DeltasWellFormed, WellFormed,
              BooksAreVenueBooks, PublishedIsVenueBook, SessionIsNewer
<1> QED
  BY <1>1, <1>2

LEMMA DInvHolds == Spec => []DInv
  BY DInvInit, DInvStep, PTL DEF Spec

\* The bridge and its session keep their types; the buffer keeps its limit.
THEOREM DepthTypeCorrect == Spec => []TypeOK
<1>1. DInv => TypeOK
  BY DEF DInv
<1> QED
  BY <1>1, DInvHolds, PTL

\* Every book that is published is the venue's book at its sequence, for any
\* loss or repetition of diffs and however old the snapshot was.
THEOREM PublishedBookIsTrue == Spec => []PublishedIsVenueBook
<1>1. DInv => PublishedIsVenueBook
  BY DEF DInv, BooksAreVenueBooks
<1> QED
  BY <1>1, DInvHolds, PTL

\* From the snapshot on, the bridge itself holds the venue's book at
\* last_update_id.
THEOREM BridgeBookIsTrue == Spec => []BridgeIsVenueBook
<1>1. DInv => BridgeIsVenueBook
  <2> SUFFICES ASSUME DInv PROVE BridgeIsVenueBook
    OBVIOUS
  <2>1. pc \in {"down", "first", "stream", "replay"}
    BY DEF DInv, TypeOK
  <2> QED
    BY <2>1 DEF DInv, BooksAreVenueBooks, Control, BridgeIsVenueBook
<1> QED
  BY <1>1, DInvHolds, PTL

\* Published sequences only grow, across reconnects too.
THEOREM BooksNeverGoBack == Spec => PublishedNeverGoesBack
<1>1. DInv /\ [Next]_vars => [published' # published => published'.seq > published.seq]_vars
  <2> SUFFICES ASSUME DInv, Next, published' # published
               PROVE  published'.seq > published.seq
    OBVIOUS
  <2>1. published.seq \in Nat /\ last \in Nat
    BY Shapes, DepthAssumption DEF DInv, TypeOK
  <2>2. CASE ReplayDone
    <3>1. latest # NoBook /\ published' = latest
      BY <2>2 DEF ReplayDone
    <3>2. latest.seq \in Nat
      BY Shapes, DepthAssumption DEF DInv, TypeOK
    <3> QED  BY <2>1, <3>1, <3>2 DEF DInv, SessionIsNewer
  <2>3. CASE ReceiveDelta
    <3> DEFINE d == Head(wire)
    <3>1. loaded /\ Applies(d) /\ published' = Published(d)
      BY <2>3 DEF ReceiveDelta, SessionEnds, Buffer
    <3>2. wire \in Seq(Deltas) /\ wire # <<>>
      BY <2>3 DEF ReceiveDelta, DInv, TypeOK
    <3>3. d \in Deltas /\ d = wire[1] /\ 1 \in 1..Len(wire)
      BY <3>2, Popped
    <3>4. WellFormed(d) /\ (~bridged => published.seq < d.u)
      BY <3>3 DEF DInv, DeltasWellFormed, SessionIsNewer
    <3>5. d.u \in Nat /\ (bridged => last < d.u)
      BY <3>1, <3>3, <3>4, AppliedIsVenueBook, Shapes, DepthAssumption
    <3>6. published'.seq = d.u
      BY <3>1 DEF Published
    <3> HIDE DEF d
    <3> QED  BY <2>1, <3>4, <3>5, <3>6 DEF DInv, SessionIsNewer
  <2> QED
    BY <2>2, <2>3 DEF Next, VenueUpdates, VenueSends, Connect, FirstDelta, Buffer,
                      SnapshotArrives, Replay, Disconnect, SessionEnds
<1> QED
  BY <1>1, DInvHolds, PTL DEF Spec, PublishedNeverGoesBack

-----------------------------------------------------------------------------
(* The simulator: what is true of every state *)

States == {"Filled", "Canceled", "Rejected", "Dormant", "Resting", "PartiallyFilled"}
EngineSet == [qty : Nat, filled : Nat, st : States]
CoordSet == [qty : Nat, active : BOOLEAN]

SimTypes ==
  /\ plan \in [OrderIds -> Plans] /\ link \in Links /\ position \in Int
  /\ engine \in [OrderIds -> EngineSet] /\ coord \in [OrderIds -> CoordSet]

Live(st) == st \notin Closed

\* The quantity an order keeps, and the one the coordinator gives it, is what its peer has
\* left of the shared quantity (OUO) or all of it.
SizeInv ==
  /\ \A o \in OrderIds : engine[o].filled <= engine[o].qty /\ engine[o].qty <= SimQuantity
  /\ \A o \in OrderIds : coord[o].qty <= SimQuantity
  /\ link # "Ouo" => \A o \in OrderIds : engine[o].qty = SimQuantity
  /\ link = "Ouo" => \A o \in OrderIds :
       /\ coord[o].qty = SimQuantity - engine[PeerOf(o)].filled
       /\ Live(engine[o].st) => engine[o].qty = SimQuantity - engine[PeerOf(o)].filled
  /\ link = "Ouo" => engine["a"].filled + engine["b"].filled <= SimQuantity

\* The child of an OTO is dormant until its parent is complete.
ParentInv ==
  link = "Oto" =>
    /\ engine["a"].st # "Dormant" /\ coord["a"].active
    /\ engine["b"].st = "Dormant" => ~coord["b"].active
    /\ Live(engine["b"].st) /\ engine["b"].st # "Dormant" =>
         coord["b"].active /\ engine["a"].filled = SimQuantity
    /\ engine["b"].filled > 0 => engine["a"].filled = SimQuantity

SimInv == SimTypes /\ SizeInv /\ ParentInv

-----------------------------------------------------------------------------
(* Minima and maxima *)

LEMMA LargerOf ==
  ASSUME NEW a \in Int, NEW b \in Int PROVE Max({a, b}) = IF a >= b THEN a ELSE b
<1>1. \E x \in {a, b} : \A y \in {a, b} : x >= y
  <2>1. CASE a >= b
    BY <2>1
  <2>2. CASE b >= a
    BY <2>2
  <2> QED
    BY <2>1, <2>2
<1>2. Max({a, b}) \in {a, b} /\ \A y \in {a, b} : Max({a, b}) >= y
  BY <1>1 DEF Max
<1> QED
  BY <1>2

LEMMA SmallerOf ==
  ASSUME NEW a \in Nat, NEW b \in Nat PROVE Min({a, b}) = IF a <= b THEN a ELSE b
<1>1. Min({a, b}) \in {a, b} /\ \A y \in {a, b} : Min({a, b}) <= y
  BY SmallestOf
<1> QED
  BY <1>1

LEMMA LeastOfThree ==
  ASSUME NEW a \in Nat, NEW b \in Nat, NEW c \in Nat
  PROVE  Min({a, b, c}) \in {a, b, c} /\ \A y \in {a, b, c} : Min({a, b, c}) <= y
  BY SmallestOf

LEMMA LeastOfFour ==
  ASSUME NEW a \in Nat, NEW b \in Nat, NEW c \in Nat, NEW d \in Nat
  PROVE  Min({a, b, c, d}) \in {a, b, c, d} /\ \A y \in {a, b, c, d} : Min({a, b, c, d}) <= y
  BY SmallestOf

-----------------------------------------------------------------------------
(* One match *)

LEMMA PeerIs == PeerOf("a") = "b" /\ PeerOf("b") = "a" /\ OrderIds = {"a", "b"}
  BY DEF PeerOf, OrderIds

LEMMA RemainingIs ==
  ASSUME SimInv, NEW o \in OrderIds
  PROVE  Remaining(o) = engine[o].qty - engine[o].filled /\ Remaining(o) \in Nat
<1>1. engine[o].qty \in Nat /\ engine[o].filled \in Nat /\ engine[o].filled <= engine[o].qty
  BY DEF SimInv, SimTypes, SizeInv, EngineSet
<1>2. engine[o].qty - engine[o].filled \in Nat
  BY <1>1
<1> QED
  BY <1>2, LargerOf DEF Remaining

LEMMA PartsAreNat ==
  ASSUME position \in Int, NEW p \in Plans, NEW q \in Nat
  PROVE  Reducible(p, q) \in Nat /\ Slice(p, q) \in Nat
<1>1. SimQuantity \in Nat
  BY SimAssumption
<1>2. p.display \in Nat /\ p.reduce \in BOOLEAN
  BY <1>1 DEF Plans
<1>3. Max({position, -position}) \in Nat
  BY LargerOf
<1>4. Min({p.display, q}) \in Nat
  BY <1>2, SmallerOf
<1> QED
  BY <1>3, <1>4 DEF Reducible, Slice

\* The amount a match looks at, whatever kernel computes it.
LEMMA ExecutableIs ==
  ASSUME SimInv, NEW o \in OrderIds, NEW m \in Markets
  PROVE  /\ Executable(o, m) \in Nat /\ Executable(o, m) <= Remaining(o)
         /\ Executable(o, m) = OrderExecutable(plan[o], Remaining(o), m)
<1>1. PICK q \in Nat : q = Remaining(o)
  BY RemainingIs
<1>2. PICK p \in Plans : p = plan[o]
  BY DEF SimInv, SimTypes
<1>3. position \in Int
  BY DEF SimInv, SimTypes
<1>4. PICK r \in Nat, s \in Nat : r = Reducible(p, q) /\ s = Slice(p, q)
  BY <1>3, PartsAreNat
<1>5. PICK d \in Nat : d = m.depth
  BY SimAssumption DEF Markets
<1>6. Executable(o, m) = Min({q, d, s, r})
  BY <1>1, <1>2, <1>4, <1>5 DEF Executable
<1>7. PICK z \in Nat : z = Min({r, q}) /\ z = IF r <= q THEN r ELSE q
  BY SmallerOf
<1>8. OrderExecutable(plan[o], Remaining(o), m) = Min({d, z, s})
  BY <1>1, <1>2, <1>4, <1>5, <1>7 DEF OrderExecutable
<1>9. PICK x : x = Min({q, d, s, r})
  OBVIOUS
<1>10. PICK y : y = Min({d, z, s})
  OBVIOUS
<1>11. x \in {q, d, s, r} /\ x <= q /\ x <= d /\ x <= s /\ x <= r
  BY <1>9, LeastOfFour
<1>12. y \in {d, z, s} /\ y <= d /\ y <= z /\ y <= s
  BY <1>10, LeastOfThree
<1>13. x \in Nat /\ y \in Nat /\ x = y
  <2>1. x \in Nat /\ y \in Nat
    BY <1>11, <1>12
  <2>2. x <= z /\ y <= q /\ y <= r
    BY <1>7, <1>11, <1>12, <2>1
  <2>3. x <= y
    BY <1>11, <1>12, <2>1, <2>2
  <2>4. y <= x
    BY <1>11, <1>12, <2>1, <2>2
  <2> QED
    BY <2>1, <2>3, <2>4
<1> QED
  BY <1>1, <1>6, <1>8, <1>9, <1>10, <1>11, <1>13

\* When a match may fill, and by how much.
Fills(p, m) ==
  /\ ~Expired(p, m) /\ PhaseAllows(p, m) /\ ~(p.postOnly /\ Crosses(p, m)) /\ Crosses(p, m)
FillOf(p, q, x) == IF p.tif = "Fok" /\ x < q THEN 0 ELSE x

LEMMA MatchOnceIs ==
  ASSUME SimInv, NEW o \in OrderIds, NEW m \in Markets
  PROVE  /\ MatchOnce(o, m).fill =
              IF /\ engine[o].st \notin Closed \cup {"Dormant"} /\ Fills(plan[o], m)
                 /\ ~(plan[o].reduce /\ Reducible(plan[o], Remaining(o)) = 0)
              THEN FillOf(plan[o], Remaining(o), Executable(o, m)) ELSE 0
         /\ MatchOnce(o, m).st \in States
         /\ MatchOnce(o, m).fill > 0 => (MatchOnce(o, m).st = "Filled" <=> MatchOnce(o, m).fill = Remaining(o))
         /\ MatchOnce(o, m).fill > 0 => MatchOnce(o, m).st # "Dormant"
         /\ MatchOnce(o, m).fill = 0 => MatchOnce(o, m).st = engine[o].st \/ MatchOnce(o, m).st \in Closed
         /\ engine[o].st \in Closed => MatchOnce(o, m).st \in Closed
<1>1. PICK x \in Nat : x = Executable(o, m)
  BY ExecutableIs
<1>2. PICK q \in Nat : q = Remaining(o)
  BY RemainingIs
<1>3. PICK p \in Plans : p = plan[o]
  BY DEF SimInv, SimTypes
<1>4. engine[o].st \in States
  BY DEF SimInv, SimTypes, EngineSet
<1>5. /\ Filled(o, m).fill = FillOf(p, q, x) /\ Filled(o, m).st \in States
      /\ Filled(o, m).fill > 0 => (Filled(o, m).st = "Filled" <=> Filled(o, m).fill = q)
      /\ Filled(o, m).fill > 0 => Filled(o, m).st # "Dormant"
      /\ Filled(o, m).fill = 0 => Filled(o, m).st = engine[o].st \/ Filled(o, m).st \in Closed
  <2>1. CASE p.tif = "Fok" /\ x < q
    <3>1. Filled(o, m) = Ends("Canceled")
      BY <1>1, <1>2, <1>3, <2>1 DEF Filled
    <3> QED
      BY <2>1, <3>1 DEF Ends, FillOf, States, Closed
  <2>2. CASE ~(p.tif = "Fok" /\ x < q) /\ x = 0
    <3>1. Filled(o, m) = Ends("Canceled") \/ Filled(o, m) = Unchanged(o)
      BY <1>1, <1>2, <1>3, <2>2 DEF Filled
    <3> QED
      BY <1>4, <2>2, <3>1 DEF Ends, Unchanged, FillOf, States, Closed
  <2>3. CASE ~(p.tif = "Fok" /\ x < q) /\ x # 0
    <3>1. PICK st \in {"Filled", "Canceled", "PartiallyFilled"} :
             Filled(o, m) = [fill |-> x, st |-> st] /\ (st = "Filled" <=> x = q)
      BY <1>1, <1>2, <1>3, <2>3 DEF Filled
    <3> QED
      BY <2>3, <3>1 DEF FillOf, States
  <2> QED
    BY <2>1, <2>2, <2>3
<1>6. CASE engine[o].st \in Closed \cup {"Dormant"}
  <2>1. MatchOnce(o, m) = Unchanged(o)
    BY <1>6 DEF MatchOnce
  <2> QED
    BY <1>4, <1>6, <2>1 DEF Unchanged
<1>7. CASE /\ engine[o].st \notin Closed \cup {"Dormant"}
           /\ ~(Fills(plan[o], m) /\ ~(plan[o].reduce /\ Reducible(plan[o], Remaining(o)) = 0))
  <2>1. MatchOnce(o, m) \in {Ends("Canceled"), Ends("Rejected"), Unchanged(o)}
    BY <1>7 DEF MatchOnce, Fills
  <2> QED
    BY <1>4, <1>7, <2>1 DEF Unchanged, Ends, States, Closed
<1>8. CASE /\ engine[o].st \notin Closed \cup {"Dormant"} /\ Fills(plan[o], m)
           /\ ~(plan[o].reduce /\ Reducible(plan[o], Remaining(o)) = 0)
  <2>1. MatchOnce(o, m) = Filled(o, m)
    BY <1>8 DEF MatchOnce, Fills
  <2> QED
    BY <1>1, <1>2, <1>3, <1>5, <1>8, <2>1
<1> QED
  BY <1>6, <1>7, <1>8

LEMMA MatchOrderIs ==
  ASSUME SimInv, NEW o \in OrderIds, NEW m \in Markets, m.phase \notin {"PreOpen", "Closed"},
         ValidIntent(plan[o], Remaining(o))
  PROVE  MatchOrder(plan[o], Remaining(o), m).fill =
           IF Fills(plan[o], m) /\ ~(plan[o].reduce /\ Reducible(plan[o], Remaining(o)) = 0)
           THEN FillOf(plan[o], Remaining(o), Executable(o, m)) ELSE 0
<1>1. PICK x \in Nat : x = Executable(o, m) /\ x = OrderExecutable(plan[o], Remaining(o), m)
  BY ExecutableIs
<1>2. PICK q \in Nat : q = Remaining(o)
  BY RemainingIs
<1>3. PICK p \in Plans : p = plan[o]
  BY DEF SimInv, SimTypes
<1>4. PhaseAllows(p, m) <=>
        ~(p.tif = "AtTheOpen" /\ m.phase # "Opening") /\ ~(p.tif = "AtTheClose" /\ m.phase # "Closing")
  BY DEF PhaseAllows
<1>5. \A d, f : Outcome(d, f).fill = f
  BY DEF Outcome
<1>6. ValidIntent(p, q) /\ x = OrderExecutable(p, q, m)
  BY <1>1, <1>2, <1>3
<1>7. CASE ~(Fills(p, m) /\ ~(p.reduce /\ Reducible(p, q) = 0))
  <2>1. \E d : MatchOrder(p, q, m) = Outcome(d, 0)
    BY <1>4, <1>6, <1>7 DEF MatchOrder, Fills
  <2> QED
    BY <1>2, <1>3, <1>5, <1>7, <2>1
<1>8. CASE Fills(p, m) /\ ~(p.reduce /\ Reducible(p, q) = 0)
  <2>1. \E d : MatchOrder(p, q, m) = Outcome(d, FillOf(p, q, x))
    BY <1>4, <1>6, <1>8 DEF MatchOrder, Fills, FillOf
  <2> QED
    BY <1>1, <1>2, <1>3, <1>5, <1>8, <2>1
<1> QED
  BY <1>2, <1>3, <1>7, <1>8

LEMMA KernelsDoAgree == SimInv => KernelsAgree
<1> SUFFICES ASSUME SimInv, NEW o \in OrderIds, engine[o].st \in {"Resting", "PartiallyFilled"},
                    ValidIntent(plan[o], Remaining(o)), NEW m \in Markets, m.phase \notin {"PreOpen", "Closed"}
             PROVE  MatchOnce(o, m).fill = MatchOrder(plan[o], Remaining(o), m).fill
  BY DEF KernelsAgree
<1>1. engine[o].st \notin Closed \cup {"Dormant"}
  BY DEF Closed
<1> QED
  BY <1>1, MatchOnceIs, MatchOrderIs

-----------------------------------------------------------------------------
(* The engine *)

LEMMA SimInvInit == SimInit => SimInv
<1> SUFFICES ASSUME SimInit PROVE SimInv
  OBVIOUS
<1>1. SimQuantity \in Nat /\ SimPositions \subseteq Int
  BY SimAssumption
<1>2. \A o \in OrderIds : engine[o].st \in States
  BY DEF SimInit, States
<1>3. SimTypes
  <2>1. engine \in [OrderIds -> EngineSet]
    BY <1>1 DEF SimInit, EngineSet, States
  <2>2. coord \in [OrderIds -> CoordSet]
    BY <1>1 DEF SimInit, CoordSet
  <2> QED
    BY <1>1, <2>1, <2>2 DEF SimInit, SimTypes
<1>4. \A o \in OrderIds : engine[o].qty = SimQuantity /\ engine[o].filled = 0 /\ coord[o].qty = SimQuantity
  BY DEF SimInit
<1>5. SizeInv
  <2>1. engine["a"].filled = 0 /\ engine["b"].filled = 0
    BY <1>4, PeerIs
  <2>2. \A o \in OrderIds : engine[PeerOf(o)].filled = 0
    BY <2>1, PeerIs
  <2> QED
    BY <1>1, <1>4, <2>1, <2>2 DEF SizeInv
<1>6. ParentInv
  <2> SUFFICES ASSUME link = "Oto"
               PROVE  /\ engine["a"].st = "Resting" /\ coord["a"].active /\ engine["b"].st = "Dormant"
                      /\ ~coord["b"].active /\ engine["b"].filled = 0
    BY DEF ParentInv
  <2> QED
    BY PeerIs DEF SimInit
<1> QED
  BY <1>3, <1>5, <1>6 DEF SimInv

LEMMA CancelInv == ASSUME SimInv, NEW o \in OrderIds, CancelSim(o) PROVE SimInv'
<1>1. UNCHANGED <<plan, link, position, coord>> /\ engine[o].st \notin Closed
  BY DEF CancelSim
<1>2. /\ engine' \in [OrderIds -> EngineSet]
      /\ \A x \in OrderIds : engine'[x].qty = engine[x].qty /\ engine'[x].filled = engine[x].filled
      /\ \A x \in OrderIds : x # o => engine'[x].st = engine[x].st
      /\ engine'[o].st = "Canceled"
  <2>1. engine \in [OrderIds -> EngineSet] /\ engine' = [engine EXCEPT ![o].st = "Canceled"]
    BY DEF CancelSim, SimInv, SimTypes
  <2> QED
    BY <2>1 DEF EngineSet, States
<1>3. \A x \in OrderIds : Live(engine'[x].st) => engine'[x].st = engine[x].st
  BY <1>2 DEF Live, Closed
<1>4. SimTypes'
  BY <1>1, <1>2 DEF SimInv, SimTypes
<1>5. \A x \in OrderIds : PeerOf(x) \in OrderIds
  BY DEF PeerOf, OrderIds
<1>6. SizeInv'
  <2>1. "a" \in OrderIds /\ "b" \in OrderIds
    BY PeerIs
  <2> QED
    BY <1>1, <1>2, <1>3, <1>5, <2>1 DEF SimInv, SizeInv, Live, Closed
<1>7. ParentInv'
  <2>1. "a" \in OrderIds /\ "b" \in OrderIds
    BY PeerIs
  <2>2. engine'["a"].filled = engine["a"].filled /\ engine'["b"].filled = engine["b"].filled
    BY <1>2, <2>1
  <2>3. engine'["a"].st = engine["a"].st \/ engine'["a"].st = "Canceled"
    BY <1>2, <2>1
  <2>4. engine'["b"].st = engine["b"].st \/ engine'["b"].st = "Canceled"
    BY <1>2, <2>1
  <2> QED
    BY <1>1, <2>2, <2>3, <2>4 DEF SimInv, ParentInv, Live, Closed
<1> QED
  BY <1>4, <1>6, <1>7 DEF SimInv

\* What a match does to the matched order and to its peer.
LEMMA MatchIs ==
  ASSUME SimInv, NEW o \in OrderIds, NEW m \in Markets, Match(o, m), NEW k, k = PeerOf(o)
  PROVE  \E x \in Nat :
           /\ k \in OrderIds /\ k # o /\ PeerOf(k) = o /\ OrderIds = {o, k}
           /\ UNCHANGED <<plan, link>> /\ position' \in Int
           /\ engine' \in [OrderIds -> EngineSet]
           /\ engine'[o].qty = engine[o].qty /\ engine'[o].filled = engine[o].filled + x
           /\ engine'[k].filled = engine[k].filled
           /\ x <= engine[o].qty - engine[o].filled
           /\ x > 0 => Live(engine[o].st) /\ engine[o].st # "Dormant" /\ engine'[o].st # "Dormant"
           /\ x > 0 => (engine'[o].st = "Filled" <=> x = engine[o].qty - engine[o].filled)
           /\ x = 0 => engine'[o].st = engine[o].st \/ engine'[o].st \in Closed
           /\ engine[o].st \in Closed => engine'[o].st \in Closed
           /\ engine'[k] = PeerAfter(engine[k], x > 0 /\ engine'[o].st = "Filled", x)
           /\ coord' = IF x = 0 THEN coord ELSE CoordAfter(o, engine'[o].filled)
<1>1. PICK x : x = MatchOnce(o, m).fill
  OBVIOUS
<1>2. PICK st : st = MatchOnce(o, m).st
  OBVIOUS
<1>3. PICK q \in Nat : q = Remaining(o) /\ q = engine[o].qty - engine[o].filled
  BY RemainingIs
<1>4. /\ st \in States /\ (x > 0 => (st = "Filled" <=> x = q)) /\ (x > 0 => st # "Dormant")
      /\ (x = 0 => st = engine[o].st \/ st \in Closed) /\ (engine[o].st \in Closed => st \in Closed)
      /\ x = (IF /\ engine[o].st \notin Closed \cup {"Dormant"} /\ Fills(plan[o], m)
                 /\ ~(plan[o].reduce /\ Reducible(plan[o], Remaining(o)) = 0)
              THEN FillOf(plan[o], q, Executable(o, m)) ELSE 0)
  BY <1>1, <1>2, <1>3, MatchOnceIs
<1>5. FillOf(plan[o], q, Executable(o, m)) \in Nat /\ FillOf(plan[o], q, Executable(o, m)) <= q
  <2>1. PICK y \in Nat : y = Executable(o, m) /\ y <= q
    BY <1>3, ExecutableIs
  <2>2. FillOf(plan[o], q, y) = 0 \/ FillOf(plan[o], q, y) = y
    BY DEF FillOf
  <2> QED
    BY <2>1, <2>2
<1>6. x \in Nat /\ x <= q /\ (x > 0 => engine[o].st \notin Closed \cup {"Dormant"})
  BY <1>3, <1>4, <1>5
<1>7. k \in OrderIds /\ k # o /\ PeerOf(k) = o /\ OrderIds = {o, k}
  BY DEF PeerOf, OrderIds
<1>8. engine \in [OrderIds -> EngineSet] /\ engine[o] \in EngineSet /\ engine[k] \in EngineSet
  BY <1>7 DEF SimInv, SimTypes
<1>9. PICK r \in EngineSet : /\ r = [engine[o] EXCEPT !.st = st, !.filled = @ + x] /\ r.qty = engine[o].qty
                              /\ r.filled = engine[o].filled + x /\ r.st = st
  <2>1. PICK e \in EngineSet : e = engine[o]
    BY <1>8
  <2>2. e.qty \in Nat /\ e.filled \in Nat /\ e.filled + x \in Nat
    BY <1>6 DEF EngineSet
  <2>3. PICK r : r = [e EXCEPT !.st = st, !.filled = @ + x]
    OBVIOUS
  <2>4. r \in EngineSet /\ r.qty = e.qty /\ r.filled = e.filled + x /\ r.st = st
    BY <1>4, <2>2, <2>3 DEF EngineSet
  <2> QED
    BY <2>1, <2>3, <2>4
<1>10. PICK s : s = PeerAfter(engine[k], x > 0 /\ st = "Filled", x)
  OBVIOUS
<1>11. s \in EngineSet /\ s.filled = engine[k].filled
  <2>1. PICK e \in EngineSet : e = engine[k]
    BY <1>8
  <2>2. e.qty \in Nat /\ e.filled \in Nat /\ e.st \in States
    BY <2>1 DEF EngineSet
  <2>3. PICK n : n = Max({e.qty - x, e.filled})
    OBVIOUS
  <2>4. n \in Nat
    BY <1>6, <2>2, <2>3, LargerOf
  <2>5. /\ [e EXCEPT !.st = "Canceled"] \in EngineSet /\ [e EXCEPT !.st = "Resting"] \in EngineSet
        /\ [e EXCEPT !.qty = n, !.st = IF n = e.filled THEN "Canceled" ELSE @] \in EngineSet
    BY <2>2, <2>4 DEF EngineSet, States
  <2>6. /\ [e EXCEPT !.st = "Canceled"].filled = e.filled /\ [e EXCEPT !.st = "Resting"].filled = e.filled
        /\ [e EXCEPT !.qty = n, !.st = IF n = e.filled THEN "Canceled" ELSE @].filled = e.filled
    BY <2>2 DEF EngineSet
  <2>7. PeerUpdated(e, x) = [e EXCEPT !.qty = n, !.st = IF n = e.filled THEN "Canceled" ELSE @]
    BY <2>3 DEF PeerUpdated
  <2>8. s \in {e, [e EXCEPT !.st = "Canceled"], [e EXCEPT !.st = "Resting"], PeerUpdated(e, x)}
    BY <1>10, <2>1 DEF PeerAfter
  <2> QED
    BY <2>1, <2>5, <2>6, <2>7, <2>8
<1>12. engine' = [engine EXCEPT ![o] = r, ![k] = s]
  <2>1. engine' = [engine EXCEPT ![o] = r, ![k] = PeerAfter(@, x > 0 /\ st = "Filled", x)]
    BY <1>1, <1>2, <1>9 DEF Match
  <2> QED
    BY <1>7, <1>8, <1>10, <2>1
<1>13. engine' \in [OrderIds -> EngineSet] /\ engine'[o] = r /\ engine'[k] = s
  BY <1>7, <1>8, <1>9, <1>11, <1>12
<1>14. position' \in Int
  <2>1. position' = position + plan[o].side * x /\ position \in Int
    BY <1>1 DEF Match, SimInv, SimTypes
  <2>2. plan[o].side \in {1, -1}
    BY DEF SimInv, SimTypes, Plans
  <2> QED
    BY <1>6, <2>1, <2>2
<1>15. UNCHANGED <<plan, link>> /\ coord' = IF x = 0 THEN coord ELSE CoordAfter(o, r.filled)
  BY <1>1, <1>2, <1>9 DEF Match
<1> QED
  BY <1>3, <1>4, <1>6, <1>7, <1>9, <1>10, <1>11, <1>13, <1>14, <1>15 DEF Live

\* The coordinator after a fill: types, and what it says of both orders.
LEMMA CoordIs ==
  ASSUME coord \in [OrderIds -> CoordSet], link \in Links, NEW o \in OrderIds, NEW c \in Nat, c <= SimQuantity,
         NEW k, k = PeerOf(o), NEW d, d = CoordAfter(o, c)
  PROVE  /\ d \in [OrderIds -> CoordSet] /\ d[o] = coord[o]
         /\ d[k].qty = IF link = "Ouo" THEN SimQuantity - c ELSE coord[k].qty
         /\ link = "Oto" => (d[k].active <=> coord[k].active \/ (o = "a" /\ c = SimQuantity))
<1>1. SimQuantity \in Nat
  BY SimAssumption
<1>2. k \in OrderIds /\ k # o
  BY DEF PeerOf, OrderIds
<1>3. SimQuantity - c \in Nat /\ (c >= SimQuantity <=> c = SimQuantity)
  BY <1>1
<1>4. Max({SimQuantity - c, 0}) = SimQuantity - c
  BY <1>3, LargerOf
<1>5. PICK e \in CoordSet : e = coord[k] /\ e.qty \in Nat /\ e.active \in BOOLEAN
  BY <1>2 DEF CoordSet
<1>6. CASE link = "Oco"
  <2>1. d = [coord EXCEPT ![k].active = FALSE]
    BY <1>6 DEF CoordAfter
  <2> QED
    BY <1>2, <1>5, <1>6, <2>1 DEF CoordSet
<1>7. CASE link = "Ouo"
  <2>1. d = [coord EXCEPT ![k].qty = SimQuantity - c]
    BY <1>4, <1>7 DEF CoordAfter
  <2> QED
    BY <1>2, <1>3, <1>5, <1>7, <2>1 DEF CoordSet
<1>8. CASE link = "Oto" /\ o = "a" /\ c = SimQuantity
  <2>1. d = [coord EXCEPT ![k].active = TRUE]
    BY <1>3, <1>8 DEF CoordAfter
  <2> QED
    BY <1>2, <1>5, <1>8, <2>1 DEF CoordSet
<1>9. CASE link = "Oto" /\ ~(o = "a" /\ c = SimQuantity)
  <2>1. d = coord
    BY <1>3, <1>9 DEF CoordAfter
  <2> QED
    BY <1>5, <1>9, <2>1, <1>2 DEF CoordSet
<1> QED
  BY <1>6, <1>7, <1>8, <1>9 DEF Links

LEMMA MatchInv == ASSUME SimInv, NEW o \in OrderIds, NEW m \in Markets, Match(o, m) PROVE SimInv'
<1>0. SimTypes /\ SizeInv /\ ParentInv
  BY DEF SimInv
<1>1. PICK k : k = PeerOf(o)
  OBVIOUS
<1>2. PICK x \in Nat :
           /\ k \in OrderIds /\ k # o /\ PeerOf(k) = o /\ OrderIds = {o, k}
           /\ UNCHANGED <<plan, link>> /\ position' \in Int
           /\ engine' \in [OrderIds -> EngineSet]
           /\ engine'[o].qty = engine[o].qty /\ engine'[o].filled = engine[o].filled + x
           /\ engine'[k].filled = engine[k].filled
           /\ x <= engine[o].qty - engine[o].filled
           /\ x > 0 => Live(engine[o].st) /\ engine[o].st # "Dormant" /\ engine'[o].st # "Dormant"
           /\ x > 0 => (engine'[o].st = "Filled" <=> x = engine[o].qty - engine[o].filled)
           /\ x = 0 => engine'[o].st = engine[o].st \/ engine'[o].st \in Closed
           /\ engine[o].st \in Closed => engine'[o].st \in Closed
           /\ engine'[k] = PeerAfter(engine[k], x > 0 /\ engine'[o].st = "Filled", x)
           /\ coord' = IF x = 0 THEN coord ELSE CoordAfter(o, engine'[o].filled)
  BY <1>1, MatchIs
<1>3. PICK S \in Nat : S = SimQuantity
  BY SimAssumption
<1>4. PICK e \in EngineSet : e = engine[k]
  BY <1>0, <1>2 DEF SimTypes
<1>5. PICK f \in EngineSet : f = engine[o]
  BY <1>0 DEF SimTypes
<1>6. /\ e.qty \in Nat /\ e.filled \in Nat /\ f.qty \in Nat /\ f.filled \in Nat
      /\ e.filled <= e.qty /\ e.qty <= S /\ f.filled <= f.qty /\ f.qty <= S
  BY <1>0, <1>2, <1>3, <1>4, <1>5 DEF EngineSet, SizeInv
<1>7. PICK c \in Nat : c = engine'[o].filled /\ c = f.filled + x /\ c <= f.qty /\ c <= S
  <2>1. f.filled + x \in Nat /\ f.filled + x <= f.qty /\ f.filled + x <= S
    BY <1>2, <1>5, <1>6
  <2> QED
    BY <1>2, <1>5, <2>1
<1>8. /\ coord' \in [OrderIds -> CoordSet] /\ coord'[o] = coord[o]
      /\ coord'[k].qty = IF link = "Ouo" /\ x # 0 THEN S - c ELSE coord[k].qty
      /\ link = "Oto" => (coord'[k].active <=> coord[k].active \/ (x # 0 /\ o = "a" /\ c = S))
  <2>1. coord \in [OrderIds -> CoordSet] /\ link \in Links
    BY <1>0 DEF SimTypes
  <2>2. CASE x = 0
    <3>1. coord' = coord /\ coord[k].active \in BOOLEAN
      BY <1>2, <2>1, <2>2 DEF CoordSet
    <3> QED
      BY <2>1, <2>2, <3>1
  <2>3. CASE x # 0
    <3>1. coord' = CoordAfter(o, c)
      BY <1>2, <1>7, <2>3
    <3>2. /\ coord' \in [OrderIds -> CoordSet] /\ coord'[o] = coord[o]
          /\ coord'[k].qty = (IF link = "Ouo" THEN S - c ELSE coord[k].qty)
          /\ link = "Oto" => (coord'[k].active <=> coord[k].active \/ (o = "a" /\ c = S))
      BY <1>1, <1>3, <1>7, <2>1, <3>1, CoordIs
    <3> QED
      BY <2>3, <3>2
  <2> QED
    BY <2>2, <2>3
<1>9. SimTypes'
  BY <1>0, <1>2, <1>8 DEF SimTypes
<1>10. PICK g \in EngineSet : g = engine'[k] /\ g = PeerAfter(e, x > 0 /\ engine'[o].st = "Filled", x)
  BY <1>2, <1>4
<1>11. SizeInv'
  <2>1. CASE link # "Ouo"
    <3>1. e.qty = S /\ f.qty = S
      BY <1>0, <1>2, <1>3, <1>4, <1>5, <2>1 DEF SizeInv
    <3>2. g.qty = e.qty
      BY <1>10, <2>1 DEF PeerAfter, EngineSet
    <3>3. coord'[o].qty <= S /\ coord'[k].qty <= S
      BY <1>0, <1>2, <1>3, <1>8, <2>1 DEF SizeInv
    <3>4. engine'[o].qty = S /\ engine'[k].qty = S /\ engine'[o].filled <= S /\ engine'[k].filled <= S
      BY <1>2, <1>4, <1>5, <1>6, <1>7, <1>10, <3>1, <3>2
    <3>5. S <= S
      BY <1>3
    <3> QED
      BY <1>2, <1>3, <2>1, <3>3, <3>4, <3>5 DEF SizeInv
  <2>2. CASE link = "Ouo"
    <3>1. /\ coord[k].qty = S - f.filled /\ coord[o].qty = S - e.filled
          /\ Live(e.st) => e.qty = S - f.filled
          /\ Live(f.st) => f.qty = S - e.filled
      BY <1>0, <1>1, <1>2, <1>3, <1>4, <1>5, <2>2 DEF SizeInv
    <3>2. e.filled + f.filled <= S
      <4>1. (o = "a" /\ k = "b") \/ (o = "b" /\ k = "a")
        BY <1>1 DEF PeerOf, OrderIds
      <4>2. engine["a"].filled + engine["b"].filled <= S
        BY <1>0, <1>3, <2>2 DEF SizeInv
      <4>3. f.filled + e.filled = e.filled + f.filled
        BY <1>6
      <4> QED
        BY <1>4, <1>5, <4>1, <4>2, <4>3
    <3>3. e.filled + c <= S
      <4>1. CASE x = 0
        BY <1>6, <1>7, <3>2, <4>1
      <4>2. CASE x # 0
        <5>1. f.qty = S - e.filled
          BY <1>2, <1>5, <3>1, <4>2
        <5> QED
          BY <1>6, <1>7, <5>1
      <4> QED
        BY <4>1, <4>2
    <3>4. coord'[k].qty = S - c /\ coord'[o].qty = S - e.filled
      BY <1>6, <1>7, <1>8, <2>2, <3>1
    <3>5. g.filled = e.filled /\ g.filled <= g.qty /\ g.qty <= S /\ (Live(g.st) => g.qty = S - c)
      <4>1. CASE x > 0 /\ Live(e.st)
        <5>1. PICK n : n = Max({e.qty - x, e.filled})
          OBVIOUS
        <5>2. n = S - c /\ n \in Nat /\ e.filled <= n /\ n <= S
          <6>1. e.qty = S - f.filled
            BY <3>1, <4>1
          <6>2. e.qty - x = S - c /\ e.qty - x \in Int /\ e.qty - x >= e.filled
            BY <1>3, <1>6, <1>7, <3>3, <6>1
          <6>3. n = e.qty - x
            BY <1>6, <5>1, <6>2, LargerOf
          <6> QED
            BY <1>3, <1>6, <1>7, <6>2, <6>3
        <5>3. g = [e EXCEPT !.qty = n, !.st = IF n = e.filled THEN "Canceled" ELSE @]
          BY <1>10, <2>2, <4>1, <5>1 DEF PeerAfter, PeerUpdated, Live
        <5>4. g.qty = n /\ g.filled = e.filled
          BY <5>3 DEF EngineSet
        <5> QED
          BY <5>2, <5>4
      <4>2. CASE ~(x > 0 /\ Live(e.st))
        <5>1. g = e
          BY <1>10, <2>2, <4>2 DEF PeerAfter, Live
        <5>2. Live(e.st) => e.qty = S - c
          BY <1>6, <1>7, <3>1, <4>2
        <5> QED
          BY <1>6, <5>1, <5>2
      <4> QED
        BY <4>1, <4>2
    <3>6. Live(engine'[o].st) => engine'[o].qty = S - e.filled
      <4>1. Live(engine'[o].st) => Live(f.st)
        BY <1>2, <1>5 DEF Live
      <4> QED
        BY <1>2, <1>5, <3>1, <4>1
    <3>7. S - c <= S /\ S - e.filled <= S
      BY <1>3, <1>6, <1>7
    <3>8. engine'["a"].filled + engine'["b"].filled <= S
      <4>1. (o = "a" /\ k = "b") \/ (o = "b" /\ k = "a")
        BY <1>1 DEF PeerOf, OrderIds
      <4>2. engine'[o].filled = c /\ engine'[k].filled = e.filled
        BY <1>2, <1>4, <1>7
      <4>3. c + e.filled = e.filled + c
        BY <1>6, <1>7
      <4> QED
        BY <3>3, <4>1, <4>2, <4>3
    <3>9. /\ engine'[o].filled <= engine'[o].qty /\ engine'[o].qty <= S
          /\ engine'[k].filled <= engine'[k].qty /\ engine'[k].qty <= S
      BY <1>2, <1>5, <1>6, <1>7, <1>10, <3>5
    <3>10. engine'[o].filled = c /\ engine'[k].filled = e.filled /\ (Live(engine'[k].st) => engine'[k].qty = S - c)
      BY <1>2, <1>4, <1>7, <1>10, <3>5
    <3> QED
      BY <1>1, <1>2, <1>3, <2>2, <3>4, <3>6, <3>7, <3>8, <3>9, <3>10 DEF SizeInv
  <2> QED
    BY <2>1, <2>2
<1>12. ParentInv'
  <2> SUFFICES ASSUME link = "Oto" PROVE ParentInv'
    BY <1>2 DEF ParentInv
  <2>1. /\ engine["a"].st # "Dormant" /\ coord["a"].active
        /\ engine["b"].st = "Dormant" => ~coord["b"].active
        /\ Live(engine["b"].st) /\ engine["b"].st # "Dormant" =>
             coord["b"].active /\ engine["a"].filled = S
        /\ engine["b"].filled > 0 => engine["a"].filled = S
    BY <1>0, <1>3 DEF ParentInv
  <2>2. e.qty = S /\ f.qty = S
    BY <1>0, <1>2, <1>3, <1>4, <1>5 DEF SizeInv
  <2>3. ~Live("Filled") /\ "Resting" # "Dormant"
    BY DEF Live, Closed
  <2>4. CASE o = "a"
    <3>1. k = "b"
      BY <1>1, <2>4 DEF PeerOf
    <3>2. engine'["a"].st # "Dormant"
      BY <1>2, <2>1, <2>4 DEF Closed
    <3>3. coord'["a"].active
      BY <1>8, <2>1, <2>4
    <3>4. CASE e.st = "Dormant" /\ x > 0 /\ x = f.qty - f.filled
      <4>1. engine'[o].st = "Filled"
        BY <1>2, <1>5, <3>4
      <4>2. g.st = "Resting"
        BY <1>10, <3>4, <4>1 DEF PeerAfter, EngineSet
      <4>3. c = S
        BY <1>3, <1>6, <1>7, <2>2, <3>4
      <4>4. coord'[k].active /\ engine'["a"].filled = S
        <5>1. x # 0
          BY <3>4
        <5> QED
          BY <1>7, <1>8, <2>4, <4>3, <5>1
      <4> QED
        BY <1>2, <1>3, <1>10, <2>3, <3>1, <3>2, <3>3, <4>2, <4>4 DEF ParentInv
    <3>5. CASE ~(e.st = "Dormant" /\ x > 0 /\ x = f.qty - f.filled)
      <4>1. g = e
        BY <1>2, <1>5, <1>10, <3>5 DEF PeerAfter
      <4>2. e.st = "Dormant" => ~(x # 0 /\ c = S)
        <5>1. ASSUME x # 0, c = S PROVE x > 0 /\ x = f.qty - f.filled
          BY <1>3, <1>6, <1>7, <2>2, <5>1
        <5> QED
          BY <3>5, <5>1
      <4>3. engine["a"].filled = S => x = 0 /\ engine'["a"].filled = S
        <5>1. ASSUME f.filled = S PROVE x = 0 /\ c = S
          BY <1>3, <1>6, <1>7, <5>1
        <5> QED
          BY <1>5, <1>7, <2>4, <5>1
      <4>4. engine["b"] = e /\ engine'["b"] = e
        BY <1>4, <1>10, <3>1, <4>1
      <4>5. e.st = "Dormant" => ~coord'["b"].active
        BY <1>8, <2>1, <3>1, <4>2, <4>4
      <4>6. Live(e.st) /\ e.st # "Dormant" => coord'["b"].active /\ engine'["a"].filled = S
        BY <1>8, <2>1, <3>1, <4>3, <4>4
      <4>7. e.filled > 0 => engine'["a"].filled = S
        BY <2>1, <4>3, <4>4
      <4> QED
        BY <1>3, <3>2, <3>3, <4>4, <4>5, <4>6, <4>7 DEF ParentInv
    <3> QED
      BY <3>4, <3>5
  <2>5. CASE o = "b"
    <3>1. k = "a"
      BY <1>1, <2>5 DEF PeerOf
    <3>2. g = e
      BY <1>4, <1>10, <2>1, <3>1 DEF PeerAfter
    <3>3. engine'["a"] = engine["a"]
      BY <1>4, <1>10, <3>1, <3>2
    <3>4. coord'["b"] = coord["b"] /\ coord'["a"].active
      BY <1>8, <2>1, <2>5, <3>1
    <3>5. x > 0 => engine["a"].filled = S
      BY <1>2, <2>1, <2>5
    <3>6. engine'["b"].st = "Dormant" => engine["b"].st = "Dormant"
      BY <1>2, <2>5 DEF Closed
    <3>7. Live(engine'["b"].st) /\ engine'["b"].st # "Dormant" => Live(engine["b"].st) /\ engine["b"].st # "Dormant"
      <4>1. x > 0 \/ x = 0
        OBVIOUS
      <4> QED
        BY <1>2, <2>5, <4>1 DEF Live
    <3>8. engine'["b"].filled > 0 => engine["a"].filled = S
      <4>1. CASE x = 0
        <5>1. c = f.filled
          BY <1>6, <1>7, <4>1
        <5>2. engine'["b"].filled = engine["b"].filled
          BY <1>5, <1>7, <2>5, <5>1
        <5> QED
          BY <2>1, <5>2
      <4>2. CASE x # 0
        BY <3>5, <4>2
      <4> QED
        BY <4>1, <4>2
    <3> QED
      BY <1>3, <2>1, <3>3, <3>4, <3>6, <3>7, <3>8 DEF ParentInv
  <2> QED
    BY <2>4, <2>5, PeerIs
<1> QED
  BY <1>9, <1>11, <1>12 DEF SimInv

LEMMA SimInvIsSafe == SimInv => SimulatorSafety
<1> SUFFICES ASSUME SimInv PROVE SimulatorSafety
  OBVIOUS
<1>0. SimTypes /\ SizeInv /\ ParentInv
  BY DEF SimInv
<1>1. PICK S \in Nat : S = SimQuantity
  BY SimAssumption
<1>2. ASSUME NEW o \in OrderIds
      PROVE  /\ engine[o].qty \in 0 .. S /\ engine[o].filled \in 0 .. engine[o].qty /\ engine[o].st \in States
             /\ coord[o].qty \in 0 .. S /\ coord[o].active \in BOOLEAN
  <2>1. engine[o].qty \in Nat /\ engine[o].filled \in Nat /\ engine[o].st \in States
    BY <1>0 DEF SimTypes, EngineSet
  <2>2. coord[o].qty \in Nat /\ coord[o].active \in BOOLEAN
    BY <1>0 DEF SimTypes, CoordSet
  <2>3. engine[o].filled <= engine[o].qty /\ engine[o].qty <= S /\ coord[o].qty <= S
    BY <1>0, <1>1 DEF SizeInv
  <2> QED
    BY <2>1, <2>2, <2>3
<1>3. SimTypeOK
  BY <1>1, <1>2 DEF SimTypeOK, States, Closed
<1>4. OuoSharesOneQuantity
  BY <1>0 DEF SizeInv, OuoSharesOneQuantity
<1>5. CoordinatorAgrees
  <2> SUFFICES ASSUME NEW o \in OrderIds, engine[o].st \notin Closed
               PROVE  /\ link = "Ouo" => engine[o].qty = Max({coord[o].qty, engine[o].filled})
                      /\ link = "Oto" => (engine[o].st # "Dormant") = coord[o].active
    BY DEF CoordinatorAgrees
  <2>1. ASSUME link = "Ouo" PROVE engine[o].qty = Max({coord[o].qty, engine[o].filled})
    <3>1. engine[o].qty = coord[o].qty /\ engine[o].filled <= engine[o].qty
      BY <1>0, <2>1 DEF SizeInv, Live
    <3> QED
      BY <1>2, <3>1, LargerOf
  <2>2. ASSUME link = "Oto" PROVE (engine[o].st # "Dormant") = coord[o].active
    <3>1. coord[o].active \in BOOLEAN
      BY <1>2
    <3>2. o = "a" \/ o = "b"
      BY PeerIs
    <3> QED
      BY <1>0, <2>2, <3>1, <3>2 DEF ParentInv, Live
  <2> QED
    BY <2>1, <2>2
<1>6. ChildFollowsParent
  BY <1>0 DEF ParentInv, ChildFollowsParent
<1> QED
  BY <1>3, <1>4, <1>5, <1>6, KernelsDoAgree DEF SimulatorSafety

\* The two matching kernels fill alike, and linked orders stay linked, for every quantity,
\* position, pair of orders and sequence of markets (match_once, match_order, on_fill).
THEOREM SimulatorIsSafe == SimSpec => []SimulatorSafety
<1>1. SimInv /\ [SimNext]_simVars => SimInv'
  <2> SUFFICES ASSUME SimInv, [SimNext]_simVars PROVE SimInv'
    OBVIOUS
  <2>1. CASE UNCHANGED simVars
    BY <2>1 DEF simVars, SimInv, SimTypes, SizeInv, ParentInv
  <2>2. ASSUME NEW o \in OrderIds, CancelSim(o) PROVE SimInv'
    BY <2>2, CancelInv
  <2>3. ASSUME NEW o \in OrderIds, NEW m \in Markets, Match(o, m) PROVE SimInv'
    BY <2>3, MatchInv
  <2> QED
    BY <2>1, <2>2, <2>3 DEF SimNext
<1> QED
  BY <1>1, SimInvInit, SimInvIsSafe, PTL DEF SimSpec

-----------------------------------------------------------------------------
(* The signals *)

DeliveredIn(f, feed) ==
  CASE feed = "Trades"     -> f.trades # <<>>
    [] feed = "BestBidAsk" -> f.quote # NoValue
    [] feed = "L2Book"     -> f.book # NoValue
    [] feed = "Candle"     -> f.closes # <<>> \/ f.volumes # <<>>

\* A feature that has a value comes from a feed that delivered.
LEMMA AvailableIsDelivered ==
  ASSUME NEW f, NEW n \in Available(f) \ Warmup, NEW feed \in Providers(n)
  PROVE  DeliveredIn(f, feed)
<1>1. MinVolumes \in Int /\ MinVolumes >= 2
  BY WindowAssumption DEF ValidWindows
<1>2. CASE f.trades # <<>> /\ n \in {"vwap_deviation_bps", "trade_imbalance"}
  <2>1. feed = "Trades"
    BY <1>2 DEF Providers, Warmup, PositionFeatures
  <2> QED
    BY <1>2, <2>1 DEF DeliveredIn
<1>3. CASE SpreadBps(f) # NoValue /\ n = "spread_bps"
  <2>1. feed = "BestBidAsk"
    BY <1>3 DEF Providers, Warmup, PositionFeatures
  <2> QED
    BY <1>3, <2>1 DEF DeliveredIn, SpreadBps
<1>4. CASE BookImbalance(f) # NoValue /\ n = "book_imbalance"
  <2>1. feed = "L2Book"
    BY <1>4 DEF Providers, Warmup, PositionFeatures
  <2> QED
    BY <1>4, <2>1 DEF DeliveredIn, BookImbalance
<1>5. CASE MomentumBps(f) # NoValue /\ n = "momentum_bps"
  <2>1. feed = "Candle"
    BY <1>5 DEF Providers, Warmup, PositionFeatures
  <2> QED
    BY <1>5, <2>1 DEF DeliveredIn, MomentumBps
<1>6. CASE VarianceBps(f) # NoValue /\ n = "realized_volatility_bps"
  <2>1. feed = "Candle"
    BY <1>6 DEF Providers, Warmup, PositionFeatures
  <2>2. ~(Len(f.closes) - 1 < 1)
    BY <1>6 DEF VarianceBps
  <2>3. f.closes # <<>>
    BY <2>2
  <2> QED
    BY <2>1, <2>3 DEF DeliveredIn
<1>7. CASE VolumeRatio(f) # NoValue /\ n = "volume_ratio"
  <2>1. feed = "Candle"
    BY <1>7 DEF Providers, Warmup, PositionFeatures
  <2>2. ~(Len(f.volumes) < MinVolumes)
    BY <1>7 DEF VolumeRatio
  <2>3. f.volumes # <<>>
    BY <1>1, <2>2
  <2> QED
    BY <2>1, <2>3 DEF DeliveredIn
<1> QED
  BY <1>2, <1>3, <1>4, <1>5, <1>6, <1>7 DEF Available

\* What a rule may match on was delivered.
LEMMA MatchedIsDelivered ==
  ASSUME NEW f, NEW req, NEW held, NEW names,
         names \subseteq (Available(f) \cap req) \cup {"net_quantity"}
                           \cup (IF held THEN {"average_entry_price"} ELSE {}),
         NEW feed \in FeedsFor(names \ Warmup)
  PROVE  DeliveredIn(f, feed)
<1>1. PICK n \in names \ Warmup : feed \in Providers(n)
  BY DEF FeedsFor
<1>2. n \in Available(f) \/ n \in PositionFeatures
  BY DEF PositionFeatures
<1>3. CASE n \in PositionFeatures
  <2>1. Providers(n) = {}
    BY <1>1, <1>3 DEF Providers, PositionFeatures
  <2> QED
    BY <1>1, <2>1
<1> QED
  BY <1>1, <1>2, <1>3, AvailableIsDelivered

SignalInv ==
  /\ lastEmit \in Nat \cup {NoValue} /\ spacing \in Int \cup {NoValue} /\ mixed \in BOOLEAN
  /\ setup.engine \in {"score", "policy"}
  /\ NoBlindDecision /\ OwnCandles /\ EmissionsAreSpaced

LEMMA PolicyStep ==
  ASSUME SignalInv, NEW e \in Events, setup.engine = "policy", PolicyEvent(e) PROVE SignalInv'
<1>1. UNCHANGED <<setup, lastEmit, spacing>>
  BY DEF PolicyEvent
<1>2. mixed' = mixed
  BY DEF PolicyEvent, Wanted, SignalInv
<1>3. PICK held \in BOOLEAN : output' \subseteq MayDecide(Frame(factors', held))
  BY DEF PolicyEvent
<1>4. PICK f : f = factors'
  OBVIOUS
<1>5. PICK frame : frame = (Available(f) \cap Required(setup.rules)) \cup {"net_quantity"}
                            \cup (IF held THEN {"average_entry_price"} ELSE {})
  OBVIOUS
<1>6. output' \subseteq MayDecide(frame)
  BY <1>3, <1>4, <1>5 DEF Frame
<1>7. ASSUME "entry" \in output'
      PROVE  \A feed \in FeedsFor((setup.rules.filter \cup setup.rules.entry) \ Warmup) : DeliveredIn(f, feed)
  <2>1. setup.rules.filter \cup setup.rules.entry \subseteq frame
    BY <1>6, <1>7 DEF MayDecide, MayMatch
  <2> QED
    BY <1>5, <2>1, MatchedIsDelivered
<1>8. ASSUME "exit" \in output'
      PROVE  \A feed \in FeedsFor(setup.rules.exit \ Warmup) : DeliveredIn(f, feed)
  <2>1. setup.rules.exit \subseteq frame
    BY <1>6, <1>8 DEF MayDecide, MayMatch
  <2> QED
    BY <1>5, <2>1, MatchedIsDelivered
<1>9. \A feed : Delivered(feed)' = DeliveredIn(f, feed)
  BY <1>4 DEF Delivered, DeliveredIn
<1>10. NoBlindDecision'
  BY <1>1, <1>7, <1>8, <1>9 DEF NoBlindDecision
<1> QED
  BY <1>1, <1>2, <1>10 DEF SignalInv, OwnCandles, EmissionsAreSpaced

LEMMA ScoreStep ==
  ASSUME MinEmitInterval \in Nat \ {0}, MaxRecv \in Nat,
         SignalInv, NEW e \in Events, setup.engine = "score", ScoreEvent(e)
  PROVE  SignalInv'
<1>1. setup' = setup /\ mixed' \in BOOLEAN
  BY DEF ScoreEvent
<1>2. NoBlindDecision' /\ OwnCandles'
  BY <1>1 DEF NoBlindDecision, OwnCandles
<1>3. lastEmit' \in Nat \cup {NoValue} /\ spacing' \in Int \cup {NoValue} /\ EmissionsAreSpaced'
  <2>1. CASE UNCHANGED <<lastEmit, spacing>>
    BY <2>1 DEF SignalInv, EmissionsAreSpaced
  <2>2. CASE ~UNCHANGED <<lastEmit, spacing>>
    <3>1. PICK recv \in 0 .. MaxRecv :
             /\ ~Throttled(recv) /\ lastEmit' = recv
             /\ spacing' = IF lastEmit = NoValue THEN spacing
                           ELSE IF spacing = NoValue THEN recv - lastEmit
                           ELSE Least(spacing, recv - lastEmit)
      BY <2>2 DEF ScoreEvent
    <3>2. recv \in Nat
      OBVIOUS
    <3>3. CASE lastEmit = NoValue
      BY <3>1, <3>2, <3>3 DEF SignalInv, EmissionsAreSpaced
    <3>4. CASE lastEmit # NoValue
      <4>1. lastEmit \in Nat /\ ~(Since(recv) < MinEmitInterval)
        BY <3>1, <3>4 DEF SignalInv, Throttled
      <4>2. recv - lastEmit \in Int /\ recv - lastEmit >= MinEmitInterval
        BY <3>2, <4>1 DEF Since
      <4>3. CASE spacing = NoValue
        BY <3>1, <3>2, <3>4, <4>2, <4>3 DEF EmissionsAreSpaced
      <4>4. CASE spacing # NoValue
        <5>1. spacing \in Int /\ spacing >= MinEmitInterval
          BY <4>4 DEF SignalInv, EmissionsAreSpaced
        <5>2. spacing' = spacing \/ spacing' = recv - lastEmit
          BY <3>1, <3>4, <4>4 DEF Least
        <5> QED
          BY <3>1, <3>2, <4>2, <5>1, <5>2 DEF EmissionsAreSpaced
      <4> QED
        BY <4>3, <4>4
    <3> QED
      BY <3>3, <3>4
  <2> QED
    BY <2>1, <2>2
<1> QED
  BY <1>1, <1>2, <1>3 DEF SignalInv

\* A policy decides on delivered features and candles of its own interval only, and two
\* signals of a strategy are min_emit_interval apart (on_market_event and
\* LiveFeatureEngine::on_event), for every configuration and set of rules.  The interval is
\* not zero: with zero nothing is spaced.
THEOREM SignalsAreSound ==
  ASSUME MinEmitInterval \in Nat \ {0}, MaxRecv \in Nat
  PROVE  LSSpec => [](NoBlindDecision /\ OwnCandles /\ EmissionsAreSpaced)
<1>1. LSInit => SignalInv
  <2> SUFFICES ASSUME LSInit PROVE SignalInv
    OBVIOUS
  <2>1. setup.engine \in {"score", "policy"}
    BY DEF LSInit
  <2>2. output = {} /\ mixed = FALSE /\ lastEmit = NoValue /\ spacing = NoValue
    BY DEF LSInit
  <2> QED
    BY <2>1, <2>2 DEF SignalInv, NoBlindDecision, OwnCandles, EmissionsAreSpaced
<1>2. SignalInv /\ [LSNext]_lsVars => SignalInv'
  <2> SUFFICES ASSUME SignalInv, [LSNext]_lsVars PROVE SignalInv'
    OBVIOUS
  <2>1. CASE UNCHANGED lsVars
    BY <2>1 DEF lsVars, SignalInv, NoBlindDecision, OwnCandles, EmissionsAreSpaced, Delivered
  <2>2. ASSUME NEW e \in Events, setup.engine = "score", ScoreEvent(e) PROVE SignalInv'
    BY <2>2, ScoreStep
  <2>3. ASSUME NEW e \in Events, setup.engine = "policy", PolicyEvent(e) PROVE SignalInv'
    BY <2>3, PolicyStep
  <2> QED
    BY <2>1, <2>2, <2>3 DEF LSNext
<1>3. SignalInv => NoBlindDecision /\ OwnCandles /\ EmissionsAreSpaced
  BY DEF SignalInv
<1> QED
  BY <1>1, <1>2, <1>3, PTL DEF LSSpec

-----------------------------------------------------------------------------
(* Numbers of a configuration *)

LEMMA SignalNumbers ==
  /\ MinTrades \in Nat /\ MinTrades >= 1 /\ MinCandles \in Nat /\ MinCandles >= 1
  /\ MinVolumes \in Nat /\ MinVolumes >= 2 /\ MaxSpread \in Nat /\ MaxSpread >= 1
  /\ VolatilityCap \in Nat /\ VolatilityCap >= 1 /\ Weight \in [Directional -> Nat]
  /\ MinConfidence[1] \in Nat /\ MinConfidence[2] \in Nat /\ MinConfidence[2] >= 1
  BY WindowAssumption DEF ValidWindows

-----------------------------------------------------------------------------
(* Sums *)

LEMMA SumIsWeight == ASSUME NEW s PROVE SumSeq(s) = WeightOf(s, DOMAIN s)
  BY Zenon DEF SumSeq, WeightOf

LEMMA SumIsInt == ASSUME NEW n \in Nat, NEW s \in [1 .. n -> Int] PROVE SumSeq(s) \in Int
<1>1. IsFiniteSet(1 .. n) /\ DOMAIN s = 1 .. n /\ \A x \in 1 .. n : s[x] \in Int
  BY FS_Interval
<1>2. WeightOf(s, 1 .. n) \in Int
  BY <1>1, WeightType
<1> QED
  BY <1>1, <1>2, SumIsWeight

LEMMA SumIsPositive ==
  ASSUME NEW n \in Nat, n >= 1, NEW s \in [1 .. n -> Nat \ {0}] PROVE SumSeq(s) \in Nat /\ SumSeq(s) > 0
<1>0. IsFiniteSet(1 .. n)
  BY FS_Interval
<1>1. DOMAIN s = 1 .. n /\ \A x \in 1 .. n : s[x] \in Nat /\ s[x] \in Int /\ s[x] > 0
  <2>1. \A x \in Nat \ {0} : x \in Nat /\ x \in Int /\ x > 0
    OBVIOUS
  <2>2. DOMAIN s = 1 .. n /\ \A x \in 1 .. n : s[x] \in Nat \ {0}
    OBVIOUS
  <2> QED
    BY <2>1, <2>2
<1>2. PICK r \in SUBSET (1 .. n) : r = (1 .. n) \ {1} /\ 1 \notin r
  <2>1. 1 \in 1 .. n
    OBVIOUS
  <2> QED
    BY <2>1, SmallerSet
<1>3. WeightOf(s, r) \in Nat
  BY <1>0, <1>1, WeightNat
<1>4. r \cup {1} = 1 .. n /\ 1 \in (1 .. n) \ r
  BY <1>2
<1>5. WeightOf(s, 1 .. n) = WeightOf(s, r) + s[1]
  BY <1>0, <1>1, <1>4, WeightAdd
<1>6. s[1] \in Nat /\ s[1] > 0
  BY <1>1, <1>4
<1>7. SumSeq(s) = WeightOf(s, 1 .. n)
  BY <1>1, SumIsWeight
<1> QED
  BY <1>3, <1>5, <1>6, <1>7

\* A part weighs no more than the whole.
LEMMA WeightMonotone ==
  ASSUME NEW w, NEW S, IsFiniteSet(S), \A x \in S : w[x] \in Nat
  PROVE  \A t \in SUBSET S : \A s \in SUBSET t : WeightOf(w, s) <= WeightOf(w, t)
<1>1. PICK G : G = {t \in SUBSET S : \A s \in SUBSET t : WeightOf(w, s) <= WeightOf(w, t)}
  OBVIOUS
<1>2. ASSUME NEW t \in SUBSET S, \A r \in SUBSET t : r # t => r \in G PROVE t \in G
  <2> SUFFICES ASSUME NEW s \in SUBSET t PROVE WeightOf(w, s) <= WeightOf(w, t)
    BY <1>1
  <2>0. WeightOf(w, s) \in Nat /\ WeightOf(w, t) \in Nat
    <3>1. s \in SUBSET S
      OBVIOUS
    <3> QED
      BY <3>1, WeightNat
  <2>1. CASE s = t
    BY <2>0, <2>1
  <2>2. CASE s # t
    <3>1. PICK x \in t : x \notin s
      BY <2>2
    <3>2. PICK r \in SUBSET t : r = t \ {x} /\ r # t /\ x \notin r
      BY SmallerSet
    <3>3. s \in SUBSET r /\ r \in SUBSET S /\ r \cup {x} = t /\ x \in S \ r
      BY <3>1, <3>2
    <3>4. WeightOf(w, s) <= WeightOf(w, r)
      BY <1>1, <1>2, <3>2, <3>3
    <3>5. \A y \in S : w[y] \in Int
      OBVIOUS
    <3>6. WeightOf(w, t) = WeightOf(w, r) + w[x]
      BY <3>3, <3>5, WeightAdd
    <3>7. WeightOf(w, r) \in Nat /\ w[x] \in Nat
      BY <3>3, WeightNat
    <3> QED
      BY <2>0, <3>4, <3>6, <3>7
  <2> QED
    BY <2>1, <2>2
<1>3. \A t \in SUBSET S : t \in G
  BY <1>2, SubsetInduction
<1> QED
  BY <1>1, <1>3

-----------------------------------------------------------------------------
(* The factors *)

FactorSet == [trades : Seq(Int), closes : Seq(Int), volumes : Seq(Volumes), quote : Nat \cup {NoValue},
              book : {NoValue, <<0, 0>>, <<1, 0>>}]

LEMMA PushedIsSeq ==
  ASSUME NEW D, NEW s \in Seq(D), NEW v \in D, NEW size PROVE Pushed(s, v, size) \in Seq(D)
<1>1. Append(s, v) \in Seq(D) /\ Append(s, v) # <<>>
  BY AppendProperties
<1>2. Tail(Append(s, v)) \in Seq(D)
  BY <1>1, HeadTailProperties
<1> QED
  BY <1>1, <1>2 DEF Pushed

LEMMA EventValues ==
  ASSUME NEW e \in Events
  PROVE  /\ e.feed \in Feeds /\ e.good \in BOOLEAN
         /\ e.good /\ e.feed \in {"Trades", "Candle"} => e.value \in Int
         /\ e.good /\ e.feed = "BestBidAsk" => e.value \in Nat
         /\ e.good /\ e.feed = "L2Book" => e.value \in {<<0, 0>>, <<1, 0>>}
         /\ e.feed = "Candle" => e.volume \in Volumes
<1>0. MaxSpread \in Nat /\ 0 \in Nat /\ -1 \in Int /\ 1 \in Int /\ \A c \in Closes : c \in Int
  BY SignalNumbers, ValueAssumption
<1>1. CASE e \in {Event("Trades", sign, 0, TRUE, TRUE) : sign \in {-1, 1}}
  <2>1. PICK sign \in {-1, 1} : e = Event("Trades", sign, 0, TRUE, TRUE)
    BY <1>1
  <2>2. e.feed = "Trades" /\ e.value = sign /\ e.good = TRUE
    BY <2>1 DEF Event
  <2> QED
    BY <1>0, <2>1, <2>2 DEF Feeds
<1>2. CASE e \in {Event("BestBidAsk", spread, 0, TRUE, TRUE) : spread \in {0, MaxSpread}}
  <2>1. PICK spread \in {0, MaxSpread} : e = Event("BestBidAsk", spread, 0, TRUE, TRUE)
    BY <1>2
  <2>2. e.feed = "BestBidAsk" /\ e.value = spread /\ e.good = TRUE
    BY <2>1 DEF Event
  <2> QED
    BY <1>0, <2>1, <2>2 DEF Feeds
<1>3. CASE e \in {Event("L2Book", totals, 0, TRUE, TRUE) : totals \in {<<0, 0>>, <<1, 0>>}}
  <2>1. PICK totals \in {<<0, 0>>, <<1, 0>>} : e = Event("L2Book", totals, 0, TRUE, TRUE)
    BY <1>3
  <2>2. e.feed = "L2Book" /\ e.value = totals /\ e.good = TRUE
    BY <2>1 DEF Event
  <2> QED
    BY <1>0, <2>1, <2>2 DEF Feeds
<1>4. CASE e \in [feed : {"Candle"}, value : Closes, volume : Volumes, own : BOOLEAN, good : {TRUE}]
  <2>1. e.feed = "Candle" /\ e.value \in Closes /\ e.volume \in Volumes /\ e.good = TRUE
    BY <1>4
  <2> QED
    BY <1>0, <2>1 DEF Feeds
<1>5. CASE e \in {Event("Candle", 0, volume, TRUE, FALSE) : volume \in Volumes}
  <2>1. PICK volume \in Volumes : e = Event("Candle", 0, volume, TRUE, FALSE)
    BY <1>5
  <2>2. e.feed = "Candle" /\ e.good = FALSE /\ e.volume = volume
    BY <2>1 DEF Event
  <2> QED
    BY <1>0, <2>1, <2>2 DEF Feeds
<1>6. CASE e \in {Event(feed, 0, 0, TRUE, FALSE) : feed \in {"Trades", "BestBidAsk"}}
  <2>1. PICK feed \in {"Trades", "BestBidAsk"} : e = Event(feed, 0, 0, TRUE, FALSE)
    BY <1>6
  <2>2. e.feed = feed /\ e.good = FALSE
    BY <2>1 DEF Event
  <2> QED
    BY <1>0, <2>1, <2>2 DEF Feeds
<1> QED
  BY <1>1, <1>2, <1>3, <1>4, <1>5, <1>6 DEF Events

LEMMA VolumeKept ==
  ASSUME NEW f \in FactorSet, NEW e \in Events PROVE WithVolume(f, e) \in FactorSet
<1>1. CASE e.feed = "Candle"
  <2>1. e.volume \in Volumes
    BY <1>1, EventValues
  <2>2. Pushed(f.volumes, e.volume, VolumeWindow) \in Seq(Volumes)
    BY <2>1, PushedIsSeq DEF FactorSet
  <2> QED
    BY <1>1, <2>2 DEF WithVolume, FactorSet
<1>2. CASE e.feed # "Candle"
  BY <1>2 DEF WithVolume
<1> QED
  BY <1>1, <1>2

LEMMA ObservedKept ==
  ASSUME NEW f \in FactorSet, NEW e \in Events PROVE Observed(f, e) \in FactorSet
<1>0. e.feed \in {"Trades", "BestBidAsk", "L2Book", "Candle"} /\ e.good \in BOOLEAN
  BY EventValues DEF Feeds
<1>1. CASE ~e.good
  BY <1>1 DEF Observed
<1>2. CASE e.good /\ e.feed = "Trades"
  <2>1. Pushed(f.trades, e.value, TradeWindow) \in Seq(Int)
    BY <1>2, EventValues, PushedIsSeq DEF FactorSet
  <2>2. Observed(f, e) = [f EXCEPT !.trades = Pushed(@, e.value, TradeWindow)]
    BY <1>2 DEF Observed
  <2> QED
    BY <2>1, <2>2 DEF FactorSet
<1>3. CASE e.good /\ e.feed = "Candle"
  <2>1. Pushed(f.closes, e.value, CandleWindow) \in Seq(Int)
    BY <1>3, EventValues, PushedIsSeq DEF FactorSet
  <2>2. Observed(f, e) = [f EXCEPT !.closes = Pushed(@, e.value, CandleWindow)]
    BY <1>3 DEF Observed
  <2> QED
    BY <2>1, <2>2 DEF FactorSet
<1>4. CASE e.good /\ e.feed = "BestBidAsk"
  <2>1. Observed(f, e) = [f EXCEPT !.quote = e.value] /\ e.value \in Nat
    BY <1>4, EventValues DEF Observed
  <2> QED
    BY <2>1 DEF FactorSet
<1>5. CASE e.good /\ e.feed = "L2Book"
  <2>1. Observed(f, e) = [f EXCEPT !.book = e.value] /\ e.value \in {<<0, 0>>, <<1, 0>>}
    BY <1>5, EventValues DEF Observed
  <2> QED
    BY <2>1 DEF FactorSet
<1> QED
  BY <1>0, <1>1, <1>2, <1>3, <1>4, <1>5

-----------------------------------------------------------------------------
(* The confidence *)

\* The variance is missing only without two closes, and is a ratio otherwise.
LEMMA VarianceIs ==
  ASSUME NEW f \in FactorSet
  PROVE  \/ Len(f.closes) < 2 /\ VarianceBps(f) = NoValue
         \/ \E v \in Int, n \in Nat \ {0} : VarianceBps(f) = <<v, n * n>>
<1>0. f.closes \in Seq(Int) /\ Len(f.closes) \in Nat
  BY DEF FactorSet
<1>l. PICK l \in Nat : l = Len(f.closes)
  BY <1>0
<1>m. PICK n \in Int : n = l - 1
  OBVIOUS
<1>1. n = Len(f.closes) - 1
  BY <1>l, <1>m
<1>2. PICK returns : returns = [i \in 1 .. n |-> f.closes[i + 1] - f.closes[i]]
  OBVIOUS
<1>3. PICK squares : squares = [i \in 1 .. n |-> returns[i] * returns[i]]
  OBVIOUS
<1>4. VarianceBps(f) = IF n < 1 THEN NoValue
                       ELSE <<n * SumSeq(squares) - SumSeq(returns) * SumSeq(returns), n * n>>
  BY <1>1, <1>2, <1>3 DEF VarianceBps
<1>5. CASE n < 1
  <2>1. Len(f.closes) < 2
    BY <1>0, <1>1, <1>5
  <2> QED
    BY <1>4, <1>5, <2>1
<1>6. CASE ~(n < 1)
  <2>1. n \in Nat \ {0}
    BY <1>6
  <2>2. \A i \in 1 .. n : f.closes[i + 1] \in Int /\ f.closes[i] \in Int
    <3>1. \A i \in 1 .. Len(f.closes) : f.closes[i] \in Int
      BY DEF FactorSet
    <3>2. \A i \in 1 .. n : i \in 1 .. Len(f.closes) /\ i + 1 \in 1 .. Len(f.closes)
      BY <1>1 DEF FactorSet
    <3> QED
      BY <3>1, <3>2
  <2>3. returns \in [1 .. n -> Int]
    BY <1>2, <2>2
  <2>4. \A x \in Int : x * x \in Int
    OBVIOUS
  <2>5. squares \in [1 .. n -> Int]
    BY <1>3, <2>3, <2>4
  <2>6. PICK r \in Int, q \in Int : r = SumSeq(returns) /\ q = SumSeq(squares)
    BY <2>1, <2>3, <2>5, SumIsInt
  <2>7. n * q - r * r \in Int
    BY <2>1
  <2> QED
    BY <1>4, <1>6, <2>1, <2>6, <2>7
<1> QED
  BY <1>5, <1>6

LEMMA Times ==
  ASSUME NEW a \in Nat, NEW b \in Nat, NEW c \in Nat, a <= b
  PROVE  a * c \in Nat /\ b * c \in Nat /\ a * c <= b * c
  OBVIOUS

LEMMA TimesMore ==
  ASSUME NEW a \in Nat, NEW b \in Nat, NEW c \in Nat, a < b, c > 0
  PROVE  a * c \in Nat /\ b * c \in Nat /\ a * c < b * c
  OBVIOUS

\* No volatility makes the confidence larger than its other factors.
LEMMA QualityIs ==
  ASSUME NEW f \in FactorSet
  PROVE  \E a \in Nat, b \in Nat : VolatilityQuality(f) = <<a, b>> /\ a <= b /\ b > 0
<1>1. PICK cap \in Nat : cap = VolatilityCap * VolatilityCap
  BY SignalNumbers
<1>2. CASE VarianceBps(f) = NoValue
  BY <1>2 DEF VolatilityQuality
<1>3. CASE VarianceBps(f) # NoValue
  <2>1. PICK v \in Int, n \in Nat \ {0} : VarianceBps(f) = <<v, n * n>>
    BY <1>3, VarianceIs
  <2>2. PICK m \in Nat : m = n * n
    OBVIOUS
  <2>3. PICK k \in Nat : k = cap * m
    OBVIOUS
  <2>4. VolatilityQuality(f) = IF v <= k THEN <<1, 1>> ELSE <<k, v>>
    BY <1>1, <1>3, <2>1, <2>2, <2>3 DEF VolatilityQuality
  <2>5. CASE v <= k
    BY <2>4, <2>5
  <2>6. CASE ~(v <= k)
    <3>1. v \in Nat /\ k <= v /\ v > 0
      BY <2>6
    <3> QED
      BY <2>4, <2>6, <3>1
  <2> QED
    BY <2>5, <2>6
<1> QED
  BY <1>2, <1>3

\* A confidence below the least one without the volatility is below it with it.
LEMMA NotConfident ==
  ASSUME NEW num \in Nat, NEW den \in Nat, num < den,
         NEW a \in Nat, NEW b \in Nat, a <= b, b > 0
  PROVE  ~(num * num * a >= den * den * b)
<1>1. num * num \in Nat /\ num * num <= den * num
  BY Times
<1>2. den > 0 /\ num * den \in Nat /\ den * den \in Nat /\ num * den < den * den
  BY TimesMore
<1>3. PICK x \in Nat, y \in Nat : x = num * num /\ y = den * den
  BY <1>1, <1>2
<1>4. x < y
  <2>1. den * num = num * den
    OBVIOUS
  <2> QED
    BY <1>1, <1>2, <1>3, <2>1
<1>5. a * x <= b * x
  BY Times
<1>6. x * b < y * b
  BY <1>4, TimesMore
<1>7. x * a \in Nat /\ x * b \in Nat /\ y * b \in Nat /\ a * x = x * a /\ b * x = x * b
  OBVIOUS
<1>8. ~(x * a >= y * b)
  BY <1>5, <1>6, <1>7
<1> QED
  BY <1>3, <1>8

LEMMA Products ==
  ASSUME NEW a \in Nat, NEW b \in Nat, NEW c \in Nat, NEW m \in Nat,
         NEW x \in Nat, NEW y \in Nat, NEW z \in Nat, a <= x, b <= y, c <= z
  PROVE  a * b * c * m \in Nat /\ x * y * z * m \in Nat /\ a * b * c * m <= x * y * z * m
<1>1. PICK ab \in Nat, xy \in Nat : ab = a * b /\ xy = x * y
  OBVIOUS
<1>2. ab <= xy
  <2>1. a * b <= x * b /\ b * x <= y * x /\ x * b \in Nat
    BY Times
  <2>2. b * x = x * b /\ y * x = x * y
    OBVIOUS
  <2> QED
    BY <1>1, <2>1, <2>2
<1>3. PICK abc \in Nat, xyz \in Nat : abc = ab * c /\ xyz = xy * z
  OBVIOUS
<1>4. abc <= xyz
  <2>1. ab * c <= xy * c /\ c * xy <= z * xy /\ xy * c \in Nat
    BY <1>2, Times
  <2>2. c * xy = xy * c /\ z * xy = xy * z
    OBVIOUS
  <2> QED
    BY <1>3, <2>1, <2>2
<1>5. abc * m \in Nat /\ xyz * m \in Nat /\ abc * m <= xyz * m
  BY <1>4, Times
<1> QED
  BY <1>1, <1>3, <1>5

LEMMA LeastIs ==
  ASSUME NEW a \in Nat, NEW b \in Nat
  PROVE  Least(a, b) \in Nat /\ Least(a, b) <= b /\ (a = 0 => Least(a, b) = 0)
  BY DEF Least

\* The four warm-up parts count alike; a missing one leaves three quarters at most.
LEMMA WarmupIs ==
  ASSUME NEW f \in FactorSet
  PROVE  \E k \in Nat, w \in Nat :
           /\ k > 0 /\ WarmupRatio(f) = <<w, 4 * k>> /\ w <= 4 * k
           /\ f.trades = <<>> => w <= 3 * k
           /\ f.quote = NoValue => w <= 3 * k
<1>0. MinTrades \in Nat /\ MinCandles \in Nat /\ MinTrades > 0 /\ MinCandles > 0
  BY SignalNumbers
<1>1. PICK k \in Nat : k = MinTrades * MinCandles /\ k > 0
  BY <1>0, TimesMore
<1>2. Len(f.trades) \in Nat /\ Len(f.closes) \in Nat /\ (f.trades = <<>> => Len(f.trades) = 0)
  BY DEF FactorSet
<1>3. PICK t \in Nat : t = Least(Len(f.trades), MinTrades) /\ t <= MinTrades /\ (f.trades = <<>> => t = 0)
  BY <1>0, <1>2, LeastIs
<1>4. PICK c \in Nat : c = Least(Len(f.closes), MinCandles) /\ c <= MinCandles
  BY <1>0, <1>2, LeastIs
<1>5. PICK p \in Nat : p = Present(f.quote) + Present(f.book) /\ p <= 2 /\ (f.quote = NoValue => p <= 1)
  BY DEF Present
<1>6. PICK a \in Nat : a = t * MinCandles /\ a <= k /\ (f.trades = <<>> => a = 0)
  <2>1. t * MinCandles \in Nat /\ t * MinCandles <= MinTrades * MinCandles
    BY <1>0, <1>3, Times
  <2>2. t = 0 => t * MinCandles = 0
    BY <1>0
  <2> QED
    BY <1>1, <1>3, <2>1, <2>2
<1>7. PICK b \in Nat : b = c * MinTrades /\ b <= k
  <2>1. c * MinTrades \in Nat /\ c * MinTrades <= MinCandles * MinTrades
    BY <1>0, <1>4, Times
  <2>2. MinCandles * MinTrades = k
    BY <1>0, <1>1
  <2> QED
    BY <2>1, <2>2
<1>8. PICK d \in Nat : d = p * MinTrades * MinCandles /\ d <= 2 * k /\ (f.quote = NoValue => d <= k)
  <2>1. p * MinTrades * MinCandles = p * k
    <3>1. \A x, y, z \in Nat : x * y * z = x * (y * z)
      OBVIOUS
    <3> QED
      BY <1>0, <1>1, <3>1
  <2>2. p * k \in Nat /\ p * k <= 2 * k
    BY <1>5, Times
  <2>3. f.quote = NoValue => p * k <= 1 * k
    BY <1>5, Times
  <2> QED
    BY <2>1, <2>2, <2>3
<1>9. WarmupRatio(f) = <<a + b + d, 4 * MinTrades * MinCandles>>
  BY <1>3, <1>4, <1>5, <1>6, <1>7, <1>8 DEF WarmupRatio
<1>10. 4 * MinTrades * MinCandles = 4 * k
  BY <1>0, <1>1
<1>11. PICK w \in Nat : w = a + b + d
  OBVIOUS
<1>12. w <= 4 * k /\ (a = 0 => w <= 3 * k) /\ (d <= k => w <= 3 * k)
  <2>1. a <= k /\ b <= k /\ d <= 2 * k
    BY <1>6, <1>7, <1>8
  <2> QED
    BY <1>11, <2>1
<1>13. (f.trades = <<>> => w <= 3 * k) /\ (f.quote = NoValue => w <= 3 * k)
  BY <1>6, <1>8, <1>12, Zenon
<1> QED
  BY <1>1, <1>9, <1>10, <1>11, <1>12, <1>13

LEMMA TotalIsWeight == ASSUME NEW names PROVE TotalWeight(names) = WeightOf(Weight, names)
  BY Zenon DEF TotalWeight, WeightOf

\* Without trades two directional factors are left.
LEMMA CoverageIs ==
  ASSUME NEW f \in FactorSet
  PROVE  \E c \in Nat, t \in Nat, u \in Nat :
           /\ Coverage(f) = <<c, t>> /\ c <= t /\ t > 0
           /\ t = TotalWeight(Directional) /\ u = TotalWeight({"book_imbalance", "momentum_bps"})
           /\ f.trades = <<>> => c <= u
<1>1. IsFiniteSet(Directional)
  <2>1. \A x, y : IsFiniteSet({x} \cup {y})
    BY FS_Singleton, FS_Union
  <2>2. Directional = ({"vwap_deviation_bps"} \cup {"trade_imbalance"})
                        \cup ({"book_imbalance"} \cup {"momentum_bps"})
    BY DEF Directional
  <2> QED
    BY <2>1, <2>2, FS_Union
<1>2. \A d \in Directional : Weight[d] \in Nat /\ Weight[d] \in Int
  BY SignalNumbers
<1>3. PICK s \in SUBSET Directional : s = Available(f) \cap Directional
  OBVIOUS
<1>4. PICK r \in SUBSET Directional : r = {"book_imbalance", "momentum_bps"}
  BY DEF Directional
<1>5. PICK c \in Nat, t \in Nat, u \in Nat :
        c = WeightOf(Weight, s) /\ t = WeightOf(Weight, Directional) /\ u = WeightOf(Weight, r)
  BY <1>1, <1>2, WeightNat
<1>6. c <= t
  BY <1>1, <1>2, <1>5, WeightMonotone
<1>7. f.trades = <<>> => c <= u
  <2> SUFFICES ASSUME f.trades = <<>> PROVE c <= u
    OBVIOUS
  <2>1. s \subseteq r
    BY <1>3, <1>4 DEF Available, Directional, Warmup
  <2> QED
    BY <1>1, <1>2, <1>5, <2>1, WeightMonotone
<1>8. t > 0
  <2>1. PICK d \in Directional : Weight[d] > 0
    BY WindowAssumption DEF ValidWindows
  <2>2. {} \cup {d} \in SUBSET Directional /\ d \in Directional \ {} /\ {} \in SUBSET Directional
    OBVIOUS
  <2>3. WeightOf(Weight, {} \cup {d}) = WeightOf(Weight, {}) + Weight[d]
    BY <1>1, <1>2, <2>2, WeightAdd
  <2>4. WeightOf(Weight, {}) \in Nat /\ WeightOf(Weight, {} \cup {d}) \in Nat
    BY <1>1, <1>2, <2>2, WeightNat
  <2>5. WeightOf(Weight, {} \cup {d}) <= t
    BY <1>1, <1>2, <1>5, <2>2, WeightMonotone
  <2> QED
    BY <1>2, <2>1, <2>3, <2>4, <2>5
<1>9. Coverage(f) = <<c, t>> /\ t = TotalWeight(Directional) /\ u = TotalWeight({"book_imbalance", "momentum_bps"})
  BY <1>3, <1>4, <1>5, TotalIsWeight DEF Coverage
<1> QED
  BY <1>6, <1>7, <1>8, <1>9

LEMMA SpreadIs ==
  ASSUME NEW f \in FactorSet
  PROVE  \E s \in Nat, m \in Nat :
           /\ SpreadQuality(f) = <<s, m>> /\ s <= m /\ m > 0
           /\ f.quote = NoValue => s = 1 /\ m = 2
           /\ f.quote # NoValue /\ ~(f.quote < MaxSpread) => s = 0
<1>1. CASE f.quote = NoValue
  BY <1>1 DEF SpreadQuality
<1>2. CASE f.quote # NoValue
  <2>1. PICK q \in Nat : q = f.quote
    BY <1>2 DEF FactorSet
  <2>2. PICK l \in Nat : l = Least(q, MaxSpread) /\ l <= MaxSpread /\ (~(q < MaxSpread) => l = MaxSpread)
    BY SignalNumbers DEF Least
  <2>3. PICK s \in Nat : s = MaxSpread - l
    BY <2>2, SignalNumbers
  <2>4. SpreadQuality(f) = <<s, MaxSpread>>
    BY <1>2, <2>1, <2>2, <2>3 DEF SpreadQuality
  <2>5. s <= MaxSpread /\ MaxSpread > 0 /\ MaxSpread \in Nat /\ (~(q < MaxSpread) => s = 0)
    BY <2>2, <2>3, SignalNumbers
  <2> QED
    BY <1>2, <2>1, <2>4, <2>5
<1> QED
  BY <1>1, <1>2

\* What the default weights and min_confidence satisfy: neither the two factors that need no
\* trade, nor everything but a quote, can reach min_confidence.
Tuned ==
  /\ 3 * TotalWeight({"book_imbalance", "momentum_bps"}) * MinConfidence[2]
       < 4 * TotalWeight(Directional) * MinConfidence[1]
  /\ 3 * MinConfidence[2] < 8 * MinConfidence[1]

LEMMA ConfidentRestsOnData ==
  ASSUME Tuned, NEW f \in FactorSet, Confident(f)
  PROVE  f.trades # <<>> /\ f.quote # NoValue /\ f.quote < MaxSpread
<1>1. PICK k \in Nat, w \in Nat :
        /\ k > 0 /\ WarmupRatio(f) = <<w, 4 * k>> /\ w <= 4 * k
        /\ f.trades = <<>> => w <= 3 * k
        /\ f.quote = NoValue => w <= 3 * k
  BY WarmupIs
<1>2. PICK c \in Nat, t \in Nat, u \in Nat :
        /\ Coverage(f) = <<c, t>> /\ c <= t /\ t > 0
        /\ t = TotalWeight(Directional) /\ u = TotalWeight({"book_imbalance", "momentum_bps"})
        /\ f.trades = <<>> => c <= u
  BY CoverageIs
<1>3. PICK s \in Nat, m \in Nat :
        /\ SpreadQuality(f) = <<s, m>> /\ s <= m /\ m > 0
        /\ f.quote = NoValue => s = 1 /\ m = 2
        /\ f.quote # NoValue /\ ~(f.quote < MaxSpread) => s = 0
  BY SpreadIs
<1>4. PICK a \in Nat, b \in Nat : VolatilityQuality(f) = <<a, b>> /\ a <= b /\ b > 0
  BY QualityIs
<1>5. PICK x \in Nat, y \in Nat : x = MinConfidence[1] /\ y = MinConfidence[2]
  BY SignalNumbers
<1>6. 3 * u * y < 4 * t * x /\ 3 * y < 8 * x /\ x > 0
  <2>1. 3 * u * y < 4 * t * x /\ 3 * y < 8 * x
    BY <1>2, <1>5, Zenon DEF Tuned
  <2>2. 3 * y < 8 * x => x > 0
    OBVIOUS
  <2> QED
    BY <2>1, <2>2
<1>7. PICK num \in Nat : num = w * c * s * y
  OBVIOUS
<1>8. PICK den \in Nat : den = 4 * k * t * m * x
  OBVIOUS
<1>9. num * num * a >= den * den * b
  BY <1>1, <1>2, <1>3, <1>4, <1>5, <1>7, <1>8 DEF Confident
<1>10. ~(num < den)
  BY <1>4, <1>9, NotConfident
<1>11. k * m > 0 /\ k * m \in Nat /\ k * t > 0 /\ k * t \in Nat /\ 2 \in Nat /\ 3 * k \in Nat
  <2>1. 0 * m = 0 /\ 0 * t = 0
    OBVIOUS
  <2>2. 0 * m < k * m /\ k * m \in Nat
    BY <1>1, <1>3, TimesMore
  <2>3. 0 * t < k * t /\ k * t \in Nat
    BY <1>1, <1>2, TimesMore
  <2> QED
    BY <2>1, <2>2, <2>3
<1>12. ASSUME f.trades = <<>> PROVE FALSE
  <2>1. w <= 3 * k /\ c <= u /\ s <= m
    BY <1>1, <1>2, <1>3, <1>12
  <2>2. num <= (3 * k) * u * m * y
    BY <1>7, <1>11, <2>1, Products
  <2>3. (3 * u * y) * (k * m) < (4 * t * x) * (k * m)
    <3>1. 3 * u * y \in Nat /\ 4 * t * x \in Nat
      OBVIOUS
    <3> QED
      BY <1>6, <1>11, <3>1, TimesMore
  <2>4. (3 * k) * u * m * y = (3 * u * y) * (k * m) /\ 4 * k * t * m * x = (4 * t * x) * (k * m)
    OBVIOUS
  <2>5. (3 * k) * u * m * y < den
    BY <1>8, <2>3, <2>4
  <2>6. (3 * k) * u * m * y \in Nat
    OBVIOUS
  <2> QED
    BY <1>10, <2>2, <2>5, <2>6
<1>13. ASSUME f.quote = NoValue PROVE FALSE
  <2>1. w <= 3 * k /\ c <= t /\ s <= 1 /\ m = 2
    BY <1>1, <1>2, <1>3, <1>13
  <2>2. num <= (3 * k) * t * 1 * y
    BY <1>7, <1>11, <2>1, Products
  <2>3. (3 * y) * (k * t) < (8 * x) * (k * t)
    <3>1. 3 * y \in Nat /\ 8 * x \in Nat
      OBVIOUS
    <3> QED
      BY <1>6, <1>11, <3>1, TimesMore
  <2>4. (3 * k) * t * 1 * y = (3 * y) * (k * t) /\ 4 * k * t * 2 * x = (8 * x) * (k * t)
    OBVIOUS
  <2>5. (3 * k) * t * 1 * y < den
    BY <1>8, <2>1, <2>3, <2>4
  <2>6. (3 * k) * t * 1 * y \in Nat
    OBVIOUS
  <2> QED
    BY <1>10, <2>2, <2>5, <2>6
<1>14. ASSUME f.quote # NoValue, ~(f.quote < MaxSpread) PROVE FALSE
  <2>1. s = 0
    BY <1>3, <1>14
  <2>2. num = 0
    <3>1. w * c \in Nat
      OBVIOUS
    <3>2. w * c * 0 = 0 /\ 0 * y = 0
      BY <3>1
    <3> QED
      BY <1>7, <2>1, <3>2
  <2>3. 0 < (k * t) * (m * x)
    <3>1. m * x \in Nat /\ m * x > 0
      BY <1>3, <1>6, TimesMore
    <3> QED
      BY <1>11, <3>1, TimesMore
  <2>4. 4 * k * t * m * x = 4 * ((k * t) * (m * x)) /\ (k * t) * (m * x) \in Nat
    OBVIOUS
  <2> QED
    BY <1>8, <1>10, <2>2, <2>3, <2>4
<1> QED
  BY <1>12, <1>13, <1>14

-----------------------------------------------------------------------------
(* The features of a policy *)

\* Once a rule's feeds have delivered what their factors need, its features have values.
LEMMA VolumeRatioIs ==
  ASSUME Volumes \subseteq Nat \ {0}, NEW f \in FactorSet, Len(f.volumes) >= MinVolumes
  PROVE  VolumeRatio(f) # NoValue
<1>1. PICK n \in Nat : n = Len(f.volumes) /\ n >= 2
  BY SignalNumbers DEF FactorSet
<1>2. \A i \in 1 .. n : f.volumes[i] \in Nat \ {0}
  <2>1. f.volumes \in Seq(Volumes)
    BY DEF FactorSet
  <2>2. \A i \in 1 .. n : f.volumes[i] \in Volumes
    BY <1>1, <2>1
  <2> QED
    BY <2>2
<1>3. PICK j \in Nat : j = n - 1 /\ j >= 1
  BY <1>1
<1>4. PICK front : front = SubSeq(f.volumes, 1, j)
  OBVIOUS
<1>5. front \in Seq(Nat \ {0}) /\ Len(front) = j
  <2>1. \A i \in 1 .. j : f.volumes[i] \in Nat \ {0}
    BY <1>2, <1>3
  <2> QED
    BY <1>3, <1>4, <2>1, SubSeqProperties
<1>6. front \in [1 .. j -> Nat \ {0}]
  BY <1>5
<1>7. SumSeq(front) \in Nat /\ SumSeq(front) > 0
  BY <1>3, <1>6, SumIsPositive
<1>8. Front(f.volumes) = front
  BY <1>1, <1>3, <1>4 DEF Front
<1>9. PICK v \in Nat : v = Last(f.volumes)
  <2>1. Last(f.volumes) = f.volumes[n]
    BY <1>1 DEF Last
  <2>2. n \in 1 .. n
    BY <1>1
  <2> QED
    BY <1>2, <2>1, <2>2
<1>10. PICK b \in Nat : b = SumSeq(front) /\ b > 0
  BY <1>7
<1>11. VolumeRatio(f) = <<v * (n - 1), b>>
  BY <1>1, <1>8, <1>9, <1>10, SignalNumbers DEF VolumeRatio
<1>12. v * (n - 1) \in Int /\ b \in Int
  BY <1>1
<1> QED
  BY <1>11, <1>12, ValueAssumption

WarmIn(f, req, feed) ==
  CASE feed = "Trades"     -> f.trades # <<>>
    [] feed = "BestBidAsk" -> f.quote # NoValue
    [] feed = "L2Book"     -> BookImbalance(f) # NoValue
    [] feed = "Candle"     -> Len(f.closes) > 1 /\ ("volume_ratio" \in req => Len(f.volumes) >= MinVolumes)

\* A known feature whose feed is warm has a value, or is one of the position's.
LEMMA WarmIsAvailable ==
  ASSUME Volumes \subseteq Nat \ {0}, NEW f \in FactorSet, NEW req, NEW n \in req \cap Features,
         \A feed \in Providers(n) : WarmIn(f, req, feed)
  PROVE  n \in Available(f) \cup PositionFeatures
<1>1. CASE n \in Warmup \cup PositionFeatures
  BY <1>1 DEF Available
<1>2. CASE n \in {"vwap_deviation_bps", "trade_imbalance"}
  <2>1. "Trades" \in Providers(n)
    BY <1>2 DEF Providers, Warmup, PositionFeatures
  <2>2. f.trades # <<>>
    BY <2>1 DEF WarmIn
  <2> QED
    BY <1>2, <2>2 DEF Available
<1>3. CASE n = "spread_bps"
  <2>1. "BestBidAsk" \in Providers(n)
    BY <1>3 DEF Providers, Warmup, PositionFeatures
  <2>2. f.quote # NoValue
    BY <2>1 DEF WarmIn
  <2>3. f.quote \in Int
    BY <2>2 DEF FactorSet
  <2>4. SpreadBps(f) # NoValue
    BY <2>2, <2>3, ValueAssumption DEF SpreadBps
  <2> QED
    BY <1>3, <2>4 DEF Available
<1>4. CASE n = "book_imbalance"
  <2>1. "L2Book" \in Providers(n)
    BY <1>4 DEF Providers, Warmup, PositionFeatures
  <2>2. BookImbalance(f) # NoValue
    BY <2>1 DEF WarmIn
  <2> QED
    BY <1>4, <2>2 DEF Available
<1>5. CASE n \in {"momentum_bps", "realized_volatility_bps", "volume_ratio"}
  <2>1. "Candle" \in Providers(n)
    BY <1>5 DEF Providers, Warmup, PositionFeatures
  <2>2. Len(f.closes) > 1 /\ ("volume_ratio" \in req => Len(f.volumes) >= MinVolumes)
    BY <2>1 DEF WarmIn
  <2>3. f.closes \in Seq(Int) /\ f.closes # <<>>
    BY <2>2 DEF FactorSet
  <2>4. CASE n = "momentum_bps"
    <3>1. Head(f.closes) \in Int /\ Last(f.closes) \in Int
      BY <2>2, <2>3 DEF Last
    <3>2. MomentumBps(f) = <<Last(f.closes) - Head(f.closes), 1>>
      BY <2>3 DEF MomentumBps
    <3>3. Last(f.closes) - Head(f.closes) \in Int
      BY <3>1
    <3>4. MomentumBps(f) # NoValue
      BY <3>2, <3>3, ValueAssumption
    <3> QED
      BY <2>4, <3>4 DEF Available
  <2>5. CASE n = "realized_volatility_bps"
    <3>1. ~(Len(f.closes) < 2)
      BY <2>2, <2>3
    <3>2. PICK v \in Int, m \in Nat \ {0} : VarianceBps(f) = <<v, m * m>>
      BY <3>1, VarianceIs
    <3>3. m * m \in Int
      OBVIOUS
    <3>4. VarianceBps(f) # NoValue
      BY <3>2, <3>3, ValueAssumption
    <3> QED
      BY <2>5, <3>4 DEF Available
  <2>6. CASE n = "volume_ratio"
    <3>1. VolumeRatio(f) # NoValue
      BY <2>2, <2>6, VolumeRatioIs
    <3> QED
      BY <2>6, <3>1 DEF Available
  <2> QED
    BY <1>5, <2>4, <2>5, <2>6
<1> QED
  BY <1>1, <1>2, <1>3, <1>4, <1>5 DEF Features, Directional

FactorInv == factors \in FactorSet /\ (setup.engine = "policy" => setup.rules \in Rules)

LEMMA FeedsDoSuffice == ASSUME Volumes \subseteq Nat \ {0}, FactorInv PROVE PlannedFeedsSuffice
<1>1. PICK f \in FactorSet : f = factors
  BY DEF FactorInv
<1>2. PICK req : req = Required(setup.rules)
  OBVIOUS
<1>3. ASSUME setup.engine = "policy", \A feed \in FeedsFor(req) : WarmIn(f, req, feed)
      PROVE  req \subseteq Frame(factors, TRUE)
  <2>1. req \subseteq Features
    BY <1>2, <1>3, RuleAssumption DEF FactorInv
  <2>2. ASSUME NEW n \in req PROVE n \in Frame(factors, TRUE)
    <3>1. \A feed \in Providers(n) : feed \in FeedsFor(req)
      BY DEF FeedsFor
    <3>2. n \in Available(f) \cup PositionFeatures
      BY <1>3, <2>1, <3>1, WarmIsAvailable
    <3> QED
      BY <1>1, <1>2, <3>2 DEF Frame, PositionFeatures
  <2> QED
    BY <2>2
<1> QED
  BY <1>1, <1>2, <1>3 DEF PlannedFeedsSuffice, WarmIn

\* With the default weights and min_confidence, a signal rests on data.
RestInv == FactorInv /\ SignalsRestOnData

LEMMA RestInvInit == LSInit => RestInv
<1> SUFFICES ASSUME LSInit PROVE RestInv
  OBVIOUS
<1>1. factors \in FactorSet
  BY DEF LSInit, FactorSet
<1>2. setup.engine = "policy" => setup.rules \in Rules
  BY DEF LSInit
<1>3. output = {}
  BY DEF LSInit
<1> QED
  BY <1>1, <1>2, <1>3 DEF RestInv, FactorInv, SignalsRestOnData

LEMMA RestInvStep ==
  ASSUME Tuned, RestInv, [LSNext]_lsVars PROVE RestInv'
<1>0. factors \in FactorSet /\ (setup.engine = "policy" => setup.rules \in Rules)
  BY DEF RestInv, FactorInv
<1>1. CASE UNCHANGED lsVars
  BY <1>1 DEF lsVars, RestInv, FactorInv, SignalsRestOnData
<1>2. ASSUME NEW e \in Events, setup.engine = "score", ScoreEvent(e) PROVE RestInv'
  <2>1. PICK f \in FactorSet : f = Observed(WithVolume(factors, e), e)
    BY <1>0, VolumeKept, ObservedKept
  <2>2. factors' = f /\ setup' = setup
    BY <1>2, <2>1 DEF ScoreEvent
  <2>3. ASSUME "signal" \in output' PROVE Confident(f)
    BY <1>2, <2>1, <2>3 DEF ScoreEvent
  <2>4. SignalsRestOnData'
    BY <2>2, <2>3, ConfidentRestsOnData DEF SignalsRestOnData
  <2> QED
    BY <1>0, <2>2, <2>4 DEF RestInv, FactorInv
<1>3. ASSUME NEW e \in Events, setup.engine = "policy", PolicyEvent(e) PROVE RestInv'
  <2>1. factors' \in FactorSet
    <3>1. WithVolume(factors, e) \in FactorSet
      BY <1>0, VolumeKept
    <3>2. PICK c \in FactorSet : c = IF "volume_ratio" \in Required(setup.rules) THEN WithVolume(factors, e) ELSE factors
      BY <1>0, <3>1
    <3>3. factors' = IF Wanted(e) THEN Observed(c, e) ELSE factors
      BY <1>3, <3>2 DEF PolicyEvent
    <3> QED
      BY <1>0, <3>3, ObservedKept
  <2>2. setup' = setup
    BY <1>3 DEF PolicyEvent
  <2>3. "signal" \notin output'
    BY <1>3 DEF PolicyEvent, MayDecide
  <2> QED
    BY <1>0, <2>1, <2>2, <2>3 DEF RestInv, FactorInv, SignalsRestOnData
<1> QED
  BY <1>1, <1>2, <1>3 DEF LSNext

\* What is drawn from market data is as sound as the data (matching.rs of both crates,
\* factors.rs, automation.rs, providers.rs), for every configuration, set of rules and
\* sequence of events: with weights and a min_confidence like the defaults no signal comes
\* without a trade and a narrow quote, and with candles that have a volume the planned feeds
\* are enough for every feature of a rule.
THEOREM MarketIsSafe ==
  ASSUME MinEmitInterval \in Nat \ {0}, MaxRecv \in Nat, Tuned, Volumes \subseteq Nat \ {0}
  PROVE  SimSpec /\ LSSpec => []MarketSafety
<1>1. RestInv /\ [LSNext]_lsVars => RestInv'
  BY RestInvStep
<1>2. RestInv => SignalsRestOnData /\ PlannedFeedsSuffice
  BY FeedsDoSuffice DEF RestInv
<1>3. LSSpec => [](SignalsRestOnData /\ PlannedFeedsSuffice)
  BY <1>1, <1>2, RestInvInit, PTL DEF LSSpec
<1>4. LSSpec => [](NoBlindDecision /\ OwnCandles /\ EmissionsAreSpaced)
  BY SignalsAreSound
<1>5. /\ SimulatorSafety
      /\ SignalsRestOnData /\ PlannedFeedsSuffice
      /\ NoBlindDecision /\ OwnCandles /\ EmissionsAreSpaced
      => MarketSafety
  BY DEF MarketSafety, SignalSafety
<1> QED
  BY <1>3, <1>4, <1>5, SimulatorIsSafe, PTL
=============================================================================
