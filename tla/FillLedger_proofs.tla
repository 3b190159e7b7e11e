------------------------- MODULE FillLedger_proofs -------------------------
(***************************************************************************)
(* Theorems about the fill ledger, for every set of processes, orders,     *)
(* fill ids and account scopes.  The first part needs only that Recorded   *)
(* is a function of the ledger; the second adds the rows up, with the      *)
(* lemmas of FiniteSums.                                                   *)
(***************************************************************************)
EXTENDS FillLedger, FiniteSums

\* The shapes the proofs need; the cumulative fills are left open.
Shape ==
  /\ tenure \in Nat
  /\ DOMAIN tok = Procs /\ \A p \in Procs : tok[p] \in Nat /\ tok[p] <= tenure
  /\ tok = [p \in Procs |-> tok[p]]
  /\ pc \in [Procs -> {"idle", "ingest", "check", "ok", "failed"}]
  /\ copy = [p \in Procs |-> copy[p]]
  /\ todo \in [Procs -> SUBSET Orders]
  /\ ledger \subseteq Fills

\* At most one process holds the lease.
OneHolder == \A p, q \in Procs : tok[p] = tenure /\ tok[q] = tenure => p = q

\* All rows of an order are of one account, and keys are unique.
OneScope == \A f, g \in ledger : f.order = g.order => f.scope = g.scope
UniqueKeys == \A f, g \in ledger : SameKey(f, g) => f = g

\* What a process that holds the lease has compared stays compared: only the
\* holder writes the ledger, and it does not while it compares.
ComparedIsExplained ==
  \A p \in Procs : pc[p] \in {"check", "ok"} /\ Holds(p) =>
    \A o \in Orders \ todo[p] : copy[p][o].filled > 0 => Recorded(o) = copy[p][o].filled

NothingLeft == \A p \in Procs : pc[p] = "ok" => todo[p] = {}

LInv ==
  /\ Shape
  /\ OneHolder
  /\ OneScope
  /\ UniqueKeys
  /\ ComparedIsExplained
  /\ NothingLeft

-----------------------------------------------------------------------------
LEMMA LInvInit == Init => LInv
<1> SUFFICES ASSUME Init PROVE LInv
  OBVIOUS
<1>1. PICK p \in Procs : tok = [q \in Procs |-> IF q = p THEN 1 ELSE 0]
  BY DEF Init
<1>2. Shape
  BY <1>1 DEF Init, Shape
<1>3. OneHolder
  BY <1>1 DEF Init, OneHolder
<1>4. OneScope /\ UniqueKeys
  BY DEF Init, OneScope, UniqueKeys
<1>5. ComparedIsExplained /\ NothingLeft
  BY DEF Init, ComparedIsExplained, NothingLeft
<1> QED
  BY <1>2, <1>3, <1>4, <1>5 DEF LInv

\* Recorded depends on the ledger alone.
LEMMA RecordedStable ==
  ASSUME ledger' = ledger, NEW o \in Orders
  PROVE  Recorded(o)' = Recorded(o)
  BY DEF Recorded, OfOrder

\* A step that leaves lease, ledger and the control of all but p alone keeps
\* what the others have compared.
LEMMA LedgerKept ==
  ASSUME LInv, NEW p \in Procs, ledger' = ledger, tenure' = tenure, tok' = tok,
         pc' = [pc EXCEPT ![p] = pc'[p]], copy' = [copy EXCEPT ![p] = copy'[p]],
         todo' = [todo EXCEPT ![p] = todo'[p]],
         pc'[p] \in {"idle", "ingest", "check", "ok", "failed"},
         todo'[p] \in SUBSET Orders,
         pc'[p] = "ok" => todo'[p] = {},
         pc'[p] \in {"check", "ok"} /\ Holds(p) =>
           \A o \in Orders \ todo'[p] :
              copy'[p][o].filled > 0 => Recorded(o) = copy'[p][o].filled
  PROVE  LInv'
<1> USE DEF LInv
<1>1. Shape'
  BY DEF Shape
<1>2. OneHolder' /\ OneScope' /\ UniqueKeys'
  BY DEF OneHolder, OneScope, UniqueKeys, SameKey
<1>3. \A o \in Orders : Recorded(o)' = Recorded(o)
  BY RecordedStable
<1>4. ASSUME NEW q \in Procs, pc'[q] \in {"check", "ok"}, Holds(q)',
             NEW o \in Orders \ todo'[q], copy'[q][o].filled > 0
      PROVE  Recorded(o)' = copy'[q][o].filled
  <2>0. Holds(q)
    BY <1>4 DEF Holds
  <2>1. CASE q = p
    BY <1>3, <1>4, <2>0, <2>1
  <2>2. CASE q # p
    <3>1. pc'[q] = pc[q] /\ copy'[q] = copy[q] /\ todo'[q] = todo[q]
      BY <2>2 DEF Shape
    <3> QED  BY <1>3, <1>4, <2>0, <3>1 DEF ComparedIsExplained
  <2> QED  BY <2>1, <2>2
<1>5. ComparedIsExplained'
  BY <1>4 DEF ComparedIsExplained
<1>6. NothingLeft'
  BY DEF NothingLeft, Shape
<1> QED
  BY <1>1, <1>2, <1>5, <1>6

\* When the holder writes the ledger outside a comparison, nobody who holds the
\* lease is comparing.
LEMMA LedgerWritten ==
  ASSUME LInv, NEW p \in Procs, Holds(p), pc[p] \notin {"check", "ok"},
         UNCHANGED <<tenure, tok, pc, copy, todo>>, ledger' \subseteq Fills,
         OneScope', UniqueKeys'
  PROVE  LInv'
<1> USE DEF LInv
<1>1. Shape' /\ OneHolder' /\ NothingLeft'
  BY DEF Shape, OneHolder, NothingLeft
<1>2. ComparedIsExplained'
  BY DEF ComparedIsExplained, OneHolder, Holds
<1> QED
  BY <1>1, <1>2

-----------------------------------------------------------------------------
\* The steps of ingest_owned_fills that do not write the ledger.
LEMMA IngestControl ==
  ASSUME LInv, NEW p \in Procs,
         \/ BeginIngest(p) \/ IngestFails(p) \/ EvidenceEnds(p)
         \/ IngestReturns(p) \/ TickEnds(p)
  PROVE  LInv'
<1> USE DEF LInv
<1>0. /\ pc \in [Procs -> {"idle", "ingest", "check", "ok", "failed"}]
      /\ todo \in [Procs -> SUBSET Orders] /\ copy = [q \in Procs |-> copy[q]]
  BY DEF Shape
<1>1. CASE BeginIngest(p)
  <2>1. pc'[p] = "ingest" /\ todo' = todo
    BY <1>0, <1>1 DEF BeginIngest
  <2> QED  BY <1>0, <1>1, <2>1, LedgerKept DEF BeginIngest
<1>2. CASE IngestFails(p)
  <2>1. pc'[p] = "failed" /\ todo' = todo /\ copy' = copy
    BY <1>0, <1>2 DEF IngestFails
  <2> QED  BY <1>0, <1>2, <2>1, LedgerKept DEF IngestFails
<1>3. CASE EvidenceEnds(p)
  <2>1. /\ pc'[p] = "check" /\ copy' = copy
        /\ todo'[p] = {o \in Orders : copy[p][o].filled > 0}
    BY <1>0, <1>3 DEF EvidenceEnds
  <2> QED  BY <1>0, <1>3, <2>1, LedgerKept DEF EvidenceEnds
<1>4. CASE IngestReturns(p)
  <2>1. pc'[p] = "ok" /\ pc[p] = "check" /\ todo' = todo /\ todo[p] = {} /\ copy' = copy
    BY <1>0, <1>4 DEF IngestReturns
  <2>2. Holds(p) => \A o \in Orders \ todo'[p] :
          copy'[p][o].filled > 0 => Recorded(o) = copy'[p][o].filled
    BY <2>1 DEF ComparedIsExplained
  <2> QED  BY <1>0, <1>4, <2>1, <2>2, LedgerKept DEF IngestReturns
<1>5. CASE TickEnds(p)
  <2>1. pc'[p] = "idle" /\ todo'[p] = {}
    BY <1>0, <1>5 DEF TickEnds
  <2> QED  BY <1>0, <1>5, <2>1, LedgerKept DEF TickEnds
<1> QED
  BY <1>1, <1>2, <1>3, <1>4, <1>5

LEMMA CheckOrderInv ==
  ASSUME LInv, NEW p \in Procs, CheckOrder(p)
  PROVE  LInv'
<1> USE DEF LInv
<1>0. /\ pc \in [Procs -> {"idle", "ingest", "check", "ok", "failed"}]
      /\ todo \in [Procs -> SUBSET Orders] /\ copy = [q \in Procs |-> copy[q]]
      /\ UNCHANGED <<tenure, tok, ledger, copy>> /\ pc[p] = "check"
  BY DEF Shape, CheckOrder
<1>1. PICK o \in todo[p] :
        \/ Holds(p) /\ Explains(p, o) /\ todo' = [todo EXCEPT ![p] = @ \ {o}] /\ UNCHANGED pc
        \/ pc' = [pc EXCEPT ![p] = "failed"] /\ UNCHANGED todo
  BY DEF CheckOrder
<1>2. CASE Holds(p) /\ Explains(p, o) /\ todo' = [todo EXCEPT ![p] = @ \ {o}] /\ UNCHANGED pc
  <2>1. pc'[p] = "check" /\ todo'[p] = todo[p] \ {o}
    BY <1>0, <1>2
  <2>2. \A x \in Orders \ todo'[p] :
           copy'[p][x].filled > 0 => Recorded(x) = copy'[p][x].filled
    BY <1>0, <1>2, <2>1 DEF ComparedIsExplained, Explains
  <2> QED  BY <1>0, <1>2, <2>1, <2>2, LedgerKept
<1>3. CASE pc' = [pc EXCEPT ![p] = "failed"] /\ UNCHANGED todo
  <2>1. pc'[p] = "failed"
    BY <1>0, <1>3
  <2> QED  BY <1>0, <1>3, <2>1, LedgerKept
<1> QED
  BY <1>1, <1>2, <1>3

LEMMA IngestFillInv ==
  ASSUME LInv, NEW p \in Procs, IngestFill(p)
  PROVE  LInv'
<1> USE DEF LInv
<1>1. PICK f \in Fills : (MayInsert(p, f) \/ IsReplay(p, f)) /\ ledger' = ledger \cup {f}
  BY DEF IngestFill, Insert
<1>2. /\ Holds(p) /\ pc[p] = "ingest" /\ UNCHANGED <<tenure, tok, pc, copy, todo>>
      /\ ledger' \subseteq Fills
  BY <1>1 DEF IngestFill, MayInsert, IsReplay, Shape
<1>3. OneScope' /\ UniqueKeys'
  <2>1. CASE MayInsert(p, f)
    BY <1>1, <2>1 DEF OneScope, UniqueKeys, MayInsert, OfOrder, SameKey
  <2>2. CASE IsReplay(p, f)
    BY <1>1, <2>2 DEF OneScope, UniqueKeys, IsReplay, SameKey
  <2> QED  BY <1>1, <2>1, <2>2
<1> QED
  BY <1>2, <1>3, LedgerWritten

LEMMA SettleInv ==
  ASSUME LInv, NEW p \in Procs, Settle(p)
  PROVE  LInv'
<1> USE DEF LInv
<1>1. PICK o \in Orders, s \in Scopes :
        \E trades \in SUBSET {f \in Fills : f.order = o /\ f.scope = s} :
          CompleteBatch(o, trades) /\ ledger' = ledger \cup trades
  BY DEF Settle
<1>2. PICK trades \in SUBSET {f \in Fills : f.order = o /\ f.scope = s} :
        CompleteBatch(o, trades) /\ ledger' = ledger \cup trades
  BY <1>1
<1>3. /\ Holds(p) /\ pc[p] = "idle" /\ UNCHANGED <<tenure, tok, pc, copy, todo>>
      /\ ledger' \subseteq Fills
  BY <1>2 DEF Settle, Shape
<1>4. OneScope'
  BY <1>2 DEF OneScope, CompleteBatch, OfOrder
<1>5. UniqueKeys'
  <2> SUFFICES ASSUME NEW f \in ledger', NEW g \in ledger', SameKey(f, g) PROVE f = g
    BY DEF UniqueKeys, SameKey
  <2>1. f \in ledger \/ f \in trades \ ledger
    BY <1>2
  <2>2. g \in ledger \/ g \in trades \ ledger
    BY <1>2
  <2>3. SameKey(g, f)
    BY DEF SameKey
  <2> QED  BY <1>2, <2>1, <2>2, <2>3 DEF UniqueKeys, CompleteBatch
<1> QED
  BY <1>3, <1>4, <1>5, LedgerWritten

LEMMA TakeOverInv ==
  ASSUME LInv, NEW p \in Procs, TakeOver(p)
  PROVE  LInv'
<1> USE DEF LInv
<1>0. /\ tenure \in Nat /\ tenure' = tenure + 1 /\ ledger' = ledger
      /\ \A q \in Procs : tok[q] \in Nat /\ tok[q] <= tenure
      /\ tok' = [q \in Procs |-> IF q = p THEN tenure + 1 ELSE tok[q]]
  BY DEF TakeOver, Shape
<1>1. \A q \in Procs : tok'[q] = tenure' <=> q = p
  BY <1>0
<1>2. pc'[p] = "idle" /\ (\A q \in Procs : q # p => pc'[q] = pc[q] /\ todo'[q] = todo[q])
  BY DEF TakeOver, Shape
<1>3. Shape'
  <2>1. /\ tenure' \in Nat /\ DOMAIN tok' = Procs /\ tok' = [q \in Procs |-> tok'[q]]
        /\ \A q \in Procs : tok'[q] \in Nat /\ tok'[q] <= tenure'
    BY <1>0
  <2>2. pc' \in [Procs -> {"idle", "ingest", "check", "ok", "failed"}]
    BY DEF TakeOver, Shape
  <2>3. todo' \in [Procs -> SUBSET Orders]
    BY DEF TakeOver, Shape
  <2>4. copy' = [q \in Procs |-> copy'[q]] /\ ledger' \subseteq Fills
    BY DEF TakeOver, Shape
  <2> QED  BY <2>1, <2>2, <2>3, <2>4 DEF Shape
<1>4. OneHolder' /\ OneScope' /\ UniqueKeys'
  BY <1>0, <1>1 DEF OneHolder, OneScope, UniqueKeys, SameKey
<1>5. ComparedIsExplained'
  BY <1>1, <1>2 DEF ComparedIsExplained, Holds
<1>6. NothingLeft'
  BY <1>2 DEF NothingLeft
<1> QED
  BY <1>3, <1>4, <1>5, <1>6

LEMMA LInvStep == LInv /\ [Next]_vars => LInv'
<1> SUFFICES ASSUME LInv, [Next]_vars PROVE LInv'
  OBVIOUS
<1>1. ASSUME UNCHANGED <<tenure, tok, ledger, pc, copy, todo>> PROVE LInv'
  <2>1. \A o \in Orders : Recorded(o)' = Recorded(o)
    BY <1>1, RecordedStable
  <2> QED
    BY <1>1, <2>1 DEF LInv, Shape, OneHolder, OneScope, UniqueKeys, SameKey,
                      ComparedIsExplained, NothingLeft, Holds
<1>2. CASE Next
  <2>1. PICK p \in Procs :
          \/ BeginIngest(p) \/ IngestFill(p) \/ IngestFails(p) \/ EvidenceEnds(p)
          \/ CheckOrder(p) \/ IngestReturns(p) \/ TickEnds(p)
          \/ Settle(p) \/ OrchestratorSaves(p) \/ TakeOver(p)
    BY <1>2 DEF Next
  <2>2. CASE OrchestratorSaves(p)
    BY <1>1, <2>2 DEF OrchestratorSaves
  <2> QED
    BY <2>1, <2>2, IngestControl, IngestFillInv, CheckOrderInv, SettleInv, TakeOverInv
<1> QED
  BY <1>1, <1>2 DEF vars

LEMMA LInvHolds == Spec => []LInv
  BY LInvInit, LInvStep, PTL DEF Spec

-----------------------------------------------------------------------------
\* No trade of an order is stored twice, under one account scope or several.
THEOREM TradeStoredOnce == Spec => []OneRowPerTrade
<1>1. LInv => OneRowPerTrade
  BY DEF LInv, OneScope, UniqueKeys, OneRowPerTrade, SameKey
<1> QED
  BY <1>1, LInvHolds, PTL

\* A successful ingestion by the lease holder means that each order its
\* records call filled is explained exactly.
THEOREM IngestIsClean == Spec => []CleanIngest
<1>1. LInv => CleanIngest
  BY DEF LInv, ComparedIsExplained, NothingLeft, CleanIngest
<1> QED
  BY <1>1, LInvHolds, PTL

\* No step removes or replaces a stored fill.
THEOREM EvidenceIsImmutable == Spec => LedgerImmutable
<1>1. [Next]_vars => [ledger \subseteq ledger']_vars
  <2> SUFFICES ASSUME Next PROVE ledger \subseteq ledger'
    OBVIOUS
  <2> QED
    BY DEF Next, BeginIngest, IngestFill, Insert, IngestFails, EvidenceEnds, CheckOrder,
           IngestReturns, TickEnds, Settle, OrchestratorSaves, TakeOver
<1> QED
  BY <1>1, PTL DEF Spec, LedgerImmutable

-----------------------------------------------------------------------------
(* Sums over the ledger *)

FillQty == [f \in Fills |-> f.qty]

\* The quantity of fills is the sum of their weights.
LEMMA QuantityIsWeight ==
  ASSUME NEW S \in SUBSET Fills PROVE Quantity(S) = WeightOf(FillQty, S)
<1> DEFINE Counts(g) == g = [s \in SUBSET S |-> IF s = {} THEN 0 ELSE Pick(s).qty + g[s \ {Pick(s)}]]
<1>1. Quantity(S) = (CHOOSE g : Counts(g))[S]
  BY Zenon DEF Quantity, MapThenSumSet, MapThenFoldSet, Pick
<1>2. ASSUME NEW g PROVE Counts(g) <=> Adds(g, FillQty, S)
  <2>1. \A s \in SUBSET S : s # {} => FillQty[Pick(s)] = Pick(s).qty
    BY PickIn DEF FillQty
  <2>2. [s \in SUBSET S |-> IF s = {} THEN 0 ELSE Pick(s).qty + g[s \ {Pick(s)}]]
          = [s \in SUBSET S |-> IF s = {} THEN 0 ELSE FillQty[Pick(s)] + g[s \ {Pick(s)}]]
    BY <2>1
  <2> QED
    BY <2>2 DEF Adds
<1> HIDE DEF Counts
<1>3. (CHOOSE g : Counts(g)) = (CHOOSE g : Adds(g, FillQty, S))
  BY <1>2, Zenon
<1> QED
  BY <1>1, <1>3, WeightIsFold

LEMMA QuantityNat ==
  ASSUME NEW S \in SUBSET Fills, IsFiniteSet(S) PROVE Quantity(S) \in Nat
<1>1. \A f \in S : FillQty[f] \in Nat
  BY QtyAssumption DEF FillQty, Fills
<1>2. WeightOf(FillQty, S) \in Nat
  BY <1>1, WeightNat
<1> QED
  BY <1>2, QuantityIsWeight

\* A fill adds its quantity.
LEMMA QuantityAdd ==
  ASSUME NEW S \in SUBSET Fills, IsFiniteSet(S), NEW f \in Fills, f \notin S
  PROVE  Quantity(S \cup {f}) = Quantity(S) + f.qty
<1>1. PICK U \in SUBSET Fills : U = S \cup {f}
  OBVIOUS
<1>2. IsFiniteSet(U)
  BY <1>1, FS_AddElement
<1>3. \A g \in U : FillQty[g] \in Int
  BY QtyAssumption DEF FillQty, Fills
<1>4. S \in SUBSET U /\ f \in U \ S
  BY <1>1
<1>5. WeightOf(FillQty, S \cup {f}) = WeightOf(FillQty, S) + FillQty[f]
  BY <1>2, <1>3, <1>4, WeightAdd
<1>6. FillQty[f] = f.qty
  BY DEF FillQty
<1>7. Quantity(U) = WeightOf(FillQty, U) /\ Quantity(S) = WeightOf(FillQty, S)
  BY QuantityIsWeight
<1> QED
  BY <1>1, <1>5, <1>6, <1>7

-----------------------------------------------------------------------------
\* What the OMS claims and what the ledger shows: the sums need a finite ledger.
SumInv == OmsFollowsLedger /\ IsFiniteSet(ledger)

LEMMA OfOrderFinite ==
  ASSUME SumInv, NEW o \in Orders
  PROVE  OfOrder(o) \in SUBSET Fills /\ IsFiniteSet(OfOrder(o)) /\ Recorded(o) \in Nat
<1>1. OfOrder(o) \in SUBSET ledger /\ ledger \in SUBSET Fills
  BY DEF SumInv, OmsFollowsLedger, TypeOK, OfOrder
<1>2. IsFiniteSet(OfOrder(o))
  BY <1>1, FS_Subset DEF SumInv
<1> QED
  BY <1>1, <1>2, QuantityNat DEF Recorded

LEMMA SumInvInit == Init => SumInv
<1> SUFFICES ASSUME Init PROVE SumInv
  OBVIOUS
<1>0. MaxTenure \in Nat /\ 1 <= MaxTenure /\ Qty \in Nat
  BY LedgerAssumption, QtyAssumption
<1>1. PICK p \in Procs : tok = [q \in Procs |-> IF q = p THEN 1 ELSE 0]
  BY DEF Init
<1>2. [st |-> "Open", filled |-> 0] \in Records /\ FromIntent \in Records
  BY <1>0 DEF Records, OrderStates, FromIntent
<1>3. TypeOK
  <2>1. rows \in [Orders -> [rec : Records, token : 0 .. MaxTenure]]
    BY <1>0, <1>2 DEF Init
  <2>2. copy \in [Procs -> [Orders -> Records]]
    BY <1>2 DEF Init
  <2>3. tenure \in 1 .. MaxTenure /\ tok \in [Procs -> 0 .. MaxTenure]
    BY <1>0, <1>1 DEF Init
  <2>4. /\ pc \in [Procs -> {"idle", "ingest", "check", "ok", "failed"}]
        /\ todo \in [Procs -> SUBSET Orders] /\ ledger \subseteq Fills
    BY DEF Init
  <2> QED
    BY <2>1, <2>2, <2>3, <2>4 DEF TypeOK
<1>4. IsFiniteSet(ledger)
  BY FS_EmptySet DEF Init
<1>5. ASSUME NEW o \in Orders PROVE Recorded(o) = 0 /\ rows[o].rec.filled = 0
  <2>1. OfOrder(o) = {}
    BY DEF Init, OfOrder
  <2>2. Quantity({}) = 0
    <3>1. WeightOf(FillQty, {}) = 0
      BY FS_EmptySet, WeightUnfolds
    <3> QED
      BY <3>1, QuantityIsWeight
  <2> QED
    BY <2>1, <2>2 DEF Recorded, Init
<1>6. NeverOverfilled /\ OmsIsExplained
  BY <1>0, <1>5 DEF NeverOverfilled, OmsIsExplained
<1> QED
  BY <1>3, <1>4, <1>6 DEF SumInv, OmsFollowsLedger

\* A step that leaves the ledger and the records alone.
LEMMA SumsKept ==
  ASSUME SumInv, TypeOK', ledger' = ledger, rows' = rows PROVE SumInv'
<1>1. \A o \in Orders : Recorded(o)' = Recorded(o)
  BY DEF Recorded, OfOrder
<1> QED
  BY <1>1 DEF SumInv, OmsFollowsLedger, NeverOverfilled, OmsIsExplained

LEMMA ControlSums ==
  ASSUME SumInv, NEW p \in Procs,
         \/ BeginIngest(p) \/ IngestFails(p) \/ EvidenceEnds(p) \/ CheckOrder(p)
         \/ IngestReturns(p) \/ TickEnds(p) \/ TakeOver(p)
  PROVE  SumInv' /\ rows' = rows
<1>0. TypeOK /\ FromIntent \in Records /\ MaxTenure \in Nat
  BY QtyAssumption, LedgerAssumption
     DEF SumInv, OmsFollowsLedger, Records, OrderStates, FromIntent
<1>1. ledger' = ledger /\ rows' = rows
  BY DEF BeginIngest, IngestFails, EvidenceEnds, CheckOrder, IngestReturns, TickEnds, TakeOver
<1>2. pc' \in [Procs -> {"idle", "ingest", "check", "ok", "failed"}]
  BY <1>0 DEF TypeOK, BeginIngest, IngestFails, EvidenceEnds, CheckOrder, IngestReturns, TickEnds, TakeOver
<1>3. todo' \in [Procs -> SUBSET Orders]
  BY <1>0 DEF TypeOK, BeginIngest, IngestFails, EvidenceEnds, CheckOrder, IngestReturns, TickEnds, TakeOver
<1>4. copy' \in [Procs -> [Orders -> Records]]
  <2>1. [o \in Orders |-> rows[o].rec] \in [Orders -> Records]
    BY <1>0 DEF TypeOK
  <2>2. [o \in Orders |-> FromIntent] \in [Orders -> Records]
    BY <1>0
  <2>3. copy' = copy \/ \E c \in [Orders -> Records] : copy' = [copy EXCEPT ![p] = c]
    BY <2>1, <2>2 DEF BeginIngest, IngestFails, EvidenceEnds, CheckOrder, IngestReturns, TickEnds, TakeOver
  <2> QED
    BY <1>0, <2>3 DEF TypeOK
<1>5. tenure' \in 1 .. MaxTenure /\ tok' \in [Procs -> 0 .. MaxTenure]
  <2>1. CASE TakeOver(p)
    <3>1. tenure + 1 \in 1 .. MaxTenure /\ tenure + 1 \in 0 .. MaxTenure
      BY <1>0, <2>1 DEF TypeOK, TakeOver
    <3> QED
      BY <1>0, <2>1, <3>1 DEF TypeOK, TakeOver
  <2>2. CASE ~TakeOver(p)
    BY <1>0, <2>2 DEF TypeOK, BeginIngest, IngestFails, EvidenceEnds, CheckOrder, IngestReturns, TickEnds
  <2> QED
    BY <2>1, <2>2
<1>6. TypeOK'
  BY <1>0, <1>1, <1>2, <1>3, <1>4, <1>5 DEF TypeOK
<1> QED
  BY <1>1, <1>6, SumsKept

\* A fill that is inserted stays within the request and takes nothing from the OMS.
LEMMA IngestSums ==
  ASSUME SumInv, NEW p \in Procs, IngestFill(p) PROVE SumInv' /\ rows' = rows
<1>1. PICK f \in Fills : (MayInsert(p, f) \/ IsReplay(p, f)) /\ ledger' = ledger \cup {f}
  BY DEF IngestFill, Insert
<1>2. UNCHANGED <<tenure, tok, rows, pc, copy, todo>>
  BY DEF IngestFill
<1>3. TypeOK'
  BY <1>1, <1>2 DEF SumInv, OmsFollowsLedger, TypeOK
<1>4. CASE f \in ledger
  <2>1. ledger' = ledger
    BY <1>1, <1>4
  <2> QED
    BY <1>2, <1>3, <2>1, SumsKept
<1>5. CASE f \notin ledger
  <2>1. MayInsert(p, f)
    BY <1>1, <1>5 DEF IsReplay
  <2>2. IsFiniteSet(ledger')
    BY <1>1, FS_AddElement DEF SumInv
  <2>3. ASSUME NEW o \in Orders
        PROVE  Recorded(o)' <= Qty /\ rows'[o].rec.filled <= Recorded(o)'
    <3>0. /\ rows'[o].rec.filled \in Nat /\ rows'[o].rec.filled <= Recorded(o) /\ Recorded(o) <= Qty
          /\ Recorded(o) \in Nat /\ Qty \in Nat
      BY <1>2, OfOrderFinite, QtyAssumption
         DEF SumInv, OmsFollowsLedger, TypeOK, Records, OmsIsExplained, NeverOverfilled
    <3>1. CASE f.order = o
      <4>1. OfOrder(o)' = OfOrder(o) \cup {f} /\ f \notin OfOrder(o)
        BY <1>1, <1>5, <3>1 DEF OfOrder
      <4>2. Recorded(o)' = Recorded(o) + f.qty
        BY <4>1, OfOrderFinite, QuantityAdd DEF Recorded
      <4>3. Recorded(o) + f.qty <= Qty /\ f.qty \in Nat
        BY <2>1, <3>1, QtyAssumption DEF MayInsert, Fills
      <4> QED
        BY <3>0, <4>2, <4>3
    <3>2. CASE f.order # o
      <4>1. OfOrder(o)' = OfOrder(o)
        BY <1>1, <3>2 DEF OfOrder
      <4>2. Recorded(o)' = Recorded(o)
        BY <4>1 DEF Recorded
      <4> QED
        BY <3>0, <4>2
    <3> QED
      BY <3>1, <3>2
  <2> QED
    BY <1>2, <1>3, <2>2, <2>3 DEF SumInv, OmsFollowsLedger, NeverOverfilled, OmsIsExplained
<1> QED
  BY <1>4, <1>5

\* What a settlement does to the rows of an order and to its record.
Settles(p, o, trades, st) ==
  /\ trades \in SUBSET {f \in Fills : f.order = o} /\ IsFiniteSet(trades)
  /\ OfOrder(o) \subseteq trades
  /\ ValidTransition(rows[o].rec, st, Quantity(trades))
  /\ ledger' = ledger \cup trades
  /\ rows' = [rows EXCEPT ![o] = [rec |-> [st |-> st, filled |-> Quantity(trades)], token |-> tok[p]]]

\* The batch is one account's, so no fill id is in it twice and it is finite.
LEMMA SettleIs ==
  ASSUME NEW p \in Procs, Settle(p)
  PROVE  \E o \in Orders, st \in OrderStates : \E trades : Settles(p, o, trades, st)
<1>1. PICK o \in Orders, s \in Scopes :
        \E trades \in SUBSET {f \in Fills : f.order = o /\ f.scope = s} :
          /\ CompleteBatch(o, trades)
          /\ \E st \in OrderStates :
               /\ ValidTransition(rows[o].rec, st, Quantity(trades))
               /\ ledger' = ledger \cup trades
               /\ rows' = [rows EXCEPT ![o] = [rec |-> [st |-> st, filled |-> Quantity(trades)],
                                               token |-> tok[p]]]
  BY DEF Settle
<1>2. PICK trades \in SUBSET {f \in Fills : f.order = o /\ f.scope = s} :
          /\ CompleteBatch(o, trades)
          /\ \E st \in OrderStates :
               /\ ValidTransition(rows[o].rec, st, Quantity(trades))
               /\ ledger' = ledger \cup trades
               /\ rows' = [rows EXCEPT ![o] = [rec |-> [st |-> st, filled |-> Quantity(trades)],
                                               token |-> tok[p]]]
  BY <1>1
<1>3. IsFiniteSet(trades)
  <2>1. PICK ids : ids = [f \in trades |-> f.id]
    OBVIOUS
  <2>2. ids \in [trades -> FillIds]
    BY <2>1 DEF Fills
  <2>3. \A f, g \in trades : ids[f] = ids[g] => f = g
    BY <1>2, <2>1 DEF CompleteBatch, SameKey
  <2>4. ids \in Injection(trades, FillIds)
    BY <2>2, <2>3 DEF Injection, IsInjective
  <2> QED
    BY <2>4, LedgerAssumption, FS_Injection
<1>4. OfOrder(o) \subseteq trades /\ trades \in SUBSET {f \in Fills : f.order = o}
  BY <1>2 DEF CompleteBatch
<1> QED
  BY <1>2, <1>3, <1>4 DEF Settles

LEMMA SettleSums ==
  ASSUME SumInv, NEW p \in Procs, Settle(p)
  PROVE  /\ SumInv'
         /\ \A o \in Orders : /\ rows'[o].rec.filled >= rows[o].rec.filled
                              /\ IsTerminal(rows[o].rec) => rows'[o].rec.st = rows[o].rec.st
<1>1. PICK o \in Orders, st \in OrderStates : \E trades : Settles(p, o, trades, st)
  BY SettleIs
<1>2. PICK trades : Settles(p, o, trades, st)
  BY <1>1
<1>3. PICK q \in Nat : q = Quantity(trades)
  BY <1>2, QuantityNat DEF Settles
<1>4. /\ rows[o].rec.filled <= q /\ q <= Qty
      /\ IsTerminal(rows[o].rec) => st = rows[o].rec.st
  BY <1>2, <1>3 DEF Settles, ValidTransition
<1>5. /\ ledger' = ledger \cup trades
      /\ rows' = [rows EXCEPT ![o] = [rec |-> [st |-> st, filled |-> q], token |-> tok[p]]]
  BY <1>2, <1>3 DEF Settles
<1>6. TypeOK /\ Qty \in Nat
  BY QtyAssumption DEF SumInv, OmsFollowsLedger
<1>7. rows'[o] = [rec |-> [st |-> st, filled |-> q], token |-> tok[p]]
      /\ \A x \in Orders : x # o => rows'[x] = rows[x]
  BY <1>5, <1>6 DEF TypeOK
<1>8. rows' \in [Orders -> [rec : Records, token : 0 .. MaxTenure]]
  <2>1. [st |-> st, filled |-> q] \in Records /\ tok[p] \in 0 .. MaxTenure
    BY <1>4, <1>6 DEF Records, TypeOK
  <2> QED
    BY <1>5, <1>6, <2>1 DEF TypeOK
<1>9. UNCHANGED <<tenure, tok, pc, copy, todo>>
  BY DEF Settle
<1>10. trades \in SUBSET Fills /\ ledger \in SUBSET Fills
  BY <1>2, <1>6 DEF Settles, TypeOK
<1>11. TypeOK'
  BY <1>5, <1>6, <1>8, <1>9, <1>10 DEF TypeOK
<1>12. IsFiniteSet(ledger')
  <2>1. IsFiniteSet(ledger) /\ IsFiniteSet(trades)
    BY <1>2 DEF Settles, SumInv
  <2>2. IsFiniteSet(ledger \cup trades)
    BY <2>1, FS_Union
  <2> QED
    BY <1>5, <2>2
<1>13. OfOrder(o)' = trades
  BY <1>2, <1>5 DEF Settles, OfOrder
<1>14. \A x \in Orders : x # o => OfOrder(x)' = OfOrder(x)
  BY <1>2, <1>5 DEF Settles, OfOrder
<1>15. Recorded(o)' = q /\ \A x \in Orders : x # o => Recorded(x)' = Recorded(x)
  BY <1>3, <1>13, <1>14 DEF Recorded
<1>16. (NeverOverfilled /\ OmsIsExplained)'
  <2>1. Recorded(o)' <= Qty /\ rows'[o].rec.filled <= Recorded(o)'
    BY <1>4, <1>7, <1>15
  <2>2. \A x \in Orders : x # o => Recorded(x)' <= Qty /\ rows'[x].rec.filled <= Recorded(x)'
    BY <1>7, <1>15 DEF SumInv, OmsFollowsLedger, NeverOverfilled, OmsIsExplained
  <2> QED
    BY <2>1, <2>2 DEF NeverOverfilled, OmsIsExplained
<1>17. ASSUME NEW x \in Orders
       PROVE  /\ rows'[x].rec.filled >= rows[x].rec.filled
              /\ IsTerminal(rows[x].rec) => rows'[x].rec.st = rows[x].rec.st
  <2>0. rows[x].rec.filled \in Nat
    BY <1>6 DEF TypeOK, Records
  <2> QED
    BY <1>4, <1>7, <2>0
<1> QED
  BY <1>11, <1>12, <1>16, <1>17 DEF SumInv, OmsFollowsLedger

\* DurableExecution moves a state that is not terminal, and no quantity.
LEMMA SaveSums ==
  ASSUME SumInv, NEW p \in Procs, OrchestratorSaves(p)
  PROVE  /\ SumInv'
         /\ \A o \in Orders : /\ rows'[o].rec.filled >= rows[o].rec.filled
                              /\ IsTerminal(rows[o].rec) => rows'[o].rec.st = rows[o].rec.st
<1>1. PICK o \in Orders, ev \in OrderEvents :
        /\ Legal(rows[o].rec.st, ev)
        /\ rows' = [rows EXCEPT ![o] = [rec |-> Apply(@.rec, ev), token |-> tok[p]]]
  BY DEF OrchestratorSaves
<1>2. TypeOK /\ UNCHANGED <<tenure, tok, ledger, pc, copy, todo>>
  BY DEF OrchestratorSaves, SumInv, OmsFollowsLedger
<1>3. rows[o].rec \in Records /\ tok[p] \in 0 .. MaxTenure
  BY <1>2 DEF TypeOK
<1>4. PICK r : r = Apply(rows[o].rec, ev)
  OBVIOUS
<1>5. AfterEvent(ev) \in OrderStates
  BY DEF AfterEvent, OrderEvents, OrderStates
<1>6. r \in Records /\ r.filled = rows[o].rec.filled
  BY <1>3, <1>4, <1>5 DEF Apply, Records
<1>7. ~IsTerminal(rows[o].rec)
  BY <1>1 DEF Legal, IsTerminal, TerminalStates, OrderEvents
<1>8. rows'[o].rec = r /\ \A x \in Orders : x # o => rows'[x] = rows[x]
  BY <1>1, <1>2, <1>4 DEF TypeOK
<1>9. rows' = [rows EXCEPT ![o] = [rec |-> r, token |-> tok[p]]]
  BY <1>1, <1>4
<1>10. TypeOK'
  BY <1>2, <1>3, <1>6, <1>9 DEF TypeOK
<1>11. \A x \in Orders : Recorded(x)' = Recorded(x)
  BY <1>2 DEF Recorded, OfOrder
<1>12. \A x \in Orders : rows'[x].rec.filled = rows[x].rec.filled
  BY <1>6, <1>8
<1>13. \A x \in Orders : rows[x].rec.filled \in Nat
  BY <1>2 DEF TypeOK, Records
<1>14. SumInv'
  BY <1>2, <1>10, <1>11, <1>12 DEF SumInv, OmsFollowsLedger, NeverOverfilled, OmsIsExplained
<1>15. \A x \in Orders : rows'[x].rec.filled >= rows[x].rec.filled
  BY <1>12, <1>13
<1> QED
  BY <1>7, <1>8, <1>14, <1>15

LEMMA SumInvStep ==
  ASSUME SumInv, Next
  PROVE  /\ SumInv'
         /\ \A o \in Orders : /\ rows'[o].rec.filled >= rows[o].rec.filled
                              /\ IsTerminal(rows[o].rec) => rows'[o].rec.st = rows[o].rec.st
<1>1. ASSUME rows' = rows
      PROVE  \A o \in Orders : /\ rows'[o].rec.filled >= rows[o].rec.filled
                               /\ IsTerminal(rows[o].rec) => rows'[o].rec.st = rows[o].rec.st
  <2>1. \A o \in Orders : rows[o].rec.filled \in Nat
    BY DEF SumInv, OmsFollowsLedger, TypeOK, Records
  <2> QED
    BY <1>1, <2>1
<1> QED
  BY <1>1, ControlSums, IngestSums, SettleSums, SaveSums DEF Next

LEMMA SumInvHolds == Spec => []SumInv
<1>1. SumInv /\ UNCHANGED vars => SumInv'
  <2> SUFFICES ASSUME SumInv, UNCHANGED vars PROVE SumInv'
    OBVIOUS
  <2>1. TypeOK'
    BY DEF SumInv, OmsFollowsLedger, TypeOK, vars
  <2> QED
    BY <2>1, SumsKept DEF vars
<1> QED
  BY <1>1, SumInvInit, SumInvStep, PTL DEF Spec

\* What the OMS calls filled is covered by rows of the ledger, and the rows of an order by
\* the quantity asked for, on every path that writes either.
THEOREM LedgerBacksOms == Spec => []OmsFollowsLedger
<1>1. SumInv => OmsFollowsLedger
  BY DEF SumInv
<1> QED
  BY <1>1, SumInvHolds, PTL

\* No settlement or save takes fills back or moves an order out of a terminal state.
THEOREM FillsStay == Spec => FillsNeverShrink
<1>1. SumInv /\ [Next]_vars =>
        [\A o \in Orders :
           /\ rows'[o].rec.filled >= rows[o].rec.filled
           /\ IsTerminal(rows[o].rec) => rows'[o].rec.st = rows[o].rec.st]_vars
  BY SumInvStep
<1> QED
  BY <1>1, SumInvHolds, PTL DEF Spec, FillsNeverShrink
=============================================================================
