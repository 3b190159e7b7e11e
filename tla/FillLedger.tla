----------------------------- MODULE FillLedger -----------------------------
(***************************************************************************)
(* The immutable fill ledger of pg-store: execution_fills, its fenced      *)
(* insertion, the settlement of a complete order history, and the          *)
(* ingestion by the live daemon (ingest_owned_fills) that decides whether  *)
(* the ledger explains what the OMS believes was filled.                   *)
(*                                                                         *)
(* Nothing is assumed of the evidence a venue returns: any fill may be     *)
(* reported, again, with another quantity, for another order or under      *)
(* another account scope.  A transaction is one step: it locks the lease   *)
(* row and the order row, and an error rolls all of it back.               *)
(*                                                                         *)
(* The lease is reduced to tenures with growing tokens, which is what      *)
(* RuntimeLease shows of it without release.  A process runs one operation *)
(* at a time.                                                              *)
(***************************************************************************)
EXTENDS Oms, FiniteSets, FiniteSetsExt

CONSTANTS
  Procs,      \* daemons
  Orders,     \* client order ids with a durable, accepted record
  FillIds,    \* venue-native fill ids
  Scopes,     \* account scopes
  MaxTenure   \* bound of the model: how often the lease changes hands

ASSUME LedgerAssumption ==
  /\ MaxTenure \in Nat \ {0}
  /\ IsFiniteSet(FillIds) /\ IsFiniteSet(Scopes) /\ IsFiniteSet(Orders)

VARIABLES
  tenure,     \* fencing token of the valid lease
  tok,        \* tok[p]: token of the lease p took, 0 before it took one
  rows,       \* order_records: the record and the token of its writer
  ledger,     \* execution_fills
  pc,         \* where ingest_owned_fills of p is
  copy,       \* the records ingest_owned_fills of p was given
  todo        \* the orders it has still to compare with the ledger

vars == <<tenure, tok, rows, ledger, pc, copy, todo>>

\* ExecutionFill; own: its venue, asset, side and venue order id are those of
\* the order.
Fills == [scope : Scopes, id : FillIds, order : Orders, own : BOOLEAN, qty : 1..Qty]

\* The primary key of execution_fills; all orders are of one venue and symbol.
SameKey(f, g) == f.scope = g.scope /\ f.id = g.id

OfOrder(o) == {f \in ledger : f.order = o}

Quantity(fills) == MapThenSumSet(LAMBDA f : f.qty, fills)

\* recorded_fill_quantity.
Recorded(o) == Quantity(OfOrder(o))

TypeOK ==
  /\ tenure \in 1..MaxTenure
  /\ tok \in [Procs -> 0..MaxTenure]
  /\ rows \in [Orders -> [rec : Records, token : 0..MaxTenure]]
  /\ ledger \subseteq Fills
  /\ pc \in [Procs -> {"idle", "ingest", "check", "ok", "failed"}]
  /\ copy \in [Procs -> [Orders -> Records]]
  /\ todo \in [Procs -> SUBSET Orders]

Init ==
  /\ tenure = 1
  /\ \E p \in Procs : tok = [q \in Procs |-> IF q = p THEN 1 ELSE 0]
  /\ rows = [o \in Orders |-> [rec |-> [st |-> "Open", filled |-> 0], token |-> 1]]
  /\ ledger = {}
  /\ pc = [p \in Procs |-> "idle"]
  /\ copy = [p \in Procs |-> [o \in Orders |-> FromIntent]]
  /\ todo = [p \in Procs |-> {}]

-----------------------------------------------------------------------------
\* The lease row read FOR UPDATE inside the transaction, and assert_lease.
Holds(p) == tok[p] = tenure

\* ExecutionFill::belongs_to.
BelongsTo(f) == f.own /\ f.qty <= Qty

\* insert_execution_fill finds the same evidence and returns Duplicate.
IsReplay(p, f) == Holds(p) /\ BelongsTo(f) /\ f \in ledger

\* Mutant: the fills of an order need not be of one account.
MayInsertAnyScope(p, f) ==
  /\ Holds(p)
  /\ BelongsTo(f)
  /\ \A g \in ledger : ~SameKey(f, g)
  /\ Recorded(f.order) + f.qty <= Qty

\* insert_execution_fill returns Inserted: the key is new, the fills of the
\* order are all of one account, and their sum stays within the request.
MayInsert(p, f) ==
  /\ Holds(p)
  /\ BelongsTo(f)
  /\ \A g \in ledger : ~SameKey(f, g)
  /\ \A g \in OfOrder(f.order) : g.scope = f.scope
  /\ Recorded(f.order) + f.qty <= Qty

\* Mutant: an id reported again replaces its row.
InsertReplaces(f) == ledger' = {g \in ledger : g.id # f.id} \cup {f}

\* The transaction of insert_execution_fill, on success.
Insert(f) == ledger' = ledger \cup {f}

-----------------------------------------------------------------------------
(***************************************************************************)
(* ingest_owned_fills.                                                     *)
(***************************************************************************)
\* The caller passes the records its reconcile cycle returned.
BeginIngest(p) ==
  /\ pc[p] = "idle"
  /\ tok[p] # 0
  /\ pc' = [pc EXCEPT ![p] = "ingest"]
  /\ copy' = [copy EXCEPT ![p] = [o \in Orders |-> rows[o].rec]]
  /\ UNCHANGED <<tenure, tok, rows, ledger, todo>>

\* One piece of evidence that names an owned order; one that names none is
\* skipped and changes nothing.
IngestFill(p) ==
  /\ pc[p] = "ingest"
  /\ \E f \in Fills :
       /\ MayInsert(p, f) \/ IsReplay(p, f)
       /\ Insert(f)
  /\ UNCHANGED <<tenure, tok, rows, pc, copy, todo>>

\* The history call fails, the evidence conflicts with the durable order or
\* with stored evidence, or the lease is gone.
IngestFails(p) ==
  /\ pc[p] = "ingest"
  /\ pc' = [pc EXCEPT ![p] = "failed"]
  /\ UNCHANGED <<tenure, tok, rows, ledger, copy, todo>>

\* The evidence is exhausted; orders the OMS believes filled are compared.
EvidenceEnds(p) ==
  /\ pc[p] = "ingest"
  /\ pc' = [pc EXCEPT ![p] = "check"]
  /\ todo' = [todo EXCEPT ![p] = {o \in Orders : copy[p][o].filled > 0}]
  /\ UNCHANGED <<tenure, tok, rows, ledger, copy>>

\* Mutant: a ledger with more than the OMS passes.
ExplainsAtLeast(p, o) == Recorded(o) >= copy[p][o].filled

\* recorded != order.filled_quantity.
Explains(p, o) == Recorded(o) = copy[p][o].filled

CheckOrder(p) ==
  /\ pc[p] = "check"
  /\ \E o \in todo[p] :
       \/ /\ Holds(p)
          /\ Explains(p, o)
          /\ todo' = [todo EXCEPT ![p] = @ \ {o}]
          /\ UNCHANGED pc
       \/ /\ ~Holds(p) \/ ~Explains(p, o)
          /\ pc' = [pc EXCEPT ![p] = "failed"]
          /\ UNCHANGED todo
  /\ UNCHANGED <<tenure, tok, rows, ledger, copy>>

IngestReturns(p) ==
  /\ pc[p] = "check"
  /\ todo[p] = {}
  /\ pc' = [pc EXCEPT ![p] = "ok"]
  /\ UNCHANGED <<tenure, tok, rows, ledger, copy, todo>>

\* The reconcile tick ends, with or without freezing new exposure.
TickEnds(p) ==
  /\ pc[p] \in {"ok", "failed"}
  /\ pc' = [pc EXCEPT ![p] = "idle"]
  /\ todo' = [todo EXCEPT ![p] = {}]
  /\ copy' = [copy EXCEPT ![p] = [o \in Orders |-> FromIntent]]
  /\ UNCHANGED <<tenure, tok, rows, ledger>>

-----------------------------------------------------------------------------
(***************************************************************************)
(* settle_complete_order_history.                                          *)
(***************************************************************************)
\* Mutant: a terminal order may be moved on.
ValidTransitionReopens(r, st, q) ==
  /\ r.filled <= q /\ q <= Qty
  /\ r.st # "Created"
  /\ CASE st = "Open" -> q = 0
       [] st = "PartiallyFilled" -> 0 < q /\ q < Qty
       [] st = "Filled" -> q = Qty
       [] st = "Canceled" -> TRUE
       [] st = "Rejected" -> q = 0
       [] OTHER -> FALSE

\* validate_transition, for an owned order with its venue order id.
ValidTransition(r, st, q) ==
  /\ r.filled <= q /\ q <= Qty
  /\ r.st # "Created"
  /\ IsTerminal(r) => st = r.st
  /\ CASE st = "Open" -> q = 0
       [] st = "PartiallyFilled" -> 0 < q /\ q < Qty
       [] st = "Filled" -> q = Qty
       [] st = "Canceled" -> TRUE
       [] st = "Rejected" -> q = 0
       [] OTHER -> FALSE

\* The batch is one account's, has no id twice, contains every row stored for
\* the order unchanged, and collides with no row of another order.
CompleteBatch(o, trades) ==
  /\ \A f \in trades : BelongsTo(f)
  /\ \A f, g \in trades : SameKey(f, g) => f = g
  /\ OfOrder(o) \subseteq trades
  /\ \A f \in trades \ ledger, g \in ledger : ~SameKey(f, g)

\* Mutant: the order row is updated without the fills.
SettleOmsOnly(p) ==
  /\ pc[p] = "idle"
  /\ Holds(p)
  /\ \E o \in Orders, s \in Scopes :
     \E trades \in SUBSET {f \in Fills : f.order = o /\ f.scope = s} :
       /\ CompleteBatch(o, trades)
       /\ rows[o].token <= tok[p]
       /\ \E st \in OrderStates :
            /\ ValidTransition(rows[o].rec, st, Quantity(trades))
            /\ rows' = [rows EXCEPT ![o] =
                          [rec |-> [st |-> st, filled |-> Quantity(trades)],
                           token |-> tok[p]]]
  /\ UNCHANGED <<tenure, tok, ledger, pc, copy, todo>>

\* The update of the order row is fenced by its token once more.
Settle(p) ==
  /\ pc[p] = "idle"
  /\ Holds(p)
  /\ \E o \in Orders, s \in Scopes :
     \E trades \in SUBSET {f \in Fills : f.order = o /\ f.scope = s} :
       /\ CompleteBatch(o, trades)
       /\ rows[o].token <= tok[p]
       /\ \E st \in OrderStates :
            /\ ValidTransition(rows[o].rec, st, Quantity(trades))
            /\ ledger' = ledger \cup trades
            /\ rows' = [rows EXCEPT ![o] =
                          [rec |-> [st |-> st, filled |-> Quantity(trades)],
                           token |-> tok[p]]]
  /\ UNCHANGED <<tenure, tok, pc, copy, todo>>

-----------------------------------------------------------------------------
\* DurableExecution moves the state of a record and saves it under its token;
\* it never moves the cumulative fill.
OrchestratorSaves(p) ==
  /\ pc[p] = "idle"
  /\ tok[p] # 0
  /\ \E o \in Orders, ev \in OrderEvents :
       /\ rows[o].token <= tok[p]
       /\ Legal(rows[o].rec.st, ev)
       /\ rows' = [rows EXCEPT ![o] = [rec |-> Apply(@.rec, ev), token |-> tok[p]]]
  /\ UNCHANGED <<tenure, tok, ledger, pc, copy, todo>>

\* The lease expires and another instance, or the same one restarted, takes it.
TakeOver(p) ==
  /\ tenure < MaxTenure
  /\ tenure' = tenure + 1
  /\ tok' = [tok EXCEPT ![p] = tenure + 1]
  /\ pc' = [pc EXCEPT ![p] = "idle"]
  /\ todo' = [todo EXCEPT ![p] = {}]
  /\ copy' = [copy EXCEPT ![p] = [o \in Orders |-> FromIntent]]
  /\ UNCHANGED <<rows, ledger>>

Next == \E p \in Procs :
  \/ BeginIngest(p) \/ IngestFill(p) \/ IngestFails(p) \/ EvidenceEnds(p)
  \/ CheckOrder(p) \/ IngestReturns(p) \/ TickEnds(p)
  \/ Settle(p) \/ OrchestratorSaves(p) \/ TakeOver(p)

Spec == Init /\ [][Next]_vars

-----------------------------------------------------------------------------
(***************************************************************************)
(* Properties.                                                             *)
(***************************************************************************)
\* Whatever evidence arrives, on whichever path, the fills recorded for an
\* order never exceed what was requested (the sum check of
\* insert_execution_fill, the batch check of the settlement).
NeverOverfilled == \A o \in Orders : Recorded(o) <= Qty

\* A trade is counted once: no two rows of an order have the same venue fill
\* id, even if the venue reported it under two account scopes, and no two
\* rows share a primary key (the lookups of insert_execution_fill and
\* settle_complete_order_history).
OneRowPerTrade ==
  \A f, g \in ledger :
    SameKey(f, g) \/ (f.order = g.order /\ f.id = g.id) => f = g

\* Stored evidence is never replaced or removed, whatever is reported later.
LedgerImmutable == [][ledger \subseteq ledger']_vars

\* The OMS never claims more than the ledger can show: a settled quantity is
\* backed by rows, and stays so while further fills are ingested.
OmsIsExplained == \A o \in Orders : rows[o].rec.filled <= Recorded(o)

\* Between them: what the OMS calls filled is covered by rows, and the rows of an order by
\* its quantity, on every path that writes either.
OmsFollowsLedger == TypeOK /\ NeverOverfilled /\ OmsIsExplained

\* No settlement or save takes fills back from an order or moves it out of a
\* terminal state (validate_transition).
FillsNeverShrink ==
  [][\A o \in Orders :
       /\ rows'[o].rec.filled >= rows[o].rec.filled
       /\ IsTerminal(rows[o].rec) => rows'[o].rec.st = rows[o].rec.st]_vars

\* When ingest_owned_fills returns Ok to a process that still holds the lease,
\* each order its records call filled is explained exactly by the ledger,
\* although rows were inserted and read in separate transactions.
CleanIngest ==
  \A p \in Procs : pc[p] = "ok" /\ Holds(p) =>
    \A o \in Orders : copy[p][o].filled > 0 => Recorded(o) = copy[p][o].filled

\* What the acceptance matrix says of a replay of the ledger: its quantity
\* equals the one of the OMS, for every order.
LedgerEqualsOms ==
  \A p \in Procs : pc[p] = "ok" /\ Holds(p) =>
    \A o \in Orders : Recorded(o) = copy[p][o].filled
=============================================================================
