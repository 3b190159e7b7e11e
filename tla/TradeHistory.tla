---------------------------- MODULE TradeHistory ----------------------------
(***************************************************************************)
(* Binance trade history as evidence: order snapshots and trade pages are  *)
(* read one by one from an anchor while the account keeps trading, decoded *)
(* and verified as a whole (fetch_verified_history), and the caller stores *)
(* the trades with the next anchor.  The adapter's fills() reads one page  *)
(* and then the orders it binds the trades to.  Every trade has quantity 1 *)
(* and a page is the set of its trade ids.                                 *)
(***************************************************************************)
EXTENDS Integers, FiniteSets, FiniteSetsExt

CONSTANTS
  Owned,        \* orders of the durable store
  Foreign,      \* orders placed by hand on the same account
  MaxTradeId,   \* bound on trade ids
  PageLimit,    \* PAGE_LIMIT
  MaxPages      \* MAX_PAGES

ASSUME HistoryAssumption ==
  /\ Owned \cap Foreign = {}
  /\ MaxTradeId \in Nat /\ PageLimit \in Nat \ {0} /\ MaxPages \in Nat \ {0}

VARIABLES
  trades,     \* what the venue executed: trade id -> order
  listed,     \* orders the venue knows
  anchor,     \* the stored cursor
  stored,     \* trade ids in the ledger
  fetch,      \* the fetch in progress: snapshots, pages and their ids so far, cursor
  result,     \* its evidence
  recent      \* fills(): its page, and the trades when it was asked

thVars == <<trades, listed, anchor, stored, fetch, result, recent>>

NoFetch == [pc |-> "none", snaps |-> <<>>, pages |-> 0, ids |-> {}, cursor |-> 0]
NoResult == [trades |-> {}, next |-> 0]
NoRecent == [pc |-> "none", page |-> {}, at |-> {}]

THInit ==
  /\ trades = <<>> /\ listed = {}
  /\ anchor = 1 /\ stored = {}
  /\ fetch = NoFetch /\ result = NoResult /\ recent = NoRecent

TradeIds == DOMAIN trades
FilledQuantity(o) == Cardinality({i \in TradeIds : trades[i] = o})

-----------------------------------------------------------------------------
(* The venue: ids grow, not always by one *)

VenueTrade(o, id) ==
  /\ \A i \in TradeIds : i < id
  /\ trades' = [i \in TradeIds \cup {id} |-> IF i = id THEN o ELSE trades[i]]
  /\ listed' = listed \cup {o}
  /\ UNCHANGED <<anchor, stored, fetch, result, recent>>

\* The page of an answer: the first trades from an id on.
Page(from) ==
  {i \in TradeIds : i >= from /\ Cardinality({j \in TradeIds : from <= j /\ j < i}) < PageLimit}

\* The newest trades, as an answer without a cursor holds them.
NewestPage == {i \in TradeIds : Cardinality({j \in TradeIds : j > i}) < PageLimit}

-----------------------------------------------------------------------------
(* fetch_verified_history *)

BeginFetch ==
  /\ fetch.pc = "none"
  /\ fetch' = [NoFetch EXCEPT !.pc = "snapshots", !.cursor = anchor]
  /\ UNCHANGED <<trades, listed, anchor, stored, result, recent>>

\* The caller reads the snapshots of its orders one by one.
TakeSnapshot(o) ==
  /\ fetch.pc = "snapshots" /\ o \notin DOMAIN fetch.snaps
  /\ LET snaps == [p \in DOMAIN fetch.snaps \cup {o} |->
                     IF p = o THEN FilledQuantity(o) ELSE fetch.snaps[p]]
     IN fetch' = [fetch EXCEPT !.snaps = snaps,
                               !.pc = IF DOMAIN snaps = Owned THEN "pages" ELSE @]
  /\ UNCHANGED <<trades, listed, anchor, stored, result, recent>>

\* Mutant: the cursor passes over one id.
SkippingCursor(page, from) == IF page = {} THEN from ELSE Max(page) + 2

\* decode_trade_page: the cursor after a page, and whether it is short.
NextFromId(page, from) == IF page = {} THEN from ELSE Max(page) + 1
ShortPage(page) == Cardinality(page) < PageLimit

\* verify_trade_history: the owners of all trades, and the quantity of every snapshot.
QuantityFrom(ids, o) == Cardinality({i \in ids : trades[i] = o})
\* Mutant: only the owners of the trades are looked at, not their quantities.
OwnersOnly(ids, snaps) == \A i \in ids : trades[i] \in DOMAIN snaps

Explains(ids, snaps) ==
  /\ \A i \in ids : trades[i] \in DOMAIN snaps
  /\ \A o \in DOMAIN snaps : QuantityFrom(ids, o) = snaps[o]

Verified(ids, snaps, next) ==
  IF Explains(ids, snaps) THEN [trades |-> ids, next |-> next] ELSE NoResult

ReadPage ==
  /\ fetch.pc = "pages"
  /\ LET page == Page(fetch.cursor)
         next == NextFromId(page, fetch.cursor)
         ids == fetch.ids \cup page
     IN IF ShortPage(page)
          THEN fetch' = NoFetch /\ result' = Verified(ids, fetch.snaps, next)
        ELSE IF fetch.pages + 1 = MaxPages
          THEN fetch' = NoFetch /\ result' = NoResult
        ELSE /\ fetch' = [fetch EXCEPT !.pages = @ + 1, !.ids = ids, !.cursor = next]
             /\ UNCHANGED result
  /\ UNCHANGED <<trades, listed, anchor, stored, recent>>

\* A transport error or a page that does not decode ends the fetch.
FetchFails ==
  /\ fetch.pc # "none"
  /\ fetch' = NoFetch /\ result' = NoResult
  /\ UNCHANGED <<trades, listed, anchor, stored, recent>>

\* The caller stores the evidence and its cursor together.
Store ==
  /\ result.next > 0 /\ fetch.pc = "none"
  /\ stored' = stored \cup result.trades
  /\ anchor' = result.next
  /\ result' = NoResult
  /\ UNCHANGED <<trades, listed, fetch, recent>>

-----------------------------------------------------------------------------
(* fills(): the newest page, then the orders *)

ReadRecent ==
  /\ recent.pc = "none"
  /\ recent' = [pc |-> "orders", page |-> NewestPage, at |-> TradeIds]
  /\ UNCHANGED <<trades, listed, anchor, stored, fetch, result>>

\* bind_trade_page: a page that is not short proves nothing, and every trade
\* needs the identity of its order.
BindTradePage(page) ==
  IF ShortPage(page) /\ \A i \in page : trades[i] \in listed THEN page ELSE {}

ReadOrders ==
  /\ recent.pc = "orders"
  /\ recent' = [recent EXCEPT !.pc = "bound", !.page = BindTradePage(@)]
  /\ UNCHANGED <<trades, listed, anchor, stored, fetch, result>>

UseFills ==
  /\ recent.pc = "bound"
  /\ recent' = NoRecent
  /\ UNCHANGED <<trades, listed, anchor, stored, fetch, result>>

THNext ==
  \/ \E o \in Owned \cup Foreign, id \in 1..MaxTradeId : VenueTrade(o, id)
  \/ BeginFetch \/ \E o \in Owned : TakeSnapshot(o)
  \/ ReadPage \/ FetchFails \/ Store
  \/ ReadRecent \/ ReadOrders \/ UseFills

THSpec == THInit /\ [][THNext]_thVars

-----------------------------------------------------------------------------
THTypeOK ==
  /\ TradeIds \subseteq 1..MaxTradeId
  /\ anchor \in 1..MaxTradeId + 1
  /\ stored \subseteq TradeIds /\ result.trades \subseteq TradeIds
  /\ fetch.pages < MaxPages

\* The stored cursor never passes a trade that is not in the ledger, whatever
\* the account traded between the snapshots and the pages.
NoTradeBehindAnchor == \A i \in TradeIds : i < anchor => i \in stored

\* Evidence covers its interval completely and is about owned orders only.
EvidenceIsComplete ==
  result.next > 0 =>
    /\ \A i \in TradeIds : i \in anchor..(result.next - 1) <=> i \in result.trades
    /\ \A i \in result.trades : trades[i] \in Owned

\* Evidence is one cut of the account: an order without fills before the anchor
\* had no fill that its snapshot did not have when the last page was read.
EvidenceIsOneCut ==
  [][result' # result /\ result'.next > 0 =>
       \A o \in Owned : o \in {trades[i] : i \in stored} \/ fetch.snaps[o] = FilledQuantity(o)]_thVars

\* The fills an adapter returns are all the fills there were when it was asked.
FillsAreAll == recent.pc = "bound" /\ recent.page # {} => recent.page = recent.at

\* The trade history loses nothing: no page, cursor or restart between them skips a trade
\* or takes one that is not the account's own.
HistorySafety == THTypeOK /\ NoTradeBehindAnchor /\ EvidenceIsComplete /\ FillsAreAll

=============================================================================
