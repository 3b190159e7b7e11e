----------------------------- MODULE ShadowVenue -----------------------------
(***************************************************************************)
(* The in-process venue of shadow mode, as operators on its book: orders   *)
(* by client id and one instrument's position with whether an average      *)
(* entry price is known.  Quantities are integers, a long is positive.     *)
(* An order fills in full when it is submitted ("immediate") or rests      *)
(* until it is cancelled ("rest").                                         *)
(***************************************************************************)
EXTENDS Integers

EmptyBook == [orders |-> <<>>, net |-> 0, priced |-> FALSE, entries |-> 0]

Signed(side, q) == IF side = "Buy" THEN q ELSE -q

SignOf(q) == IF q > 0 THEN 1 ELSE IF q < 0 THEN -1 ELSE 0

\* apply_fill.  `quoted`: a limit or a reference price prices the fill.
AveragePriced(book, delta, quoted) ==
  LET result == book.net + delta
  IN /\ result # 0
     /\ IF quoted /\ (book.net = 0 \/ SignOf(book.net) = SignOf(delta)) THEN TRUE
        ELSE IF book.net # 0 /\ SignOf(book.net) # SignOf(result) THEN quoted
        ELSE book.priced

ApplyFill(book, side, q, quoted) ==
  LET delta == Signed(side, q)
  IN [book EXCEPT !.net = @ + delta, !.entries = @ + 1,
                  !.priced = AveragePriced(book, delta, quoted)]

\* guard_reduce_only: against the position, towards flat and not through it.
ReduceOnlyOk(book, side, q) ==
  /\ q > 0
  /\ book.net # 0
  /\ SignOf(book.net) # SignOf(Signed(side, q))
  /\ SignOf(book.net + Signed(side, q)) # SignOf(Signed(side, q))

\* Mutant: reduce-only is not looked at.
AcceptsAny(book, intent) == intent.qty > 0

Accepts(book, intent) ==
  /\ intent.qty > 0
  /\ intent.reduceOnly => ReduceOnlyOk(book, intent.side, intent.qty)

\* submit, for an intent that is accepted: a known client id is adopted.
SubmitTo(book, c, intent, mode, quoted) ==
  IF c \in DOMAIN book.orders THEN book
  ELSE LET filled == mode = "immediate"
           order == [side |-> intent.side, qty |-> intent.qty,
                     filled |-> IF filled THEN intent.qty ELSE 0,
                     st |-> IF filled THEN "Filled" ELSE "Open"]
           placed == [book EXCEPT !.orders =
                        [d \in DOMAIN @ \cup {c} |-> IF d = c THEN order ELSE @[d]]]
       IN IF filled THEN ApplyFill(placed, intent.side, intent.qty, quoted) ELSE placed

OpenOrders(book) == {c \in DOMAIN book.orders : book.orders[c].st = "Open"}

CancelAll(book) ==
  [book EXCEPT !.orders = [c \in DOMAIN @ |->
     IF @[c].st = "Open" THEN [@[c] EXCEPT !.st = "Canceled"] ELSE @[c]]]

\* inject_unmatched_order_for_test: a working order no record knows of.
InjectOrder(book, c) ==
  [book EXCEPT !.orders = [d \in DOMAIN @ \cup {c} |->
     IF d = c THEN [side |-> "Buy", qty |-> 1, filled |-> 0, st |-> "Open"] ELSE @[d]]]
=============================================================================
