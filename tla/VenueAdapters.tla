---------------------------- MODULE VenueAdapters ----------------------------
(***************************************************************************)
(* The execution adapters of Interactive Brokers ("IB"), Hyperliquid       *)
(* ("HL") and Binance Portfolio Margin ("BN"), and what the durable path   *)
(* makes of their answers, for one order.  A request travels to the venue  *)
(* on its own and its answer may be lost.  A lookup by client id reads     *)
(* several lists of the venue one after another while the order moves      *)
(* between them.  The process may die between any two steps.               *)
(***************************************************************************)
EXTENDS Oms, Integers, Sequences

VARIABLES
  venue,      \* which adapter
  far,        \* HL: the bounded order history does not reach the order
  order,      \* the venue's order: [st, filled]
  wire,       \* requests on their way to the venue
  call,       \* the adapter call in progress
  record,     \* the durable record: [st, filled]
  undecoded,  \* a lookup after an ambiguous submit failed to decode
  missed      \* a lookup ended empty although the venue had the order before it began

vaVars == <<venue, far, order, wire, call, record, undecoded, missed>>

Idle == [op |-> "none", pc |-> "none", lists |-> <<>>, why |-> "none", base |-> FALSE]

VAInit ==
  /\ venue \in {"IB", "HL", "BN"}
  /\ far \in IF venue = "HL" THEN BOOLEAN ELSE {FALSE}
  /\ order = [st |-> "absent", filled |-> 0]
  /\ wire = {}
  /\ call = Idle
  /\ record = FromIntent
  /\ undecoded = FALSE
  /\ missed = FALSE

AtVenue == order.st # "absent"

-----------------------------------------------------------------------------
(* What the venue's lists show, as the adapters decode them *)

Working == IF order.filled > 0 THEN "PartiallyFilled" ELSE "Open"

\* map_order_state: ApiPending and unlisted statuses are Unknown, and an
\* Inactive order without a reason counts as canceled.
IBDecoded ==
  CASE order.st = "open"     -> {Working, "Unknown"}
    [] order.st = "filled"   -> {"Filled"}
    [] order.st = "canceled" -> {"Canceled"}
    [] order.st = "refused"  -> {"Rejected", "Canceled"}

\* map_state: a status that is not listed (a trigger order) is Unknown.
HLDecoded ==
  CASE order.st = "open"     -> {Working, "Unknown"}
    [] order.st = "filled"   -> {"Filled"}
    [] order.st = "canceled" -> {"Canceled"}
    [] order.st = "refused"  -> {"Rejected"}

\* normalize_order: whatever else the venue says is an error.
BNDecoded ==
  CASE order.st = "open"     -> {Working}
    [] order.st = "filled"   -> {"Filled"}
    [] order.st = "canceled" -> {"Canceled"}
    [] order.st = "refused"  -> {"Rejected"}

Decoded == [IB |-> IBDecoded, HL |-> HLDecoded, BN |-> BNDecoded][venue]

Rows == {[st |-> d, filled |-> order.filled, requested |-> Qty] : d \in Decoded}

\* map_open_order without history knows only what is left of the order.
OpenRow == [st |-> "Open", filled |-> 0, requested |-> Qty - order.filled]

\* map_execution_proof: one of the executions, its cumulative quantity.
ExecutionProofs == {[st |-> "Unknown", filled |-> q, requested |-> q] : q \in 1..order.filled}

\* The snapshots a list may yield for the client id; none when it is not listed.
IBShown(list) ==
  CASE list = "open"       -> IF order.st = "open" THEN Rows ELSE {}
    [] list = "completed"  -> IF order.st \in {"filled", "canceled", "refused"} THEN Rows ELSE {}
    [] list = "executions" -> ExecutionProofs

HLShown(list) ==
  CASE list = "history" -> IF AtVenue /\ ~far THEN Rows ELSE {}
    [] list = "open"    -> IF order.st = "open" THEN {OpenRow} ELSE {}

BNShown == IF AtVenue THEN Rows ELSE {}

Shown(list) ==
  CASE venue = "IB" -> IBShown(list)
    [] venue = "HL" -> HLShown(list)
    [] venue = "BN" -> BNShown

\* The order in which lookup_by_client_id reads them.
IBLists == <<"open", "completed", "executions">>
HLLists == <<"history", "open">>
BNLists == <<"query">>
Lists == [IB |-> IBLists, HL |-> HLLists, BN |-> BNLists][venue]

-----------------------------------------------------------------------------
(* The durable path: what an answer does to the record *)

\* dispatch: only Unknown and Transport leave the outcome open.
Ambiguous(error) == error \in {"Unknown", "Transport"}

AfterSubmit(answer) ==
  Apply(record, IF answer = "ack" THEN "Accepted"
                ELSE IF Ambiguous(answer) THEN "LostState" ELSE "Rejected")

AfterCancelError(error) == IF Ambiguous(error) THEN Apply(record, "LostState") ELSE record

\* checked_snapshot.
Adopted(s) ==
  IF s.requested = Qty /\ ValidSnapshot(record, s) THEN ApplySnapshot(record, s) ELSE record

Return(r) ==
  /\ call' = Idle
  /\ record' = r
  /\ UNCHANGED <<venue, far, order, wire>>

Continue(c) ==
  /\ call' = c
  /\ UNCHANGED <<venue, far, order, wire, record>>

StartLookup(op, why) ==
  [op |-> op, pc |-> "read", lists |-> Lists, why |-> why, base |-> AtVenue]

Step(op, pc) == [Idle EXCEPT !.op = op, !.pc = pc]

-----------------------------------------------------------------------------
(* Lookups, for whatever reason they run *)

\* A cancel that was not confirmed counts as done when the order is over.
CancelDone(s) == s.st \in {"Canceled", "Filled"}

FoundIn(s) ==
  CASE call.why \in {"replay", "recover"}  -> Return(AfterSubmit("ack"))
    [] call.why \in {"resolve", "ambiguous"} -> Return(Adopted(s))
    [] call.why = "confirm" ->
         IF CancelDone(s) THEN Continue(StartLookup("cancel", "resolve"))
         ELSE Return(AfterCancelError("Unknown"))

\* After a cancel the absence of a record is no evidence (cancel_order).
Unresolved == record

FoundNowhere ==
  CASE call.why = "replay"    -> Continue(Step("submit", "prepare"))
    [] call.why = "recover"   -> Return(AfterSubmit("Unknown"))
    [] call.why = "ambiguous" -> Return([record EXCEPT !.st = "Unknown"])
    [] call.why = "confirm"   -> Continue(StartLookup("cancel", "resolve"))
    [] call.why = "resolve"   -> Return(Unresolved)

ReadList ==
  /\ call.pc = "read"
  /\ IF Shown(Head(call.lists)) # {}
       THEN (\E s \in Shown(Head(call.lists)) : FoundIn(s)) /\ UNCHANGED missed
       ELSE IF Len(call.lists) > 1
         THEN Continue([call EXCEPT !.lists = Tail(@)]) /\ UNCHANGED missed
         ELSE /\ venue # "BN"
              /\ FoundNowhere
              /\ missed' = (missed \/ call.base)
  /\ UNCHANGED undecoded

\* map_read_error and the row decoders; a Binance query for an order that is
\* not there is a transport error too.
ReadFails(error) ==
  /\ call.pc = "read"
  /\ CASE call.why \in {"replay", "recover"}    -> Return(AfterSubmit(error))
       [] call.why = "confirm"                  -> Return(AfterCancelError(error))
       [] call.why \in {"resolve", "ambiguous"} -> Return(record)
  /\ undecoded' = (undecoded \/ (call.why = "recover" /\ error = "Conversion"))
  /\ UNCHANGED missed

-----------------------------------------------------------------------------
(* submit *)

BeginSubmit ==
  /\ call = Idle /\ record.st = "Created"
  /\ record' = Apply(record, "SubmitRequested")
  /\ call' = IF venue = "BN" THEN Step("submit", "prepare") ELSE StartLookup("submit", "replay")
  /\ UNCHANGED <<venue, far, order, wire, undecoded, missed>>

\* build_order: the intent, and for a reduce-only order the position it reads.
IBPrepareErrors == {"Rejected", "Unsupported", "Conversion", "Transport"}
\* request_for_intent: the intent, and for a market order the mid price it reads.
HLPrepareErrors == {"Rejected", "Unsupported", "Conversion", "Transport", "Unknown"}
\* prepare_order: the intent only.
BNPrepareErrors == {"Unsupported", "Conversion"}
PrepareErrors == [IB |-> IBPrepareErrors, HL |-> HLPrepareErrors, BN |-> BNPrepareErrors][venue]

PrepareFails(error) ==
  /\ call.pc = "prepare" /\ error \in PrepareErrors
  /\ Return(AfterSubmit(error))
  /\ UNCHANGED <<undecoded, missed>>

\* The request is on its way once the client library accepted it.
Place ==
  /\ call.pc = "prepare"
  /\ wire' = wire \cup {"place"}
  /\ call' = Step("submit", "await")
  /\ UNCHANGED <<venue, far, order, record, undecoded, missed>>

\* await_submit_ack and response_oid: the first report of the order.
AckArrives ==
  /\ call.pc = "await" /\ order.st \notin {"absent", "refused"}
  /\ Return(AfterSubmit("ack"))
  /\ UNCHANGED <<undecoded, missed>>

\* A refusal of IB or HL is final.
RefusalArrives ==
  /\ call.pc = "await" /\ order.st = "refused" /\ venue # "BN"
  /\ Return(AfterSubmit("Rejected"))
  /\ UNCHANGED <<undecoded, missed>>

\* signed: a broken request, a refusal, an answer that is too long or lacks an
\* id are not told apart.
BNNoAnswer ==
  /\ call.pc = "await" /\ venue = "BN"
  /\ Return(AfterSubmit("Unknown"))
  /\ UNCHANGED <<undecoded, missed>>

\* Mutant: a lost answer is taken for a rejection.
AmbiguousAsRejected ==
  /\ call.pc = "await" /\ venue # "BN"
  /\ Return(AfterSubmit("Rejected"))
  /\ UNCHANGED <<undecoded, missed>>

\* A timeout, a broken connection or an answer without an order id.
NoAnswer ==
  /\ call.pc = "await" /\ venue # "BN"
  /\ Continue(StartLookup("submit", "recover"))
  /\ UNCHANGED <<undecoded, missed>>

-----------------------------------------------------------------------------
(* recover_ambiguous and cancel_order *)

RecoverAmbiguous ==
  /\ call = Idle /\ record.st \in AmbiguousStates
  /\ Continue(StartLookup("find", "ambiguous"))
  /\ UNCHANGED <<undecoded, missed>>

BeginCancel ==
  /\ call = Idle /\ record.st \in {"Open", "PartiallyFilled", "PendingCancel"}
  /\ record' = [record EXCEPT !.st = "PendingCancel"]
  /\ call' = Step("cancel", "send")
  /\ UNCHANGED <<venue, far, order, wire, undecoded, missed>>

\* An identifier that cannot be canceled, or for IB one that cannot be found.
CancelNotSent(error) ==
  /\ call.pc = "send" /\ (error = "Unknown" => venue = "IB")
  /\ Return(AfterCancelError(error))
  /\ UNCHANGED <<undecoded, missed>>

SendCancel ==
  /\ call.pc = "send"
  /\ wire' = wire \cup {"cancel"}
  /\ call' = Step("cancel", "awaitCancel")
  /\ UNCHANGED <<venue, far, order, record, undecoded, missed>>

\* await_cancel_ack: a notice or a status that says canceled.
IBCancelConfirmed == order.st = "canceled"
\* HL takes any answer of the venue for a confirmation.
HLCancelConfirmed == TRUE
\* cancel_order: the answer must prove that the order is over.
BNCancelConfirmed == order.st \in {"canceled", "filled"}

CancelConfirmed ==
  /\ call.pc = "awaitCancel" /\ "cancel" \notin wire
  /\ [IB |-> IBCancelConfirmed, HL |-> HLCancelConfirmed, BN |-> BNCancelConfirmed][venue]
  /\ Continue(StartLookup("cancel", "resolve"))
  /\ UNCHANGED <<undecoded, missed>>

CancelRefused ==
  /\ call.pc = "awaitCancel" /\ "cancel" \notin wire /\ venue # "BN"
  /\ Return(AfterCancelError("Rejected"))
  /\ UNCHANGED <<undecoded, missed>>

\* IB looks the order up when no confirmation comes in time.
IBCancelTimesOut ==
  /\ call.pc = "awaitCancel" /\ venue = "IB"
  /\ Continue(StartLookup("cancel", "confirm"))
  /\ UNCHANGED <<undecoded, missed>>

CancelBroken ==
  /\ call.pc = "awaitCancel"
  /\ Return(AfterCancelError("Unknown"))
  /\ UNCHANGED <<undecoded, missed>>

\* The fill ledger settles what the venue filled.
LedgerSettles ==
  /\ call = Idle /\ order.filled > record.filled
  /\ MayFill(record, order.filled - record.filled)
  /\ record' = ApplyFill(record, order.filled - record.filled)
  /\ UNCHANGED <<venue, far, order, wire, call, undecoded, missed>>

Crash ==
  /\ call # Idle
  /\ Return(record)
  /\ UNCHANGED <<undecoded, missed>>

-----------------------------------------------------------------------------
(* The venue *)

VenueStep(o, w) ==
  /\ order' = o /\ wire' = w
  /\ UNCHANGED <<venue, far, call, record, undecoded, missed>>

TakesOrder(st) == "place" \in wire /\ VenueStep([order EXCEPT !.st = st], wire \ {"place"})
LosesRequest(r) == r \in wire /\ VenueStep(order, wire \ {r})
Fills ==
  /\ order.st = "open"
  /\ VenueStep([st |-> IF order.filled + 1 = Qty THEN "filled" ELSE "open",
                filled |-> order.filled + 1], wire)
TakesCancel ==
  /\ "cancel" \in wire
  /\ VenueStep([order EXCEPT !.st = IF @ = "open" THEN "canceled" ELSE @], wire \ {"cancel"})
Expires == order.st = "open" /\ VenueStep([order EXCEPT !.st = "canceled"], wire)

VANext ==
  \/ ReadList \/ \E e \in {"Transport", "Conversion"} : ReadFails(e)
  \/ BeginSubmit \/ \E e \in PrepareErrors : PrepareFails(e)
  \/ Place \/ AckArrives \/ RefusalArrives \/ BNNoAnswer \/ NoAnswer
  \/ RecoverAmbiguous
  \/ BeginCancel \/ \E e \in {"Conversion", "Unknown"} : CancelNotSent(e)
  \/ SendCancel
  \/ CancelConfirmed \/ CancelRefused \/ IBCancelTimesOut \/ CancelBroken
  \/ LedgerSettles \/ Crash
  \/ \E st \in {"open", "refused"} : TakesOrder(st)
  \/ \E r \in {"place", "cancel"} : LosesRequest(r)
  \/ Fills \/ TakesCancel \/ Expires

VASpec == VAInit /\ [][VANext]_vaVars

-----------------------------------------------------------------------------
VATypeOK ==
  /\ record \in Records
  /\ order.st \in {"absent", "open", "filled", "canceled", "refused"}
  /\ order.filled \in 0..Qty
  /\ wire \subseteq {"place", "cancel"}
  /\ call.pc \in {"none", "read", "prepare", "await", "send", "awaitCancel"}

\* An order the record calls working or ended was taken by the venue: an
\* acknowledgement, replayed or recovered, is never invented.
WorkingIsAtVenue ==
  record.st \in {"Open", "PartiallyFilled", "PendingCancel", "Filled", "Canceled"} => AtVenue

\* A record that says Filled or Canceled tells the venue's final state and
\* fill, whatever raced with the cancel and its lookups.
TerminalIsTrue ==
  record.st \in {"Filled", "Canceled"} =>
    /\ order.st \in IF record.st = "Filled" THEN {"filled"} ELSE {"canceled", "refused"}
    /\ order.filled = record.filled

\* A submit that ends as a definite rejection left no order behind and none on
\* the way, unless the lookup after a lost answer could not be decoded.
DefiniteRejection ==
  record.st = "Rejected" /\ ~undecoded =>
    order.st \in {"absent", "refused"} /\ "place" \notin wire

\* "A lost acknowledgement is UNKNOWN, never a rejection".
RejectedIsNotLive ==
  record.st = "Rejected" => order.st \in {"absent", "refused"} /\ "place" \notin wire

\* A lookup that ends empty proves that the order was not at the venue when it
\* began, as long as the venue's history reaches it: the lists are read in the
\* direction in which an order moves through them.
EmptyLookupIsProof == ~far => ~missed

\* What an adapter reports of an order is true of the venue, for all three venues and
\* whatever is lost, late or racing.
AdapterSafety ==
  /\ VATypeOK /\ WorkingIsAtVenue /\ TerminalIsTrue /\ DefiniteRejection /\ EmptyLookupIsProof

\* A snapshot that is adopted hides no fill.
AdoptedHidesNoFill ==
  [][record' # record /\ call.why \in {"resolve", "ambiguous"} /\ record'.st # "Unknown"
       => record'.filled = order.filled]_vaVars
=============================================================================
