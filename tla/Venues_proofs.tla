--------------------------- MODULE Venues_proofs ---------------------------
(***************************************************************************)
(* What the venue side promises, for every number of orders, instruments,  *)
(* client ids, events and starts: an adapter never reports an outcome the  *)
(* venue contradicts, the connections per IBKR instrument cover every open *)
(* order they were trusted with, the private stream loses no event without *)
(* the reconciliation that makes up for it, and the trade history skips no *)
(* trade.  One inductive invariant per component, each in the section of   *)
(* its component.                                                          *)
(***************************************************************************)
EXTENDS MCVenues, FiniteSums, FiniteSetTheorems, TLAPS

-----------------------------------------------------------------------------
(* The execution adapters *)

FinalOrder == {"filled", "canceled", "refused"}

\* The order as the venue can have it: it has fills only while or after it was open, and
\* it is filled exactly when nothing is left.
OrderInv ==
  /\ venue \in {"IB", "HL", "BN"} /\ far \in BOOLEAN
  /\ order = [st |-> order.st, filled |-> order.filled]
  /\ order.st \in {"absent", "open"} \cup FinalOrder
  /\ order.filled \in 0..Qty
  /\ order.st \in {"absent", "refused"} => order.filled = 0
  /\ order.filled = Qty <=> order.st = "filled"
  /\ wire \subseteq {"place", "cancel"}
  /\ undecoded \in BOOLEAN /\ missed \in BOOLEAN

Steps == {<<"submit", "prepare">>, <<"submit", "await">>, <<"cancel", "send">>,
          <<"cancel", "awaitCancel">>}
Reasons == {<<"submit", "replay">>, <<"submit", "recover">>, <<"find", "ambiguous">>,
            <<"cancel", "resolve">>, <<"cancel", "confirm">>}

\* What may be left of a lookup's lists.
SuffixesOf(v) ==
  CASE v = "IB" -> {<<"open", "completed", "executions">>, <<"completed", "executions">>,
                    <<"executions">>}
    [] v = "HL" -> {<<"history", "open">>, <<"open">>}
    [] v = "BN" -> {<<"query">>}

\* The call: idle, between two steps of a request, or in a lookup.
CallInv ==
  \/ call = Idle
  \/ \E s \in Steps : call = Step(s[1], s[2])
  \/ \E r \in Reasons, ls \in SuffixesOf(venue), b \in BOOLEAN :
       call = [op |-> r[1], pc |-> "read", lists |-> ls, why |-> r[2], base |-> b]

\* The record during a call.
CallRecord ==
  /\ record \in Records
  /\ call.op = "submit" => record.st = "PendingSubmit"
  /\ call.op = "find" => record.st \in AmbiguousStates
  /\ call.op = "cancel" => record.st = "PendingCancel"

\* The request of an order is sent once, and before it is sent there is no order.
NotSentYet == record.st = "Created" \/ call.pc = "prepare" \/ call.why = "replay"

SentOnce ==
  /\ "place" \in wire => order.st = "absent"
  /\ NotSentYet => order.st = "absent" /\ "place" \notin wire
  /\ record.st = "Rejected" /\ ~undecoded =>
       order.st \in {"absent", "refused"} /\ "place" \notin wire

\* Where an order that was at the venue when a lookup began must still be listed.
StillListed ==
  call.pc = "read" /\ call.base =>
    /\ AtVenue
    /\ call.lists = <<"completed", "executions">> => order.st \in FinalOrder
    /\ call.lists # <<"executions">>
    /\ venue = "HL" /\ ~far => call.lists # <<"open">>

VAInv ==
  /\ OrderInv /\ CallInv /\ CallRecord /\ SentOnce /\ StillListed
  /\ WorkingIsAtVenue /\ TerminalIsTrue /\ EmptyLookupIsProof

LEMMA VAInvInit == VAInit => VAInv
<1> SUFFICES ASSUME VAInit PROVE VAInv
  OBVIOUS
<1> USE QtyAssumption
<1>1. OrderInv
  <2>1. venue \in {"IB", "HL", "BN"} /\ far \in BOOLEAN
    BY DEF VAInit
  <2>2. order = [st |-> "absent", filled |-> 0] /\ wire = {}
    BY DEF VAInit
  <2>3. undecoded \in BOOLEAN /\ missed \in BOOLEAN
    BY DEF VAInit
  <2> QED
    BY <2>1, <2>2, <2>3 DEF OrderInv, FinalOrder
<1>2. CallInv
  BY DEF VAInit, CallInv
<1>3. CallRecord /\ SentOnce /\ StillListed
  BY DEF VAInit, CallRecord, SentOnce, NotSentYet, StillListed, Idle, FromIntent, Records,
         OrderStates
<1>4. WorkingIsAtVenue /\ TerminalIsTrue /\ EmptyLookupIsProof
  BY DEF VAInit, WorkingIsAtVenue, TerminalIsTrue, EmptyLookupIsProof, FromIntent
<1> QED
  BY <1>1, <1>2, <1>3, <1>4 DEF VAInv

\* The lists of a lookup that goes on.
LEMMA Continues ==
  ASSUME VAInv, call.pc = "read"
  PROVE  /\ call.lists \in SuffixesOf(venue)
         /\ call.base \in BOOLEAN
         /\ <<call.op, call.why>> \in Reasons
         /\ call = [op |-> call.op, pc |-> "read", lists |-> call.lists, why |-> call.why,
                    base |-> call.base]
<1>1. PICK r \in Reasons, ls \in SuffixesOf(venue), b \in BOOLEAN :
        call = [op |-> r[1], pc |-> "read", lists |-> ls, why |-> r[2], base |-> b]
  <2>1. call # Idle
    BY DEF Idle
  <2>2. ASSUME NEW t \in Steps, call = Step(t[1], t[2]) PROVE FALSE
    BY <2>2 DEF Steps, Step, Idle
  <2> QED
    BY <2>1, <2>2 DEF VAInv, CallInv
<1>2. call.op = r[1] /\ call.why = r[2] /\ call.lists = ls /\ call.base = b
  BY <1>1
<1>3. <<r[1], r[2]>> = r
  BY DEF Reasons
<1> QED
  BY <1>1, <1>2, <1>3

\* The step a call is in tells its operation.
LEMMA StepOfCall ==
  ASSUME VAInv
  PROVE  /\ call.pc \in {"none", "read", "prepare", "await", "send", "awaitCancel"}
         /\ call.pc \in {"prepare", "await"} => call.op = "submit"
         /\ call.pc \in {"send", "awaitCancel"} => call.op = "cancel"
<1>1. CASE call = Idle
  BY <1>1 DEF Idle
<1>2. ASSUME NEW t \in Steps, call = Step(t[1], t[2])
      PROVE  <<call.op, call.pc>> \in Steps
  <2>1. call.op = t[1] /\ call.pc = t[2]
    BY <1>2 DEF Step, Idle
  <2> QED
    BY <2>1 DEF Steps
<1>3. <<call.op, call.pc>> \in Steps =>
        /\ call.pc \in {"prepare", "await", "send", "awaitCancel"}
        /\ call.pc \in {"prepare", "await"} => call.op = "submit"
        /\ call.pc \in {"send", "awaitCancel"} => call.op = "cancel"
  BY DEF Steps
<1> QED
  BY <1>1, <1>2, <1>3 DEF VAInv, CallInv

\* What a list shows of an order is true of it, up to what the decoders cannot tell.
LEMMA ShownIsTrue ==
  ASSUME OrderInv, call.lists \in SuffixesOf(venue),
         NEW s \in Shown(Head(call.lists))
  PROVE  /\ AtVenue
         /\ s.requested = Qty /\ s.st # "Unknown" =>
              /\ s.st \in SnapshotStates
              /\ s.filled = order.filled
              /\ s.st = "Filled" => order.st = "filled"
              /\ s.st = "Canceled" => order.st \in {"canceled", "refused"}
              /\ s.st = "Rejected" => order.st = "refused"
<1> USE QtyAssumption
<1>1. ASSUME s \in Rows, order.st \in {"open"} \cup FinalOrder
      PROVE  /\ s.filled = order.filled
             /\ s.st \in SnapshotStates
             /\ s.st = "Filled" => order.st = "filled"
             /\ s.st = "Canceled" => order.st \in {"canceled", "refused"}
             /\ s.st = "Rejected" => order.st = "refused"
  <2>1. s.filled = order.filled /\ s.st \in Decoded
    BY <1>1 DEF Rows
  <2>2. CASE venue = "IB"
    <3>1. s.st \in IBDecoded
      BY <2>1, <2>2 DEF Decoded
    <3> QED
      BY <1>1, <2>1, <3>1 DEF IBDecoded, Working, FinalOrder, SnapshotStates
  <2>3. CASE venue = "HL"
    <3>1. s.st \in HLDecoded
      BY <2>1, <2>3 DEF Decoded
    <3> QED
      BY <1>1, <2>1, <3>1 DEF HLDecoded, Working, FinalOrder, SnapshotStates
  <2>4. CASE venue = "BN"
    <3>1. s.st \in BNDecoded
      BY <2>1, <2>4 DEF Decoded
    <3> QED
      BY <1>1, <2>1, <3>1 DEF BNDecoded, Working, FinalOrder, SnapshotStates
  <2> QED
    BY <2>2, <2>3, <2>4 DEF OrderInv
<1>2. CASE venue = "IB"
  <2>1. s \in IBShown(Head(call.lists))
    BY <1>2 DEF Shown
  <2>2. Head(call.lists) \in {"open", "completed", "executions"}
    BY <1>2 DEF SuffixesOf
  <2>3. CASE Head(call.lists) = "open"
    BY <1>1, <2>1, <2>3 DEF IBShown, AtVenue, FinalOrder
  <2>4. CASE Head(call.lists) = "completed"
    BY <1>1, <2>1, <2>4 DEF IBShown, AtVenue, FinalOrder
  <2>5. CASE Head(call.lists) = "executions"
    <3>1. s \in ExecutionProofs
      BY <2>1, <2>5 DEF IBShown
    <3> QED
      BY <3>1 DEF ExecutionProofs, AtVenue, OrderInv
  <2> QED
    BY <2>2, <2>3, <2>4, <2>5
<1>3. CASE venue = "HL"
  <2>1. s \in HLShown(Head(call.lists))
    BY <1>3 DEF Shown
  <2>2. Head(call.lists) \in {"history", "open"}
    BY <1>3 DEF SuffixesOf
  <2>3. CASE Head(call.lists) = "history"
    BY <1>1, <2>1, <2>3 DEF HLShown, AtVenue, FinalOrder, OrderInv
  <2>4. CASE Head(call.lists) = "open"
    BY <2>1, <2>4 DEF HLShown, AtVenue, OpenRow, OrderInv, SnapshotStates
  <2> QED
    BY <2>2, <2>3, <2>4
<1>4. CASE venue = "BN"
  <2>1. s \in BNShown
    BY <1>4 DEF Shown
  <2> QED
    BY <1>1, <2>1 DEF BNShown, AtVenue, FinalOrder, OrderInv
<1> QED
  BY <1>2, <1>3, <1>4 DEF OrderInv

-----------------------------------------------------------------------------
\* A record that says nothing untrue of the order.
Truthful(r) ==
  /\ r \in Records /\ r.st # "Created"
  /\ r.st \in {"Open", "PartiallyFilled", "PendingCancel", "Filled", "Canceled"} => AtVenue
  /\ r.st \in {"Filled", "Canceled"} =>
       /\ order.st \in IF r.st = "Filled" THEN {"filled"} ELSE {"canceled", "refused"}
       /\ order.filled = r.filled

NoOrderLives == order.st \in {"absent", "refused"} /\ "place" \notin wire

\* A call ends with a true record.
LEMMA ReturnKeeps ==
  ASSUME VAInv, NEW r, Return(r), Truthful(r),
         r.st = "Rejected" => undecoded' \/ NoOrderLives,
         undecoded' \in BOOLEAN, missed' \in BOOLEAN, ~far => ~missed'
  PROVE  VAInv'
<1> USE DEF Return
<1>1. OrderInv'
  BY DEF VAInv, OrderInv
<1>2. CallInv'
  BY DEF CallInv
<1>3. CallRecord'
  BY DEF CallRecord, Truthful, Idle
<1>4. ~NotSentYet'
  BY DEF NotSentYet, Truthful, Idle
<1>5. SentOnce'
  BY <1>4 DEF VAInv, SentOnce, NoOrderLives
<1>6. StillListed'
  BY DEF StillListed, Idle
<1>7. WorkingIsAtVenue' /\ TerminalIsTrue' /\ EmptyLookupIsProof'
  BY DEF Truthful, WorkingIsAtVenue, TerminalIsTrue, EmptyLookupIsProof, AtVenue
<1> QED
  BY <1>1, <1>2, <1>3, <1>5, <1>6, <1>7 DEF VAInv

\* A lookup begins.
LEMMA LookupKeeps ==
  ASSUME VAInv, NEW op, NEW why, <<op, why>> \in Reasons, why # "replay",
         Continue(StartLookup(op, why)), UNCHANGED <<undecoded>>, missed' \in BOOLEAN, ~far => ~missed',
         op = "submit" => record.st = "PendingSubmit",
         op = "find" => record.st \in AmbiguousStates,
         op = "cancel" => record.st = "PendingCancel"
  PROVE  VAInv'
<1> USE DEF Continue
<1>1. OrderInv'
  BY DEF VAInv, OrderInv
<1>2. call' = [op |-> op, pc |-> "read", lists |-> Lists, why |-> why, base |-> AtVenue]
  BY DEF StartLookup
<1>3. Lists \in SuffixesOf(venue) /\ Lists # <<"completed", "executions">>
      /\ Lists # <<"executions">> /\ Lists # <<"open">>
  <2>1. CASE venue = "IB"
    BY <2>1 DEF Lists, IBLists, SuffixesOf
  <2>2. CASE venue = "HL"
    BY <2>2 DEF Lists, HLLists, SuffixesOf
  <2>3. CASE venue = "BN"
    BY <2>3 DEF Lists, BNLists, SuffixesOf
  <2> QED
    BY <2>1, <2>2, <2>3 DEF VAInv, OrderInv
<1>4. CallInv'
  <2>1. <<op, why>>[1] = op /\ <<op, why>>[2] = why
    OBVIOUS
  <2>2. AtVenue \in BOOLEAN
    BY DEF AtVenue
  <2> QED
    BY <1>2, <1>3, <2>1, <2>2 DEF CallInv
<1>5. CallRecord'
  BY <1>2 DEF CallRecord, VAInv
<1>6. SentOnce'
  <2>1. NotSentYet' => NotSentYet
    BY <1>2 DEF NotSentYet
  <2> QED
    BY <2>1 DEF VAInv, SentOnce
<1>7. StillListed'
  <2>1. call'.base = AtVenue /\ call'.lists = Lists /\ AtVenue' = AtVenue
    BY <1>2 DEF AtVenue
  <2> QED
    BY <1>3, <2>1 DEF StillListed
<1>8. WorkingIsAtVenue' /\ TerminalIsTrue' /\ EmptyLookupIsProof'
  BY DEF VAInv, WorkingIsAtVenue, TerminalIsTrue, EmptyLookupIsProof, AtVenue
<1> QED
  BY <1>1, <1>4, <1>5, <1>6, <1>7, <1>8 DEF VAInv

\* A call goes on to its next request, or sends it.
LEMMA StepKeeps ==
  ASSUME VAInv, NEW op, NEW pc, <<op, pc>> \in Steps, call' = Step(op, pc),
         UNCHANGED <<venue, far, order, undecoded>>,
         missed' \in BOOLEAN, ~far => ~missed',
         record' \in Records,
         op = "submit" => record'.st = "PendingSubmit" /\ UNCHANGED record,
         op = "cancel" => record'.st = "PendingCancel" /\ AtVenue,
         wire' \subseteq wire \cup {"cancel", "place"},
         "place" \in wire' => "place" \in wire \/ order.st = "absent",
         pc = "prepare" => order.st = "absent" /\ "place" \notin wire'
  PROVE  VAInv'
<1>1. OrderInv'
  BY DEF VAInv, OrderInv
<1>2. call' = [op |-> op, pc |-> pc, lists |-> <<>>, why |-> "none", base |-> FALSE]
  BY DEF Step, Idle
<1>3. op \in {"submit", "cancel"} /\ pc # "read" /\ record'.st \in {"PendingSubmit", "PendingCancel"}
  BY DEF Steps
<1>4. CallInv'
  BY DEF CallInv
<1>5. CallRecord'
  BY <1>2, <1>3 DEF CallRecord
<1>6. SentOnce'
  BY <1>2, <1>3 DEF VAInv, SentOnce, NotSentYet
<1>7. StillListed'
  BY <1>2, <1>3 DEF StillListed
<1>8. WorkingIsAtVenue' /\ TerminalIsTrue' /\ EmptyLookupIsProof'
  BY <1>3 DEF VAInv, WorkingIsAtVenue, TerminalIsTrue, EmptyLookupIsProof, AtVenue
<1> QED
  BY <1>1, <1>4, <1>5, <1>6, <1>7, <1>8 DEF VAInv

\* What an answer to a submit makes of the record.
LEMMA SubmitAnswers ==
  ASSUME VAInv, NEW a, a = "ack" => AtVenue
  PROVE  /\ Truthful(AfterSubmit(a))
         /\ AfterSubmit(a).st = "Rejected" <=> a # "ack" /\ ~Ambiguous(a)
<1>1. record \in Records
  BY DEF VAInv, CallRecord
<1>2. CASE a = "ack"
  <2>1. AfterSubmit(a) = [record EXCEPT !.st = "Open"]
    BY <1>2 DEF AfterSubmit, Apply, AfterEvent
  <2> QED
    BY <1>1, <1>2, <2>1 DEF Truthful, Records, OrderStates
<1>3. CASE a # "ack" /\ Ambiguous(a)
  <2>1. AfterSubmit(a) = [record EXCEPT !.st = "Unknown"]
    BY <1>3 DEF AfterSubmit, Apply, AfterEvent
  <2> QED
    BY <1>1, <1>3, <2>1 DEF Truthful, Records, OrderStates
<1>4. CASE a # "ack" /\ ~Ambiguous(a)
  <2>1. AfterSubmit(a) = [record EXCEPT !.st = "Rejected"]
    BY <1>4 DEF AfterSubmit, Apply, AfterEvent
  <2> QED
    BY <1>1, <1>4, <2>1 DEF Truthful, Records, OrderStates
<1> QED
  BY <1>2, <1>3, <1>4

\* The record during a call is true as it stands.
LEMMA RecordIsTruthful ==
  ASSUME VAInv, record.st # "Created"
  PROVE  Truthful(record)
BY DEF VAInv, Truthful, CallRecord, WorkingIsAtVenue, TerminalIsTrue

LEMMA CancelErrors ==
  ASSUME VAInv, call.op = "cancel", NEW e
  PROVE  Truthful(AfterCancelError(e)) /\ AfterCancelError(e).st # "Rejected"
<1>1. record \in Records /\ record.st = "PendingCancel"
  BY DEF VAInv, CallRecord
<1>2. CASE Ambiguous(e)
  <2>1. AfterCancelError(e) = [record EXCEPT !.st = "Unknown"]
    BY <1>2 DEF AfterCancelError, Apply, AfterEvent
  <2> QED
    BY <1>1, <2>1 DEF Truthful, Records, OrderStates
<1>3. CASE ~Ambiguous(e)
  BY <1>1, <1>3, RecordIsTruthful DEF AfterCancelError
<1> QED
  BY <1>2, <1>3

LEMMA AdoptedIsTrue ==
  ASSUME VAInv, call.pc = "read", record.st # "Created",
         NEW s \in Shown(Head(call.lists))
  PROVE  /\ Truthful(Adopted(s))
         /\ Adopted(s).st = "Rejected" =>
              order.st = "refused" \/ Adopted(s) = record
         /\ Adopted(s) # record => Adopted(s).filled = order.filled
<1>1. CASE s.requested = Qty /\ ValidSnapshot(record, s)
  <2>1. Adopted(s) = [st |-> s.st, filled |-> s.filled]
    BY <1>1 DEF Adopted, ApplySnapshot
  <2>2. s.filled = record.filled /\ s.st # "Unknown" /\ s.requested = Qty
    BY <1>1 DEF ValidSnapshot
  <2>3. record \in Records
    BY DEF VAInv, CallRecord
  <2>4. s.st \in OrderStates \ {"Created"}
    BY <2>2, ShownIsTrue, Continues DEF VAInv, SnapshotStates, OrderStates
  <2>5. /\ AtVenue /\ s.filled = order.filled
        /\ s.st = "Filled" => order.st = "filled"
        /\ s.st = "Canceled" => order.st \in {"canceled", "refused"}
        /\ s.st = "Rejected" => order.st = "refused"
    BY <2>2, ShownIsTrue, Continues DEF VAInv
  <2>6. Adopted(s) \in Records
    BY <2>1, <2>2, <2>3, <2>4 DEF Records
  <2>7. Adopted(s).st = s.st /\ Adopted(s).filled = order.filled
    BY <2>1, <2>5
  <2> QED
    BY <2>4, <2>5, <2>6, <2>7 DEF Truthful
<1>2. CASE ~(s.requested = Qty /\ ValidSnapshot(record, s))
  BY <1>2, RecordIsTruthful DEF Adopted
<1> QED
  BY <1>1, <1>2

-----------------------------------------------------------------------------
\* One list of a lookup is read.
LEMMA ReadListKeeps ==
  ASSUME VAInv, ReadList
  PROVE  VAInv'
<1>1. /\ call.pc = "read" /\ call.lists \in SuffixesOf(venue) /\ <<call.op, call.why>> \in Reasons
      /\ call.base \in BOOLEAN /\ UNCHANGED undecoded
      /\ undecoded \in BOOLEAN /\ missed \in BOOLEAN
  BY Continues DEF ReadList, VAInv, OrderInv
<1>2. record.st # "Created" /\ record.st # "Rejected" /\ record \in Records
  BY <1>1 DEF VAInv, CallRecord, Reasons, AmbiguousStates
<1>3. ASSUME NEW s \in Shown(Head(call.lists)), FoundIn(s), UNCHANGED missed
      PROVE  VAInv'
  <2>1. AtVenue
    BY <1>1, <1>3, ShownIsTrue DEF VAInv
  <2>2. ~far => ~missed'
    BY <1>3 DEF VAInv, EmptyLookupIsProof
  <2>3. CASE call.why \in {"replay", "recover"}
    <3>1. Return(AfterSubmit("ack"))
      BY <1>3, <2>3 DEF FoundIn
    <3>2. Truthful(AfterSubmit("ack")) /\ AfterSubmit("ack").st # "Rejected"
      BY <2>1, SubmitAnswers
    <3> QED
      BY <1>1, <1>3, <2>2, <3>1, <3>2, ReturnKeeps
  <2>4. CASE call.why \in {"resolve", "ambiguous"}
    <3>1. Return(Adopted(s))
      BY <1>3, <2>4 DEF FoundIn
    <3>2. Truthful(Adopted(s)) /\ (Adopted(s).st = "Rejected" => order.st = "refused")
      BY <1>1, <1>2, <1>3, AdoptedIsTrue
    <3>3. Adopted(s).st = "Rejected" => NoOrderLives
      BY <3>2 DEF NoOrderLives, VAInv, SentOnce
    <3> QED
      BY <1>1, <1>3, <2>2, <3>1, <3>2, <3>3, ReturnKeeps
  <2>5. CASE call.why = "confirm"
    <3>1. call.op = "cancel" /\ record.st = "PendingCancel"
      BY <1>1, <2>5 DEF Reasons, VAInv, CallRecord
    <3>2. CASE CancelDone(s)
      <4>1. Continue(StartLookup("cancel", "resolve"))
        BY <1>3, <2>5, <3>2 DEF FoundIn
      <4>2. <<"cancel", "resolve">> \in Reasons
        BY DEF Reasons
      <4> QED
        BY <1>1, <1>3, <2>2, <3>1, <4>1, <4>2, LookupKeeps
    <3>3. CASE ~CancelDone(s)
      <4>1. Return(AfterCancelError("Unknown"))
        BY <1>3, <2>5, <3>3 DEF FoundIn
      <4> QED
        BY <1>1, <1>3, <2>2, <3>1, <4>1, CancelErrors, ReturnKeeps
    <3> QED
      BY <3>2, <3>3
  <2> QED
    BY <1>1, <2>3, <2>4, <2>5 DEF Reasons
<1>4. ASSUME Shown(Head(call.lists)) = {}, Len(call.lists) > 1,
             Continue([call EXCEPT !.lists = Tail(@)]), UNCHANGED missed
      PROVE  VAInv'
  <2> USE DEF Continue
  <2>1. call' = [op |-> call.op, pc |-> "read", lists |-> Tail(call.lists), why |-> call.why,
                 base |-> call.base]
    BY <1>1, <1>4, Continues
  <2>2. \/ venue = "IB" /\ call.lists = <<"open", "completed", "executions">>
           /\ Tail(call.lists) = <<"completed", "executions">> /\ Head(call.lists) = "open"
        \/ venue = "IB" /\ call.lists = <<"completed", "executions">>
           /\ Tail(call.lists) = <<"executions">> /\ Head(call.lists) = "completed"
        \/ venue = "HL" /\ call.lists = <<"history", "open">> /\ Tail(call.lists) = <<"open">>
           /\ Head(call.lists) = "history"
    <3>1. CASE venue = "IB"
      <4>1. call.lists \in {<<"open", "completed", "executions">>, <<"completed", "executions">>,
                            <<"executions">>}
        BY <1>1, <3>1 DEF SuffixesOf
      <4>2. CASE call.lists = <<"open", "completed", "executions">>
        BY <3>1, <4>2
      <4>3. CASE call.lists = <<"completed", "executions">>
        BY <3>1, <4>3
      <4>4. CASE call.lists = <<"executions">>
        BY <1>4, <4>4
      <4> QED
        BY <4>1, <4>2, <4>3, <4>4
    <3>2. CASE venue = "HL"
      <4>1. call.lists \in {<<"history", "open">>, <<"open">>}
        BY <1>1, <3>2 DEF SuffixesOf
      <4>2. CASE call.lists = <<"history", "open">>
        BY <3>2, <4>2
      <4>3. CASE call.lists = <<"open">>
        BY <1>4, <4>3
      <4> QED
        BY <4>1, <4>2, <4>3
    <3>3. CASE venue = "BN"
      <4>1. call.lists = <<"query">>
        BY <1>1, <3>3 DEF SuffixesOf
      <4> QED
        BY <1>4, <4>1
    <3> QED
      BY <3>1, <3>2, <3>3 DEF VAInv, OrderInv
  <2>3. OrderInv'
    BY <1>1, <1>4 DEF VAInv, OrderInv
  <2>4. CallInv'
    <3>1. Tail(call.lists) \in SuffixesOf(venue)
      BY <2>2 DEF SuffixesOf
    <3>2. <<call.op, call.why>>[1] = call.op /\ <<call.op, call.why>>[2] = call.why
      OBVIOUS
    <3> QED
      BY <1>1, <1>4, <2>1, <3>1, <3>2 DEF CallInv
  <2>5. CallRecord'
    BY <1>4, <2>1 DEF VAInv, CallRecord
  <2>6. SentOnce'
    <3>1. NotSentYet' => NotSentYet
      BY <1>4, <2>1 DEF NotSentYet
    <3> QED
      BY <1>1, <1>4, <3>1 DEF VAInv, SentOnce
  <2>7. StillListed'
    <3> SUFFICES ASSUME call.base
                 PROVE  /\ AtVenue
                        /\ Tail(call.lists) = <<"completed", "executions">> => order.st \in FinalOrder
                        /\ Tail(call.lists) # <<"executions">>
                        /\ venue = "HL" /\ ~far => Tail(call.lists) # <<"open">>
      BY <1>4, <2>1 DEF StillListed, AtVenue
    <3>1. AtVenue
      BY <1>1 DEF VAInv, StillListed
    <3>2. Rows # {}
      <4>1. Decoded # {}
        <5>1. order.st \in {"open"} \cup FinalOrder
          BY <3>1 DEF AtVenue, VAInv, OrderInv
        <5>2. IBDecoded # {} /\ HLDecoded # {} /\ BNDecoded # {}
          BY <5>1 DEF IBDecoded, HLDecoded, BNDecoded, FinalOrder
        <5> QED
          BY <5>2 DEF Decoded, VAInv, OrderInv
      <4> QED
        BY <4>1 DEF Rows
    <3>3. CASE venue = "IB" /\ Head(call.lists) = "open"
               /\ Tail(call.lists) = <<"completed", "executions">>
      <4>1. order.st # "open"
        BY <1>4, <3>2, <3>3 DEF Shown, IBShown
      <4> QED
        BY <3>1, <3>3, <4>1 DEF AtVenue, VAInv, OrderInv
    <3>4. CASE venue = "IB" /\ call.lists = <<"completed", "executions">>
               /\ Head(call.lists) = "completed"
      <4>1. order.st \in FinalOrder
        BY <1>1, <3>4 DEF VAInv, StillListed
      <4>2. Shown(Head(call.lists)) = Rows
        BY <3>4, <4>1 DEF Shown, IBShown, FinalOrder
      <4> QED
        BY <1>4, <3>2, <4>2
    <3>5. CASE venue = "HL" /\ Head(call.lists) = "history" /\ Tail(call.lists) = <<"open">>
      <4>1. far
        BY <1>4, <3>1, <3>2, <3>5 DEF Shown, HLShown
      <4> QED
        BY <3>1, <3>5, <4>1
    <3> QED
      BY <2>2, <3>3, <3>4, <3>5
  <2>8. WorkingIsAtVenue' /\ TerminalIsTrue' /\ EmptyLookupIsProof'
    BY <1>4 DEF VAInv, WorkingIsAtVenue, TerminalIsTrue, EmptyLookupIsProof, AtVenue
  <2> QED
    BY <2>3, <2>4, <2>5, <2>6, <2>7, <2>8 DEF VAInv
<1>5. ASSUME Shown(Head(call.lists)) = {}, ~(Len(call.lists) > 1), venue # "BN", FoundNowhere,
             missed' = (missed \/ call.base)
      PROVE  VAInv'
  <2>1. ~far => ~missed'
    <3>1. \/ venue = "IB" /\ call.lists = <<"executions">>
          \/ venue = "HL" /\ call.lists = <<"open">>
      <4>1. CASE venue = "IB"
        <5>1. call.lists \in {<<"open", "completed", "executions">>, <<"completed", "executions">>,
                              <<"executions">>}
          BY <1>1, <4>1 DEF SuffixesOf
        <5>2. Len(<<"open", "completed", "executions">>) = 3 /\ Len(<<"completed", "executions">>) = 2
          OBVIOUS
        <5> QED
          BY <1>5, <4>1, <5>1, <5>2
      <4>2. CASE venue = "HL"
        <5>1. call.lists \in {<<"history", "open">>, <<"open">>}
          BY <1>1, <4>2 DEF SuffixesOf
        <5>2. Len(<<"history", "open">>) = 2
          OBVIOUS
        <5> QED
          BY <1>5, <4>2, <5>1, <5>2
      <4> QED
        BY <1>5, <4>1, <4>2 DEF VAInv, OrderInv
    <3>2. ~far => ~call.base
      BY <1>1, <3>1 DEF VAInv, StillListed
    <3> QED
      BY <1>5, <3>2 DEF VAInv, EmptyLookupIsProof
  <2>2. missed' \in BOOLEAN
    BY <1>1, <1>5
  <2>3. CASE call.why = "replay"
    <3>1. call' = Step("submit", "prepare") /\ UNCHANGED <<venue, far, order, wire, record>>
      BY <1>5, <2>3 DEF FoundNowhere, Continue
    <3>2. record.st = "PendingSubmit" /\ order.st = "absent" /\ "place" \notin wire
      BY <1>1, <2>3 DEF VAInv, CallRecord, Reasons, SentOnce, NotSentYet
    <3>3. <<"submit", "prepare">> \in Steps
      BY DEF Steps
    <3>4. wire' \subseteq wire \cup {"cancel", "place"}
      BY <3>1
    <3> QED
      BY <1>1, <1>2, <2>1, <2>2, <3>1, <3>2, <3>3, <3>4, StepKeeps
  <2>4. CASE call.why = "recover"
    <3>1. Return(AfterSubmit("Unknown"))
      BY <1>5, <2>4 DEF FoundNowhere
    <3> QED
      BY <1>1, <2>1, <2>2, <3>1, SubmitAnswers, ReturnKeeps DEF Ambiguous
  <2>5. CASE call.why = "ambiguous"
    <3>1. Return([record EXCEPT !.st = "Unknown"])
      BY <1>5, <2>5 DEF FoundNowhere
    <3>2. Truthful([record EXCEPT !.st = "Unknown"]) /\ [record EXCEPT !.st = "Unknown"].st # "Rejected"
      BY <1>2 DEF Truthful, Records, OrderStates
    <3> QED
      BY <1>1, <2>1, <2>2, <3>1, <3>2, ReturnKeeps
  <2>6. CASE call.why = "confirm"
    <3>1. Continue(StartLookup("cancel", "resolve"))
      BY <1>5, <2>6 DEF FoundNowhere
    <3>2. <<"cancel", "resolve">> \in Reasons /\ record.st = "PendingCancel"
      BY <1>1, <2>6 DEF Reasons, VAInv, CallRecord
    <3> QED
      BY <1>1, <2>1, <2>2, <3>1, <3>2, LookupKeeps
  <2>7. CASE call.why = "resolve"
    <3>1. Return(record)
      BY <1>5, <2>7 DEF FoundNowhere, Unresolved
    <3> QED
      BY <1>1, <1>2, <2>1, <2>2, <3>1, RecordIsTruthful, ReturnKeeps
  <2> QED
    BY <1>1, <2>3, <2>4, <2>5, <2>6, <2>7 DEF Reasons
<1> QED
  BY <1>3, <1>4, <1>5 DEF ReadList

LEMMA ReadFailsKeeps ==
  ASSUME VAInv, NEW e \in {"Transport", "Conversion"}, ReadFails(e)
  PROVE  VAInv'
<1>1. /\ call.pc = "read" /\ <<call.op, call.why>> \in Reasons /\ UNCHANGED missed
      /\ undecoded' = (undecoded \/ (call.why = "recover" /\ e = "Conversion"))
      /\ undecoded \in BOOLEAN /\ missed \in BOOLEAN
  BY Continues DEF ReadFails, VAInv, OrderInv
<1>2. record.st \notin {"Created", "Rejected"} /\ (~far => ~missed') /\ undecoded' \in BOOLEAN
  BY <1>1 DEF VAInv, CallRecord, Reasons, AmbiguousStates, EmptyLookupIsProof
<1>3. CASE call.why \in {"replay", "recover"}
  <2>1. Return(AfterSubmit(e))
    BY <1>3 DEF ReadFails
  <2>2. Truthful(AfterSubmit(e))
    BY SubmitAnswers
  <2>3. AfterSubmit(e).st = "Rejected" => e = "Conversion"
    BY SubmitAnswers DEF Ambiguous
  <2>4. call.why = "replay" => NoOrderLives
    BY DEF VAInv, SentOnce, NotSentYet, NoOrderLives
  <2> QED
    BY <1>1, <1>2, <1>3, <2>1, <2>2, <2>3, <2>4, ReturnKeeps
<1>4. CASE call.why = "confirm"
  <2>1. Return(AfterCancelError(e)) /\ call.op = "cancel"
    BY <1>1, <1>4 DEF ReadFails, Reasons
  <2> QED
    BY <1>1, <1>2, <2>1, CancelErrors, ReturnKeeps
<1>5. CASE call.why \in {"resolve", "ambiguous"}
  <2>1. Return(record)
    BY <1>5 DEF ReadFails
  <2> QED
    BY <1>1, <1>2, <2>1, RecordIsTruthful, ReturnKeeps
<1> QED
  BY <1>1, <1>3, <1>4, <1>5 DEF Reasons

\* The steps of a submit.
LEMMA SubmitKeeps ==
  ASSUME VAInv,
         \/ BeginSubmit \/ \E e \in PrepareErrors : PrepareFails(e)
         \/ Place \/ AckArrives \/ RefusalArrives \/ BNNoAnswer \/ NoAnswer
  PROVE  VAInv'
<1>1. undecoded \in BOOLEAN /\ missed \in BOOLEAN /\ (~far => ~missed) /\ record \in Records
  BY DEF VAInv, OrderInv, EmptyLookupIsProof, CallRecord
<1>2. call.pc \in {"prepare", "await"} => record.st = "PendingSubmit"
  BY StepOfCall DEF VAInv, CallRecord
<1>3. CASE BeginSubmit
  <2>1. /\ record' = [record EXCEPT !.st = "PendingSubmit"] /\ record.st = "Created"
        /\ UNCHANGED <<venue, far, order, wire, undecoded, missed>>
    BY <1>3 DEF BeginSubmit, Apply, AfterEvent
  <2>2. order.st = "absent" /\ "place" \notin wire /\ record'.st = "PendingSubmit" /\ record' \in Records
    BY <1>1, <2>1 DEF VAInv, SentOnce, NotSentYet, Records, OrderStates
  <2>3. OrderInv' /\ SentOnce'
    BY <2>1, <2>2 DEF VAInv, OrderInv, SentOnce
  <2>4. WorkingIsAtVenue' /\ TerminalIsTrue' /\ EmptyLookupIsProof'
    BY <1>1, <2>1, <2>2 DEF WorkingIsAtVenue, TerminalIsTrue, EmptyLookupIsProof
  <2>5. CASE venue = "BN"
    <3>1. call' = [op |-> "submit", pc |-> "prepare", lists |-> <<>>, why |-> "none", base |-> FALSE]
      BY <1>3, <2>5 DEF BeginSubmit, Step, Idle
    <3>2. CallInv'
      <4>1. call' = Step("submit", "prepare") /\ <<"submit", "prepare">> \in Steps
        BY <1>3, <2>5 DEF BeginSubmit, Steps
      <4> QED
        BY <4>1 DEF CallInv
    <3>3. CallRecord' /\ StillListed'
      BY <2>2, <3>1 DEF CallRecord, StillListed
    <3> QED
      BY <2>3, <2>4, <3>2, <3>3 DEF VAInv
  <2>6. CASE venue # "BN"
    <3>1. call' = [op |-> "submit", pc |-> "read", lists |-> Lists, why |-> "replay", base |-> FALSE]
      BY <1>3, <2>2, <2>6 DEF BeginSubmit, StartLookup, AtVenue
    <3>2. Lists \in SuffixesOf(venue)
      <4>1. CASE venue = "IB"
        BY <4>1 DEF Lists, IBLists, SuffixesOf
      <4>2. CASE venue = "HL"
        BY <4>2 DEF Lists, HLLists, SuffixesOf
      <4> QED
        BY <2>6, <4>1, <4>2 DEF VAInv, OrderInv
    <3>3. CallInv'
      <4>1. <<"submit", "replay">> \in Reasons /\ <<"submit", "replay">>[1] = "submit"
            /\ <<"submit", "replay">>[2] = "replay"
        BY DEF Reasons
      <4> QED
        BY <2>1, <3>1, <3>2, <4>1 DEF CallInv
    <3>4. CallRecord' /\ StillListed'
      BY <2>2, <3>1 DEF CallRecord, StillListed
    <3> QED
      BY <2>3, <2>4, <3>3, <3>4 DEF VAInv
  <2> QED
    BY <2>5, <2>6
<1>4. ASSUME NEW e \in PrepareErrors, PrepareFails(e) PROVE VAInv'
  <2>1. Return(AfterSubmit(e)) /\ UNCHANGED <<undecoded, missed>> /\ call.pc = "prepare"
    BY <1>4 DEF PrepareFails
  <2>2. e # "ack"
    BY DEF VAInv, OrderInv, PrepareErrors, IBPrepareErrors, HLPrepareErrors, BNPrepareErrors
  <2>3. NoOrderLives
    BY <2>1 DEF VAInv, SentOnce, NotSentYet, NoOrderLives
  <2> QED
    BY <1>1, <2>1, <2>2, <2>3, SubmitAnswers, ReturnKeeps
<1>5. CASE Place
  <2>1. /\ call' = Step("submit", "await") /\ wire' = wire \cup {"place"} /\ call.pc = "prepare"
        /\ UNCHANGED <<venue, far, order, record, undecoded, missed>>
    BY <1>5 DEF Place
  <2>2. order.st = "absent"
    BY <2>1 DEF VAInv, SentOnce, NotSentYet
  <2>3. <<"submit", "await">> \in Steps
    BY DEF Steps
  <2> HIDE DEF Step
  <2> QED
    BY <1>1, <1>2, <2>1, <2>2, <2>3, StepKeeps
<1>6. CASE AckArrives
  <2>1. Return(AfterSubmit("ack")) /\ UNCHANGED <<undecoded, missed>> /\ AtVenue
    BY <1>6 DEF AckArrives, AtVenue
  <2> QED
    BY <1>1, <2>1, SubmitAnswers, ReturnKeeps
<1>7. CASE RefusalArrives
  <2>1. Return(AfterSubmit("Rejected")) /\ UNCHANGED <<undecoded, missed>> /\ order.st = "refused"
    BY <1>7 DEF RefusalArrives
  <2>2. NoOrderLives
    BY <2>1 DEF VAInv, SentOnce, NoOrderLives
  <2> QED
    BY <1>1, <2>1, <2>2, SubmitAnswers, ReturnKeeps
<1>8. CASE BNNoAnswer
  <2>1. Return(AfterSubmit("Unknown")) /\ UNCHANGED <<undecoded, missed>>
    BY <1>8 DEF BNNoAnswer
  <2> QED
    BY <1>1, <2>1, SubmitAnswers, ReturnKeeps DEF Ambiguous
<1>9. CASE NoAnswer
  <2>1. Continue(StartLookup("submit", "recover")) /\ UNCHANGED <<undecoded, missed>> /\ call.pc = "await"
    BY <1>9 DEF NoAnswer
  <2>2. <<"submit", "recover">> \in Reasons
    BY DEF Reasons
  <2> QED
    BY <1>1, <1>2, <2>1, <2>2, LookupKeeps
<1> QED
  BY <1>3, <1>4, <1>5, <1>6, <1>7, <1>8, <1>9

\* Recovery, the steps of a cancel, the ledger and a crash.
LEMMA CancelKeeps ==
  ASSUME VAInv,
         \/ RecoverAmbiguous
         \/ BeginCancel \/ \E e \in {"Conversion", "Unknown"} : CancelNotSent(e)
         \/ SendCancel
         \/ CancelConfirmed \/ CancelRefused \/ IBCancelTimesOut \/ CancelBroken
         \/ LedgerSettles \/ Crash
  PROVE  VAInv'
<1>1. /\ undecoded \in BOOLEAN /\ missed \in BOOLEAN /\ (~far => ~missed) /\ record \in Records
      /\ <<"cancel", "resolve">> \in Reasons /\ <<"cancel", "confirm">> \in Reasons
      /\ <<"find", "ambiguous">> \in Reasons
      /\ <<"cancel", "send">> \in Steps /\ <<"cancel", "awaitCancel">> \in Steps
  BY DEF VAInv, OrderInv, EmptyLookupIsProof, CallRecord, Reasons, Steps
<1>2. call.pc \in {"send", "awaitCancel"} =>
        call.op = "cancel" /\ record.st = "PendingCancel" /\ AtVenue
  BY StepOfCall DEF VAInv, CallRecord, WorkingIsAtVenue
<1>3. CASE RecoverAmbiguous
  <2>1. Continue(StartLookup("find", "ambiguous")) /\ UNCHANGED <<undecoded, missed>>
        /\ record.st \in AmbiguousStates
    BY <1>3 DEF RecoverAmbiguous
  <2> QED
    BY <1>1, <2>1, LookupKeeps
<1>4. CASE BeginCancel
  <2>1. /\ record.st \in {"Open", "PartiallyFilled", "PendingCancel"}
        /\ record' = [record EXCEPT !.st = "PendingCancel"] /\ call' = Step("cancel", "send")
        /\ UNCHANGED <<venue, far, order, wire, undecoded, missed>>
    BY <1>4 DEF BeginCancel
  <2>2. record' \in Records /\ record'.st = "PendingCancel" /\ AtVenue
    BY <1>1, <2>1 DEF Records, OrderStates, VAInv, WorkingIsAtVenue
  <2> QED
    BY <1>1, <2>1, <2>2, StepKeeps
<1>5. ASSUME NEW e \in {"Conversion", "Unknown"}, CancelNotSent(e) PROVE VAInv'
  <2>1. Return(AfterCancelError(e)) /\ UNCHANGED <<undecoded, missed>> /\ call.op = "cancel"
    BY <1>2, <1>5 DEF CancelNotSent
  <2> QED
    BY <1>1, <2>1, CancelErrors, ReturnKeeps
<1>6. CASE SendCancel
  <2>1. /\ call.pc = "send" /\ wire' = wire \cup {"cancel"} /\ call' = Step("cancel", "awaitCancel")
        /\ UNCHANGED <<venue, far, order, record, undecoded, missed>>
    BY <1>6 DEF SendCancel
  <2> QED
    BY <1>1, <1>2, <2>1, StepKeeps
<1>7. CASE CancelConfirmed
  <2>1. Continue(StartLookup("cancel", "resolve")) /\ UNCHANGED <<undecoded, missed>>
        /\ record.st = "PendingCancel"
    BY <1>2, <1>7 DEF CancelConfirmed
  <2> QED
    BY <1>1, <2>1, LookupKeeps
<1>8. CASE CancelRefused
  <2>1. Return(AfterCancelError("Rejected")) /\ UNCHANGED <<undecoded, missed>> /\ call.op = "cancel"
    BY <1>2, <1>8 DEF CancelRefused
  <2> QED
    BY <1>1, <2>1, CancelErrors, ReturnKeeps
<1>9. CASE IBCancelTimesOut
  <2>1. Continue(StartLookup("cancel", "confirm")) /\ UNCHANGED <<undecoded, missed>>
        /\ record.st = "PendingCancel"
    BY <1>2, <1>9 DEF IBCancelTimesOut
  <2> QED
    BY <1>1, <2>1, LookupKeeps
<1>10. CASE CancelBroken
  <2>1. Return(AfterCancelError("Unknown")) /\ UNCHANGED <<undecoded, missed>> /\ call.op = "cancel"
    BY <1>2, <1>10 DEF CancelBroken
  <2> QED
    BY <1>1, <2>1, CancelErrors, ReturnKeeps
<1>11. CASE LedgerSettles
  <2>1. /\ call = Idle /\ record' = ApplyFill(record, order.filled - record.filled)
        /\ record.st \in {"Open", "PartiallyFilled", "PendingCancel"}
        /\ UNCHANGED <<venue, far, order, wire, undecoded, missed>> /\ call' = Idle
    BY <1>11 DEF LedgerSettles, MayFill
  <2>2. record' = [st |-> IF order.filled = Qty THEN "Filled" ELSE "PartiallyFilled",
                   filled |-> order.filled]
    BY <1>1, <2>1 DEF ApplyFill, Records, VAInv, OrderInv
  <2>3. Truthful(record') /\ record'.st # "Rejected"
    BY <2>1, <2>2 DEF Truthful, Records, OrderStates, VAInv, OrderInv, WorkingIsAtVenue
  <2> QED
    BY <1>1, <2>1, <2>3, ReturnKeeps DEF Return
<1>12. CASE Crash
  <2>1. Return(record) /\ UNCHANGED <<undecoded, missed>> /\ call # Idle
    BY <1>12 DEF Crash
  <2>2. record.st \notin {"Created", "Rejected"}
    <3>1. call.op \in {"submit", "find", "cancel"}
      <4>1. ASSUME NEW t \in Steps, call = Step(t[1], t[2]) PROVE call.op \in {"submit", "cancel"}
        BY <4>1 DEF Steps, Step, Idle
      <4>2. ASSUME NEW r \in Reasons, call.op = r[1] PROVE call.op \in {"submit", "find", "cancel"}
        BY <4>2 DEF Reasons
      <4> QED
        BY <2>1, <4>1, <4>2 DEF VAInv, CallInv
    <3> QED
      BY <3>1 DEF VAInv, CallRecord, AmbiguousStates
  <2> QED
    BY <1>1, <2>1, <2>2, RecordIsTruthful, ReturnKeeps
<1> QED
  BY <1>3, <1>4, <1>5, <1>6, <1>7, <1>8, <1>9, <1>10, <1>11, <1>12

\* The venue moves the order forward; what it once ended stays as it is.
LEMMA VenueKeeps ==
  ASSUME VAInv,
         \/ \E st \in {"open", "refused"} : TakesOrder(st)
         \/ \E r \in {"place", "cancel"} : LosesRequest(r)
         \/ Fills \/ TakesCancel \/ Expires
  PROVE  VAInv'
<1> USE QtyAssumption
<1>1. /\ UNCHANGED <<venue, far, call, record, undecoded, missed>>
      /\ wire' \subseteq wire
  BY DEF TakesOrder, LosesRequest, Fills, TakesCancel, Expires, VenueStep
<1>2. order' = [st |-> order'.st, filled |-> order'.filled]
  BY DEF VAInv, OrderInv, TakesOrder, LosesRequest, Fills, TakesCancel, Expires, VenueStep
<1>3. \/ order.st = "absent" /\ order'.st \in {"open", "refused"} /\ order'.filled = 0
         /\ "place" \in wire /\ "place" \notin wire'
      \/ order.st = "open" /\ order'.st = "open" /\ order'.filled \in 0..Qty /\ order'.filled # Qty
      \/ order.st = "open" /\ order'.st = "filled" /\ order'.filled = Qty
      \/ order.st = "open" /\ order'.st = "canceled" /\ order'.filled = order.filled
      \/ order' = order
  <2>1. ASSUME NEW st \in {"open", "refused"}, TakesOrder(st)
        PROVE  order.st = "absent" /\ order'.st \in {"open", "refused"} /\ order'.filled = 0
               /\ "place" \in wire /\ "place" \notin wire'
    BY <2>1 DEF TakesOrder, VenueStep, VAInv, OrderInv, SentOnce
  <2>2. ASSUME Fills
        PROVE  \/ order.st = "open" /\ order'.st = "open" /\ order'.filled \in 0..Qty /\ order'.filled # Qty
               \/ order.st = "open" /\ order'.st = "filled" /\ order'.filled = Qty
    BY <2>2 DEF Fills, VenueStep, VAInv, OrderInv
  <2>3. ASSUME TakesCancel
        PROVE  \/ order.st = "open" /\ order'.st = "canceled" /\ order'.filled = order.filled
               \/ order' = order
    BY <2>3 DEF TakesCancel, VenueStep, VAInv, OrderInv
  <2>4. ASSUME Expires
        PROVE  order.st = "open" /\ order'.st = "canceled" /\ order'.filled = order.filled
    BY <2>4 DEF Expires, VenueStep, VAInv, OrderInv
  <2>5. ASSUME NEW r \in {"place", "cancel"}, LosesRequest(r)
        PROVE  order' = order
    BY <2>5 DEF LosesRequest, VenueStep
  <2> QED
    BY <2>1, <2>2, <2>3, <2>4, <2>5
<1>4. OrderInv'
  BY <1>1, <1>2, <1>3 DEF VAInv, OrderInv, FinalOrder
<1>5. CallInv'
  BY <1>1 DEF VAInv, CallInv
<1>6. CallRecord'
  BY <1>1 DEF VAInv, CallRecord
<1>7. SentOnce'
  BY <1>1, <1>3 DEF VAInv, SentOnce, NotSentYet
<1>8. AtVenue => AtVenue'
  BY <1>3 DEF AtVenue
<1>9. order.st \in FinalOrder => order' = order
  BY <1>3 DEF FinalOrder
<1>10. StillListed'
  BY <1>1, <1>8, <1>9 DEF VAInv, StillListed
<1>11. WorkingIsAtVenue' /\ EmptyLookupIsProof'
  BY <1>1, <1>8 DEF VAInv, WorkingIsAtVenue, EmptyLookupIsProof
<1>12. TerminalIsTrue'
  BY <1>1, <1>9 DEF VAInv, TerminalIsTrue, FinalOrder
<1> QED
  BY <1>4, <1>5, <1>6, <1>7, <1>10, <1>11, <1>12 DEF VAInv

LEMMA VAInvNext == VAInv /\ [VANext]_vaVars => VAInv'
<1> SUFFICES ASSUME VAInv, [VANext]_vaVars PROVE VAInv'
  OBVIOUS
<1>1. CASE UNCHANGED vaVars
  BY <1>1 DEF vaVars, VAInv, OrderInv, CallInv, CallRecord, SentOnce, NotSentYet, StillListed,
     WorkingIsAtVenue, TerminalIsTrue, EmptyLookupIsProof, AtVenue
<1>2. CASE VANext
  BY <1>2, ReadListKeeps, ReadFailsKeeps, SubmitKeeps, CancelKeeps, VenueKeeps DEF VANext
<1> QED
  BY <1>1, <1>2

\* What an adapter reports of an order is true of the venue, for all three venues.
THEOREM AdaptersTellTheTruth == VASpec => []AdapterSafety
<1>1. VAInv => AdapterSafety
  <2> SUFFICES ASSUME VAInv PROVE AdapterSafety
    OBVIOUS
  <2>1. call.pc \in {"none", "read", "prepare", "await", "send", "awaitCancel"}
    BY StepOfCall
  <2>2. VATypeOK
    BY <2>1 DEF VAInv, VATypeOK, OrderInv, CallRecord, FinalOrder
  <2>3. DefiniteRejection
    BY DEF VAInv, SentOnce, DefiniteRejection
  <2> QED
    BY <2>2, <2>3 DEF VAInv, AdapterSafety
<1> QED
  BY <1>1, VAInvInit, VAInvNext, PTL DEF VASpec

\* A snapshot that is adopted hides no fill.
THEOREM AdoptionHidesNoFill == VASpec => AdoptedHidesNoFill
<1>1. ASSUME VAInv, [VANext]_vaVars,
             record' # record, call.why \in {"resolve", "ambiguous"}, record'.st # "Unknown"
      PROVE  record'.filled = order.filled
  <2>1. call.pc = "read" /\ record.st # "Created"
    <3>1. call # Idle
      BY <1>1 DEF Idle
    <3>2. ASSUME NEW t \in Steps, call = Step(t[1], t[2]) PROVE FALSE
      BY <1>1, <3>2 DEF Steps, Step, Idle
    <3>3. call.pc = "read"
      BY <1>1, <3>1, <3>2 DEF VAInv, CallInv
    <3>4. call.op \in {"find", "cancel"}
      BY <1>1, <3>3, Continues DEF Reasons
    <3> QED
      BY <1>1, <3>3, <3>4 DEF VAInv, CallRecord, AmbiguousStates
  <2>2. CASE ReadList
    <3>1. ASSUME NEW s \in Shown(Head(call.lists)), FoundIn(s) PROVE record'.filled = order.filled
      <4>1. record' = Adopted(s)
        BY <1>1, <3>1 DEF FoundIn, Return
      <4> QED
        BY <1>1, <2>1, <4>1, AdoptedIsTrue
    <3>2. ASSUME FoundNowhere PROVE FALSE
      <4>1. record' = record \/ record' = [record EXCEPT !.st = "Unknown"]
        BY <1>1, <3>2 DEF FoundNowhere, Return, Unresolved
      <4> QED
        BY <1>1, <4>1 DEF VAInv, CallRecord, Records
    <3>3. ASSUME NEW c, Continue(c) PROVE FALSE
      BY <1>1, <3>3 DEF Continue
    <3> QED
      BY <2>2, <3>1, <3>2, <3>3 DEF ReadList
  <2>3. CASE \E e \in {"Transport", "Conversion"} : ReadFails(e)
    BY <1>1, <2>3 DEF ReadFails, Return
  <2>4. ASSUME \/ BeginSubmit \/ (\E e \in PrepareErrors : PrepareFails(e))
               \/ Place \/ AckArrives \/ RefusalArrives \/ BNNoAnswer \/ NoAnswer
        PROVE  FALSE
    BY <2>1, <2>4 DEF BeginSubmit, PrepareFails, Place, AckArrives, RefusalArrives, BNNoAnswer,
       NoAnswer, Idle
  <2>5. ASSUME \/ RecoverAmbiguous
               \/ BeginCancel \/ (\E e \in {"Conversion", "Unknown"} : CancelNotSent(e))
               \/ SendCancel
               \/ CancelConfirmed \/ CancelRefused \/ IBCancelTimesOut \/ CancelBroken
               \/ LedgerSettles
        PROVE  FALSE
    BY <2>1, <2>5 DEF RecoverAmbiguous, BeginCancel, CancelNotSent, SendCancel, CancelConfirmed,
       CancelRefused, IBCancelTimesOut, CancelBroken, LedgerSettles, Idle
  <2>6. ASSUME \/ Crash
               \/ \E st \in {"open", "refused"} : TakesOrder(st)
               \/ \E r \in {"place", "cancel"} : LosesRequest(r)
               \/ Fills \/ TakesCancel \/ Expires
        PROVE  FALSE
    BY <1>1, <2>6 DEF Crash, Return, TakesOrder, LosesRequest, Fills, TakesCancel, Expires, VenueStep
  <2>7. CASE UNCHANGED vaVars
    BY <1>1, <2>7 DEF vaVars
  <2> QED
    BY <1>1, <2>2, <2>3, <2>4, <2>5, <2>6, <2>7 DEF VANext
<1> QED
  BY <1>1, VAInvInit, VAInvNext, PTL DEF VASpec, AdoptedHidesNoFill

-----------------------------------------------------------------------------
(* The private stream *)

Events == {Reconcile} \cup
          {OrderEvent(o, n, t) : o \in StreamOrders, n \in Nat, t \in BOOLEAN}

\* The events of a queue.
InQueue(q) == {q[i] : i \in 1..Len(q)}

\* An event on its way says nothing the venue has not done.
Happened(e) ==
  e.kind = "order" => e.filled <= traded[e.order] /\ (e.trade => e.filled > 0)

StreamShape ==
  /\ traded \in [StreamOrders -> Nat]
  /\ socket \in Seq(Events) /\ sink \in Seq(Events) /\ Len(sink) <= SinkCapacity
  /\ session \in {"down", "connecting", "running", "ended"} /\ gateLost \in BOOLEAN
  /\ healthy \in BOOLEAN /\ covered \in BOOLEAN /\ skipped \in BOOLEAN
  /\ cumulative \in [StreamOrders -> {None} \cup Nat]
  /\ seen \in [StreamOrders -> SUBSET Nat] /\ book \in [StreamOrders -> SUBSET Nat]
  /\ recon \in {"none", "due", "read"} /\ (recon # "none" => ~healthy)

\* What travels, what the tracker holds and what is on the books happened.
StreamTrue ==
  /\ \A e \in InQueue(sink) \cup InQueue(socket) : Happened(e)
  /\ \A o \in StreamOrders :
       /\ cumulative[o] <= traded[o]
       /\ \A t \in seen[o] \cup book[o] : 1 <= t /\ t <= traded[o]
       /\ cumulative[o] = None => seen[o] = {}

\* The consumer will learn that it lost the stream.
Announced == gateLost \/ session = "ended" \/ Reconcile \in InQueue(sink)

\* A stream that was read on a connected session and that no announcement interrupts is
\* still connected, and every trade is on the books or on its way.
Followed ==
  (healthy \/ recon = "read") /\ covered /\ ~Announced =>
    /\ session = "running"
    /\ ~skipped => \A o \in StreamOrders : \A n \in 1..traded[o] :
         n \in book[o] \/ OrderEvent(o, n, TRUE) \in InQueue(sink) \cup InQueue(socket)

USInv == StreamShape /\ StreamTrue /\ SeenIsGapless /\ Followed

LEMMA AppendQueue ==
  ASSUME NEW q \in Seq(Events), NEW e \in Events
  PROVE  /\ Append(q, e) \in Seq(Events) /\ Len(Append(q, e)) = Len(q) + 1
         /\ InQueue(Append(q, e)) = InQueue(q) \cup {e}
<1>1. Append(q, e) \in Seq(Events) /\ Len(Append(q, e)) = Len(q) + 1
  OBVIOUS
<1>2. \A i \in 1..Len(q) : Append(q, e)[i] = q[i]
  OBVIOUS
<1>3. Append(q, e)[Len(q) + 1] = e
  OBVIOUS
<1> QED
  BY <1>1, <1>2, <1>3 DEF InQueue

LEMMA TailQueue ==
  ASSUME NEW q \in Seq(Events), q # <<>>
  PROVE  /\ Tail(q) \in Seq(Events) /\ Len(Tail(q)) = Len(q) - 1 /\ Head(q) \in Events
         /\ InQueue(q) = {Head(q)} \cup InQueue(Tail(q))
<1>1. Tail(q) \in Seq(Events) /\ Len(Tail(q)) = Len(q) - 1 /\ Len(q) \in Nat \ {0}
      /\ Head(q) = q[1] /\ Head(q) \in Events
  OBVIOUS
<1>2. \A i \in 1..Len(q) - 1 : Tail(q)[i] = q[i + 1]
  OBVIOUS
<1>3. ASSUME NEW i \in 1..Len(q), i # 1 PROVE q[i] \in InQueue(Tail(q))
  <2>1. i - 1 \in 1..Len(q) - 1 /\ (i - 1) + 1 = i
    BY <1>1, <1>3
  <2>2. q[i] = Tail(q)[i - 1]
    BY <1>2, <2>1
  <2> QED
    BY <1>1, <2>1, <2>2 DEF InQueue
<1>4. InQueue(Tail(q)) \subseteq InQueue(q)
  BY <1>1, <1>2 DEF InQueue
<1>5. q[1] \in InQueue(q)
  BY <1>1 DEF InQueue
<1> QED
  BY <1>1, <1>3, <1>4, <1>5 DEF InQueue

LEMMA QueueEvents == ASSUME NEW q \in Seq(Events) PROVE InQueue(q) \subseteq Events
BY DEF InQueue

LEMMA EmptyQueue == <<>> \in Seq(Events) /\ Len(<<>>) = 0 /\ InQueue(<<>>) = {}
BY DEF InQueue

LEMMA GateEvent == Reconcile \in Events /\ Reconcile.kind = "reconcile"
BY DEF Events, Reconcile

LEMMA OrderFields ==
  ASSUME NEW o \in StreamOrders, NEW n \in Nat, NEW t \in BOOLEAN
  PROVE  /\ OrderEvent(o, n, t) \in Events
         /\ OrderEvent(o, n, t).kind = "order" /\ OrderEvent(o, n, t).order = o
         /\ OrderEvent(o, n, t).filled = n /\ OrderEvent(o, n, t).trade = t
         /\ OrderEvent(o, n, t) # Reconcile
<1>1. OrderEvent(o, n, t) \in Events
  BY DEF Events
<1>2. OrderEvent(o, n, t).kind = "order"
  BY DEF OrderEvent
<1> QED
  BY <1>1, <1>2, GateEvent DEF OrderEvent

LEMMA EventCases ==
  ASSUME NEW e \in Events, e # Reconcile
  PROVE  /\ e.kind = "order" /\ e.order \in StreamOrders /\ e.filled \in Nat /\ e.trade \in BOOLEAN
         /\ e = OrderEvent(e.order, e.filled, e.trade)
<1>1. PICK o \in StreamOrders, n \in Nat, t \in BOOLEAN : e = OrderEvent(o, n, t)
  BY DEF Events
<1> QED
  BY <1>1, OrderFields

LEMMA USInvInit == USInit => USInv
<1> SUFFICES ASSUME USInit PROVE USInv
  OBVIOUS
<1>1. StreamShape
  <2>1. /\ traded \in [StreamOrders -> Nat]
        /\ cumulative \in [StreamOrders -> {None} \cup Nat]
        /\ seen \in [StreamOrders -> SUBSET Nat] /\ book \in [StreamOrders -> SUBSET Nat]
    BY DEF USInit
  <2>2. socket \in Seq(Events) /\ sink \in Seq(Events) /\ Len(sink) <= SinkCapacity
    BY StreamAssumption, EmptyQueue DEF USInit
  <2>3. healthy \in BOOLEAN /\ covered \in BOOLEAN /\ skipped \in BOOLEAN /\ gateLost \in BOOLEAN
    BY DEF USInit
  <2> QED
    BY <2>1, <2>2, <2>3 DEF USInit, StreamShape
<1>2. StreamTrue
  BY EmptyQueue DEF USInit, StreamTrue, None
<1>3. SeenIsGapless
  BY DEF USInit, SeenIsGapless
<1>4. Followed
  BY DEF USInit, Followed
<1> QED
  BY <1>1, <1>2, <1>3, <1>4 DEF USInv

\* The venue trades or reports.
LEMMA TradeKeeps ==
  ASSUME USInv, NEW o \in StreamOrders, NEW lost \in BOOLEAN, Trade(o, lost)
  PROVE  USInv'
<1>e. PICK e : e = OrderEvent(o, traded[o] + 1, TRUE)
  OBVIOUS
<1>1. /\ traded' = [traded EXCEPT ![o] = @ + 1] /\ traded' \in [StreamOrders -> Nat]
      /\ skipped' = (skipped \/ (lost /\ session = "running"))
      /\ UNCHANGED <<sink, session, sessions, gateLost, healthy, cumulative, seen, recon, book, covered>>
  BY DEF Trade, USInv, StreamShape, tracker, caller
<1>2. \A p \in StreamOrders : traded[p] \in Nat /\ traded[p] <= traded'[p]
  BY <1>1 DEF USInv, StreamShape
<1>3. traded'[o] = traded[o] + 1 /\ \A p \in StreamOrders : p # o => traded'[p] = traded[p]
  BY <1>1 DEF USInv, StreamShape
<1>4. e \in Events /\ e.kind = "order" /\ e.order = o /\ e.filled = traded[o] + 1
  <2>1. traded[o] + 1 \in Nat /\ TRUE \in BOOLEAN
    BY <1>2
  <2> QED
    BY <1>e, <2>1, OrderFields
<1>5. \/ socket' = socket
      \/ socket' = Append(socket, e)
  BY <1>e DEF Trade, Emitted
<1>6. ~lost /\ session = "running" => socket' = Append(socket, e)
  BY <1>e DEF Trade, Emitted
<1>7. socket' \in Seq(Events) /\ InQueue(socket) \subseteq InQueue(socket')
      /\ InQueue(socket') \subseteq InQueue(socket) \cup {e}
      /\ (~lost /\ session = "running" => e \in InQueue(socket'))
  <2>1. socket \in Seq(Events)
    BY DEF USInv, StreamShape
  <2>2. CASE socket' = socket
    <3>1. ~(~lost /\ session = "running") \/ socket' = Append(socket, e)
      BY <1>6
    <3>2. e \in InQueue(Append(socket, e))
      BY <1>4, <2>1, AppendQueue
    <3> QED
      BY <2>1, <2>2, <3>1, <3>2
  <2>3. CASE socket' = Append(socket, e)
    BY <1>4, <2>1, <2>3, AppendQueue
  <2> QED
    BY <1>5, <2>2, <2>3
<1>8. StreamShape'
  BY <1>1, <1>7 DEF USInv, StreamShape
<1>9. StreamTrue'
  <2>1. ASSUME NEW x \in InQueue(sink) \cup InQueue(socket) PROVE Happened(x)'
    <3>1. x \in Events /\ Happened(x)
      <4>1. Happened(x)
        BY DEF USInv, StreamTrue
      <4>2. sink \in Seq(Events) /\ socket \in Seq(Events)
        BY DEF USInv, StreamShape
      <4> QED
        BY <4>1, <4>2, QueueEvents
    <3>2. CASE x = Reconcile
      BY <3>2, GateEvent DEF Happened
    <3>3. CASE x # Reconcile
      BY <1>2, <1>1, <3>1, <3>3, EventCases DEF Happened
    <3> QED
      BY <3>2, <3>3
  <2>2. Happened(e)'
    BY <1>2, <1>3, <1>4 DEF Happened
  <2>3. InQueue(sink)' = InQueue(sink) /\ InQueue(socket)' = InQueue(socket')
    BY <1>1 DEF InQueue
  <2>4. \A x \in InQueue(sink)' \cup InQueue(socket)' : Happened(x)'
    BY <1>7, <2>1, <2>2, <2>3
  <2>5. ASSUME NEW p \in StreamOrders
        PROVE  /\ cumulative[p] <= traded'[p]
               /\ \A t \in seen[p] \cup book[p] : 1 <= t /\ t <= traded'[p]
               /\ cumulative[p] = None => seen[p] = {}
    <3>1. cumulative[p] \in Int /\ traded'[p] \in Nat /\ seen[p] \subseteq Nat /\ book[p] \subseteq Nat
      BY <1>1 DEF USInv, StreamShape, None
    <3> QED
      BY <1>2, <3>1 DEF USInv, StreamTrue
  <2> QED
    BY <1>1, <2>4, <2>5 DEF StreamTrue
<1>10. SeenIsGapless'
  BY <1>1 DEF USInv, SeenIsGapless
<1>11. Followed'
  <2>1. InQueue(sink') = InQueue(sink)
    BY <1>1
  <2> SUFFICES ASSUME (healthy \/ recon = "read"), covered, ~Announced
               PROVE  /\ session = "running"
                      /\ ~skipped' => \A p \in StreamOrders : \A n \in 1..traded'[p] :
                           n \in book[p] \/ OrderEvent(p, n, TRUE) \in InQueue(sink) \cup InQueue(socket')
    BY <1>1, <2>1 DEF Followed, Announced
  <2>2. session = "running"
    BY DEF USInv, Followed
  <2>3. ASSUME ~skipped', NEW p \in StreamOrders, NEW n \in 1..traded'[p]
        PROVE  n \in book[p] \/ OrderEvent(p, n, TRUE) \in InQueue(sink) \cup InQueue(socket')
    <3>1. ~skipped /\ ~lost
      BY <1>1, <2>2, <2>3 DEF USInv, StreamShape
    <3>2. CASE n \in 1..traded[p]
      BY <1>7, <3>1, <3>2 DEF USInv, Followed
    <3>3. CASE n \notin 1..traded[p]
      <4>1. p = o /\ n = traded[o] + 1
        BY <1>2, <1>3, <3>3
      <4> QED
        BY <1>7, <2>2, <1>e, <3>1, <4>1
    <3> QED
      BY <3>2, <3>3
  <2> QED
    BY <2>2, <2>3
<1> QED
  BY <1>8, <1>9, <1>10, <1>11 DEF USInv

\* What the queues hold stays true while the venue, the tracker and the books keep still.
LEMMA QueuesKeep ==
  ASSUME USInv, UNCHANGED <<traded, healthy, cumulative, seen, recon, book, covered, skipped>>,
         socket' \in Seq(Events), sink' \in Seq(Events), Len(sink') <= SinkCapacity,
         session' \in {"down", "connecting", "running", "ended"}, gateLost' \in BOOLEAN,
         \A e \in InQueue(sink') \cup InQueue(socket') :
           e \in InQueue(sink) \cup InQueue(socket) \cup {Reconcile} \/ Happened(e),
         ~Announced' => ~Announced,
         ~Announced' /\ session = "running" =>
           /\ session' = "running"
           /\ InQueue(sink) \cup InQueue(socket) \subseteq InQueue(sink') \cup InQueue(socket')
  PROVE  USInv'
<1>1. StreamShape'
  BY DEF USInv, StreamShape
<1>2. StreamTrue'
  <2>1. ASSUME NEW e \in InQueue(sink') \cup InQueue(socket') PROVE Happened(e)'
    <3>1. Happened(e)
      <4>1. CASE e = Reconcile
        BY <4>1, GateEvent DEF Happened
      <4> QED
        BY <4>1 DEF USInv, StreamTrue
    <3> QED
      BY <3>1 DEF Happened
  <2> QED
    BY <2>1 DEF USInv, StreamTrue
<1>3. SeenIsGapless'
  BY DEF USInv, SeenIsGapless
<1>4. Followed'
  <2> SUFFICES ASSUME healthy \/ recon = "read", covered, ~Announced'
               PROVE  /\ session' = "running"
                      /\ ~skipped => \A o \in StreamOrders : \A n \in 1..traded[o] :
                           n \in book[o] \/ OrderEvent(o, n, TRUE) \in InQueue(sink') \cup InQueue(socket')
    BY DEF Followed
  <2>1. /\ session = "running"
        /\ ~skipped => \A o \in StreamOrders : \A n \in 1..traded[o] :
             n \in book[o] \/ OrderEvent(o, n, TRUE) \in InQueue(sink) \cup InQueue(socket)
    BY DEF USInv, Followed
  <2>2. /\ session' = "running"
        /\ InQueue(sink) \cup InQueue(socket) \subseteq InQueue(sink') \cup InQueue(socket')
    BY <2>1
  <2> QED
    BY <2>1, <2>2
<1> QED
  BY <1>1, <1>2, <1>3, <1>4 DEF USInv

LEMMA ReportKeeps ==
  ASSUME USInv, NEW e \in Reports, ValidReport(e), Report(e)
  PROVE  USInv'
<1>1. e \in Events /\ Happened(e)
  <2>1. CASE e = Reconcile
    BY <2>1, GateEvent DEF Happened
  <2>2. ASSUME NEW o \in StreamOrders, NEW t \in BOOLEAN, e = OrderEvent(o, traded[o], t)
        PROVE  e \in Events /\ Happened(e)
    <3>1. traded[o] \in Nat
      BY DEF USInv, StreamShape
    <3>2. /\ e \in Events /\ e.kind = "order" /\ e.order = o /\ e.filled = traded[o] /\ e.trade = t
      BY <2>2, <3>1, OrderFields
    <3> QED
      BY <3>1, <3>2 DEF ValidReport, Happened
  <2> QED
    BY <2>1, <2>2 DEF Reports
<1>2. /\ socket' = Append(socket, e) /\ socket \in Seq(Events)
      /\ UNCHANGED <<traded, sink, session, sessions, gateLost, healthy, cumulative, seen, recon, book,
                     covered, skipped>>
  BY DEF Report, tracker, caller, USInv, StreamShape
<1>3. socket' \in Seq(Events) /\ InQueue(socket') = InQueue(socket) \cup {e}
  BY <1>1, <1>2, AppendQueue
<1>4. Announced' = Announced
  BY <1>2 DEF Announced
<1>5. /\ sink' \in Seq(Events) /\ Len(sink') <= SinkCapacity /\ gateLost' \in BOOLEAN
      /\ session' \in {"down", "connecting", "running", "ended"}
  BY <1>2 DEF USInv, StreamShape
<1> QED
  BY <1>1, <1>2, <1>3, <1>4, <1>5, QueuesKeep

\* The session.
LEMMA SessionKeeps ==
  ASSUME USInv, StartSession \/ SessionConnected \/ Forward \/ SessionBreaks \/ FinalGate
  PROVE  USInv'
<1>1. /\ UNCHANGED <<traded, healthy, cumulative, seen, recon, book, covered, skipped>>
  BY DEF StartSession, SessionConnected, Forward, SessionBreaks, FinalGate, SessionStep, tracker, caller
<1>2. /\ socket \in Seq(Events) /\ sink \in Seq(Events) /\ Len(sink) <= SinkCapacity
      /\ gateLost \in BOOLEAN /\ session \in {"down", "connecting", "running", "ended"}
      /\ Len(sink) \in Nat /\ SinkCapacity \in Nat
  BY StreamAssumption DEF USInv, StreamShape
<1>3. /\ Append(sink, Reconcile) \in Seq(Events) /\ Len(Append(sink, Reconcile)) = Len(sink) + 1
      /\ InQueue(Append(sink, Reconcile)) = InQueue(sink) \cup {Reconcile}
  BY <1>2, GateEvent, AppendQueue
<1>4. CASE StartSession
  <2>1. /\ socket' = <<>> /\ session' \in {"down", "connecting"}
        /\ \/ Len(sink) < SinkCapacity /\ sink' = Append(sink, Reconcile) /\ gateLost' = gateLost
           \/ sink' = sink /\ gateLost' = TRUE
    BY <1>4 DEF StartSession, SessionStep, Room
  <2>2. Announced'
    BY <1>3, <2>1 DEF Announced
  <2>3. sink' \in Seq(Events) /\ Len(sink') <= SinkCapacity /\ gateLost' \in BOOLEAN
        /\ InQueue(sink') \subseteq InQueue(sink) \cup {Reconcile}
    <3>1. CASE Len(sink) < SinkCapacity /\ sink' = Append(sink, Reconcile) /\ gateLost' = gateLost
      BY <1>2, <1>3, <3>1
    <3>2. CASE sink' = sink /\ gateLost' = TRUE
      BY <1>2, <3>2
    <3> QED
      BY <2>1, <3>1, <3>2
  <2> QED
    BY <1>1, <2>1, <2>2, <2>3, EmptyQueue, QueuesKeep
<1>5. CASE SessionConnected
  <2>1. socket' = socket /\ sink' = sink /\ gateLost' = gateLost /\ session' = "running"
        /\ session = "connecting"
    BY <1>5 DEF SessionConnected, SessionStep
  <2>2. Announced' = Announced
    BY <2>1 DEF Announced
  <2> QED
    BY <1>1, <1>2, <2>1, <2>2, QueuesKeep
<1>6. CASE Forward
  <2>1. /\ session' = "running" /\ session = "running" /\ socket # <<>> /\ Len(sink) < SinkCapacity
        /\ socket' = Tail(socket) /\ sink' = Append(sink, Head(socket)) /\ gateLost' = gateLost
    BY <1>6 DEF Forward, SessionStep, Room
  <2>2. /\ socket' \in Seq(Events) /\ Head(socket) \in Events
        /\ InQueue(socket) = {Head(socket)} \cup InQueue(socket')
    BY <1>2, <2>1, TailQueue
  <2>3. /\ sink' \in Seq(Events) /\ Len(sink') = Len(sink) + 1
        /\ InQueue(sink') = InQueue(sink) \cup {Head(socket)}
    BY <1>2, <2>1, <2>2, AppendQueue
  <2>4. ~Announced' => ~Announced
    BY <2>1, <2>3 DEF Announced
  <2>5. Len(sink') <= SinkCapacity
    BY <1>2, <2>1, <2>3
  <2> QED
    BY <1>1, <1>2, <2>1, <2>2, <2>3, <2>4, <2>5, QueuesKeep
<1>7. CASE SessionBreaks
  <2>1. session' = "ended" /\ socket' = <<>> /\ sink' = sink /\ gateLost' = gateLost
    BY <1>7 DEF SessionBreaks, SessionStep
  <2>2. Announced'
    BY <2>1 DEF Announced
  <2> QED
    BY <1>1, <1>2, <2>1, <2>2, EmptyQueue, QueuesKeep
<1>8. CASE FinalGate
  <2>1. /\ socket' = socket /\ session' = "down"
        /\ \/ Len(sink) < SinkCapacity /\ sink' = Append(sink, Reconcile) /\ gateLost' = gateLost
           \/ sink' = sink /\ gateLost' = TRUE
    BY <1>8 DEF FinalGate, SessionStep, Room
  <2>2. Announced'
    BY <1>3, <2>1 DEF Announced
  <2>3. sink' \in Seq(Events) /\ Len(sink') <= SinkCapacity /\ gateLost' \in BOOLEAN
        /\ InQueue(sink') \subseteq InQueue(sink) \cup {Reconcile}
    <3>1. CASE Len(sink) < SinkCapacity /\ sink' = Append(sink, Reconcile) /\ gateLost' = gateLost
      BY <1>2, <1>3, <3>1
    <3>2. CASE sink' = sink /\ gateLost' = TRUE
      BY <1>2, <3>2
    <3> QED
      BY <2>1, <3>1, <3>2
  <2> QED
    BY <1>1, <1>2, <2>1, <2>2, <2>3, QueuesKeep
<1> QED
  BY <1>4, <1>5, <1>6, <1>7, <1>8

\* The tracker gives up what it holds, and a reconciliation is due.
LEMMA DisconnectKeeps ==
  ASSUME USInv, Disconnect, recon' = "due",
         UNCHANGED <<traded, socket, session, book, covered, skipped>>, gateLost' \in BOOLEAN,
         sink' \in Seq(Events), Len(sink') <= SinkCapacity, InQueue(sink') \subseteq InQueue(sink)
  PROVE  USInv'
<1>1. healthy' = FALSE /\ cumulative' = [o \in StreamOrders |-> None]
      /\ seen' = [o \in StreamOrders |-> {}]
  BY DEF Disconnect
<1>2. StreamShape'
  BY <1>1 DEF USInv, StreamShape
<1>3. StreamTrue'
  <2>1. ASSUME NEW e \in InQueue(sink') \cup InQueue(socket') PROVE Happened(e)'
    BY DEF USInv, StreamTrue, Happened
  <2>2. ASSUME NEW o \in StreamOrders
        PROVE  /\ cumulative'[o] <= traded'[o]
               /\ \A t \in seen'[o] \cup book'[o] : 1 <= t /\ t <= traded'[o]
               /\ cumulative'[o] = None => seen'[o] = {}
    <3>1. cumulative'[o] = -1 /\ seen'[o] = {} /\ traded'[o] \in Nat
      BY <1>1 DEF None, USInv, StreamShape
    <3> QED
      BY <3>1 DEF USInv, StreamTrue
  <2> QED
    BY <2>1, <2>2 DEF StreamTrue
<1>4. SeenIsGapless' /\ Followed'
  BY <1>1 DEF SeenIsGapless, Followed
<1> QED
  BY <1>2, <1>3, <1>4 DEF USInv

LEMMA TakeEventKeeps ==
  ASSUME USInv, TakeEvent
  PROVE  USInv'
<1>1. /\ recon = "none" /\ sink # <<>> /\ sink' = Tail(sink)
      /\ UNCHANGED <<traded, socket, session, sessions, gateLost, covered, skipped>>
  BY DEF TakeEvent
<1>2. PICK e : e = Head(sink)
  OBVIOUS
<1>3. /\ sink \in Seq(Events) /\ sink' \in Seq(Events) /\ Len(sink') = Len(sink) - 1
      /\ e \in Events /\ InQueue(sink) = {e} \cup InQueue(sink')
  BY <1>1, <1>2, TailQueue DEF USInv, StreamShape
<1>4. Len(sink') <= SinkCapacity /\ Len(sink') \in Nat /\ gateLost' \in BOOLEAN
  BY <1>1, <1>3, StreamAssumption DEF USInv, StreamShape
<1>5. CASE Disconnect /\ recon' = "due" /\ UNCHANGED book
  BY <1>1, <1>3, <1>4, <1>5, DisconnectKeeps
<1>6. CASE e # Reconcile /\ ~healthy /\ UNCHANGED <<healthy, cumulative, seen, recon, book>>
  <2>1. Followed'
    BY <1>1, <1>6 DEF Followed
  <2>2. StreamShape'
    BY <1>1, <1>3, <1>4, <1>6 DEF USInv, StreamShape
  <2>3. StreamTrue' /\ SeenIsGapless'
    BY <1>1, <1>3, <1>6 DEF USInv, StreamTrue, Happened, SeenIsGapless
  <2> QED
    BY <2>1, <2>2, <2>3 DEF USInv
<1>7. CASE /\ e # Reconcile /\ healthy
           /\ cumulative[e.order] = None \/ Consistent(e)
           /\ cumulative' = [cumulative EXCEPT ![e.order] = e.filled]
           /\ seen' = [seen EXCEPT ![e.order] = IF e.trade THEN @ \cup {e.filled} ELSE @]
           /\ book' = [book EXCEPT ![e.order] = IF e.trade THEN @ \cup {e.filled} ELSE @]
           /\ UNCHANGED <<healthy, recon>>
  <2>1. PICK o \in StreamOrders, n \in Nat, t \in BOOLEAN :
          e = OrderEvent(o, n, t) /\ e.order = o /\ e.filled = n /\ e.trade = t /\ e.kind = "order"
    BY <1>3, <1>7, EventCases
  <2>2. n <= traded[o] /\ (t => n > 0)
    BY <1>3, <2>1 DEF USInv, StreamTrue, Happened
  <2>3. /\ traded[o] \in Nat /\ cumulative[o] \in {None} \cup Nat /\ cumulative[o] \in Int
        /\ seen[o] \subseteq Nat /\ book[o] \subseteq Nat
    BY DEF USInv, StreamShape, None
  <2>4. /\ cumulative' \in [StreamOrders -> {None} \cup Nat]
        /\ cumulative'[o] = n /\ \A p \in StreamOrders : p # o => cumulative'[p] = cumulative[p]
    BY <1>7, <2>1 DEF USInv, StreamShape
  <2>5. /\ seen' \in [StreamOrders -> SUBSET Nat]
        /\ seen'[o] = (IF t THEN seen[o] \cup {n} ELSE seen[o])
        /\ \A p \in StreamOrders : p # o => seen'[p] = seen[p]
    BY <1>7, <2>1, <2>3 DEF USInv, StreamShape
  <2>6. /\ book' \in [StreamOrders -> SUBSET Nat]
        /\ book'[o] = (IF t THEN book[o] \cup {n} ELSE book[o])
        /\ \A p \in StreamOrders : p # o => book'[p] = book[p]
    BY <1>7, <2>1, <2>3 DEF USInv, StreamShape
  <2>7. StreamShape'
    BY <1>1, <1>3, <1>4, <1>7, <2>4, <2>5, <2>6 DEF USInv, StreamShape
  <2>8. StreamTrue'
    <3>1. ASSUME NEW x \in InQueue(sink') \cup InQueue(socket') PROVE Happened(x)'
      BY <1>1, <1>3 DEF USInv, StreamTrue, Happened
    <3>2. ASSUME NEW p \in StreamOrders
          PROVE  /\ cumulative'[p] <= traded'[p]
                 /\ \A x \in seen'[p] \cup book'[p] : 1 <= x /\ x <= traded'[p]
                 /\ cumulative'[p] = None => seen'[p] = {}
      <4>1. CASE p # o
        BY <1>1, <2>4, <2>5, <2>6, <4>1 DEF USInv, StreamTrue
      <4>2. CASE p = o
        <5>1. cumulative'[p] <= traded'[p] /\ cumulative'[p] # None
          BY <1>1, <2>2, <2>4, <4>2 DEF None
        <5>2. \A x \in seen[o] \cup book[o] : 1 <= x /\ x <= traded[o]
          BY DEF USInv, StreamTrue
        <5>3. \A x \in seen'[o] \cup book'[o] : 1 <= x /\ x <= traded[o]
          BY <2>2, <2>3, <2>5, <2>6, <5>2
        <5> QED
          BY <1>1, <4>2, <5>1, <5>3
      <4> QED
        BY <4>1, <4>2
    <3> QED
      BY <3>1, <3>2 DEF StreamTrue
  <2>9. SeenIsGapless'
    <3> SUFFICES ASSUME NEW p \in StreamOrders, NEW x \in seen'[p], NEW y \in x..cumulative'[p]
                 PROVE  y \in seen'[p]
      BY DEF SeenIsGapless
    <3>1. CASE p # o
      BY <2>4, <2>5, <3>1 DEF USInv, SeenIsGapless
    <3>2. CASE p = o
      <4>1. x \in Nat /\ y \in Int /\ x <= y /\ y <= n
        BY <2>4, <2>5, <3>2
      <4>2. CASE cumulative[o] = None
        <5>1. seen[o] = {}
          BY <4>2 DEF USInv, StreamTrue
        <5> QED
          BY <2>5, <3>2, <4>1, <5>1
      <4>3. CASE cumulative[o] # None
        <5>1. n >= cumulative[o] /\ (n > cumulative[o] => t /\ n = cumulative[o] + 1)
              /\ (n = cumulative[o] => ~t \/ n \in seen[o])
          <6>1. Consistent(e) /\ e.filled = n /\ e.order = o /\ e.trade = t
            BY <1>7, <2>1, <4>3
          <6>2. PICK d \in Int : d = e.filled - cumulative[e.order]
            BY <2>3, <6>1
          <6>3. CASE d < 0
            <7>1. ~(d > 0) /\ ~(d = 0)
              BY <6>3
            <7>2. FALSE
              BY <6>1, <6>2, <6>3, <7>1, Zenon DEF Consistent
            <7> QED
              BY <7>2
          <6>4. CASE d > 0
            <7>1. ~(d < 0) /\ ~(d = 0)
              BY <6>4
            <7>2. e.trade /\ d = 1
              BY <6>1, <6>2, <6>4, <7>1, Zenon DEF Consistent
            <7> QED
              BY <2>3, <6>1, <6>2, <7>2
          <6>5. CASE d = 0
            <7>1. ~(d < 0) /\ ~(d > 0)
              BY <6>5
            <7>2. ~e.trade \/ e.filled \in seen[e.order]
              BY <6>1, <6>2, <6>5, <7>1, Zenon DEF Consistent
            <7> QED
              BY <2>3, <6>1, <6>2, <6>5, <7>2
          <6> QED
            BY <6>3, <6>4, <6>5
        <5>2. CASE n = cumulative[o]
          <6>1. seen'[o] = seen[o]
            BY <2>5, <5>1, <5>2
          <6> QED
            BY <3>2, <4>1, <5>2, <6>1 DEF USInv, SeenIsGapless
        <5>3. CASE n = cumulative[o] + 1 /\ t
          <6>1. CASE y = n
            BY <2>5, <3>2, <5>3, <6>1
          <6>2. CASE y # n
            <7>1. x \in seen[o] /\ y \in x..cumulative[o]
              BY <2>3, <2>5, <3>2, <4>1, <5>3, <6>2
            <7> QED
              BY <2>5, <3>2, <5>3, <7>1 DEF USInv, SeenIsGapless
          <6> QED
            BY <6>1, <6>2
        <5> QED
          BY <2>3, <5>1, <5>2, <5>3
      <4> QED
        BY <4>2, <4>3
    <3> QED
      BY <3>1, <3>2
  <2>10. Followed'
    <3> SUFFICES ASSUME covered, ~Announced'
                 PROVE  /\ session = "running"
                        /\ ~skipped => \A p \in StreamOrders : \A m \in 1..traded[p] :
                             m \in book'[p] \/ OrderEvent(p, m, TRUE) \in InQueue(sink') \cup InQueue(socket)
      BY <1>1 DEF Followed
    <3>1. ~Announced
      BY <1>1, <1>3, <1>7 DEF Announced
    <3>2. /\ session = "running"
          /\ ~skipped => \A p \in StreamOrders : \A m \in 1..traded[p] :
               m \in book[p] \/ OrderEvent(p, m, TRUE) \in InQueue(sink) \cup InQueue(socket)
      BY <1>7, <3>1 DEF USInv, Followed
    <3>3. \A p \in StreamOrders : book[p] \subseteq book'[p]
      BY <2>6
    <3>4. ASSUME NEW p \in StreamOrders, NEW m \in 1..traded[p], e = OrderEvent(p, m, TRUE)
          PROVE  m \in book'[p]
      <4>1. m \in Nat /\ TRUE \in BOOLEAN
        BY DEF USInv, StreamShape
      <4>2. e.order = p /\ e.filled = m /\ e.trade = TRUE
        BY <3>4, <4>1, OrderFields
      <4> QED
        BY <2>1, <2>6, <4>2
    <3> QED
      BY <1>3, <3>2, <3>3, <3>4
  <2> QED
    BY <2>7, <2>8, <2>9, <2>10 DEF USInv
<1>8. \/ Disconnect /\ recon' = "due" /\ UNCHANGED book
      \/ e # Reconcile /\ ~healthy /\ UNCHANGED <<healthy, cumulative, seen, recon, book>>
      \/ /\ e # Reconcile /\ healthy
         /\ cumulative[e.order] = None \/ Consistent(e)
         /\ cumulative' = [cumulative EXCEPT ![e.order] = e.filled]
         /\ seen' = [seen EXCEPT ![e.order] = IF e.trade THEN @ \cup {e.filled} ELSE @]
         /\ book' = [book EXCEPT ![e.order] = IF e.trade THEN @ \cup {e.filled} ELSE @]
         /\ UNCHANGED <<healthy, recon>>
  <2>1. CASE e.kind = "reconcile"
    BY <1>2, <2>1 DEF TakeEvent
  <2>2. CASE e.kind # "reconcile"
    <3>1. Accept(e) /\ e # Reconcile
      BY <1>2, <2>2, GateEvent DEF TakeEvent
    <3> QED
      BY <2>2, <3>1 DEF Accept, tracker
  <2> QED
    BY <2>1, <2>2
<1> QED
  BY <1>5, <1>6, <1>7, <1>8

LEMMA USInvNext == USInv /\ [USNext]_usVars => USInv'
<1> SUFFICES ASSUME USInv, [USNext]_usVars PROVE USInv'
  OBVIOUS
<1>1. CASE ReadTruth
  <2>1. /\ recon' = "read" /\ book' = [o \in StreamOrders |-> 1..traded[o]]
        /\ covered' = (session = "running") /\ recon = "due"
        /\ UNCHANGED <<traded, socket, sink, session, sessions, gateLost, healthy, cumulative, seen, skipped>>
    BY <1>1 DEF ReadTruth, tracker
  <2>2. book' \in [StreamOrders -> SUBSET Nat]
    BY <2>1 DEF USInv, StreamShape
  <2>3. StreamShape'
    BY <2>1, <2>2 DEF USInv, StreamShape
  <2>4. StreamTrue'
    <3>1. \A e \in InQueue(sink') \cup InQueue(socket') : Happened(e)'
      BY <2>1 DEF USInv, StreamTrue, Happened
    <3>2. ASSUME NEW o \in StreamOrders
          PROVE  \A t \in seen'[o] \cup book'[o] : 1 <= t /\ t <= traded'[o]
      <4>1. traded[o] \in Nat /\ book'[o] = 1..traded[o]
        BY <2>1 DEF USInv, StreamShape
      <4> QED
        BY <2>1, <4>1 DEF USInv, StreamTrue
    <3> QED
      BY <2>1, <3>1, <3>2 DEF USInv, StreamTrue
  <2>5. SeenIsGapless'
    BY <2>1 DEF USInv, SeenIsGapless
  <2>6. Followed'
    BY <2>1 DEF Followed
  <2> QED
    BY <2>3, <2>4, <2>5, <2>6 DEF USInv
<1>2. CASE MarkReconciled
  <2>1. /\ recon = "read" /\ recon' = "none" /\ healthy' = TRUE
        /\ UNCHANGED <<traded, socket, sink, session, sessions, gateLost, cumulative, seen,
                       book, covered, skipped>>
    BY <1>2 DEF MarkReconciled
  <2>2. Announced' = Announced
    BY <2>1 DEF Announced
  <2>3. StreamShape' /\ SeenIsGapless'
    BY <2>1 DEF USInv, StreamShape, SeenIsGapless
  <2>4. StreamTrue'
    BY <2>1 DEF USInv, StreamTrue, Happened
  <2>5. Followed'
    BY <2>1, <2>2 DEF USInv, Followed
  <2> QED
    BY <2>3, <2>4, <2>5 DEF USInv
<1>3. CASE SafeHoldOnError
  BY <1>3, DisconnectKeeps DEF SafeHoldOnError, USInv, StreamShape
<1>4. CASE UNCHANGED usVars
  BY <1>4 DEF usVars, USInv, StreamShape, StreamTrue, Happened, SeenIsGapless, Followed, Announced
<1>5. CASE USNext
  BY <1>1, <1>2, <1>3, <1>5, TradeKeeps, ReportKeeps, SessionKeeps, TakeEventKeeps DEF USNext
<1> QED
  BY <1>4, <1>5

\* A healthy tracker with nothing left to take holds every trade, and what it holds of an
\* order has no gap.
THEOREM StreamMissesNothing == USSpec => []StreamSafety
<1>1. USInv => StreamSafety
  <2> SUFFICES ASSUME USInv PROVE StreamSafety
    OBVIOUS
  <2>1. USTypeOK
    <3>1. ASSUME NEW o \in StreamOrders
          PROVE  cumulative[o] \in {None} \cup 0..traded[o] /\ seen[o] \subseteq 1..traded[o]
      <4>1. cumulative[o] \in {None} \cup Nat /\ seen[o] \subseteq Nat /\ traded[o] \in Nat
        BY DEF USInv, StreamShape
      <4> QED
        BY <4>1 DEF USInv, StreamTrue
    <3> QED
      BY <3>1 DEF USTypeOK, USInv, StreamShape
  <2>2. HealthyIsComplete
    <3> SUFFICES ASSUME healthy, covered, ~skipped, Drained PROVE Complete
      BY DEF HealthyIsComplete
    <3>1. ~Announced
      BY EmptyQueue DEF Drained, Announced
    <3>2. \A o \in StreamOrders : \A n \in 1..traded[o] : n \in book[o]
      BY <3>1, EmptyQueue DEF Drained, USInv, Followed
    <3>3. \A o \in StreamOrders : book[o] \subseteq 1..traded[o]
      BY DEF USInv, StreamTrue, StreamShape
    <3> QED
      BY <3>2, <3>3 DEF Complete
  <2> QED
    BY <2>1, <2>2 DEF StreamSafety, USInv
<1> QED
  BY <1>1, USInvInit, USInvNext, PTL DEF USSpec

-----------------------------------------------------------------------------
(* The connections per IBKR instrument *)

ChildMaps(n) == [Symbols -> {NoClient} \cup 0 .. n - 1]

\* No two connections of one process share a client id.
Distinct(c) == \A a, b \in Children(c) : c[a] = c[b] => a = b

ConnectionShape ==
  /\ dynamicMode \in BOOLEAN /\ accountWide \in BOOLEAN /\ churned \in BOOLEAN
  /\ universe \in SUBSET Symbols /\ universe # {}
  /\ nextClient \in Nat /\ nextClient <= MaxClient + NumInstruments
  /\ child \in ChildMaps(nextClient) /\ Distinct(child) /\ Children(child) # {}
  /\ pinned \subseteq Symbols /\ unread \subseteq Symbols
  /\ quantity \in [OrderIds -> 0 .. Size] /\ open \subseteq OrderIds
  /\ \A o \in open : quantity[o] # Size
  /\ listing \in [OrderIds -> {NotListed} \cup 0 .. Size]
  /\ reading \in {"idle", "asking"}

Placed(o) == placed[o] # NoOrderYet

\* An order belongs to an instrument and a client; only such orders are open or listed.
OrdersInv ==
  /\ placed \in [OrderIds -> [symbol : Int, client : Int]]
  /\ \A o \in OrderIds : Placed(o) => placed[o].symbol \in Symbols /\ placed[o].client \in Nat
  /\ \A o \in open : Placed(o)
  /\ \A o \in OrderIds : ~Placed(o) => quantity[o] = 0
  /\ \A o \in OrderIds : listing[o] # NotListed => Placed(o)
  /\ trusted \subseteq open /\ began \subseteq open

\* An order a clean read has listed is pinned, so its connection stays.
TrustedInv == \A o \in trusted :
  placed[o].symbol \in pinned /\ child[placed[o].symbol] = placed[o].client

NoChildren == [a \in Symbols |-> NoClient]

\* While the instruments stay the same, the client ids are those of a fresh start.
SteadyInv ==
  ~churned =>
    /\ child = Connected(NoChildren, universe, 0)
    /\ pinned \subseteq universe
    /\ \A o \in OrderIds : Placed(o) =>
         placed[o].symbol \in universe /\ child[placed[o].symbol] = placed[o].client

\* What the children that have answered could show of the orders open since the call began
\* is in the answer.
ReadInv ==
  reading = "asking" =>
    \A o \in began :
      /\ \A a \in Children(child) \ unread : child[a] = placed[o].client => o \in Listed
      /\ accountWide /\ unread # Children(child) => o \in Listed

IIInv ==
  /\ ConnectionShape /\ OrdersInv /\ TrustedInv /\ UniverseHasAdapters /\ SteadyInv /\ ReadInv

-----------------------------------------------------------------------------
LEMMA SymbolsFinite ==
  ASSUME NEW S \in SUBSET Symbols
  PROVE  /\ IsFiniteSet(S) /\ Cardinality(S) \in Nat /\ Cardinality(S) <= NumInstruments
         /\ \A a \in S : a \in Nat
<1>1. NumInstruments \in Nat /\ NumInstruments > 0
  BY InstrumentAssumption
<1>2. IsFiniteSet(Symbols) /\ Cardinality(Symbols) = NumInstruments
  <2>1. 1 \in Int /\ NumInstruments \in Int
    BY <1>1
  <2>2. IsFiniteSet(1 .. NumInstruments)
        /\ Cardinality(1 .. NumInstruments) = IF 1 > NumInstruments THEN 0 ELSE NumInstruments - 1 + 1
    BY <2>1, FS_Interval
  <2> QED
    BY <1>1, <2>2 DEF Symbols
<1>3. IsFiniteSet(S) /\ Cardinality(S) <= Cardinality(Symbols)
  BY <1>2, FS_Subset
<1>4. Cardinality(S) \in Nat
  BY <1>3, FS_CardinalityType
<1> QED
  BY <1>1, <1>2, <1>3, <1>4 DEF Symbols

\* The place of an instrument in the key order of a set.
Rank(new, a) == Cardinality({b \in new : b < a})

\* Instruments in key order have different places below the size of the set.
LEMMA Counting ==
  ASSUME NEW new \in SUBSET Symbols, NEW a \in new
  PROVE  /\ Rank(new, a) \in Nat /\ Rank(new, a) < Cardinality(new)
         /\ \A c \in new : a < c => Rank(new, a) < Rank(new, c)
<1>1. ASSUME NEW S \in SUBSET Symbols, NEW T \in SUBSET S, T # S
      PROVE  Cardinality(T) \in Nat /\ Cardinality(T) < Cardinality(S)
  <2>1. IsFiniteSet(S) /\ Cardinality(S) \in Nat /\ T \in SUBSET Symbols
    BY SymbolsFinite
  <2>2. Cardinality(T) \in Nat
    BY <2>1, SymbolsFinite
  <2>3. Cardinality(T) <= Cardinality(S) /\ (Cardinality(S) = Cardinality(T) => S = T)
    BY <2>1, FS_Subset
  <2> QED
    BY <1>1, <2>1, <2>2, <2>3
<1>2. \A x \in new : x \in Nat
  BY SymbolsFinite
<1>3. {b \in new : b < a} \in SUBSET new /\ a \notin {b \in new : b < a}
  BY <1>2
<1>4. Rank(new, a) \in Nat /\ Rank(new, a) < Cardinality(new)
  BY <1>1, <1>3 DEF Rank
<1>5. ASSUME NEW c \in new, a < c
      PROVE  Rank(new, a) < Rank(new, c)
  <2>1. {b \in new : b < a} \in SUBSET {b \in new : b < c} /\ a \in {b \in new : b < c}
        /\ {b \in new : b < c} \in SUBSET Symbols
    BY <1>2, <1>5
  <2> QED
    BY <1>1, <1>3, <2>1 DEF Rank
<1> QED
  BY <1>4, <1>5

\* Connecting new instruments takes new ids and leaves the others alone.
LEMMA ConnectedKeeps ==
  ASSUME NEW n \in Nat, NEW c \in ChildMaps(n), Distinct(c),
         NEW new \in SUBSET Symbols, new \cap Children(c) = {}
  PROVE  /\ Connected(c, new, n) \in ChildMaps(n + Cardinality(new))
         /\ Distinct(Connected(c, new, n))
         /\ Children(Connected(c, new, n)) = Children(c) \cup new
         /\ \A a \in Symbols \ new : Connected(c, new, n)[a] = c[a]
<1>1. PICK d : d = Connected(c, new, n)
  OBVIOUS
<1>2. PICK k \in Nat : k = Cardinality(new)
  BY SymbolsFinite
<1>3. DOMAIN d = Symbols /\ d = [a \in Symbols |-> d[a]]
  BY <1>1 DEF Connected
<1>4. \A a \in new : d[a] = n + Rank(new, a)
  BY <1>1 DEF Connected, Rank
<1>5. \A a \in Symbols \ new : d[a] = c[a]
  BY <1>1 DEF Connected
<1>6. \A a \in new : d[a] \in n .. n + k - 1
  BY <1>2, <1>4, Counting
<1>7. \A a \in Symbols : c[a] \in {NoClient} \cup 0 .. n - 1
  BY DEF ChildMaps
<1>8. d \in ChildMaps(n + k)
  <2>1. \A a \in Symbols : d[a] \in {NoClient} \cup 0 .. n + k - 1
    BY <1>5, <1>6, <1>7
  <2> QED
    BY <1>3, <2>1 DEF ChildMaps
<1>9. Children(d) = Children(c) \cup new
  BY <1>5, <1>6 DEF Children, NoClient
<1>10. Distinct(d)
  <2> SUFFICES ASSUME NEW a \in Children(d), NEW b \in Children(d), d[a] = d[b], a # b PROVE FALSE
    BY DEF Distinct
  <2>1. a \in Symbols /\ b \in Symbols /\ a \in Int /\ b \in Int
    BY SymbolsFinite DEF Children, Symbols
  <2>2. \A x \in Children(c) : x \notin new /\ d[x] = c[x] /\ c[x] \in 0 .. n - 1
    BY <1>5, <1>7 DEF Children, NoClient
  <2>3. CASE a \in new /\ b \in new
    <3>1. CASE a < b
      <4>1. Rank(new, a) \in Nat /\ Rank(new, b) \in Nat /\ Rank(new, a) < Rank(new, b)
        BY <2>3, <3>1, Counting
      <4> QED
        BY <1>4, <2>3, <4>1
    <3>2. CASE b < a
      <4>1. Rank(new, a) \in Nat /\ Rank(new, b) \in Nat /\ Rank(new, b) < Rank(new, a)
        BY <2>3, <3>2, Counting
      <4> QED
        BY <1>4, <2>3, <4>1
    <3> QED
      BY <2>1, <3>1, <3>2
  <2>4. CASE a \in Children(c) /\ b \in Children(c)
    BY <2>2, <2>4 DEF Distinct
  <2>5. CASE a \in new /\ b \in Children(c)
    BY <1>6, <2>2, <2>5
  <2>6. CASE a \in Children(c) /\ b \in new
    BY <1>6, <2>2, <2>6
  <2> QED
    BY <1>9, <2>3, <2>4, <2>5, <2>6
<1> QED
  BY <1>1, <1>2, <1>5, <1>8, <1>9, <1>10

\* A drop leaves what is desired, when some of it is connected.
LEMMA DroppedKeeps ==
  ASSUME NEW n, NEW c \in ChildMaps(n), Distinct(c), NEW desired, Children(c) \cap desired # {}
  PROVE  /\ Dropped(c, desired) \in ChildMaps(n)
         /\ Distinct(Dropped(c, desired))
         /\ Children(Dropped(c, desired)) = Children(c) \cap desired
         /\ \A a \in Children(c) \cap desired : Dropped(c, desired)[a] = c[a]
<1>1. PICK d : d = Dropped(c, desired)
  OBVIOUS
<1>2. d = [a \in Symbols |-> IF a \in Children(c) \cap desired THEN c[a] ELSE NoClient]
  BY <1>1 DEF Dropped, Retained
<1>3. d \in ChildMaps(n)
  BY <1>2 DEF ChildMaps
<1>4. Children(d) = Children(c) \cap desired
  BY <1>2 DEF Children
<1>5. \A a \in Children(c) \cap desired : d[a] = c[a]
  BY <1>2 DEF Children
<1>6. Distinct(d)
  BY <1>4, <1>5 DEF Distinct
<1> QED
  BY <1>1, <1>3, <1>4, <1>5, <1>6

\* A fresh start.
LEMMA FreshStart ==
  ASSUME NEW u \in SUBSET Symbols, u # {}
  PROVE  /\ Connected(NoChildren, u, 0) \in ChildMaps(Cardinality(u))
         /\ Distinct(Connected(NoChildren, u, 0))
         /\ Children(Connected(NoChildren, u, 0)) = u
         /\ Cardinality(u) \in Nat /\ Cardinality(u) <= MaxClient + NumInstruments
<1>1. NoChildren \in ChildMaps(0) /\ Children(NoChildren) = {} /\ Distinct(NoChildren)
      /\ u \cap Children(NoChildren) = {} /\ 0 \in Nat
  BY DEF NoChildren, ChildMaps, Children, Distinct
<1>2. Cardinality(u) \in Nat /\ Cardinality(u) <= NumInstruments /\ 0 + Cardinality(u) = Cardinality(u)
  BY SymbolsFinite
<1>3. MaxClient \in Nat /\ NumInstruments \in Nat
  BY InstrumentAssumption
<1>4. /\ Connected(NoChildren, u, 0) \in ChildMaps(0 + Cardinality(u))
      /\ Distinct(Connected(NoChildren, u, 0))
      /\ Children(Connected(NoChildren, u, 0)) = Children(NoChildren) \cup u
  BY <1>1, ConnectedKeeps
<1> QED
  BY <1>1, <1>2, <1>3, <1>4

-----------------------------------------------------------------------------
LEMMA TrustedFacts ==
  ASSUME IIInv, NEW o \in trusted
  PROVE  /\ placed[o].symbol \in pinned /\ child[placed[o].symbol] = placed[o].client
         /\ placed[o].client \in Nat /\ placed[o].symbol \in Symbols
         /\ o \in open /\ o \in OrderIds
BY DEF IIInv, TrustedInv, OrdersInv, ConnectionShape

LEMMA IIInvInit == IIInit => IIInv
<1> SUFFICES ASSUME IIInit PROVE IIInv
  OBVIOUS
<1>1. /\ universe \in SUBSET Symbols /\ universe # {}
      /\ child = Connected(NoChildren, universe, 0) /\ nextClient = Cardinality(universe)
      /\ placed = [o \in OrderIds |-> NoOrderYet] /\ quantity = [o \in OrderIds |-> 0] /\ open = {}
      /\ pinned = {} /\ trusted = {} /\ churned = FALSE /\ unread = {}
      /\ listing = [o \in OrderIds |-> NotListed] /\ began = {} /\ reading = "idle"
      /\ dynamicMode \in BOOLEAN /\ accountWide \in BOOLEAN
  <2>1. universe \in SUBSET Symbols /\ universe # {}
    BY DEF IIInit
  <2>2. child = Connected(NoChildren, universe, 0) /\ nextClient = Cardinality(universe)
    BY DEF IIInit, NoChildren
  <2>3. dynamicMode \in BOOLEAN /\ accountWide \in BOOLEAN /\ churned = FALSE
    BY DEF IIInit
  <2> QED
    BY <2>1, <2>2, <2>3 DEF IIInit
<1>2. /\ child \in ChildMaps(nextClient) /\ Distinct(child) /\ Children(child) = universe
      /\ nextClient \in Nat /\ nextClient <= MaxClient + NumInstruments
  BY <1>1, FreshStart
<1>3. ConnectionShape
  <2>1. Size \in Nat
    BY InstrumentAssumption
  <2>2. quantity \in [OrderIds -> 0 .. Size]
    BY <1>1, <2>1
  <2> QED
    BY <1>1, <1>2, <2>2 DEF ConnectionShape
<1>4. OrdersInv /\ TrustedInv
  BY <1>1 DEF OrdersInv, TrustedInv, Placed, NoOrderYet, NoClient
<1>5. UniverseHasAdapters
  BY <1>2 DEF UniverseHasAdapters
<1>6. SteadyInv /\ ReadInv
  BY <1>1 DEF SteadyInv, ReadInv, Placed
<1> QED
  BY <1>3, <1>4, <1>5, <1>6 DEF IIInv

\* A universe tick keeps what is pinned, and gives the others their connections.
LEMMA UniverseAppliedKeeps ==
  ASSUME IIInv, NEW u \in SUBSET Symbols, UniverseApplied(u)
  PROVE  IIInv'
<1>1. PICK desired : desired = u \cup pinned
  OBVIOUS
<1>2. PICK new : new = desired \ Children(child)
  OBVIOUS
<1>3. PICK mid : mid = Connected(child, new, nextClient)
  OBVIOUS
<1>4. /\ u # {} /\ dynamicMode /\ reading = "idle" /\ universe' = u
      /\ nextClient + Cardinality(new) <= MaxClient
      /\ child' = Dropped(mid, desired) /\ nextClient' = nextClient + Cardinality(new)
      /\ churned' = (churned \/ u # universe)
      /\ UNCHANGED <<dynamicMode, accountWide, boots, pinned, trusted, placed, quantity, open,
                     unread, listing, began, reading>>
  BY <1>1, <1>2, <1>3 DEF UniverseApplied, DesiredSymbols, iiFixed, iiVenue, iiRead
<1>5. /\ desired \in SUBSET Symbols /\ new \in SUBSET Symbols /\ new \cap Children(child) = {}
      /\ nextClient \in Nat /\ child \in ChildMaps(nextClient) /\ Distinct(child)
  BY <1>1, <1>2 DEF IIInv, ConnectionShape
<1>6. /\ mid \in ChildMaps(nextClient + Cardinality(new)) /\ Distinct(mid)
      /\ Children(mid) = Children(child) \cup new
      /\ \A a \in Symbols \ new : mid[a] = child[a]
  BY <1>3, <1>5, ConnectedKeeps
<1>7. desired \subseteq Children(mid) /\ desired # {}
  BY <1>1, <1>2, <1>4, <1>6
<1>8. Children(mid) \cap desired # {} /\ Children(mid) \cap desired = desired
  BY <1>7
<1>9. /\ child' \in ChildMaps(nextClient') /\ Distinct(child') /\ Children(child') = desired
      /\ \A a \in desired : child'[a] = mid[a]
  <2>1. PICK n : n = nextClient + Cardinality(new)
    OBVIOUS
  <2>2. mid \in ChildMaps(n) /\ nextClient' = n
    BY <1>4, <1>6, <2>1
  <2> QED
    BY <1>4, <1>6, <1>8, <2>2, DroppedKeeps
<1>10. ConnectionShape'
  <2>1. Cardinality(new) \in Nat
    BY <1>5, SymbolsFinite
  <2>2. nextClient' \in Nat /\ nextClient' <= MaxClient + NumInstruments
    BY <1>4, <1>5, <2>1, InstrumentAssumption
  <2>3. Distinct(child)' /\ (Children(child) # {})'
    BY <1>7, <1>9 DEF Distinct, Children
  <2>4. (child \in ChildMaps(nextClient))'
    BY <1>9 DEF ChildMaps
  <2>5. churned' \in BOOLEAN
    BY <1>4 DEF IIInv, ConnectionShape
  <2> QED
    BY <1>4, <2>2, <2>3, <2>4, <2>5 DEF IIInv, ConnectionShape
<1>11. OrdersInv'
  BY <1>4 DEF IIInv, OrdersInv, Placed
<1>12. TrustedInv'
  <2> SUFFICES ASSUME NEW o \in trusted
               PROVE  placed[o].symbol \in pinned /\ child'[placed[o].symbol] = placed[o].client
    BY <1>4 DEF TrustedInv
  <2>1. /\ placed[o].symbol \in pinned /\ child[placed[o].symbol] = placed[o].client
        /\ placed[o].client \in Nat /\ placed[o].symbol \in Symbols
    BY TrustedFacts
  <2>2. placed[o].symbol \in Children(child)
    BY <2>1 DEF Children, NoClient
  <2>3. placed[o].symbol \in desired /\ placed[o].symbol \notin new
    BY <1>1, <1>2, <2>1, <2>2
  <2> QED
    BY <1>6, <1>9, <2>1, <2>3
<1>13. UniverseHasAdapters'
  <2>1. Children(child)' = Children(child')
    BY DEF Children
  <2> QED
    BY <1>1, <1>4, <1>9, <2>1 DEF UniverseHasAdapters
<1>14. SteadyInv'
  <2> SUFFICES ASSUME ~churned' PROVE SteadyInv'
    BY DEF SteadyInv
  <2>1. ~churned /\ u = universe
    BY <1>4 DEF IIInv, ConnectionShape
  <2>2. /\ child = Connected(NoChildren, universe, 0) /\ pinned \subseteq universe
        /\ Children(child) = universe
    BY <2>1, FreshStart DEF IIInv, SteadyInv, ConnectionShape
  <2>3. desired = universe /\ new = {}
    BY <1>1, <1>2, <2>1, <2>2
  <2>4. \A a \in Symbols : child'[a] = child[a]
    <3>1. \A a \in Symbols : mid[a] = child[a]
      BY <1>6, <2>3
    <3>2. \A a \in Symbols \ universe : child[a] = NoClient
      BY <2>2 DEF Children
    <3>3. \A a \in Symbols \ universe : child'[a] = NoClient
      BY <1>9, <2>3 DEF Children
    <3> QED
      BY <1>9, <2>3, <3>1, <3>2, <3>3
  <2>5. child' = child
    BY <1>5, <1>9, <2>4 DEF ChildMaps
  <2> QED
    BY <1>4, <2>1, <2>5 DEF IIInv, SteadyInv, Connected, NoChildren, Placed
<1>15. ReadInv'
  BY <1>4 DEF ReadInv
<1> QED
  BY <1>10, <1>11, <1>12, <1>13, <1>14, <1>15 DEF IIInv

\* More client ids leave a table of connections a table of connections.
LEMMA ChildMapsGrow ==
  ASSUME NEW m \in Nat, NEW n \in Nat, m <= n, NEW c \in ChildMaps(m)
  PROVE  c \in ChildMaps(n)
<1>1. 0 .. m - 1 \subseteq 0 .. n - 1
  OBVIOUS
<1>2. {NoClient} \cup 0 .. m - 1 \subseteq {NoClient} \cup 0 .. n - 1
  BY <1>1
<1> QED
  BY <1>2 DEF ChildMaps

LEMMA UniverseBreaksKeeps ==
  ASSUME IIInv, NEW u \in SUBSET Symbols, NEW x \in Symbols, UniverseBreaks(u, x)
  PROVE  IIInv'
<1>1. PICK before : before = {b \in DesiredSymbols(u, pinned) \ Children(child) : b < x}
  OBVIOUS
<1>2. /\ reading = "idle" /\ nextClient + Cardinality(before) + 1 <= MaxClient
      /\ child' = Connected(child, before, nextClient)
      /\ nextClient' = nextClient + Cardinality(before) + 1 /\ churned' = TRUE
      /\ UNCHANGED <<dynamicMode, accountWide, boots, universe, pinned, trusted, placed, quantity,
                     open, unread, listing, began, reading>>
  BY <1>1 DEF UniverseBreaks, iiFixed, iiVenue, iiRead
<1>3. /\ before \in SUBSET Symbols /\ before \cap Children(child) = {}
      /\ nextClient \in Nat /\ child \in ChildMaps(nextClient) /\ Distinct(child)
  BY <1>1 DEF IIInv, ConnectionShape, DesiredSymbols
<1>4. PICK k \in Nat : k = Cardinality(before)
  BY <1>3, SymbolsFinite
<1>5. /\ child' \in ChildMaps(nextClient + k) /\ Distinct(child')
      /\ Children(child') = Children(child) \cup before
      /\ \A a \in Symbols \ before : child'[a] = child[a]
  BY <1>2, <1>3, <1>4, ConnectedKeeps
<1>6. ConnectionShape'
  <2>1. nextClient' \in Nat /\ nextClient' <= MaxClient + NumInstruments /\ nextClient' = nextClient + k + 1
    BY <1>2, <1>3, <1>4, InstrumentAssumption
  <2>2. child' \in ChildMaps(nextClient')
    <3>1. PICK m \in Nat : m = nextClient + k
      BY <1>3
    <3>2. child' \in ChildMaps(m) /\ m <= nextClient' /\ nextClient' \in Nat
      BY <1>3, <1>5, <2>1, <3>1
    <3> QED
      BY <3>2, ChildMapsGrow
  <2>3. Distinct(child)' /\ (Children(child) # {})'
    BY <1>5 DEF Distinct, Children, IIInv, ConnectionShape
  <2>4. (child \in ChildMaps(nextClient))'
    BY <2>2 DEF ChildMaps
  <2> QED
    BY <1>2, <2>1, <2>3, <2>4 DEF IIInv, ConnectionShape
<1>7. OrdersInv'
  BY <1>2 DEF IIInv, OrdersInv, Placed
<1>8. TrustedInv'
  <2> SUFFICES ASSUME NEW o \in trusted
               PROVE  placed[o].symbol \in pinned /\ child'[placed[o].symbol] = placed[o].client
    BY <1>2 DEF TrustedInv
  <2>1. /\ placed[o].symbol \in pinned /\ child[placed[o].symbol] = placed[o].client
        /\ placed[o].client \in Nat /\ placed[o].symbol \in Symbols
    BY TrustedFacts
  <2>2. placed[o].symbol \in Children(child)
    BY <2>1 DEF Children, NoClient
  <2> QED
    BY <1>3, <1>5, <2>1, <2>2
<1>9. UniverseHasAdapters'
  <2>1. Children(child)' = Children(child')
    BY DEF Children
  <2> QED
    BY <1>2, <1>5, <2>1 DEF IIInv, UniverseHasAdapters
<1>10. SteadyInv' /\ ReadInv'
  BY <1>2 DEF SteadyInv, ReadInv
<1> QED
  BY <1>6, <1>7, <1>8, <1>9, <1>10 DEF IIInv

LEMMA StaticReloadKeeps ==
  ASSUME IIInv, NEW u \in SUBSET Symbols, StaticReload(u)
  PROVE  IIInv'
<1>1. /\ ~dynamicMode /\ reading = "idle" /\ u # {} /\ universe' = u
      /\ churned' = (churned \/ u # universe)
      /\ UNCHANGED <<dynamicMode, accountWide, boots, child, nextClient, pinned, trusted, placed,
                     quantity, open, unread, listing, began, reading>>
  BY DEF StaticReload, iiFixed, iiVenue, iiRead
<1>2. ConnectionShape'
  BY <1>1 DEF IIInv, ConnectionShape, ChildMaps, Distinct, Children
<1>3. OrdersInv' /\ TrustedInv'
  BY <1>1 DEF IIInv, OrdersInv, TrustedInv, Placed
<1>4. UniverseHasAdapters' /\ ReadInv'
  BY <1>1 DEF UniverseHasAdapters, ReadInv
<1>5. SteadyInv'
  <2>1. ~churned' => ~churned /\ universe' = universe
    BY <1>1 DEF IIInv, ConnectionShape
  <2> QED
    BY <1>1, <2>1 DEF IIInv, SteadyInv, Placed, NoChildren, Connected
<1> QED
  BY <1>2, <1>3, <1>4, <1>5 DEF IIInv

LEMMA RestartKeeps ==
  ASSUME IIInv, NEW u \in SUBSET Symbols, Restart(u)
  PROVE  IIInv'
<1>1. /\ u # {} /\ universe' = u /\ child' = Connected(NoChildren, u, 0)
      /\ nextClient' = Cardinality(u) /\ pinned' = {} /\ trusted' = {}
      /\ churned' = (churned \/ u # universe)
      /\ unread' = {} /\ listing' = [o \in OrderIds |-> NotListed] /\ began' = {} /\ reading' = "idle"
      /\ UNCHANGED <<dynamicMode, accountWide, placed, quantity, open>>
  <2>1. 0 + Cardinality(u) = Cardinality(u)
    BY SymbolsFinite
  <2> QED
    BY <2>1 DEF Restart, iiFixed, iiVenue, NoChildren, BootBase
<1>2. /\ child' \in ChildMaps(nextClient') /\ Distinct(child') /\ Children(child') = u
      /\ nextClient' \in Nat /\ nextClient' <= MaxClient + NumInstruments
  BY <1>1, FreshStart
<1>3. /\ Children(child)' = u /\ Distinct(child)' /\ (child \in ChildMaps(nextClient))'
  BY <1>2 DEF Children, Distinct, ChildMaps
<1>4. ConnectionShape'
  BY <1>1, <1>2, <1>3 DEF IIInv, ConnectionShape
<1>5. OrdersInv' /\ TrustedInv'
  BY <1>1 DEF IIInv, OrdersInv, TrustedInv, Placed
<1>6. UniverseHasAdapters' /\ ReadInv'
  BY <1>1, <1>3 DEF UniverseHasAdapters, ReadInv
<1>7. SteadyInv'
  <2>1. ~churned' => ~churned /\ u = universe
    BY <1>1 DEF IIInv, ConnectionShape
  <2> QED
    BY <1>1, <2>1 DEF IIInv, SteadyInv, Placed, NoChildren, Connected
<1> QED
  BY <1>4, <1>5, <1>6, <1>7 DEF IIInv

\* Orders are placed, filled and canceled.
LEMMA OrderKeeps ==
  ASSUME IIInv, NEW o \in OrderIds,
         (\E a \in Symbols : RouteOrder(o, a)) \/ VenueFills(o) \/ CancelOrder(o)
  PROVE  IIInv'
<1>1. ASSUME NEW a \in Symbols, RouteOrder(o, a) PROVE IIInv'
  <2>1. /\ reading = "idle" /\ a \in universe /\ child[a] # NoClient /\ ~Placed(o)
        /\ placed' = [placed EXCEPT ![o] = [symbol |-> a, client |-> child[a]]]
        /\ open' = open \cup {o}
        /\ UNCHANGED <<dynamicMode, accountWide, boots, universe, child, nextClient, quantity, pinned,
                       trusted, churned, unread, listing, began, reading>>
    BY <1>1 DEF RouteOrder, iiFixed, iiRead, Placed
  <2>2. child[a] \in Nat /\ a \in Int /\ a # 0
    BY <2>1 DEF IIInv, ConnectionShape, ChildMaps, Symbols
  <2>3. /\ placed' \in [OrderIds -> [symbol : Int, client : Int]]
        /\ placed'[o] = [symbol |-> a, client |-> child[a]]
        /\ \A p \in OrderIds : p # o => placed'[p] = placed[p]
    BY <2>1, <2>2 DEF IIInv, OrdersInv
  <2>4. placed'[o].symbol = a /\ placed'[o].client = child[a] /\ placed'[o] # NoOrderYet
    BY <2>2, <2>3 DEF NoOrderYet
  <2>5. ConnectionShape'
    <3>1. quantity[o] # Size
      BY <2>1, InstrumentAssumption DEF IIInv, OrdersInv
    <3> QED
      BY <2>1, <3>1 DEF IIInv, ConnectionShape, ChildMaps, Distinct, Children
  <2>6. OrdersInv'
    <3>1. ASSUME NEW p \in OrderIds
          PROVE  /\ placed'[p] # NoOrderYet => placed'[p].symbol \in Symbols /\ placed'[p].client \in Nat
                 /\ p \in open' => placed'[p] # NoOrderYet
                 /\ placed'[p] = NoOrderYet => quantity'[p] = 0
                 /\ listing'[p] # NotListed => placed'[p] # NoOrderYet
      <4>1. CASE p = o
        BY <2>2, <2>4, <4>1
      <4>2. CASE p # o
        BY <2>1, <2>3, <4>2 DEF IIInv, OrdersInv, Placed
      <4> QED
        BY <4>1, <4>2
    <3>2. open' \subseteq OrderIds
      BY <2>1 DEF IIInv, ConnectionShape
    <3>3. trusted' \subseteq open' /\ began' \subseteq open'
      BY <2>1 DEF IIInv, OrdersInv
    <3> QED
      BY <2>3, <3>1, <3>2, <3>3 DEF OrdersInv, Placed
  <2>7. TrustedInv'
    <3> SUFFICES ASSUME NEW p \in trusted
                 PROVE  placed'[p].symbol \in pinned /\ child[placed'[p].symbol] = placed'[p].client
      BY <2>1 DEF TrustedInv
    <3>1. p \in open /\ p \in OrderIds /\ p # o
      BY <2>1, TrustedFacts DEF IIInv, OrdersInv
    <3> QED
      BY <2>3, <3>1, TrustedFacts
  <2>8. UniverseHasAdapters' /\ ReadInv'
    BY <2>1 DEF IIInv, UniverseHasAdapters, ReadInv, Children
  <2>9. SteadyInv'
    <3> SUFFICES ASSUME ~churned
                 PROVE  /\ child = Connected(NoChildren, universe, 0)
                        /\ pinned \subseteq universe
                        /\ \A p \in OrderIds : placed'[p] # NoOrderYet =>
                             placed'[p].symbol \in universe /\ child[placed'[p].symbol] = placed'[p].client
      BY <2>1 DEF SteadyInv, Placed, Connected, NoChildren
    <3>1. /\ child = Connected(NoChildren, universe, 0)
          /\ pinned \subseteq universe
          /\ \A p \in OrderIds : placed[p] # NoOrderYet =>
               placed[p].symbol \in universe /\ child[placed[p].symbol] = placed[p].client
      BY DEF IIInv, SteadyInv, Placed
    <3> QED
      BY <2>1, <2>3, <2>4, <3>1
  <2> QED
    BY <2>5, <2>6, <2>7, <2>8, <2>9 DEF IIInv
<1>2. ASSUME /\ o \in open /\ open' \in SUBSET open
             /\ quantity' \in [OrderIds -> 0 .. Size] /\ \A p \in open' : quantity'[p] # Size
             /\ \A p \in OrderIds : ~Placed(p) => quantity'[p] = 0
             /\ trusted' \subseteq trusted \cap open' /\ began' \subseteq began \cap open'
             /\ UNCHANGED <<dynamicMode, accountWide, boots, universe, child, nextClient, placed, pinned,
                            churned, unread, listing, reading>>
      PROVE  IIInv'
  <2>1. ConnectionShape'
    BY <1>2 DEF IIInv, ConnectionShape, ChildMaps, Distinct, Children
  <2>2. OrdersInv'
    BY <1>2 DEF IIInv, OrdersInv, Placed
  <2>3. TrustedInv' /\ UniverseHasAdapters'
    BY <1>2 DEF IIInv, TrustedInv, UniverseHasAdapters, Children
  <2>4. SteadyInv'
    BY <1>2 DEF IIInv, SteadyInv, Placed, Connected, NoChildren
  <2>5. ReadInv'
    BY <1>2 DEF IIInv, ReadInv, Children, Listed
  <2> QED
    BY <2>1, <2>2, <2>3, <2>4, <2>5 DEF IIInv
<1>3. CASE VenueFills(o)
  <2>1. /\ o \in open /\ quantity' = [quantity EXCEPT ![o] = @ + 1]
        /\ open' = (IF quantity[o] + 1 = Size THEN open \ {o} ELSE open)
        /\ trusted' = trusted \cap open' /\ began' = began \ {o}
        /\ UNCHANGED <<dynamicMode, accountWide, boots, universe, child, nextClient, placed, pinned,
                       churned, unread, listing, reading>>
    BY <1>3 DEF VenueFills, iiFixed
  <2>2. quantity \in [OrderIds -> 0 .. Size] /\ quantity[o] # Size /\ quantity[o] \in 0 .. Size /\ Size \in Nat
    BY <2>1, InstrumentAssumption DEF IIInv, ConnectionShape
  <2>3. quantity' \in [OrderIds -> 0 .. Size] /\ quantity'[o] = quantity[o] + 1
        /\ \A p \in OrderIds : p # o => quantity'[p] = quantity[p]
    BY <2>1, <2>2
  <2>4. \A p \in open' : quantity'[p] # Size
    BY <2>1, <2>3 DEF IIInv, ConnectionShape
  <2>5. \A p \in OrderIds : ~Placed(p) => quantity'[p] = 0
    BY <2>1, <2>3 DEF IIInv, OrdersInv
  <2>6. began' \subseteq began \cap open' /\ trusted' \subseteq trusted \cap open' /\ open' \in SUBSET open
    BY <2>1 DEF IIInv, OrdersInv
  <2> QED
    BY <1>2, <2>1, <2>3, <2>4, <2>5, <2>6
<1>4. CASE CancelOrder(o)
  <2>1. /\ o \in open /\ open' = open \ {o} /\ trusted' = trusted \ {o} /\ began' = began \ {o}
        /\ UNCHANGED <<dynamicMode, accountWide, boots, universe, child, nextClient, placed, quantity,
                       pinned, churned, unread, listing, reading>>
    BY <1>4 DEF CancelOrder, iiFixed
  <2>2. /\ quantity' \in [OrderIds -> 0 .. Size] /\ \A p \in open' : quantity'[p] # Size
    BY <2>1 DEF IIInv, ConnectionShape
  <2>3. \A p \in OrderIds : ~Placed(p) => quantity'[p] = 0
    BY <2>1 DEF IIInv, OrdersInv
  <2>4. began' \subseteq began \cap open' /\ trusted' \subseteq trusted \cap open' /\ open' \in SUBSET open
    BY <2>1 DEF IIInv, OrdersInv
  <2> QED
    BY <1>2, <2>1, <2>2, <2>3, <2>4
<1> QED
  BY <1>1, <1>3, <1>4

\* The children are asked one after the other.
LEMMA ReadKeeps ==
  ASSUME IIInv, BeginRead \/ ReadChild \/ FinishRead
  PROVE  IIInv'
<1>1. CASE BeginRead
  <2>1. /\ unread' = Children(child) /\ listing' = [p \in OrderIds |-> NotListed]
        /\ began' = open /\ reading' = "asking"
        /\ UNCHANGED <<dynamicMode, accountWide, boots, universe, child, nextClient, pinned, trusted,
                       churned, placed, quantity, open>>
    BY <1>1 DEF BeginRead, Asked, iiFixed, iiVenue
  <2>2. ConnectionShape'
    BY <2>1 DEF IIInv, ConnectionShape, ChildMaps, Distinct, Children
  <2>3. OrdersInv' /\ TrustedInv'
    BY <2>1 DEF IIInv, OrdersInv, TrustedInv, Placed
  <2>4. UniverseHasAdapters' /\ ReadInv'
    BY <2>1 DEF IIInv, UniverseHasAdapters, ReadInv, Children
  <2>5. SteadyInv'
    BY <2>1 DEF IIInv, SteadyInv, Placed, Connected, NoChildren
  <2> QED
    BY <2>2, <2>3, <2>4, <2>5 DEF IIInv
<1>2. CASE ReadChild
  <2>1. PICK a : a = Min(unread)
    OBVIOUS
  <2>2. PICK disagree \in BOOLEAN : disagree = (\E o \in ListedTo(a) : listing[o] \notin {NotListed, quantity[o]})
    OBVIOUS
  <2>3. /\ reading = "asking" /\ unread' = unread \ {a}
        /\ listing' = [o \in OrderIds |->
                          IF disagree THEN NotListed
                          ELSE IF o \in ListedTo(a) THEN quantity[o] ELSE listing[o]]
        /\ began' = (IF disagree THEN {} ELSE began)
        /\ reading' = (IF disagree THEN "idle" ELSE "asking")
        /\ UNCHANGED <<dynamicMode, accountWide, boots, universe, child, nextClient, pinned, trusted,
                       churned, placed, quantity, open>>
    BY <1>2, <2>1, <2>2 DEF ReadChild, iiFixed, iiVenue
  <2>4. \A o \in OrderIds : listing[o] \in {NotListed} \cup 0 .. Size /\ quantity[o] \in 0 .. Size
    BY DEF IIInv, ConnectionShape
  <2>5. ConnectionShape'
    <3>1. listing' \in [OrderIds -> {NotListed} \cup 0 .. Size]
      BY <2>3, <2>4
    <3> QED
      BY <2>3, <3>1 DEF IIInv, ConnectionShape, ChildMaps, Distinct, Children
  <2>6. OrdersInv'
    <3>1. \A o \in OrderIds : listing'[o] # NotListed => Placed(o)
      BY <2>3 DEF IIInv, OrdersInv, ListedTo
    <3> QED
      BY <2>3, <3>1 DEF IIInv, OrdersInv, Placed
  <2>7. TrustedInv' /\ UniverseHasAdapters'
    BY <2>3 DEF IIInv, TrustedInv, UniverseHasAdapters, Children
  <2>8. SteadyInv'
    BY <2>3 DEF IIInv, SteadyInv, Placed, Connected, NoChildren
  <2>9. ReadInv'
    <3> SUFFICES ASSUME ~disagree, NEW o \in began
                 PROVE  /\ \A b \in Children(child) \ unread' :
                             child[b] = placed[o].client => listing'[o] # NotListed
                        /\ accountWide /\ unread' # Children(child) => listing'[o] # NotListed
      BY <2>3 DEF ReadInv, Children, Listed, IIInv, OrdersInv, ConnectionShape
    <3>1. o \in open /\ o \in OrderIds
      BY DEF IIInv, OrdersInv, ConnectionShape
    <3>2. listing[o] # NotListed => listing'[o] # NotListed
      BY <2>3, <2>4, <3>1 DEF NotListed
    <3>3. o \in ListedTo(a) => listing'[o] # NotListed
      BY <2>3, <2>4, <3>1 DEF NotListed
    <3>4. \A b \in Children(child) \ unread : child[b] = placed[o].client => listing[o] # NotListed
      BY <2>3 DEF IIInv, ReadInv, Listed
    <3>5. \A b \in (Children(child) \ unread') : b \in Children(child) \ unread \/ b = a
      BY <2>3
    <3>6. child[a] = placed[o].client \/ accountWide => o \in ListedTo(a)
      BY <3>1 DEF ListedTo
    <3> QED
      BY <3>2, <3>3, <3>4, <3>5, <3>6
  <2> QED
    BY <2>5, <2>6, <2>7, <2>8, <2>9 DEF IIInv
<1>3. CASE FinishRead
  <2>1. /\ reading' = "idle" /\ pinned' = {placed[o].symbol : o \in Listed}
        /\ trusted' = {o \in Listed \cap open : child[placed[o].symbol] = placed[o].client}
        /\ listing' = [p \in OrderIds |-> NotListed] /\ began' = {}
        /\ UNCHANGED <<dynamicMode, accountWide, boots, universe, child, nextClient, churned, placed,
                       quantity, open, unread>>
    BY <1>3 DEF FinishRead, iiFixed, iiVenue
  <2>2. \A o \in Listed : o \in OrderIds /\ Placed(o) /\ placed[o].symbol \in Symbols
    BY DEF Listed, IIInv, OrdersInv
  <2>3. pinned' \subseteq Symbols
    BY <2>1, <2>2
  <2>4. ConnectionShape'
    BY <2>1, <2>3 DEF IIInv, ConnectionShape, ChildMaps, Distinct, Children
  <2>5. OrdersInv' /\ TrustedInv'
    BY <2>1 DEF IIInv, OrdersInv, TrustedInv, Placed
  <2>6. UniverseHasAdapters' /\ ReadInv'
    BY <2>1 DEF IIInv, UniverseHasAdapters, ReadInv, Children
  <2>7. SteadyInv'
    <3>1. ~churned => pinned' \subseteq universe
      BY <2>1, <2>2 DEF IIInv, SteadyInv
    <3> QED
      BY <2>1, <3>1 DEF IIInv, SteadyInv, Placed, Connected, NoChildren
  <2> QED
    BY <2>4, <2>5, <2>6, <2>7 DEF IIInv
<1> QED
  BY <1>1, <1>2, <1>3

LEMMA IIInvNext == IIInv /\ [IINext]_iiVars => IIInv'
<1> SUFFICES ASSUME IIInv, [IINext]_iiVars PROVE IIInv'
  OBVIOUS
<1>1. CASE UNCHANGED iiVars
  BY <1>1 DEF iiVars, iiFixed, iiVenue, iiRead, IIInv, ConnectionShape, OrdersInv, TrustedInv,
     UniverseHasAdapters, SteadyInv, ReadInv, ChildMaps, Distinct, Children, Placed, Connected,
     NoChildren, Listed
<1>2. CASE IINext
  BY <1>2, UniverseAppliedKeeps, UniverseBreaksKeeps, StaticReloadKeeps, RestartKeeps, OrderKeeps,
     ReadKeeps DEF IINext
<1> QED
  BY <1>1, <1>2

\* The connections cover the orders, whatever universe ticks, restarts, reads and fills
\* interleave.
THEOREM ConnectionsCoverOrders == IISpec => []ConnectionSafety
<1>1. IIInv => ConnectionSafety
  <2> SUFFICES ASSUME IIInv PROVE ConnectionSafety
    OBVIOUS
  <2>1. IITypeOK
    BY DEF IIInv, ConnectionShape, IITypeOK, ChildMaps, Distinct
  <2>2. ListedOrderKeepsItsClient
    BY DEF IIInv, TrustedInv, ListedOrderKeepsItsClient
  <2>3. ReadIsComplete
    BY DEF IIInv, ReadInv, ReadIsComplete, Reachable, ConnectionShape
  <2>4. SteadyRestartSeesAll
    <3> SUFFICES ASSUME ~churned, NEW o \in open
                 PROVE  \E a \in Children(child) : child[a] = placed[o].client
      BY DEF SteadyRestartSeesAll, Reachable
    <3>1. o \in OrderIds /\ Placed(o) /\ placed[o].symbol \in Symbols /\ placed[o].client \in Nat
      BY DEF IIInv, OrdersInv, ConnectionShape
    <3>2. child[placed[o].symbol] = placed[o].client
      BY <3>1 DEF IIInv, SteadyInv
    <3> QED
      BY <3>1, <3>2 DEF Children, NoClient
  <2> QED
    BY <2>1, <2>2, <2>3, <2>4 DEF ConnectionSafety, IIInv
<1> QED
  BY <1>1, IIInvInit, IIInvNext, PTL DEF IISpec

-----------------------------------------------------------------------------
(* The trade history *)

\* The trades from a on and before b; b is one, or right after a trade.
Span(T, a, b) == {i \in T : a <= i /\ i < b}
Reached(T, b) == b \in Nat /\ b >= 1 /\ (b = 1 \/ b - 1 \in T)

Snaps == UNION {[D -> Nat] : D \in SUBSET Owned}
FetchSet == [pc : {"none", "snapshots", "pages"}, snaps : Snaps, pages : Nat, ids : SUBSET Nat, cursor : Nat]
ResultSet == [trades : SUBSET Nat, next : Nat]
RecentSet == [pc : {"none", "orders", "bound"}, page : SUBSET Nat, at : SUBSET Nat]

THTypes ==
  /\ DOMAIN trades \subseteq 1 .. MaxTradeId /\ anchor \in Nat
  /\ stored \subseteq DOMAIN trades /\ fetch \in FetchSet /\ result \in ResultSet /\ recent \in RecentSet
  /\ fetch.pages < MaxPages

\* The cursor of a fetch, of its evidence and of the store is right after a trade, and
\* what was read or stored is all that is before it.
CursorInv ==
  /\ Reached(DOMAIN trades, anchor) /\ Span(DOMAIN trades, 1, anchor) \subseteq stored
  /\ fetch.pc # "none" =>
       /\ Reached(DOMAIN trades, fetch.cursor) /\ anchor <= fetch.cursor
       /\ fetch.ids = Span(DOMAIN trades, anchor, fetch.cursor)
  /\ fetch.pc = "pages" => DOMAIN fetch.snaps = Owned
  /\ result.next = 0 => result.trades = {}
  /\ result.next > 0 =>
       /\ Reached(DOMAIN trades, result.next) /\ anchor <= result.next
       /\ result.trades = Span(DOMAIN trades, anchor, result.next)
       /\ \A i \in result.trades : trades[i] \in Owned

RecentInv ==
  /\ recent.pc = "orders" => (Cardinality(recent.page) < PageLimit => recent.page = recent.at)
  /\ recent.pc = "bound" => recent.page = {} \/ recent.page = recent.at

HistInv == THTypes /\ CursorInv /\ RecentInv

LEMMA HistoryNumbers == MaxTradeId \in Nat /\ PageLimit \in Nat /\ PageLimit > 0 /\ MaxPages \in Nat /\ MaxPages > 0
  BY HistoryAssumption

-----------------------------------------------------------------------------
(* Pages *)

LEMMA FiniteTrades ==
  ASSUME NEW T \in SUBSET (1 .. MaxTradeId), NEW S \in SUBSET T
  PROVE  IsFiniteSet(S) /\ Cardinality(S) \in Nat
<1>1. IsFiniteSet(1 .. MaxTradeId)
  BY HistoryNumbers, FS_Interval
<1>2. S \in SUBSET (1 .. MaxTradeId)
  OBVIOUS
<1> QED
  BY <1>1, <1>2, FS_Subset, FS_CardinalityType

PageOf(T, from) == {i \in T : i >= from /\ Cardinality({j \in T : from <= j /\ j < i}) < PageLimit}
NewestOf(T) == {i \in T : Cardinality({j \in T : j > i}) < PageLimit}

\* A short page is the last one.
LEMMA ShortIsLast ==
  ASSUME NEW T \in SUBSET (1 .. MaxTradeId), NEW from \in Nat, Cardinality(PageOf(T, from)) < PageLimit
  PROVE  \A i \in T : i >= from => i \in PageOf(T, from)
<1>1. PICK B : B = {i \in T : i >= from /\ i \notin PageOf(T, from)}
  OBVIOUS
<1>2. CASE B = {}
  BY <1>1, <1>2
<1>3. CASE B # {}
  <2>0. T \subseteq Nat
    BY HistoryNumbers
  <2>1. PICK m : m \in B /\ \A i \in B : m <= i
    <3>1. B \in SUBSET Nat
      BY <1>1, <2>0
    <3> QED
      BY <1>3, <3>1, SmallestOf
  <2>2. PICK E : E = {j \in T : from <= j /\ j < m}
    OBVIOUS
  <2>3. E \in SUBSET PageOf(T, from)
    <3> SUFFICES ASSUME NEW j \in E PROVE j \in PageOf(T, from)
      OBVIOUS
    <3>1. j \in T /\ j >= from /\ j < m /\ j \in Nat /\ m \in Nat
      BY <1>1, <2>0, <2>1, <2>2
    <3>2. ~(m <= j)
      BY <3>1
    <3> QED
      BY <1>1, <2>1, <3>1, <3>2
  <2>4. PageOf(T, from) \in SUBSET T /\ E \in SUBSET T
    BY <2>2 DEF PageOf
  <2>5. Cardinality(E) <= Cardinality(PageOf(T, from)) /\ Cardinality(E) \in Nat /\ Cardinality(PageOf(T, from)) \in Nat
    BY <2>3, <2>4, FiniteTrades, FS_Subset
  <2>6. Cardinality(E) < PageLimit
    BY <2>5, HistoryNumbers
  <2>7. m \in PageOf(T, from)
    BY <1>1, <2>1, <2>2, <2>6 DEF PageOf
  <2> QED
    BY <1>1, <2>1, <2>7
<1> QED
  BY <1>2, <1>3

LEMMA ShortNewestIsAll ==
  ASSUME NEW T \in SUBSET (1 .. MaxTradeId), Cardinality(NewestOf(T)) < PageLimit
  PROVE  NewestOf(T) = T
<1>1. PICK B : B = {i \in T : i \notin NewestOf(T)}
  OBVIOUS
<1>2. NewestOf(T) \in SUBSET T
  BY DEF NewestOf
<1>3. CASE B = {}
  BY <1>1, <1>2, <1>3
<1>4. CASE B # {}
  <2>0. T \subseteq Nat /\ T \subseteq 0 .. MaxTradeId
    BY HistoryNumbers
  <2>1. PICK m : m \in B /\ \A i \in B : i <= m
    <3>1. B \in SUBSET (0 .. MaxTradeId)
      BY <1>1, <2>0
    <3> QED
      BY <1>4, <3>1, LargestOf, HistoryNumbers
  <2>2. PICK E : E = {j \in T : j > m}
    OBVIOUS
  <2>3. E \in SUBSET NewestOf(T)
    <3> SUFFICES ASSUME NEW j \in E PROVE j \in NewestOf(T)
      OBVIOUS
    <3>1. j \in T /\ j > m /\ j \in Nat /\ m \in Nat
      BY <1>1, <2>0, <2>1, <2>2
    <3>2. ~(j <= m)
      BY <3>1
    <3> QED
      BY <1>1, <2>1, <3>1, <3>2
  <2>4. E \in SUBSET T
    BY <2>2
  <2>5. Cardinality(E) <= Cardinality(NewestOf(T)) /\ Cardinality(E) \in Nat /\ Cardinality(NewestOf(T)) \in Nat
    BY <1>2, <2>3, <2>4, FiniteTrades, FS_Subset
  <2>6. Cardinality(E) < PageLimit
    BY <2>5, HistoryNumbers
  <2>7. m \in NewestOf(T)
    BY <1>1, <2>1, <2>2, <2>6 DEF NewestOf
  <2> QED
    BY <1>1, <2>1, <2>7
<1> QED
  BY <1>3, <1>4

\* A page holds every trade from its cursor up to the next one.
LEMMA PageHasNoGap ==
  ASSUME NEW T \in SUBSET (1 .. MaxTradeId), NEW from \in Nat, Reached(T, from), NEW P, P = PageOf(T, from)
  PROVE  /\ Reached(T, NextFromId(P, from)) /\ from <= NextFromId(P, from)
         /\ P = Span(T, from, NextFromId(P, from))
         /\ Cardinality(P) < PageLimit => \A i \in T : i < NextFromId(P, from)
<1>0. T \subseteq Nat /\ T \subseteq 0 .. MaxTradeId /\ MaxTradeId \in Nat
  BY HistoryNumbers
<1>1. P \in SUBSET T /\ \A i \in P : i >= from
  BY DEF PageOf
<1>2. ASSUME NEW i \in P, NEW j \in T, from <= j, j <= i PROVE j \in P
  <2>1. PICK E, F : E = {k \in T : from <= k /\ k < j} /\ F = {k \in T : from <= k /\ k < i}
    OBVIOUS
  <2>2. E \in SUBSET F /\ F \in SUBSET T /\ E \in SUBSET T
    <3>1. i \in Nat /\ j \in Nat
      BY <1>0, <1>1
    <3>2. \A k \in T : k < j => k < i
      BY <1>0, <1>2, <3>1
    <3> QED
      BY <2>1, <3>2
  <2>3. Cardinality(E) <= Cardinality(F) /\ Cardinality(E) \in Nat /\ Cardinality(F) \in Nat
    BY <2>2, FiniteTrades, FS_Subset
  <2>4. Cardinality(F) < PageLimit
    BY <2>1 DEF PageOf
  <2>5. Cardinality(E) < PageLimit
    BY <2>3, <2>4, HistoryNumbers
  <2> QED
    BY <1>0, <1>2, <2>1, <2>5 DEF PageOf
<1>3. CASE P = {}
  <2>1. NextFromId(P, from) = from
    BY <1>3 DEF NextFromId
  <2>2. Span(T, from, from) = {}
    <3>1. ASSUME NEW i \in T PROVE ~(from <= i /\ i < from)
      <4>1. i \in Nat
        BY <1>0
      <4> QED
        BY <4>1
    <3> QED
      BY <3>1, Zenon DEF Span
  <2>3. ASSUME Cardinality(P) < PageLimit, NEW i \in T PROVE i < from
    <3>1. ~(i >= from)
      BY <1>3, <2>3, ShortIsLast
    <3> QED
      BY <1>0, <3>1
  <2> QED
    BY <1>3, <2>1, <2>2, <2>3
<1>4. CASE P # {}
  <2>1. PICK l : l = Max(P) /\ l \in P /\ \A i \in P : i <= l
    <3>1. P \in SUBSET (0 .. MaxTradeId)
      BY <1>0, <1>1
    <3> QED
      BY <1>0, <1>4, <3>1, LargestOf
  <2>2. NextFromId(P, from) = l + 1 /\ l \in Nat /\ l \in T /\ from <= l
    BY <1>0, <1>1, <1>4, <2>1 DEF NextFromId
  <2>3. Reached(T, l + 1) /\ from <= l + 1
    <3>1. l + 1 \in Nat /\ l + 1 >= 1 /\ (l + 1) - 1 = l /\ from <= l + 1
      BY <2>2
    <3> QED
      BY <2>2, <3>1 DEF Reached
  <2>4. ASSUME NEW i \in T PROVE (i < l + 1) <=> (i <= l)
    <3>1. i \in Nat
      BY <1>0
    <3> QED
      BY <2>2, <3>1
  <2>5. P = Span(T, from, l + 1)
    <3>1. \A i \in P : i \in T /\ from <= i /\ i < l + 1
      BY <1>0, <1>1, <2>1, <2>4
    <3>2. \A i \in T : from <= i /\ i < l + 1 => i \in P
      BY <1>2, <2>1, <2>4
    <3> QED
      BY <3>1, <3>2 DEF Span
  <2>6. ASSUME Cardinality(P) < PageLimit, NEW i \in T PROVE i < l + 1
    <3>1. CASE i >= from
      BY <2>1, <2>4, <2>6, <3>1, ShortIsLast
    <3>2. CASE ~(i >= from)
      BY <1>0, <2>2, <3>2
    <3> QED
      BY <3>1, <3>2
  <2> QED
    BY <2>2, <2>3, <2>5, <2>6
<1> QED
  BY <1>3, <1>4

\* Spans follow each other.
InOrder(T, a, b, c) == T \subseteq Nat /\ a \in Nat /\ b \in Nat /\ c \in Nat /\ a <= b /\ b <= c

LEMMA SpansJoin ==
  ASSUME NEW T, NEW a, NEW b, NEW c, InOrder(T, a, b, c)
  PROVE  Span(T, a, b) \cup Span(T, b, c) = Span(T, a, c)
<1>0. T \subseteq Nat /\ a \in Nat /\ b \in Nat /\ c \in Nat /\ a <= b /\ b <= c
  BY DEF InOrder
<1>1. ASSUME NEW i \in T PROVE (a <= i /\ i < c) <=> ((a <= i /\ i < b) \/ (b <= i /\ i < c))
  <2>1. i \in Nat
    BY <1>0
  <2> QED
    BY <1>0, <2>1
<1> QED
  BY <1>1, Zenon DEF Span

\* A new trade is behind every cursor.
LEMMA LaterTrade ==
  ASSUME NEW T \in SUBSET Nat, NEW id \in Nat, id >= 1, \A i \in T : i < id, NEW b, Reached(T, b)
  PROVE  Reached(T \cup {id}, b) /\ \A a \in Nat : Span(T \cup {id}, a, b) = Span(T, a, b)
<1>1. b \in Nat /\ ~(id < b)
  <2>1. CASE b = 1
    BY <2>1
  <2>2. CASE b - 1 \in T
    <3>1. b - 1 < id /\ b \in Nat
      BY <2>2 DEF Reached
    <3> QED
      BY <3>1
  <2> QED
    BY <2>1, <2>2 DEF Reached
<1> QED
  BY <1>1 DEF Reached, Span

-----------------------------------------------------------------------------
(* The invariant *)

LEMMA HistInvInit == THInit => HistInv
<1> SUFFICES ASSUME THInit PROVE HistInv
  OBVIOUS
<1>0. DOMAIN trades = {} /\ anchor = 1 /\ stored = {}
  BY DEF THInit
<1>1. <<>> \in Snaps
  <2>1. <<>> \in [{} -> Nat] /\ {} \in SUBSET Owned
    OBVIOUS
  <2> QED
    BY <2>1 DEF Snaps
<1>2. fetch \in FetchSet /\ fetch.pc = "none" /\ fetch.pages = 0
  BY <1>1 DEF THInit, NoFetch, FetchSet
<1>3. result \in ResultSet /\ result.next = 0 /\ result.trades = {}
  BY DEF THInit, NoResult, ResultSet
<1>4. recent \in RecentSet /\ recent.pc = "none"
  BY DEF THInit, NoRecent, RecentSet
<1>5. Reached({}, 1) /\ Span({}, 1, 1) = {}
  BY DEF Reached, Span
<1> QED
  BY <1>0, <1>2, <1>3, <1>4, <1>5, HistoryNumbers DEF HistInv, THTypes, CursorInv, RecentInv

LEMMA VenueTradeKeeps ==
  ASSUME HistInv, NEW o, NEW id \in 1 .. MaxTradeId, VenueTrade(o, id) PROVE HistInv'
<1>0. UNCHANGED <<anchor, stored, fetch, result, recent>> /\ id \in Nat /\ id >= 1
  BY DEF VenueTrade
<1>1. PICK T : T = DOMAIN trades /\ T \subseteq 1 .. MaxTradeId /\ T \in SUBSET Nat
  BY HistoryNumbers DEF HistInv, THTypes
<1>2. DOMAIN trades' = T \cup {id} /\ \A i \in T : trades'[i] = trades[i]
  BY <1>1 DEF VenueTrade, TradeIds
<1>3. \A i \in T : i < id
  BY <1>1 DEF VenueTrade, TradeIds
<1>4. ASSUME NEW b, Reached(T, b) PROVE Reached(T \cup {id}, b) /\ \A a \in Nat : Span(T \cup {id}, a, b) = Span(T, a, b)
  BY <1>0, <1>1, <1>3, <1>4, LaterTrade
<1>5. THTypes'
  BY <1>0, <1>1, <1>2 DEF HistInv, THTypes
<1>6. anchor \in Nat /\ 1 \in Nat
  BY DEF HistInv, THTypes
<1>7. Reached(DOMAIN trades', anchor') /\ Span(DOMAIN trades', 1, anchor') \subseteq stored'
  BY <1>0, <1>1, <1>2, <1>4, <1>6 DEF HistInv, CursorInv
<1>8. ASSUME fetch'.pc # "none"
      PROVE  /\ Reached(DOMAIN trades', fetch'.cursor) /\ anchor' <= fetch'.cursor
             /\ fetch'.ids = Span(DOMAIN trades', anchor', fetch'.cursor)
  BY <1>0, <1>1, <1>2, <1>4, <1>6, <1>8 DEF HistInv, CursorInv
<1>9. ASSUME result'.next > 0
      PROVE  /\ Reached(DOMAIN trades', result'.next) /\ anchor' <= result'.next
             /\ result'.trades = Span(DOMAIN trades', anchor', result'.next)
             /\ \A i \in result'.trades : trades'[i] \in Owned
  <2>1. /\ Reached(T, result.next) /\ anchor <= result.next
        /\ result.trades = Span(T, anchor, result.next)
        /\ \A i \in result.trades : trades[i] \in Owned
    BY <1>0, <1>1, <1>9 DEF HistInv, CursorInv
  <2>2. result.trades \subseteq T
    BY <2>1 DEF Span
  <2> QED
    BY <1>0, <1>2, <1>4, <1>6, <2>1, <2>2
<1>10. CursorInv'
  BY <1>0, <1>7, <1>8, <1>9 DEF HistInv, CursorInv
<1>11. RecentInv'
  BY <1>0 DEF HistInv, RecentInv
<1> QED
  BY <1>5, <1>10, <1>11 DEF HistInv

\* A fetch starts at the stored cursor, with nothing read.
LEMMA BeginFetchKeeps == ASSUME HistInv, BeginFetch PROVE HistInv'
<1>0. UNCHANGED <<trades, listed, anchor, stored, result, recent>> /\ anchor \in Nat
  BY DEF BeginFetch, HistInv, THTypes
<1>1. <<>> \in Snaps
  <2>1. <<>> \in [{} -> Nat] /\ {} \in SUBSET Owned
    OBVIOUS
  <2> QED
    BY <2>1 DEF Snaps
<1>2. fetch' \in FetchSet /\ fetch'.pc = "snapshots" /\ fetch'.pages = 0 /\ fetch'.cursor = anchor /\ fetch'.ids = {}
  BY <1>0, <1>1 DEF BeginFetch, NoFetch, FetchSet
<1>3. Span(DOMAIN trades, anchor, anchor) = {}
  <2>1. ASSUME NEW i \in DOMAIN trades PROVE ~(anchor <= i /\ i < anchor)
    <3>1. i \in Nat
      BY HistoryNumbers DEF HistInv, THTypes
    <3> QED
      BY <1>0, <3>1
  <2> QED
    BY <2>1, Zenon DEF Span
<1>4. THTypes'
  BY <1>0, <1>2, HistoryNumbers DEF HistInv, THTypes
<1>5. CursorInv'
  BY <1>0, <1>2, <1>3 DEF HistInv, CursorInv
<1>6. RecentInv'
  BY <1>0 DEF HistInv, RecentInv
<1> QED
  BY <1>4, <1>5, <1>6 DEF HistInv

LEMMA SnapshotKeeps == ASSUME HistInv, NEW o \in Owned, TakeSnapshot(o) PROVE HistInv'
<1>0. UNCHANGED <<trades, listed, anchor, stored, result, recent>> /\ fetch.pc = "snapshots"
  BY DEF TakeSnapshot
<1>1. FilledQuantity(o) \in Nat
  <2>1. {i \in DOMAIN trades : trades[i] = o} \in SUBSET DOMAIN trades /\ DOMAIN trades \in SUBSET (1 .. MaxTradeId)
    BY DEF HistInv, THTypes
  <2> QED
    BY <2>1, FiniteTrades DEF FilledQuantity, TradeIds
<1>2. PICK D \in SUBSET Owned : fetch.snaps \in [D -> Nat]
  BY DEF HistInv, THTypes, FetchSet, Snaps
<1>3. PICK s : s = [p \in D \cup {o} |-> IF p = o THEN FilledQuantity(o) ELSE fetch.snaps[p]]
  OBVIOUS
<1>4. s \in [D \cup {o} -> Nat] /\ D \cup {o} \in SUBSET Owned
  BY <1>1, <1>2, <1>3
<1>5. s \in Snaps /\ DOMAIN s = D \cup {o}
  BY <1>4 DEF Snaps
<1>6. fetch' = [fetch EXCEPT !.snaps = s, !.pc = IF DOMAIN s = Owned THEN "pages" ELSE @]
  BY <1>2, <1>3 DEF TakeSnapshot
<1>7. fetch \in FetchSet
  BY DEF HistInv, THTypes
<1>8. /\ fetch' \in FetchSet /\ fetch'.pages = fetch.pages /\ fetch'.cursor = fetch.cursor /\ fetch'.ids = fetch.ids
      /\ fetch'.pc = "pages" => DOMAIN fetch'.snaps = Owned
  BY <1>0, <1>5, <1>6, <1>7 DEF FetchSet
<1>9. THTypes'
  BY <1>0, <1>8 DEF HistInv, THTypes
<1>10. CursorInv'
  BY <1>0, <1>8 DEF HistInv, CursorInv
<1>11. RecentInv'
  BY <1>0 DEF HistInv, RecentInv
<1> QED
  BY <1>9, <1>10, <1>11 DEF HistInv

\* A fetch that ends leaves no fetch, and evidence or none.
LEMMA FetchEnds ==
  ASSUME HistInv, UNCHANGED <<trades, anchor, stored, recent>>, fetch' = NoFetch,
         \/ result' = NoResult
         \/ /\ result' \in ResultSet /\ result'.next > 0
            /\ Reached(DOMAIN trades, result'.next) /\ anchor <= result'.next
            /\ result'.trades = Span(DOMAIN trades, anchor, result'.next)
            /\ \A i \in result'.trades : trades[i] \in Owned
  PROVE  HistInv'
<1>1. <<>> \in Snaps
  <2>1. <<>> \in [{} -> Nat] /\ {} \in SUBSET Owned
    OBVIOUS
  <2> QED
    BY <2>1 DEF Snaps
<1>2. fetch' \in FetchSet /\ fetch'.pc = "none" /\ fetch'.pages = 0
  BY <1>1 DEF NoFetch, FetchSet
<1>3. NoResult \in ResultSet /\ NoResult.next = 0 /\ NoResult.trades = {}
  BY DEF NoResult, ResultSet
<1>4. THTypes'
  BY <1>2, <1>3, HistoryNumbers DEF HistInv, THTypes
<1>5. CursorInv'
  <2>1. CASE result' = NoResult
    BY <1>2, <1>3, <2>1 DEF HistInv, CursorInv
  <2>2. CASE /\ result' \in ResultSet /\ result'.next > 0
             /\ Reached(DOMAIN trades, result'.next) /\ anchor <= result'.next
             /\ result'.trades = Span(DOMAIN trades, anchor, result'.next)
             /\ \A i \in result'.trades : trades[i] \in Owned
    BY <1>2, <2>2 DEF HistInv, CursorInv
  <2> QED
    BY <2>1, <2>2
<1>6. RecentInv'
  BY DEF HistInv, RecentInv
<1> QED
  BY <1>4, <1>5, <1>6 DEF HistInv

\* The evidence of a short page holds every trade from the stored cursor on.
LEMMA ReadPageReaches ==
  ASSUME HistInv, fetch.pc = "pages", NEW page, page = Page(fetch.cursor),
         NEW next, next = NextFromId(page, fetch.cursor), NEW ids, ids = fetch.ids \cup page
  PROVE  /\ Reached(DOMAIN trades, next) /\ anchor <= next /\ ids = Span(DOMAIN trades, anchor, next)
         /\ ShortPage(page) => \A i \in DOMAIN trades : i < next
<1>1. PICK T : T = DOMAIN trades /\ T \in SUBSET (1 .. MaxTradeId) /\ T \in SUBSET Nat
  BY HistoryNumbers DEF HistInv, THTypes
<1>2. PICK c : c = fetch.cursor
  OBVIOUS
<1>3. Reached(T, c) /\ anchor <= c /\ fetch.ids = Span(T, anchor, c) /\ anchor \in Nat
  BY <1>1, <1>2 DEF HistInv, CursorInv, THTypes
<1>4. c \in Nat
  BY <1>3 DEF Reached
<1>5. page = PageOf(T, c)
  BY <1>1, <1>2 DEF Page, PageOf, TradeIds
<1>6. /\ Reached(T, next) /\ c <= next /\ page = Span(T, c, next)
      /\ Cardinality(page) < PageLimit => \A i \in T : i < next
  BY <1>1, <1>2, <1>3, <1>4, <1>5, PageHasNoGap
<1>7. next \in Nat /\ anchor <= next
  <2>1. next \in Nat
    BY <1>6 DEF Reached
  <2> QED
    BY <1>3, <1>4, <1>6, <2>1
<1>8. ids = Span(T, anchor, next)
  <2>1. Span(T, anchor, c) \cup Span(T, c, next) = Span(T, anchor, next)
    <3>1. InOrder(T, anchor, c, next)
      BY <1>1, <1>3, <1>4, <1>6, <1>7 DEF InOrder
    <3> QED
      BY <3>1, SpansJoin
  <2> QED
    BY <1>3, <1>6, <2>1
<1> QED
  BY <1>1, <1>6, <1>7, <1>8 DEF ShortPage

LEMMA ReadPageKeeps == ASSUME HistInv, ReadPage PROVE HistInv'
<1>0. UNCHANGED <<trades, listed, anchor, stored, recent>> /\ fetch.pc = "pages"
  BY DEF ReadPage
<1>1. PICK page, next, ids : /\ page = Page(fetch.cursor) /\ next = NextFromId(page, fetch.cursor)
                             /\ ids = fetch.ids \cup page
  OBVIOUS
<1>2. Reached(DOMAIN trades, next) /\ anchor <= next /\ ids = Span(DOMAIN trades, anchor, next)
  BY <1>0, <1>1, ReadPageReaches
<1>3. next \in Nat /\ next > 0 /\ ids \in SUBSET Nat
  <2>1. next \in Nat /\ next >= 1
    BY <1>2 DEF Reached
  <2>2. ids \in SUBSET Nat
    BY <1>2, HistoryNumbers DEF HistInv, THTypes, Span
  <2> QED
    BY <2>1, <2>2
<1>4. CASE ShortPage(page)
  <2>1. fetch' = NoFetch /\ result' = Verified(ids, fetch.snaps, next)
    BY <1>1, <1>4 DEF ReadPage
  <2>2. CASE Explains(ids, fetch.snaps)
    <3>1. result' = [trades |-> ids, next |-> next]
      BY <2>1, <2>2 DEF Verified
    <3>2. result' \in ResultSet /\ result'.next = next /\ result'.trades = ids
      BY <1>3, <3>1 DEF ResultSet
    <3>3. DOMAIN fetch.snaps = Owned
      BY <1>0 DEF HistInv, CursorInv
    <3>4. \A i \in ids : trades[i] \in Owned
      BY <2>2, <3>3 DEF Explains
    <3> QED
      BY <1>0, <1>2, <1>3, <2>1, <3>2, <3>4, FetchEnds
  <2>3. CASE ~Explains(ids, fetch.snaps)
    BY <1>0, <2>1, <2>3, FetchEnds DEF Verified
  <2> QED
    BY <2>2, <2>3
<1>5. CASE ~ShortPage(page) /\ fetch.pages + 1 = MaxPages
  <2>1. fetch' = NoFetch /\ result' = NoResult
    BY <1>1, <1>5 DEF ReadPage
  <2> QED
    BY <1>0, <2>1, FetchEnds
<1>6. CASE ~ShortPage(page) /\ fetch.pages + 1 # MaxPages
  <2>1. fetch' = [fetch EXCEPT !.pages = @ + 1, !.ids = ids, !.cursor = next] /\ UNCHANGED result
    BY <1>1, <1>6 DEF ReadPage
  <2>2. fetch \in FetchSet /\ fetch.pages < MaxPages
    BY DEF HistInv, THTypes
  <2>3. /\ fetch' \in FetchSet /\ fetch'.pc = "pages" /\ fetch'.pages = fetch.pages + 1
        /\ fetch'.cursor = next /\ fetch'.ids = ids /\ fetch'.snaps = fetch.snaps
    <3>1. PICK n \in Nat : n = fetch.pages + 1
      BY <2>2 DEF FetchSet
    <3>2. fetch' = [fetch EXCEPT !.pages = n, !.ids = ids, !.cursor = next]
      BY <2>1, <2>2, <3>1 DEF FetchSet
    <3> QED
      BY <1>0, <1>3, <2>2, <3>1, <3>2 DEF FetchSet
  <2>4. fetch'.pages < MaxPages
    <3>1. fetch.pages \in Nat
      BY <2>2 DEF FetchSet
    <3> QED
      BY <1>6, <2>2, <2>3, <3>1, HistoryNumbers
  <2>5. THTypes'
    BY <1>0, <2>1, <2>3, <2>4 DEF HistInv, THTypes
  <2>6. CursorInv'
    BY <1>0, <1>2, <2>1, <2>3 DEF HistInv, CursorInv
  <2>7. RecentInv'
    BY <1>0 DEF HistInv, RecentInv
  <2> QED
    BY <2>5, <2>6, <2>7 DEF HistInv
<1> QED
  BY <1>4, <1>5, <1>6

LEMMA StoreKeeps == ASSUME HistInv, Store PROVE HistInv'
<1>0. /\ UNCHANGED <<trades, listed, fetch, recent>> /\ fetch.pc = "none" /\ result.next > 0
      /\ stored' = stored \cup result.trades /\ anchor' = result.next /\ result' = NoResult
  BY DEF Store
<1>1. PICK T : T = DOMAIN trades /\ T \in SUBSET Nat
  BY HistoryNumbers DEF HistInv, THTypes
<1>2. /\ Reached(T, anchor) /\ Span(T, 1, anchor) \subseteq stored
      /\ Reached(T, result.next) /\ anchor <= result.next /\ result.trades = Span(T, anchor, result.next)
  BY <1>0, <1>1 DEF HistInv, CursorInv
<1>3. anchor \in Nat /\ anchor >= 1 /\ result.next \in Nat /\ result.trades \subseteq T
  BY <1>2 DEF Reached, Span
<1>4. Span(T, 1, result.next) \subseteq stored'
  <2>1. Span(T, 1, anchor) \cup Span(T, anchor, result.next) = Span(T, 1, result.next)
    <3>1. InOrder(T, 1, anchor, result.next)
      BY <1>1, <1>2, <1>3 DEF InOrder
    <3> QED
      BY <3>1, SpansJoin
  <2> QED
    BY <1>0, <1>2, <2>1
<1>5. NoResult \in ResultSet /\ NoResult.next = 0 /\ NoResult.trades = {}
  BY DEF NoResult, ResultSet
<1>6. THTypes'
  BY <1>0, <1>1, <1>3, <1>5 DEF HistInv, THTypes
<1>7. CursorInv'
  BY <1>0, <1>1, <1>2, <1>4, <1>5 DEF HistInv, CursorInv
<1>8. RecentInv'
  BY <1>0 DEF HistInv, RecentInv
<1> QED
  BY <1>6, <1>7, <1>8 DEF HistInv

\* fills(): a page that is not full is all there was.
LEMMA RecentKeeps == ASSUME HistInv, ReadRecent \/ ReadOrders \/ UseFills PROVE HistInv'
<1>0. UNCHANGED <<trades, listed, anchor, stored, fetch, result>>
  BY DEF ReadRecent, ReadOrders, UseFills
<1>1. PICK T : T = DOMAIN trades /\ T \in SUBSET (1 .. MaxTradeId) /\ T \in SUBSET Nat
  BY HistoryNumbers DEF HistInv, THTypes
<1>2. recent' \in RecentSet /\ RecentInv'
  <2>1. CASE ReadRecent
    <3>1. recent' = [pc |-> "orders", page |-> NewestOf(T), at |-> T]
      BY <1>1, <2>1 DEF ReadRecent, NewestPage, NewestOf, TradeIds
    <3>2. NewestOf(T) \in SUBSET Nat
      BY <1>1 DEF NewestOf
    <3>3. recent' \in RecentSet /\ recent'.pc = "orders" /\ recent'.page = NewestOf(T) /\ recent'.at = T
      BY <1>1, <3>1, <3>2 DEF RecentSet
    <3> QED
      BY <1>1, <3>3, ShortNewestIsAll DEF RecentInv
  <2>2. CASE ReadOrders
    <3>1. /\ recent \in RecentSet /\ recent.pc = "orders"
          /\ Cardinality(recent.page) < PageLimit => recent.page = recent.at
      BY <2>2 DEF ReadOrders, HistInv, THTypes, RecentInv
    <3>2. PICK p : p = BindTradePage(recent.page)
      OBVIOUS
    <3>3. p = {} \/ (p = recent.page /\ Cardinality(recent.page) < PageLimit)
      BY <3>2 DEF BindTradePage, ShortPage
    <3>4. recent' = [recent EXCEPT !.pc = "bound", !.page = p]
      BY <2>2, <3>2 DEF ReadOrders
    <3>5. recent' \in RecentSet /\ recent'.pc = "bound" /\ recent'.page = p /\ recent'.at = recent.at
      BY <3>1, <3>3, <3>4 DEF RecentSet
    <3> QED
      BY <3>1, <3>3, <3>5 DEF RecentInv
  <2>3. CASE UseFills
    <3>1. recent' \in RecentSet /\ recent'.pc = "none"
      BY <2>3 DEF UseFills, NoRecent, RecentSet
    <3> QED
      BY <3>1 DEF RecentInv
  <2> QED
    BY <2>1, <2>2, <2>3
<1>3. THTypes'
  BY <1>0, <1>2 DEF HistInv, THTypes
<1>4. CursorInv'
  BY <1>0 DEF HistInv, CursorInv
<1> QED
  BY <1>2, <1>3, <1>4 DEF HistInv

LEMMA HistInvNext == HistInv /\ [THNext]_thVars => HistInv'
<1> SUFFICES ASSUME HistInv, [THNext]_thVars PROVE HistInv'
  OBVIOUS
<1>1. CASE \E o \in Owned \cup Foreign, id \in 1 .. MaxTradeId : VenueTrade(o, id)
  BY <1>1, VenueTradeKeeps
<1>2. CASE BeginFetch
  BY <1>2, BeginFetchKeeps
<1>3. CASE \E o \in Owned : TakeSnapshot(o)
  BY <1>3, SnapshotKeeps
<1>4. CASE ReadPage
  BY <1>4, ReadPageKeeps
<1>5. CASE FetchFails
  BY <1>5, FetchEnds DEF FetchFails
<1>6. CASE Store
  BY <1>6, StoreKeeps
<1>7. CASE ReadRecent \/ ReadOrders \/ UseFills
  BY <1>7, RecentKeeps
<1>8. CASE UNCHANGED thVars
  BY <1>8 DEF thVars, HistInv, THTypes, CursorInv, RecentInv
<1> QED
  BY <1>1, <1>2, <1>3, <1>4, <1>5, <1>6, <1>7, <1>8 DEF THNext

\* Whatever the account trades between two reads, and wherever a fetch fails, the stored
\* cursor passes no trade, evidence covers its interval, and fills() returns all or none
\* (fetch_verified_history and bind_trade_page).
THEOREM HistoryLosesNothing == THSpec => []HistorySafety
<1>1. THInit => HistInv
  BY HistInvInit
<1>2. HistInv /\ [THNext]_thVars => HistInv'
  BY HistInvNext
<1>3. HistInv => HistorySafety
  <2> SUFFICES ASSUME HistInv PROVE HistorySafety
    OBVIOUS
  <2>1. PICK T : T = DOMAIN trades /\ T \in SUBSET (1 .. MaxTradeId) /\ T \in SUBSET Nat /\ MaxTradeId \in Nat
    BY HistoryNumbers DEF HistInv, THTypes
  <2>2. Reached(T, anchor) /\ Span(T, 1, anchor) \subseteq stored
    BY <2>1 DEF HistInv, CursorInv
  <2>3. result.trades = {} \/ (result.next > 0 /\ result.trades = Span(T, anchor, result.next))
    <3>1. result.next \in Nat
      BY DEF HistInv, THTypes, ResultSet
    <3>2. result.next = 0 \/ result.next > 0
      BY <3>1
    <3> QED
      BY <2>1, <3>2 DEF HistInv, CursorInv
  <2>4. THTypeOK
    <3>1. anchor \in 1 .. MaxTradeId + 1
      <4>1. CASE anchor = 1
        BY <2>1, <4>1
      <4>2. CASE anchor - 1 \in T
        <5>1. anchor - 1 \in 1 .. MaxTradeId /\ anchor \in Nat
          BY <2>1, <2>2, <4>2 DEF Reached
        <5> QED
          BY <2>1, <5>1
      <4> QED
        BY <2>2, <4>1, <4>2 DEF Reached
    <3>2. result.trades \subseteq T
      BY <2>3 DEF Span
    <3> QED
      BY <2>1, <3>1, <3>2 DEF THTypeOK, HistInv, THTypes, TradeIds
  <2>5. NoTradeBehindAnchor
    BY <2>1, <2>2 DEF NoTradeBehindAnchor, Span, TradeIds
  <2>6. EvidenceIsComplete
    <3> SUFFICES ASSUME result.next > 0
                 PROVE  /\ \A i \in T : i \in anchor .. (result.next - 1) <=> i \in result.trades
                        /\ \A i \in result.trades : trades[i] \in Owned
      BY <2>1 DEF EvidenceIsComplete, TradeIds
    <3>1. /\ Reached(T, result.next) /\ result.trades = Span(T, anchor, result.next)
          /\ \A i \in result.trades : trades[i] \in Owned
      BY <2>1 DEF HistInv, CursorInv
    <3>2. anchor \in Nat /\ result.next \in Nat
      BY <2>2, <3>1 DEF Reached
    <3>3. ASSUME NEW i \in T PROVE i \in anchor .. (result.next - 1) <=> (anchor <= i /\ i < result.next)
      <4>1. i \in Nat
        BY <2>1
      <4> QED
        BY <3>2, <4>1
    <3> QED
      BY <3>1, <3>3 DEF Span
  <2>7. FillsAreAll
    BY DEF FillsAreAll, HistInv, RecentInv
  <2> QED
    BY <2>4, <2>5, <2>6, <2>7 DEF HistorySafety
<1> QED
  BY <1>1, <1>2, <1>3, PTL DEF THSpec

\* Evidence that verifies is one cut of the account: no order whose fills are all after the
\* stored cursor traded between its snapshot and the last page (verify_trade_history).
THEOREM EvidenceIsACut == THSpec => EvidenceIsOneCut
<1>1. HistInv /\ [THNext]_thVars =>
        [result' # result /\ result'.next > 0 =>
           \A o \in Owned : o \in {trades[i] : i \in stored} \/ fetch.snaps[o] = FilledQuantity(o)]_thVars
  <2> SUFFICES ASSUME HistInv, [THNext]_thVars, result' # result, result'.next > 0,
                      NEW o \in Owned, o \notin {trades[i] : i \in stored}
               PROVE  fetch.snaps[o] = FilledQuantity(o)
    OBVIOUS
  <2>1. NoResult.next = 0
    BY DEF NoResult
  <2>2. ReadPage
    <3>1. ~UNCHANGED thVars
      BY DEF thVars
    <3>2. \A o1 \in Owned \cup Foreign, id \in 1 .. MaxTradeId : ~VenueTrade(o1, id)
      BY DEF VenueTrade
    <3>3. ~BeginFetch /\ ~ReadRecent /\ ~ReadOrders /\ ~UseFills /\ \A o1 \in Owned : ~TakeSnapshot(o1)
      BY DEF BeginFetch, TakeSnapshot, ReadRecent, ReadOrders, UseFills
    <3>4. ~FetchFails /\ ~Store
      BY <2>1 DEF FetchFails, Store
    <3> QED
      BY <3>1, <3>2, <3>3, <3>4 DEF THNext
  <2>3. PICK page, next, ids : /\ page = Page(fetch.cursor) /\ next = NextFromId(page, fetch.cursor)
                               /\ ids = fetch.ids \cup page
    OBVIOUS
  <2>4. ShortPage(page) /\ Explains(ids, fetch.snaps) /\ fetch.pc = "pages"
    BY <2>1, <2>2, <2>3 DEF ReadPage, Verified
  <2>5. ids = Span(DOMAIN trades, anchor, next) /\ \A i \in DOMAIN trades : i < next
    BY <2>3, <2>4, ReadPageReaches
  <2>6. DOMAIN fetch.snaps = Owned /\ Span(DOMAIN trades, 1, anchor) \subseteq stored
    BY <2>4 DEF HistInv, CursorInv
  <2>7. {i \in ids : trades[i] = o} = {i \in TradeIds : trades[i] = o}
    <3>1. ASSUME NEW i \in DOMAIN trades, trades[i] = o PROVE i \in ids
      <4>1. i \notin Span(DOMAIN trades, 1, anchor)
        BY <2>6, <3>1
      <4>2. i \in Nat /\ i >= 1 /\ anchor \in Nat
        BY HistoryNumbers DEF HistInv, THTypes
      <4>3. anchor <= i
        BY <4>1, <4>2 DEF Span
      <4> QED
        BY <2>5, <4>3 DEF Span
    <3>2. ids \subseteq DOMAIN trades
      BY <2>5 DEF Span
    <3> QED
      BY <3>1, <3>2 DEF TradeIds
  <2> QED
    BY <2>4, <2>6, <2>7 DEF Explains, QuantityFrom, FilledQuantity
<1> QED
  BY <1>1, HistInvInit, HistInvNext, PTL DEF THSpec, EvidenceIsOneCut

-----------------------------------------------------------------------------
(* The adapters and the trade history together *)

\* A behaviour of the composition is one of the adapters and one of the trade history.
LEMMA VenuePartsBehave == VenuesSpec => VASpec /\ THSpec
<1>1. VenuesInit => VAInit /\ THInit
  BY DEF VenuesInit
<1>2. [VenuesNext]_venuesVars => [VANext]_vaVars
  BY DEF VenuesNext, venuesVars, AdapterPart, ConnectionPart, StreamPart, HistoryPart
<1>3. [VenuesNext]_venuesVars => [THNext]_thVars
  BY DEF VenuesNext, venuesVars, AdapterPart, ConnectionPart, StreamPart, HistoryPart
<1> QED
  BY <1>1, <1>2, <1>3, PTL DEF VenuesSpec, VASpec, THSpec

\* No read of a venue hides a fill: neither a snapshot that an adapter adopts nor the
\* evidence of a trade history.
THEOREM NoReadHidesAFill == VenuesSpec => ReadsHideNoFill
  BY VenuePartsBehave, AdoptionHidesNoFill, EvidenceIsACut, PTL DEF ReadsHideNoFill

=============================================================================
