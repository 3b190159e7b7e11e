-------------------------- MODULE DurableExecution --------------------------
(***************************************************************************)
(* DurableExecution of pg-orchestrator over the order_records table of     *)
(* pg-store, run by the processes of RuntimeLease against one venue.       *)
(*                                                                         *)
(* A daemon is one event loop: a process runs dispatch, recovery,          *)
(* reconciliation or a cancel loop to its end before it starts another     *)
(* operation, but every await on the store or on the venue is a point      *)
(* where other processes, the venue, the clock or a crash may intervene.   *)
(* The steps below are the code between two awaits that matter; an await   *)
(* that fails ends the operation (Abort) or the process (Crash).           *)
(***************************************************************************)
EXTENDS RuntimeLease, Oms

CONSTANTS
  Orders,    \* client order ids
  NoOrder    \* no order is being handled

ASSUME OrdersAssumption == NoOrder \notin Orders

VARIABLES
  orders,   \* order_records: record, fencing token and (history) tenure of the writer
  submits,  \* history: calls of ExecutionAdapter::submit for the order
  wire,     \* a submit request that may still reach the venue
  venue,    \* the order at the venue
  pc,       \* the next step of each process
  cur,      \* the order that step is about
  local,    \* the in-memory OrderRecord copies of the running operation
  seen,     \* the venue snapshots reconcile_once collected
  todo      \* orders its loop has still to visit

execVars == <<orders, submits, wire, venue, pc, cur, local, seen, todo>>
vars == <<leaseVars, execVars>>

Rows == [st : OrderStates, filled : 0..Qty, tok : Nat, by : Nat]
NoRow == [st |-> "None", filled |-> 0, tok |-> 0, by |-> 0]

RecordOf(row) == [st |-> row.st, filled |-> row.filled]

VenueStates == {"Absent", "Open", "PartiallyFilled", "Filled", "Canceled",
                "Rejected"}

Live(o) == venue[o].st \in {"Open", "PartiallyFilled"}

DispatchSteps == {"d_created", "d_pending", "d_check", "d_submit", "d_wait", "d_save"}
RecoverSteps == {"rv_load", "rv_find", "rv_save"}
ReconcileSteps == {"rc_assert", "rc_load", "rc_open", "rc_find", "rc_confirm",
                   "rc_save"}
CancelSteps == {"c_load", "c_next", "c_find", "c_request", "c_check", "c_cancel",
                "c_result", "c_save"}
Steps == {"off", "boot", "ready", "idle", "flatten", "stopped"} \cup DispatchSteps \cup RecoverSteps
           \cup ReconcileSteps \cup CancelSteps

ExecTypeOK ==
  /\ orders \in [Orders -> Rows \cup {NoRow}]
  /\ submits \in [Orders -> Nat]
  /\ wire \in [Orders -> BOOLEAN]
  /\ venue \in [Orders -> [st : VenueStates, filled : 0..Qty]]
  /\ pc \in [Procs -> Steps]
  /\ cur \in [Procs -> Orders \cup {NoOrder}]
  /\ local \in [Procs -> [Orders -> Records \cup {NoRecord}]]
  /\ seen \in [Procs -> [Orders -> Snapshots \cup {NotFound}]]
  /\ todo \in [Procs -> SUBSET Orders]

TypeOK == LeaseTypeOK /\ ExecTypeOK

NoLocal == [o \in Orders |-> NoRecord]
NothingSeen == [o \in Orders |-> NotFound]

Init ==
  /\ LeaseInit
  /\ orders = [o \in Orders |-> NoRow]
  /\ submits = [o \in Orders |-> 0]
  /\ wire = [o \in Orders |-> FALSE]
  /\ venue = [o \in Orders |-> NotFound]
  /\ pc = [p \in Procs |-> "off"]
  /\ cur = [p \in Procs |-> NoOrder]
  /\ local = [p \in Procs |-> NoLocal]
  /\ seen = [p \in Procs |-> NothingSeen]
  /\ todo = [p \in Procs |-> {}]

-----------------------------------------------------------------------------
(* The store.                                                              *)

\* Mutant: without the trigger of migration 0003.
MaySaveCreatedAgain(p, o, r) == orders[o] = NoRow \/ orders[o].tok <= tok[p]

\* Mutant: without the fencing condition of the update.
MaySaveUnfenced(p, o, r) == orders[o] = NoRow \/ r.st # "Created"

\* save_order_record: an insert always succeeds; the update of a stored row
\* needs a token no smaller than the stored one, and the trigger of
\* migration 0003 refuses an update to Created.
MaySave(p, o, r) ==
  \/ orders[o] = NoRow
  \/ orders[o].tok <= tok[p] /\ r.st # "Created"

SaveOrderRecord(p, o, r) ==
  /\ MaySave(p, o, r)
  /\ orders' = [orders EXCEPT ![o] =
                  [st |-> r.st, filled |-> r.filled, tok |-> tok[p], by |-> mine[p]]]

\* load_orders_for_venue.
Loaded == [o \in Orders |-> RecordOf(orders[o])]

\* find_order_by_client_id: nothing, the order, or the order in a state the
\* adapter cannot name.  History may be late, so nothing is always possible.
Lookup(o) ==
  {NotFound} \cup
    IF venue[o].st = "Absent" THEN {}
    ELSE {venue[o], [venue[o] EXCEPT !.st = "Unknown"]}

-----------------------------------------------------------------------------
(* Control of a process.                                                   *)

Goto(p, step) == pc' = [pc EXCEPT ![p] = step]

SetLocal(p, o, r) == local' = [local EXCEPT ![p][o] = r]

\* Leave the operation: its local variables go out of scope.
Finish(p, step) ==
  /\ Goto(p, step)
  /\ cur' = [cur EXCEPT ![p] = NoOrder]
  /\ local' = [local EXCEPT ![p] = NoLocal]
  /\ seen' = [seen EXCEPT ![p] = NothingSeen]
  /\ todo' = [todo EXCEPT ![p] = {}]

\* Where dispatch and reconcile_once return to: the startup sequence, the
\* event loop, or the flattening loop of the shutdown.
Caller(p) ==
  CASE mode[p] = "starting" -> "ready"
    [] mode[p] = "stopping" -> "flatten"
    [] OTHER -> "idle"

\* The next order of the cancel loop.
NextCancel(p) ==
  /\ Goto(p, "c_next")
  /\ cur' = [cur EXCEPT ![p] = NoOrder]
  /\ UNCHANGED <<local, seen, todo>>

\* An await returned an error: a lost lease, a fenced or refused write, a
\* snapshot that contradicts the record, a database or transport error.
\* The event loop logs it and goes on; the cancel loops go on with the next
\* order; a startup that fails ends the process (Crash).
Abort(p) ==
  /\ \/ /\ pc[p] \in DispatchSteps \ {"d_submit", "d_wait"}
        /\ Finish(p, Caller(p))
     \/ /\ pc[p] \in RecoverSteps \cup ReconcileSteps
        /\ mode[p] # "starting"
        /\ Finish(p, IF mode[p] = "stopping" THEN "stopped" ELSE "idle")
     \/ /\ pc[p] \in CancelSteps \ {"c_load", "c_next"}
        /\ NextCancel(p)
     \/ /\ pc[p] = "c_load"
        /\ Finish(p, IF mode[p] = "stopping" THEN "stopped" ELSE "rc_assert")
  /\ UNCHANGED <<leaseVars, orders, submits, wire, venue>>

-----------------------------------------------------------------------------
(* dispatch.                                                               *)

\* assert_lease, then a fresh record for the intent: of a strategy or of an
\* emergency exit in the event loop, or of the FlattenOwned policy.
Dispatch(p, o) ==
  /\ pc[p] \in {"idle", "flatten"}
  /\ Valid(p)
  /\ Goto(p, "d_created")
  /\ cur' = [cur EXCEPT ![p] = o]
  /\ SetLocal(p, o, FromIntent)
  /\ UNCHANGED <<leaseVars, orders, submits, wire, venue, seen, todo>>

\* Save the intent as Created, journal it, and request the submission.
PersistIntent(p) ==
  /\ pc[p] = "d_created"
  /\ SaveOrderRecord(p, cur[p], local[p][cur[p]])
  /\ SetLocal(p, cur[p], Apply(local[p][cur[p]], "SubmitRequested"))
  /\ Goto(p, "d_pending")
  /\ UNCHANGED <<leaseVars, submits, wire, venue, cur, seen, todo>>

\* Mutant: the request is sent before the save of PendingSubmit.
PersistPendingAfterwards(p) ==
  /\ pc[p] = "d_pending"
  /\ Goto(p, "d_check")
  /\ UNCHANGED <<leaseVars, orders, submits, wire, venue, cur, local, seen, todo>>

\* Save PendingSubmit and journal the start of the dispatch.
PersistPending(p) ==
  /\ pc[p] = "d_pending"
  /\ SaveOrderRecord(p, cur[p], local[p][cur[p]])
  /\ Goto(p, "d_check")
  /\ UNCHANGED <<leaseVars, submits, wire, venue, cur, local, seen, todo>>

\* The fresh fencing check before the external side effect.
CheckBeforeSubmit(p) ==
  /\ pc[p] = "d_check"
  /\ Valid(p)
  /\ Goto(p, "d_submit")
  /\ UNCHANGED <<leaseVars, orders, submits, wire, venue, cur, local, seen, todo>>

\* adapter.submit puts the request on the wire.
Submit(p) ==
  /\ pc[p] = "d_submit"
  /\ submits' = [submits EXCEPT ![cur[p]] = @ + 1]
  /\ wire' = [wire EXCEPT ![cur[p]] = TRUE]
  /\ Goto(p, "d_wait")
  /\ UNCHANGED <<leaseVars, orders, venue, cur, local, seen, todo>>

\* adapter.submit refuses the intent before anything is sent (conversion,
\* unsupported operation, authentication).
SubmitRefused(p) ==
  /\ pc[p] = "d_submit"
  /\ submits' = [submits EXCEPT ![cur[p]] = @ + 1]
  /\ SetLocal(p, cur[p], Apply(local[p][cur[p]], "Rejected"))
  /\ Goto(p, "d_save")
  /\ UNCHANGED <<leaseVars, orders, wire, venue, cur, seen, todo>>

\* Mutant: a transport error is taken for a rejection.
SubmitReturnsOptimistic(p, ev) ==
  /\ pc[p] = "d_wait"
  /\ ev = "Accepted" => venue[cur[p]].st \notin {"Absent", "Rejected"}
  /\ SetLocal(p, cur[p], Apply(local[p][cur[p]], IF ev = "LostState" THEN "Rejected" ELSE ev))
  /\ Goto(p, "d_save")
  /\ UNCHANGED <<leaseVars, orders, submits, wire, venue, cur, seen, todo>>

\* The three outcomes of the awaited submit: an acknowledgement, a rejection
\* by the venue, or Unknown/Transport, which says nothing about the venue.
SubmitReturns(p, ev) ==
  /\ pc[p] = "d_wait"
  /\ ev = "Accepted" => venue[cur[p]].st \notin {"Absent", "Rejected"}
  /\ ev = "Rejected" => venue[cur[p]].st = "Rejected"
  /\ SetLocal(p, cur[p], Apply(local[p][cur[p]], ev))
  /\ Goto(p, "d_save")
  /\ UNCHANGED <<leaseVars, orders, submits, wire, venue, cur, seen, todo>>

\* Save the outcome, journal it and return.
PersistOutcome(p) ==
  /\ pc[p] = "d_save"
  /\ SaveOrderRecord(p, cur[p], local[p][cur[p]])
  /\ Finish(p, Caller(p))
  /\ UNCHANGED <<leaseVars, submits, wire, venue>>

-----------------------------------------------------------------------------
(* recover_ambiguous: at startup and at every reconcile tick.              *)

BeginRecover(p) ==
  /\ pc[p] \in {"boot", "idle"}
  /\ Valid(p)
  /\ Goto(p, "rv_load")
  /\ UNCHANGED <<leaseVars, orders, submits, wire, venue, cur, local, seen, todo>>

RecoverLoad(p) ==
  /\ pc[p] = "rv_load"
  /\ local' = [local EXCEPT ![p] = Loaded]
  /\ todo' = [todo EXCEPT ![p] = {o \in Orders : orders[o].st \in AmbiguousStates}]
  /\ Goto(p, "rv_find")
  /\ UNCHANGED <<leaseVars, orders, submits, wire, venue, cur, seen>>

\* Resolve one record by its client id: adopt a valid snapshot, or mark the
\* record Unknown when the venue does not show the order.  Never resubmit.
RecoverFind(p, o) ==
  /\ pc[p] = "rv_find"
  /\ o \in todo[p]
  /\ \E s \in Lookup(o) :
       \/ /\ s = NotFound
          /\ SetLocal(p, o, [local[p][o] EXCEPT !.st = "Unknown"])
       \/ /\ s # NotFound
          /\ ValidSnapshot(local[p][o], s)
          /\ SetLocal(p, o, ApplySnapshot(local[p][o], s))
  /\ cur' = [cur EXCEPT ![p] = o]
  /\ Goto(p, "rv_save")
  /\ UNCHANGED <<leaseVars, orders, submits, wire, venue, seen, todo>>

RecoverSave(p) ==
  /\ pc[p] = "rv_save"
  /\ SaveOrderRecord(p, cur[p], local[p][cur[p]])
  /\ todo' = [todo EXCEPT ![p] = @ \ {cur[p]}]
  /\ cur' = [cur EXCEPT ![p] = NoOrder]
  /\ Goto(p, "rv_find")
  /\ UNCHANGED <<leaseVars, submits, wire, venue, local, seen>>

\* Every caller goes on with reconcile_once.
RecoverDone(p) ==
  /\ pc[p] = "rv_find"
  /\ todo[p] = {}
  /\ Finish(p, "rc_assert")
  /\ UNCHANGED <<leaseVars, orders, submits, wire, venue>>

-----------------------------------------------------------------------------
(* reconcile_once: after recovery, after an emergency cancel, at shutdown. *)

ReconcileAssert(p) ==
  /\ pc[p] = "rc_assert"
  /\ Valid(p)
  /\ Goto(p, "rc_load")
  /\ UNCHANGED <<leaseVars, orders, submits, wire, venue, cur, local, seen, todo>>

ReconcileLoad(p) ==
  /\ pc[p] = "rc_load"
  /\ local' = [local EXCEPT ![p] = Loaded]
  /\ Goto(p, "rc_open")
  /\ UNCHANGED <<leaseVars, orders, submits, wire, venue, cur, seen, todo>>

\* adapter.open_orders, and the local orders it leaves to be looked up.
ReconcileOpen(p) ==
  /\ pc[p] = "rc_open"
  /\ seen' = [seen EXCEPT ![p] =
                [o \in Orders |-> IF Live(o) THEN venue[o] ELSE NotFound]]
  /\ todo' = [todo EXCEPT ![p] =
                {o \in Orders : /\ local[p][o] # NoRecord
                                /\ ~IsTerminal(local[p][o])
                                /\ ~Live(o)}]
  /\ Goto(p, "rc_find")
  /\ UNCHANGED <<leaseVars, orders, submits, wire, venue, cur, local>>

ReconcileFind(p, o) ==
  /\ pc[p] = "rc_find"
  /\ o \in todo[p]
  /\ \E s \in Lookup(o) : seen' = [seen EXCEPT ![p][o] = s]
  /\ todo' = [todo EXCEPT ![p] = @ \ {o}]
  /\ UNCHANGED <<leaseVars, orders, submits, wire, venue, pc, cur, local>>

\* Mutant: a local order the venue does not show raises no issue.
OrderCleanIfShown(p, o) ==
  seen[p][o] # NotFound => local[p][o] # NoRecord /\ ValidSnapshot(local[p][o], seen[p][o])

\* reconcile and the snapshot conflicts raise no issue for this order.
OrderClean(p, o) ==
  LET r == local[p][o]
      s == seen[p][o]
  IN  /\ s # NotFound => r # NoRecord /\ ValidSnapshot(r, s)
      /\ r # NoRecord /\ ~IsTerminal(r) => s # NotFound /\ r.st # "Unknown"

\* The preflight is complete: assert the lease and store the report.  A
\* report with an issue changes nothing.  Foreign orders and positions can
\* raise issues of their own (elsewhereClean).
ReconcileReport(p, elsewhereClean) ==
  /\ pc[p] = "rc_find"
  /\ todo[p] = {}
  /\ Valid(p)
  /\ IF elsewhereClean /\ \A o \in Orders : OrderClean(p, o)
       THEN /\ Goto(p, "rc_confirm")
            /\ UNCHANGED <<cur, local, seen, todo>>
       ELSE Finish(p, Caller(p))
  /\ UNCHANGED <<leaseVars, orders, submits, wire, venue>>

\* Clean: assert the lease once more before the records are updated.
ReconcileConfirm(p) ==
  /\ pc[p] = "rc_confirm"
  /\ Valid(p)
  /\ todo' = [todo EXCEPT ![p] = {o \in Orders : seen[p][o] # NotFound}]
  /\ Goto(p, "rc_save")
  /\ UNCHANGED <<leaseVars, orders, submits, wire, venue, cur, local, seen>>

ReconcileSave(p, o) ==
  /\ pc[p] = "rc_save"
  /\ o \in todo[p]
  /\ SaveOrderRecord(p, o, ApplySnapshot(local[p][o], seen[p][o]))
  /\ todo' = [todo EXCEPT ![p] = @ \ {o}]
  /\ UNCHANGED <<leaseVars, submits, wire, venue, pc, cur, local, seen>>

ReconcileDone(p) ==
  /\ pc[p] = "rc_save"
  /\ todo[p] = {}
  /\ Finish(p, Caller(p))
  /\ UNCHANGED <<leaseVars, orders, submits, wire, venue>>

-----------------------------------------------------------------------------
(* cancel_order, from the cancel loops of emergency_flatten_owned and      *)
(* apply_shutdown_policy.                                                  *)

BeginEmergency(p) ==
  /\ pc[p] = "idle"
  /\ Goto(p, "c_load")
  /\ UNCHANGED <<leaseVars, orders, submits, wire, venue, cur, local, seen, todo>>

CancelLoad(p) ==
  /\ pc[p] = "c_load"
  /\ local' = [local EXCEPT ![p] = Loaded]
  /\ todo' = [todo EXCEPT ![p] =
                {o \in Orders : orders[o] # NoRow /\ ~IsTerminal(orders[o])}]
  /\ Goto(p, "c_next")
  /\ UNCHANGED <<leaseVars, orders, submits, wire, venue, cur, seen>>

\* Where cancel_order starts from the state of the record it is given; a
\* record still Created is not safely cancelable.
CancelEntry(r) ==
  CASE r.st \in AmbiguousStates -> "c_find"
    [] r.st \in {"Open", "PartiallyFilled"} -> "c_request"
    [] r.st = "PendingCancel" -> "c_check"
    [] OTHER -> "c_next"

\* Take the next record of the loop; cancel_order asserts the lease first.
CancelOrder(p, o) ==
  /\ pc[p] = "c_next"
  /\ o \in todo[p]
  /\ todo' = [todo EXCEPT ![p] = @ \ {o}]
  /\ LET step == IF Valid(p) THEN CancelEntry(local[p][o]) ELSE "c_next"
     IN  /\ Goto(p, step)
         /\ cur' = [cur EXCEPT ![p] = IF step = "c_next" THEN NoOrder ELSE o]
  /\ UNCHANGED <<leaseVars, orders, submits, wire, venue, local, seen>>

\* Mutant: the early return for a terminal snapshot is missing.
CancelFindNoReturn(p) ==
  /\ pc[p] = "c_find"
  /\ \E s \in Lookup(cur[p]) \ {NotFound} :
       /\ ValidSnapshot(local[p][cur[p]], s)
       /\ SetLocal(p, cur[p], ApplySnapshot(local[p][cur[p]], s))
  /\ Goto(p, "c_request")
  /\ UNCHANGED <<leaseVars, orders, submits, wire, venue, cur, seen, todo>>

\* An ambiguous record must be found at the venue before it is canceled.
CancelFind(p) ==
  /\ pc[p] = "c_find"
  /\ \E s \in Lookup(cur[p]) :
       \/ /\ s = NotFound
          /\ SetLocal(p, cur[p], [local[p][cur[p]] EXCEPT !.st = "Unknown"])
          /\ Goto(p, "c_save")
       \/ /\ s # NotFound
          /\ ValidSnapshot(local[p][cur[p]], s)
          /\ SetLocal(p, cur[p], ApplySnapshot(local[p][cur[p]], s))
          /\ Goto(p, IF s.st \in TerminalStates THEN "c_save" ELSE "c_request")
  /\ UNCHANGED <<leaseVars, orders, submits, wire, venue, cur, seen, todo>>

\* Save PendingCancel and journal it before the venue is touched.
CancelRequest(p) ==
  /\ pc[p] = "c_request"
  /\ LET r == Apply(local[p][cur[p]], "CancelRequested")
     IN  SaveOrderRecord(p, cur[p], r) /\ SetLocal(p, cur[p], r)
  /\ Goto(p, "c_check")
  /\ UNCHANGED <<leaseVars, submits, wire, venue, cur, seen, todo>>

CheckBeforeCancel(p) ==
  /\ pc[p] = "c_check"
  /\ Valid(p)
  /\ Goto(p, "c_cancel")
  /\ UNCHANGED <<leaseVars, orders, submits, wire, venue, cur, local, seen, todo>>

\* Mutant: the acknowledgement of the cancel is taken as evidence.
CancelAckedIsCanceled(p) ==
  /\ pc[p] = "c_cancel"
  /\ SetLocal(p, cur[p], Apply(local[p][cur[p]], "Canceled"))
  /\ Goto(p, "c_save")
  /\ UNCHANGED <<leaseVars, orders, submits, wire, venue, cur, seen, todo>>

\* adapter.cancel is acknowledged; the venue may act on it now or later
\* (VenueCancel), or find the order closed already.
CancelAcked(p) ==
  /\ pc[p] = "c_cancel"
  /\ Goto(p, "c_result")
  /\ UNCHANGED <<leaseVars, orders, submits, wire, venue, cur, local, seen, todo>>

\* adapter.cancel returns Unknown or Transport.
CancelLost(p) ==
  /\ pc[p] = "c_cancel"
  /\ SetLocal(p, cur[p], Apply(local[p][cur[p]], "LostState"))
  /\ Goto(p, "c_save")
  /\ UNCHANGED <<leaseVars, orders, submits, wire, venue, cur, seen, todo>>

\* An acknowledged cancel is not evidence: only a snapshot of the order is.
CancelResult(p) ==
  /\ pc[p] = "c_result"
  /\ \E s \in Lookup(cur[p]) \ {NotFound} :
       /\ ValidSnapshot(local[p][cur[p]], s)
       /\ SetLocal(p, cur[p], ApplySnapshot(local[p][cur[p]], s))
  /\ Goto(p, "c_save")
  /\ UNCHANGED <<leaseVars, orders, submits, wire, venue, cur, seen, todo>>

CancelSave(p) ==
  /\ pc[p] = "c_save"
  /\ SaveOrderRecord(p, cur[p], local[p][cur[p]])
  /\ NextCancel(p)
  /\ UNCHANGED <<leaseVars, submits, wire, venue>>

\* An emergency exit reconciles next, and so does the FlattenOwned policy;
\* CancelResting ends here.
CancelDone(p) ==
  /\ pc[p] = "c_next"
  /\ todo[p] = {}
  /\ \/ Finish(p, "rc_assert")
     \/ mode[p] = "stopping" /\ Finish(p, "stopped")
  /\ UNCHANGED <<leaseVars, orders, submits, wire, venue>>

-----------------------------------------------------------------------------
(* The venue (external): it may accept or reject a request that reaches it,*)
(* a request may be lost, and a live order fills or is canceled at any     *)
(* time, by this system's cancel, by hand or by the venue itself.          *)

VenueReceives(o) ==
  /\ wire[o]
  /\ wire' = [wire EXCEPT ![o] = FALSE]
  /\ \E st \in {"Open", "Rejected"} :
       venue' = [venue EXCEPT ![o] = [st |-> st, filled |-> 0]]
  /\ UNCHANGED <<leaseVars, orders, submits, pc, cur, local, seen, todo>>

RequestLost(o) ==
  /\ wire[o]
  /\ wire' = [wire EXCEPT ![o] = FALSE]
  /\ UNCHANGED <<leaseVars, orders, submits, venue, pc, cur, local, seen, todo>>

VenueFill(o) ==
  /\ MayFill(venue[o], 1)
  /\ venue' = [venue EXCEPT ![o] = ApplyFill(@, 1)]
  /\ UNCHANGED <<leaseVars, orders, submits, wire, pc, cur, local, seen, todo>>

VenueCancel(o) ==
  /\ Live(o)
  /\ venue' = [venue EXCEPT ![o].st = "Canceled"]
  /\ UNCHANGED <<leaseVars, orders, submits, wire, pc, cur, local, seen, todo>>

-----------------------------------------------------------------------------
(* The life of a process around its operations.                            *)

Boot(p) ==
  /\ pc[p] = "off"
  /\ AcquireLease(p)
  /\ Goto(p, "boot")
  /\ UNCHANGED <<orders, submits, wire, venue, cur, local, seen, todo>>

Serve(p) ==
  /\ pc[p] = "ready"
  /\ SpawnHeartbeat(p)
  /\ Goto(p, "idle")
  /\ UNCHANGED <<orders, submits, wire, venue, cur, local, seen, todo>>

\* The event loop breaks between two operations; apply_shutdown_policy
\* cancels first unless the policy is Preserve.
Break(p) ==
  /\ pc[p] = "idle"
  /\ ObserveLost(p) \/ Shutdown(p)
  /\ Goto(p, "c_load") \/ Goto(p, "stopped")
  /\ UNCHANGED <<orders, submits, wire, venue, cur, local, seen, todo>>

\* The flattening loop is over.
Flattened(p) ==
  /\ pc[p] = "flatten"
  /\ Goto(p, "stopped")
  /\ UNCHANGED <<leaseVars, orders, submits, wire, venue, cur, local, seen, todo>>

Stop(p) ==
  /\ pc[p] = "stopped"
  /\ \/ StopHeartbeat(p) /\ UNCHANGED pc
     \/ ReleaseLease(p) /\ Goto(p, "off")
  /\ UNCHANGED <<orders, submits, wire, venue, cur, local, seen, todo>>

Die(p) ==
  /\ Crash(p)
  /\ Finish(p, "off")
  /\ UNCHANGED <<orders, submits, wire, venue>>

\* The heartbeat task and the clock run beside every operation.
Background ==
  /\ \/ \E p \in Procs : RenewLease(p) \/ RenewError(p)
     \/ TimePasses
  /\ UNCHANGED execVars

-----------------------------------------------------------------------------
DispatchStep(p) ==
  \/ \E o \in Orders : Dispatch(p, o)
  \/ PersistIntent(p)
  \/ PersistPending(p)
  \/ CheckBeforeSubmit(p)
  \/ Submit(p)
  \/ SubmitRefused(p)
  \/ \E ev \in {"Accepted", "Rejected", "LostState"} : SubmitReturns(p, ev)
  \/ PersistOutcome(p)

RecoverStep(p) ==
  \/ BeginRecover(p)
  \/ RecoverLoad(p)
  \/ \E o \in Orders : RecoverFind(p, o)
  \/ RecoverSave(p)
  \/ RecoverDone(p)

ReconcileStep(p) ==
  \/ ReconcileAssert(p)
  \/ ReconcileLoad(p)
  \/ ReconcileOpen(p)
  \/ \E o \in Orders : ReconcileFind(p, o)
  \/ \E elsewhereClean \in BOOLEAN : ReconcileReport(p, elsewhereClean)
  \/ ReconcileConfirm(p)
  \/ \E o \in Orders : ReconcileSave(p, o)
  \/ ReconcileDone(p)

CancelStep(p) ==
  \/ BeginEmergency(p)
  \/ CancelLoad(p)
  \/ \E o \in Orders : CancelOrder(p, o)
  \/ CancelFind(p)
  \/ CancelRequest(p)
  \/ CheckBeforeCancel(p)
  \/ CancelAcked(p)
  \/ CancelLost(p)
  \/ CancelResult(p)
  \/ CancelSave(p)
  \/ CancelDone(p)

LifeStep(p) == Boot(p) \/ Serve(p) \/ Break(p) \/ Flattened(p) \/ Stop(p) \/ Die(p)

VenueStep(o) ==
  VenueReceives(o) \/ RequestLost(o) \/ VenueFill(o) \/ VenueCancel(o)

Next ==
  \/ \E p \in Procs :
       \/ DispatchStep(p)
       \/ RecoverStep(p)
       \/ ReconcileStep(p)
       \/ CancelStep(p)
       \/ Abort(p)
       \/ LifeStep(p)
  \/ \E o \in Orders : VenueStep(o)
  \/ Background

Spec == Init /\ [][Next]_vars

-----------------------------------------------------------------------------
(* Properties.                                                             *)

\* The venue is asked to place an order at most once, whatever the crashes,
\* takeovers, lost acknowledgements and repeated dispatches of the intent.
SubmitOnce == \A o \in Orders : submits[o] <= 1

\* Nothing is sent to the venue for an order whose durable record does not
\* exist or does not say that a submission was requested.
WriteAhead == \A o \in Orders : submits[o] > 0 => orders[o].st \notin {"None", "Created"}

\* An order that is live at the venue, or may still reach it, is never
\* recorded as Filled, Canceled or Rejected, whoever wrote the record last.
LiveOrderIsTracked ==
  \A o \in Orders : Live(o) \/ wire[o] => orders[o] # NoRow /\ ~IsTerminal(orders[o])

\* A record leaves a terminal state only under a later tenure than the one
\* that wrote it: within a tenure nothing is resurrected.
TerminalSticky ==
  [][\A o \in Orders :
       IsTerminal(orders[o]) /\ orders'[o].st # orders[o].st
         => orders'[o].by > orders[o].by]_vars

\* While the lease holder acts on a clean report, no request is on its way
\* to the venue and no other process is about to send one.
CleanMeansNothingPending ==
  \A p \in Procs :
    pc[p] \in {"rc_confirm", "rc_save"} /\ Valid(p) =>
      /\ \A o \in Orders : ~wire[o]
      /\ \A q \in Procs : pc[q] # "d_submit"

\* An old process never overwrites a record written in a later tenure.
StaleNeverOverwrites ==
  [][\A o \in Orders : orders[o].by <= orders'[o].by]_vars

\* The lease holder is never fenced off from its own table: no stored record
\* carries a token greater than the one of the valid lease.
ActiveHolderMayWrite ==
  \A p \in Procs : Valid(p) => \A o \in Orders : orders[o].tok <= tok[p]

\* The outcome of a side effect can always be recorded: once the venue has
\* been asked, no event the answer turns into is an illegal transition of the
\* record, and a cancel is only requested of an order that can be canceled.
OutcomesAreLegal ==
  \A p \in Procs :
    LET st == local[p][cur[p]].st
    IN  /\ pc[p] = "d_wait" => \A ev \in {"Accepted", "Rejected", "LostState"} : Legal(st, ev)
        /\ pc[p] = "c_request" => Legal(st, "CancelRequested")
        /\ pc[p] = "c_cancel" => Legal(st, "LostState")

\* An old leader is powerless: a process whose lease another one has taken
\* writes no order record and submits nothing, whatever it was doing when it
\* lost the lease (save_order_record, dispatch).
OldLeaderIsPowerless ==
  [][\A o \in Orders :
       /\ orders'[o] # orders[o] => orders'[o].tok = lease.token
       /\ submits'[o] # submits[o] =>
            \E p \in Procs : pc[p] = "d_submit" /\ cur[p] = o /\ tok[p] = lease.token]_vars

-----------------------------------------------------------------------------
(* Refinement: the promise to an order, OnceOnly.                          *)

BookOf(o) ==
  CASE orders[o].st = "None" -> "none"
    [] orders[o].st = "Created" -> "intent"
    [] orders[o].st \in TerminalStates -> "closed"
    [] OTHER -> "working"

ExposureOf(o) ==
  IF submits[o] = 0 THEN "none"
  ELSE IF wire[o] THEN "coming"
  ELSE IF Live(o) THEN "live"
  ELSE "closed"

Once == INSTANCE OnceOnly
          WITH book <- [o \in Orders |-> BookOf(o)],
               exposure <- [o \in Orders |-> ExposureOf(o)]

\* DurableExecution implements OnceOnly: every step of every process, of the
\* venue and of the clock is a step of the promise or leaves it alone.
ImplementsOnceOnly == Once!OnceSpec
=============================================================================
