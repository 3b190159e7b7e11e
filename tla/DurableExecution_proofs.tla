---------------------- MODULE DurableExecution_proofs ----------------------
(***************************************************************************)
(* Theorems about the runtime lease and durable execution, for any number  *)
(* of processes and orders, any quantity, any ttl and any number of        *)
(* changes of ownership, with and without release of the lease.            *)
(*                                                                         *)
(* The proof has layers, each used by the next: what a process knows about *)
(* the operation it is in (ControlInv, with the types); what that and the  *)
(* store make of the submissions (OnceInv); what a terminal state is       *)
(* evidence of (EvidenceInv), which also gives the refinement of OnceOnly; *)
(* and what the process that reconciles knows (KnownInv).  Beside them,    *)
(* for behaviours in which no lease row is deleted: who writes under which *)
(* token (FencedInv) and what it may still write (FreshInv).               *)
(***************************************************************************)
EXTENDS DurableExecution, TLAPS

-----------------------------------------------------------------------------
(* The lease *)

LEMMA LeaseTypeInit == LeaseInit => LeaseTypeOK
  BY LeaseAssumption DEF LeaseInit, LeaseTypeOK, NoLease, Modes, Health

LEMMA LeaseTypeStep == LeaseTypeOK /\ [LeaseNext]_leaseVars => LeaseTypeOK'
<1> SUFFICES ASSUME LeaseTypeOK, [LeaseNext]_leaseVars PROVE LeaseTypeOK'
  OBVIOUS
<1> USE LeaseAssumption DEF LeaseTypeOK, Modes, Health
<1>1. ASSUME NEW p \in Procs, AcquireLease(p) PROVE LeaseTypeOK'
  <2>1. AcquiredToken(p) \in Nat
    BY DEF AcquiredToken
  <2> QED
    BY <1>1, <2>1 DEF AcquireLease
<1>2. ASSUME NEW p \in Procs, SpawnHeartbeat(p) PROVE LeaseTypeOK'
  BY <1>2 DEF SpawnHeartbeat
<1>3. ASSUME NEW p \in Procs, RenewLease(p) PROVE LeaseTypeOK'
  BY <1>3 DEF RenewLease
<1>4. ASSUME NEW p \in Procs, RenewError(p) PROVE LeaseTypeOK'
  BY <1>4 DEF RenewError
<1>5. ASSUME NEW p \in Procs, ObserveLost(p) PROVE LeaseTypeOK'
  BY <1>5 DEF ObserveLost
<1>6. ASSUME NEW p \in Procs, Shutdown(p) PROVE LeaseTypeOK'
  BY <1>6 DEF Shutdown
<1>7. ASSUME NEW p \in Procs, StopHeartbeat(p) PROVE LeaseTypeOK'
  BY <1>7 DEF StopHeartbeat
<1>8. ASSUME NEW p \in Procs, ReleaseLease(p) PROVE LeaseTypeOK'
  BY <1>8 DEF ReleaseLease, DeletedRow, NoLease
<1>9. ASSUME NEW p \in Procs, Crash(p) PROVE LeaseTypeOK'
  BY <1>9 DEF Crash
<1>10. CASE TimePasses
  BY <1>10 DEF TimePasses
<1>11. CASE UNCHANGED leaseVars
  BY <1>11 DEF leaseVars
<1> QED
  BY <1>1, <1>2, <1>3, <1>4, <1>5, <1>6, <1>7, <1>8, <1>9, <1>10, <1>11 DEF LeaseNext

\* The row, the modes, the tokens and the heartbeats keep their types, and the
\* time left never exceeds the ttl: no renewal extends a lease past it.
THEOREM LeaseTypeCorrect == LeaseSpec => []LeaseTypeOK
  BY LeaseTypeInit, LeaseTypeStep, PTL DEF LeaseSpec

-----------------------------------------------------------------------------
\* While the lease row is never deleted, the stored token counts the changes
\* of ownership, and every running process holds the number of its tenure.
TokenCountsTenures ==
  /\ lease.token = tenure
  /\ \A p \in Procs : Up(p) => tok[p] = mine[p]

LEMMA TokenCountsStep ==
  ASSUME LeaseTypeOK, TokenCountsTenures, ~MayRelease, [LeaseNext]_leaseVars
  PROVE  TokenCountsTenures'
<1> USE LeaseAssumption DEF LeaseTypeOK, TokenCountsTenures, Up
<1>1. ASSUME NEW p \in Procs, AcquireLease(p) PROVE TokenCountsTenures'
  <2>1. AcquiredToken(p) = tenure'
    BY <1>1 DEF AcquireLease, AcquiredToken, NoLease
  <2> QED
    BY <1>1, <2>1 DEF AcquireLease
<1>2. ASSUME NEW p \in Procs, SpawnHeartbeat(p) PROVE TokenCountsTenures'
  BY <1>2 DEF SpawnHeartbeat
<1>3. ASSUME NEW p \in Procs, RenewLease(p) PROVE TokenCountsTenures'
  BY <1>3 DEF RenewLease
<1>4. ASSUME NEW p \in Procs, RenewError(p) PROVE TokenCountsTenures'
  BY <1>4 DEF RenewError
<1>5. ASSUME NEW p \in Procs, ObserveLost(p) PROVE TokenCountsTenures'
  BY <1>5 DEF ObserveLost
<1>6. ASSUME NEW p \in Procs, Shutdown(p) PROVE TokenCountsTenures'
  BY <1>6 DEF Shutdown
<1>7. ASSUME NEW p \in Procs, StopHeartbeat(p) PROVE TokenCountsTenures'
  BY <1>7 DEF StopHeartbeat
<1>8. ASSUME NEW p \in Procs, ReleaseLease(p) PROVE TokenCountsTenures'
  BY <1>8 DEF ReleaseLease
<1>9. ASSUME NEW p \in Procs, Crash(p) PROVE TokenCountsTenures'
  BY <1>9 DEF Crash
<1>10. CASE TimePasses
  BY <1>10 DEF TimePasses
<1>11. CASE UNCHANGED leaseVars
  BY <1>11 DEF leaseVars
<1> QED
  BY <1>1, <1>2, <1>3, <1>4, <1>5, <1>6, <1>7, <1>8, <1>9, <1>10, <1>11 DEF LeaseNext

\* If no daemon gets as far as release_lease, fencing tokens order running
\* processes by tenure, whatever the crashes, restarts and expiries.  The
\* hypothesis is needed: release_lease deletes the row and tokens start again.
THEOREM TokensAreFencing == ~MayRelease => (LeaseSpec => []FencingOrder)
<1> SUFFICES ASSUME ~MayRelease PROVE LeaseSpec => []FencingOrder
  OBVIOUS
<1>1. LeaseInit => TokenCountsTenures
  BY DEF LeaseInit, TokenCountsTenures, NoLease, Up
<1>2. LeaseTypeOK /\ TokenCountsTenures /\ [LeaseNext]_leaseVars => TokenCountsTenures'
  BY TokenCountsStep
<1>3. LeaseTypeOK /\ TokenCountsTenures => FencingOrder
  BY DEF TokenCountsTenures, FencingOrder, LeaseTypeOK
<1> QED
  BY <1>1, <1>2, <1>3, LeaseTypeCorrect, PTL DEF LeaseSpec

-----------------------------------------------------------------------------
\* A running process whose lease is valid had a valid lease before the step.
LEMMA StaysInvalid ==
  ASSUME LeaseTypeOK, [LeaseNext]_leaseVars, NEW p \in Procs, Up(p), Up(p)', ~Valid(p)
  PROVE  ~Valid(p)'
<1> USE LeaseAssumption DEF LeaseTypeOK, Up, Valid
<1>1. ASSUME NEW q \in Procs, AcquireLease(q) PROVE ~Valid(p)'
  BY <1>1 DEF AcquireLease
<1>2. ASSUME NEW q \in Procs, RenewLease(q) PROVE ~Valid(p)'
  BY <1>2 DEF RenewLease
<1>3. ASSUME NEW q \in Procs, ReleaseLease(q) PROVE ~Valid(p)'
  BY <1>3 DEF ReleaseLease, DeletedRow, NoLease
<1>4. ASSUME NEW q \in Procs, Crash(q) PROVE ~Valid(p)'
  BY <1>4 DEF Crash
<1>5. CASE TimePasses
  BY <1>5 DEF TimePasses
<1>6. CASE lease' = lease /\ tok' = tok
  BY <1>6
<1> QED
  BY <1>1, <1>2, <1>3, <1>4, <1>5, <1>6
     DEF LeaseNext, leaseVars, SpawnHeartbeat, RenewError, ObserveLost, Shutdown, StopHeartbeat

\* A lost lease is lost for good, whether or not rows are deleted: only
\* acquire_lease, which a running process does not call again, makes a lease
\* valid that was not.
THEOREM LeaseLostForGood == LeaseSpec => LostForGood
<1> DEFINE Stays(p) == Up(p) /\ ~Valid(p) /\ Up(p)' => ~Valid(p)'
<1>1. LeaseTypeOK /\ [LeaseNext]_leaseVars => [\A p \in Procs : Stays(p)]_leaseVars
  BY StaysInvalid
<1> QED
  BY <1>1, LeaseTypeCorrect, PTL DEF LeaseSpec, LostForGood, Stays

-----------------------------------------------------------------------------
(* The orders *)

\* Every step of the system is a step of the lease or leaves it alone.
LEMMA NextIsLeaseStep == [Next]_vars => [LeaseNext]_leaseVars
<1> SUFFICES ASSUME [Next]_vars PROVE [LeaseNext]_leaseVars
  OBVIOUS
<1>1. ASSUME NEW p \in Procs, DispatchStep(p) PROVE UNCHANGED leaseVars
  BY <1>1 DEF DispatchStep, Dispatch, PersistIntent, PersistPending, CheckBeforeSubmit,
              Submit, SubmitRefused, SubmitReturns, PersistOutcome
<1>2. ASSUME NEW p \in Procs, RecoverStep(p) PROVE UNCHANGED leaseVars
  BY <1>2 DEF RecoverStep, BeginRecover, RecoverLoad, RecoverFind, RecoverSave, RecoverDone
<1>3. ASSUME NEW p \in Procs, ReconcileStep(p) PROVE UNCHANGED leaseVars
  BY <1>3 DEF ReconcileStep, ReconcileAssert, ReconcileLoad, ReconcileOpen, ReconcileFind,
              ReconcileReport, ReconcileConfirm, ReconcileSave, ReconcileDone
<1>4. ASSUME NEW p \in Procs, CancelStep(p) PROVE UNCHANGED leaseVars
  BY <1>4 DEF CancelStep, BeginEmergency, CancelLoad, CancelOrder, CancelFind, CancelRequest,
              CheckBeforeCancel, CancelAcked, CancelLost, CancelResult, CancelSave, CancelDone
<1>5. ASSUME NEW p \in Procs, Abort(p) PROVE UNCHANGED leaseVars
  BY <1>5 DEF Abort
<1>6. ASSUME NEW p \in Procs, LifeStep(p) PROVE [LeaseNext]_leaseVars
  BY <1>6 DEF LifeStep, Boot, Serve, Break, Flattened, Stop, Die, LeaseNext
<1>7. ASSUME NEW o \in Orders, VenueStep(o) PROVE UNCHANGED leaseVars
  BY <1>7 DEF VenueStep, VenueReceives, RequestLost, VenueFill, VenueCancel
<1>8. CASE Background
  BY <1>8 DEF Background, LeaseNext
<1>9. CASE UNCHANGED vars
  BY <1>9 DEF vars
<1> QED
  BY <1>1, <1>2, <1>3, <1>4, <1>5, <1>6, <1>7, <1>8, <1>9 DEF Next

-----------------------------------------------------------------------------
(* What a process knows in each step.                                      *)

\* The steps of the cancel loop that handle one order.
CancelHandling == {"c_find", "c_request", "c_check", "c_cancel", "c_result", "c_save"}

\* The steps that handle one order.
HandlingSteps == DispatchSteps \cup {"rv_save"} \cup CancelHandling

\* From the first save of an intent to its submission.
SendingSteps == {"d_pending", "d_check", "d_submit"}

\* A clean report, as OrderClean states it for one order: the record r and
\* the snapshot s agree, or neither needs the other.
Matches(r, s) ==
  /\ s # NotFound => r # NoRecord /\ ValidSnapshot(r, s)
  /\ r # NoRecord /\ ~IsTerminal(r) => s # NotFound /\ r.st # "Unknown"

\* The state of the record of the order a process handles: Created until the
\* intent is saved, then PendingSubmit until the venue has answered; only an
\* order that is open is asked to cancel, and it is PendingCancel until the
\* venue has answered that.
HandState(s, st) ==
  /\ s = "d_created" => st = "Created"
  /\ s \in SendingSteps \cup {"d_wait"} => st = "PendingSubmit"
  /\ s = "c_request" => st \in {"Open", "PartiallyFilled"}
  /\ s \in {"c_check", "c_cancel", "c_result"} => st = "PendingCancel"

\* What a process knows in step s about the order c it handles, the records
\* l it loaded, the snapshots v it collected and the orders t to visit: an
\* order it handles has a record in hand; the loops only visit orders that
\* were loaded; a clean report has a record for every order the venue showed,
\* and only those are updated; recovery removes an order from its list after
\* it is saved, the cancel loop before it is handled.
Knows(s, c, l, v, t) ==
  /\ s \in HandlingSteps => c \in Orders /\ l[c] \in Records
  /\ \A o \in t : l[o] \in Records
  /\ s \in {"rc_assert", "rc_load"} => t = {}
  /\ s = "rc_confirm" => \A o \in Orders : v[o] # NotFound => l[o] \in Records
  /\ s = "rc_save" => \A o \in t : v[o] # NotFound
  /\ s \in {"rc_confirm", "rc_save"} => \A o \in Orders : Matches(l[o], v[o])
  /\ s = "rv_save" => c \in t
  /\ s \in CancelHandling => c \notin t
  /\ HandState(s, l[c].st)

ControlInv ==
  /\ TypeOK
  /\ \A p \in Procs : Knows(pc[p], cur[p], local[p], seen[p], todo[p])

LEMMA ControlInit == Init => ControlInv
<1> SUFFICES ASSUME Init PROVE ControlInv
  OBVIOUS
<1>1. LeaseTypeOK
  BY LeaseTypeInit DEF Init
<1>2. ExecTypeOK
  BY QtyAssumption DEF Init, ExecTypeOK, NoLocal, NothingSeen, NotFound, Steps, VenueStates
<1>3. \A p \in Procs : Knows(pc[p], cur[p], local[p], seen[p], todo[p])
  BY DEF Init, Knows, HandState, HandlingSteps, CancelHandling, SendingSteps, DispatchSteps
<1> QED
  BY <1>1, <1>2, <1>3 DEF ControlInv, TypeOK

\* A save of a record stores a row of the right type for its order only.
LEMMA SaveEffect ==
  ASSUME TypeOK, NEW p \in Procs, NEW o \in Orders, NEW r \in Records,
         SaveOrderRecord(p, o, r)
  PROVE  /\ orders' \in [Orders -> Rows \cup {NoRow}]
         /\ \A x \in Orders : x # o => orders'[x] = orders[x]
         /\ orders'[o].st = r.st
         /\ orders'[o] # NoRow
         /\ orders[o] # NoRow => r.st # "Created"
  BY DEF SaveOrderRecord, MaySave, TypeOK, LeaseTypeOK, ExecTypeOK, Rows, NoRow, Records, OrderStates

\* What the store loads is a record of every order that has a row.
LEMMA LoadedType ==
  ASSUME TypeOK
  PROVE  /\ Loaded \in [Orders -> Records \cup {NoRecord}]
         /\ \A o \in Orders : orders[o] # NoRow => Loaded[o] \in Records
         /\ \A o \in Orders : Loaded[o] # NoRecord => orders[o] # NoRow
  BY DEF Loaded, RecordOf, TypeOK, ExecTypeOK, Rows, NoRow, Records, NoRecord

LEMMA LookupType ==
  ASSUME TypeOK, NEW o \in Orders, NEW s \in Lookup(o)
  PROVE  s \in Snapshots \cup {NotFound}
<1>1. CASE s # NotFound
  <2>1. /\ venue[o] \in [st : VenueStates \ {"Absent"}, filled : 0..Qty]
        /\ s = venue[o] \/ s = [venue[o] EXCEPT !.st = "Unknown"]
    BY <1>1 DEF Lookup, TypeOK, ExecTypeOK
  <2> QED
    BY <2>1 DEF Snapshots, SnapshotStates, VenueStates
<1> QED
  BY <1>1

LEMMA RecordUpdates ==
  ASSUME NEW r \in Records
  PROVE  /\ \A ev \in OrderEvents : Apply(r, ev) \in Records /\ Apply(r, ev).st = AfterEvent(ev)
         /\ [r EXCEPT !.st = "Unknown"] \in Records
         /\ \A s \in Snapshots : ApplySnapshot(r, s) \in Records
  BY DEF Records, Apply, AfterEvent, OrderEvents, OrderStates, ApplySnapshot, Snapshots, SnapshotStates

-----------------------------------------------------------------------------
\* The types of what the processes share.
SharedTypeOK ==
  /\ orders \in [Orders -> Rows \cup {NoRow}]
  /\ submits \in [Orders -> Nat]
  /\ wire \in [Orders -> BOOLEAN]
  /\ venue \in [Orders -> [st : VenueStates, filled : 0..Qty]]

\* One process moved: its new values have the right types and it knows what
\* its new step asks for.
Moved(p, s, c, l, v, t) ==
  /\ pc' = [pc EXCEPT ![p] = s] /\ s \in Steps
  /\ cur' = [cur EXCEPT ![p] = c] /\ c \in Orders \cup {NoOrder}
  /\ local' = [local EXCEPT ![p] = l] /\ l \in [Orders -> Records \cup {NoRecord}]
  /\ seen' = [seen EXCEPT ![p] = v] /\ v \in [Orders -> Snapshots \cup {NotFound}]
  /\ todo' = [todo EXCEPT ![p] = t] /\ t \in SUBSET Orders
  /\ Knows(s, c, l, v, t)

LEMMA MovedKeepsControl ==
  ASSUME ControlInv, LeaseTypeOK', SharedTypeOK',
         NEW p \in Procs, NEW s, NEW c, NEW l, NEW v, NEW t, Moved(p, s, c, l, v, t)
  PROVE  ControlInv'
<1>1. ExecTypeOK'
  BY DEF ControlInv, TypeOK, ExecTypeOK, SharedTypeOK, Moved
<1>2. ASSUME NEW q \in Procs PROVE Knows(pc[q], cur[q], local[q], seen[q], todo[q])'
  <2>1. CASE q = p
    BY <2>1 DEF ControlInv, TypeOK, ExecTypeOK, Moved, Knows
  <2>2. CASE q # p
    BY <2>2 DEF ControlInv, TypeOK, ExecTypeOK, Moved, Knows
  <2> QED
    BY <2>1, <2>2
<1> QED
  BY <1>1, <1>2 DEF ControlInv, TypeOK

\* Leaving an operation.
LEMMA FinishMoves ==
  ASSUME ControlInv, NEW p \in Procs,
         NEW s \in {"off", "ready", "idle", "flatten", "stopped", "rc_assert"}, Finish(p, s)
  PROVE  Moved(p, s, NoOrder, NoLocal, NothingSeen, {})
  BY DEF Finish, Goto, Moved, Knows, HandState, NoLocal, NothingSeen, Steps, ReconcileSteps,
         HandlingSteps, CancelHandling, DispatchSteps, SendingSteps

\* Where an operation returns to is outside every operation.
LEMMA CallerSteps ==
  ASSUME NEW p \in Procs
  PROVE  Caller(p) \in {"ready", "idle", "flatten"}
  BY DEF Caller

\* A step that only moves the program counter.
LEMMA GotoMoves ==
  ASSUME ControlInv, NEW p \in Procs, NEW s \in Steps, Goto(p, s),
         UNCHANGED <<cur, local, seen, todo>>,
         Knows(s, cur[p], local[p], seen[p], todo[p])
  PROVE  Moved(p, s, cur[p], local[p], seen[p], todo[p])
  BY DEF Goto, Moved, ControlInv, TypeOK, ExecTypeOK

LEMMA DispatchControl ==
  ASSUME ControlInv, LeaseTypeOK', NEW p \in Procs, DispatchStep(p)
  PROVE  ControlInv'
<1> DEFINE r == local[p][cur[p]]
<1> USE DEF ControlInv, TypeOK, ExecTypeOK, HandState, CancelHandling
<1>0. /\ Knows(pc[p], cur[p], local[p], seen[p], todo[p])
      /\ SharedTypeOK
      /\ DispatchSteps \subseteq Steps /\ DispatchSteps \subseteq HandlingSteps
      /\ pc[p] \in DispatchSteps => cur[p] \in Orders /\ r \in Records
  BY DEF Knows, SharedTypeOK, Steps, HandlingSteps
<1>1. ASSUME NEW o \in Orders, Dispatch(p, o) PROVE ControlInv'
  <2>1. FromIntent \in Records
    BY QtyAssumption DEF FromIntent, Records, OrderStates
  <2>2. Moved(p, "d_created", o, [local[p] EXCEPT ![o] = FromIntent], seen[p], todo[p])
    BY <1>0, <1>1, <2>1 DEF Dispatch, Goto, SetLocal, Moved, Knows, Steps, DispatchSteps, SendingSteps,
       FromIntent
  <2>3. SharedTypeOK'
    BY <1>0, <1>1 DEF Dispatch, SharedTypeOK
  <2> QED
    BY <2>2, <2>3, MovedKeepsControl
<1>2. CASE PersistIntent(p)
  <2>1. cur[p] \in Orders /\ r \in Records
    BY <1>0, <1>2 DEF PersistIntent, DispatchSteps
  <2>2. Apply(r, "SubmitRequested") \in Records /\ Apply(r, "SubmitRequested").st = "PendingSubmit"
    BY <2>1, RecordUpdates DEF OrderEvents, AfterEvent
  <2>3. Moved(p, "d_pending", cur[p], [local[p] EXCEPT ![cur[p]] = Apply(r, "SubmitRequested")],
              seen[p], todo[p])
    BY <1>0, <1>2, <2>1, <2>2 DEF PersistIntent, Goto, SetLocal, Moved, Knows, Steps, DispatchSteps,
       SendingSteps
  <2>4. SharedTypeOK'
    BY <1>0, <1>2, <2>1, SaveEffect DEF PersistIntent, SharedTypeOK
  <2> QED
    BY <2>3, <2>4, MovedKeepsControl
<1>3. CASE PersistPending(p)
  <2>1. cur[p] \in Orders /\ r \in Records
    BY <1>0, <1>3 DEF PersistPending, DispatchSteps
  <2>2. Moved(p, "d_check", cur[p], local[p], seen[p], todo[p])
    BY <1>0, <1>3, <2>1, GotoMoves DEF PersistPending, Knows, Steps, DispatchSteps, SendingSteps
  <2>3. SharedTypeOK'
    BY <1>0, <1>3, <2>1, SaveEffect DEF PersistPending, SharedTypeOK
  <2> QED
    BY <2>2, <2>3, MovedKeepsControl
<1>4. CASE CheckBeforeSubmit(p)
  <2>1. Moved(p, "d_submit", cur[p], local[p], seen[p], todo[p])
    BY <1>0, <1>4, GotoMoves DEF CheckBeforeSubmit, Knows, Steps, DispatchSteps, SendingSteps
  <2>2. SharedTypeOK'
    BY <1>0, <1>4 DEF CheckBeforeSubmit, SharedTypeOK
  <2> QED
    BY <2>1, <2>2, MovedKeepsControl
<1>5. CASE Submit(p)
  <2>1. cur[p] \in Orders /\ r \in Records
    BY <1>0, <1>5 DEF Submit, DispatchSteps
  <2>2. Moved(p, "d_wait", cur[p], local[p], seen[p], todo[p])
    BY <1>0, <1>5, <2>1, GotoMoves DEF Submit, Knows, Steps, DispatchSteps, SendingSteps
  <2>3. SharedTypeOK'
    BY <1>0, <1>5, <2>1 DEF Submit, SharedTypeOK
  <2> QED
    BY <2>2, <2>3, MovedKeepsControl
<1>6. CASE SubmitRefused(p)
  <2>1. cur[p] \in Orders /\ r \in Records
    BY <1>0, <1>6 DEF SubmitRefused, DispatchSteps
  <2>2. Apply(r, "Rejected") \in Records
    BY <2>1, RecordUpdates DEF OrderEvents
  <2>3. Moved(p, "d_save", cur[p], [local[p] EXCEPT ![cur[p]] = Apply(r, "Rejected")], seen[p], todo[p])
    BY <1>0, <1>6, <2>1, <2>2 DEF SubmitRefused, Goto, SetLocal, Moved, Knows, Steps, DispatchSteps,
       SendingSteps
  <2>4. SharedTypeOK'
    BY <1>0, <1>6, <2>1 DEF SubmitRefused, SharedTypeOK
  <2> QED
    BY <2>3, <2>4, MovedKeepsControl
<1>7. ASSUME NEW ev \in {"Accepted", "Rejected", "LostState"}, SubmitReturns(p, ev) PROVE ControlInv'
  <2>1. cur[p] \in Orders /\ r \in Records
    BY <1>0, <1>7 DEF SubmitReturns, DispatchSteps
  <2>2. Apply(r, ev) \in Records
    BY <2>1, RecordUpdates DEF OrderEvents
  <2>3. Moved(p, "d_save", cur[p], [local[p] EXCEPT ![cur[p]] = Apply(r, ev)], seen[p], todo[p])
    BY <1>0, <1>7, <2>1, <2>2 DEF SubmitReturns, Goto, SetLocal, Moved, Knows, Steps, DispatchSteps,
       SendingSteps
  <2>4. SharedTypeOK'
    BY <1>0, <1>7 DEF SubmitReturns, SharedTypeOK
  <2> QED
    BY <2>3, <2>4, MovedKeepsControl
<1>8. CASE PersistOutcome(p)
  <2>1. cur[p] \in Orders /\ r \in Records
    BY <1>0, <1>8 DEF PersistOutcome, DispatchSteps
  <2>2. Moved(p, Caller(p), NoOrder, NoLocal, NothingSeen, {})
    BY <1>8, FinishMoves, CallerSteps DEF PersistOutcome
  <2>3. SharedTypeOK'
    BY <1>0, <1>8, <2>1, SaveEffect DEF PersistOutcome, SharedTypeOK
  <2> QED
    BY <2>2, <2>3, MovedKeepsControl
<1> HIDE DEF ControlInv
<1> QED
  BY <1>1, <1>2, <1>3, <1>4, <1>5, <1>6, <1>7, <1>8 DEF DispatchStep

LEMMA RecoverControl ==
  ASSUME ControlInv, LeaseTypeOK', NEW p \in Procs, RecoverStep(p)
  PROVE  ControlInv'
<1> DEFINE r == local[p][cur[p]]
<1> USE DEF ControlInv, TypeOK, ExecTypeOK, HandState, CancelHandling
<1>0. /\ Knows(pc[p], cur[p], local[p], seen[p], todo[p])
      /\ SharedTypeOK
      /\ RecoverSteps \subseteq Steps
      /\ "rv_save" \in HandlingSteps /\ {"rv_load", "rv_find"} \cap HandlingSteps = {}
  BY DEF Knows, SharedTypeOK, Steps, HandlingSteps, DispatchSteps
<1>1. CASE BeginRecover(p)
  <2>1. Moved(p, "rv_load", cur[p], local[p], seen[p], todo[p])
    BY <1>0, <1>1, GotoMoves DEF BeginRecover, Knows, RecoverSteps, SendingSteps
  <2>2. SharedTypeOK'
    BY <1>0, <1>1 DEF BeginRecover, SharedTypeOK
  <2> QED
    BY <2>1, <2>2, MovedKeepsControl
<1>2. CASE RecoverLoad(p)
  <2> DEFINE t == {o \in Orders : orders[o].st \in AmbiguousStates}
  <2>1. \A o \in t : Loaded[o] \in Records
    BY LoadedType DEF NoRow, AmbiguousStates
  <2>2. Moved(p, "rv_find", cur[p], Loaded, seen[p], t)
    BY <1>0, <1>2, <2>1, LoadedType DEF RecoverLoad, Goto, Moved, Knows, RecoverSteps, SendingSteps
  <2>3. SharedTypeOK'
    BY <1>0, <1>2 DEF RecoverLoad, SharedTypeOK
  <2> QED
    BY <2>2, <2>3, MovedKeepsControl
<1>3. ASSUME NEW o \in Orders, RecoverFind(p, o) PROVE ControlInv'
  <2>1. local[p][o] \in Records
    BY <1>0, <1>3 DEF RecoverFind, Knows
  <2>2. PICK n \in Records : SetLocal(p, o, n)
    <3>1. PICK s \in Lookup(o) :
            \/ s = NotFound /\ SetLocal(p, o, [local[p][o] EXCEPT !.st = "Unknown"])
            \/ s # NotFound /\ SetLocal(p, o, ApplySnapshot(local[p][o], s))
      BY <1>3 DEF RecoverFind
    <3> QED
      BY <2>1, <3>1, RecordUpdates, LookupType
  <2>3. Moved(p, "rv_save", o, [local[p] EXCEPT ![o] = n], seen[p], todo[p])
    BY <1>0, <1>3, <2>2 DEF RecoverFind, Goto, SetLocal, Moved, Knows, RecoverSteps, SendingSteps
  <2>4. SharedTypeOK'
    BY <1>0, <1>3 DEF RecoverFind, SharedTypeOK
  <2> QED
    BY <2>3, <2>4, MovedKeepsControl
<1>4. CASE RecoverSave(p)
  <2>1. cur[p] \in Orders /\ r \in Records
    BY <1>0, <1>4 DEF RecoverSave, Knows
  <2>2. Moved(p, "rv_find", NoOrder, local[p], seen[p], todo[p] \ {cur[p]})
    BY <1>0, <1>4 DEF RecoverSave, Goto, Moved, Knows, RecoverSteps, SendingSteps
  <2>3. SharedTypeOK'
    BY <1>0, <1>4, <2>1, SaveEffect DEF RecoverSave, SharedTypeOK
  <2> QED
    BY <2>2, <2>3, MovedKeepsControl
<1>5. CASE RecoverDone(p)
  <2>1. Moved(p, "rc_assert", NoOrder, NoLocal, NothingSeen, {})
    BY <1>5, FinishMoves DEF RecoverDone
  <2>2. SharedTypeOK'
    BY <1>0, <1>5 DEF RecoverDone, SharedTypeOK
  <2> QED
    BY <2>1, <2>2, MovedKeepsControl
<1> HIDE DEF ControlInv
<1> QED
  BY <1>1, <1>2, <1>3, <1>4, <1>5 DEF RecoverStep

LEMMA ReconcileControl ==
  ASSUME ControlInv, LeaseTypeOK', NEW p \in Procs, ReconcileStep(p)
  PROVE  ControlInv'
<1> USE DEF ControlInv, TypeOK, ExecTypeOK, HandState, CancelHandling
<1>0. /\ Knows(pc[p], cur[p], local[p], seen[p], todo[p])
      /\ SharedTypeOK
      /\ ReconcileSteps \subseteq Steps /\ ReconcileSteps \cap HandlingSteps = {}
  BY DEF Knows, SharedTypeOK, Steps, HandlingSteps, DispatchSteps, ReconcileSteps
<1>1. CASE ReconcileAssert(p)
  <2>1. Moved(p, "rc_load", cur[p], local[p], seen[p], todo[p])
    BY <1>0, <1>1, GotoMoves DEF ReconcileAssert, Knows, ReconcileSteps, SendingSteps
  <2>2. SharedTypeOK'
    BY <1>0, <1>1 DEF ReconcileAssert, SharedTypeOK
  <2> QED
    BY <2>1, <2>2, MovedKeepsControl
<1>2. CASE ReconcileLoad(p)
  <2>1. todo[p] = {}
    BY <1>0, <1>2 DEF ReconcileLoad, Knows
  <2>2. Moved(p, "rc_open", cur[p], Loaded, seen[p], todo[p])
    BY <1>0, <1>2, <2>1, LoadedType DEF ReconcileLoad, Goto, Moved, Knows, ReconcileSteps, SendingSteps
  <2>3. SharedTypeOK'
    BY <1>0, <1>2 DEF ReconcileLoad, SharedTypeOK
  <2> QED
    BY <2>2, <2>3, MovedKeepsControl
<1>3. CASE ReconcileOpen(p)
  <2> DEFINE v == [o \in Orders |-> IF Live(o) THEN venue[o] ELSE NotFound]
  <2> DEFINE t == {o \in Orders : /\ local[p][o] # NoRecord
                                  /\ ~IsTerminal(local[p][o])
                                  /\ ~Live(o)}
  <2>1. v \in [Orders -> Snapshots \cup {NotFound}]
    BY DEF Live, Snapshots, SnapshotStates
  <2>2. t \in SUBSET Orders /\ \A o \in t : local[p][o] \in Records
    OBVIOUS
  <2>3. seen' = [seen EXCEPT ![p] = v] /\ todo' = [todo EXCEPT ![p] = t]
    BY <1>3 DEF ReconcileOpen
  <2> HIDE DEF v, t
  <2>4. Moved(p, "rc_find", cur[p], local[p], v, t)
    BY <1>0, <1>3, <2>1, <2>2, <2>3 DEF ReconcileOpen, Goto, Moved, Knows, ReconcileSteps, SendingSteps
  <2>5. SharedTypeOK'
    BY <1>0, <1>3 DEF ReconcileOpen, SharedTypeOK
  <2> QED
    BY <2>4, <2>5, MovedKeepsControl
<1>4. ASSUME NEW o \in Orders, ReconcileFind(p, o) PROVE ControlInv'
  <2>1. PICK s \in Lookup(o) : seen' = [seen EXCEPT ![p][o] = s]
    BY <1>4 DEF ReconcileFind
  <2>2. /\ Knows("rc_find", cur[p], local[p], [seen[p] EXCEPT ![o] = s], todo[p] \ {o})
        /\ [seen[p] EXCEPT ![o] = s] \in [Orders -> Snapshots \cup {NotFound}]
    BY <1>0, <2>1, LookupType DEF Knows, ReconcileSteps, SendingSteps
  <2>3. Moved(p, "rc_find", cur[p], local[p], [seen[p] EXCEPT ![o] = s], todo[p] \ {o})
    BY <1>0, <1>4, <2>1, <2>2 DEF ReconcileFind, Moved, ReconcileSteps
  <2>4. SharedTypeOK'
    BY <1>0, <1>4 DEF ReconcileFind, SharedTypeOK
  <2> QED
    BY <2>3, <2>4, MovedKeepsControl
<1>5. ASSUME NEW clean \in BOOLEAN, ReconcileReport(p, clean) PROVE ControlInv'
  <2>1. SharedTypeOK'
    BY <1>0, <1>5 DEF ReconcileReport, SharedTypeOK
  <2>2. CASE clean /\ \A o \in Orders : OrderClean(p, o)
    <3>1. \A o \in Orders : /\ Matches(local[p][o], seen[p][o])
                            /\ seen[p][o] # NotFound => local[p][o] \in Records
      BY <2>2 DEF OrderClean, Matches
    <3>2. Moved(p, "rc_confirm", cur[p], local[p], seen[p], todo[p])
      BY <1>0, <1>5, <2>2, <3>1, GotoMoves DEF ReconcileReport, Knows, ReconcileSteps, SendingSteps
    <3> QED
      BY <2>1, <3>2, MovedKeepsControl
  <2>3. CASE ~(clean /\ \A o \in Orders : OrderClean(p, o))
    <3>1. Moved(p, Caller(p), NoOrder, NoLocal, NothingSeen, {})
      BY <1>5, <2>3, FinishMoves, CallerSteps DEF ReconcileReport
    <3> QED
      BY <2>1, <3>1, MovedKeepsControl
  <2> QED
    BY <2>2, <2>3
<1>6. CASE ReconcileConfirm(p)
  <2> DEFINE t == {o \in Orders : seen[p][o] # NotFound}
  <2>1. Moved(p, "rc_save", cur[p], local[p], seen[p], t)
    BY <1>0, <1>6 DEF ReconcileConfirm, Goto, Moved, Knows, ReconcileSteps, SendingSteps
  <2>2. SharedTypeOK'
    BY <1>0, <1>6 DEF ReconcileConfirm, SharedTypeOK
  <2> QED
    BY <2>1, <2>2, MovedKeepsControl
<1>7. ASSUME NEW o \in Orders, ReconcileSave(p, o) PROVE ControlInv'
  <2>1. ApplySnapshot(local[p][o], seen[p][o]) \in Records
    <3>1. local[p][o] \in Records /\ seen[p][o] \in Snapshots
      BY <1>0, <1>7 DEF ReconcileSave, Knows
    <3> QED
      BY <3>1, RecordUpdates
  <2>2. Moved(p, "rc_save", cur[p], local[p], seen[p], todo[p] \ {o})
    BY <1>0, <1>7 DEF ReconcileSave, Moved, Knows, ReconcileSteps, SendingSteps
  <2>3. SharedTypeOK'
    BY <1>0, <1>7, <2>1, SaveEffect DEF ReconcileSave, SharedTypeOK
  <2> QED
    BY <2>2, <2>3, MovedKeepsControl
<1>8. CASE ReconcileDone(p)
  <2>1. Moved(p, Caller(p), NoOrder, NoLocal, NothingSeen, {})
    BY <1>8, FinishMoves, CallerSteps DEF ReconcileDone
  <2>2. SharedTypeOK'
    BY <1>0, <1>8 DEF ReconcileDone, SharedTypeOK
  <2> QED
    BY <2>1, <2>2, MovedKeepsControl
<1> HIDE DEF ControlInv
<1> QED
  BY <1>1, <1>2, <1>3, <1>4, <1>5, <1>6, <1>7, <1>8 DEF ReconcileStep

LEMMA CancelControl ==
  ASSUME ControlInv, LeaseTypeOK', NEW p \in Procs, CancelStep(p)
  PROVE  ControlInv'
<1> DEFINE r == local[p][cur[p]]
<1> USE DEF ControlInv, TypeOK, ExecTypeOK, HandState, CancelHandling
<1>0. /\ Knows(pc[p], cur[p], local[p], seen[p], todo[p])
      /\ SharedTypeOK
      /\ CancelSteps \subseteq Steps
      /\ CancelSteps \ HandlingSteps = {"c_load", "c_next"}
      /\ pc[p] \in CancelSteps \ {"c_load", "c_next"} => cur[p] \in Orders /\ r \in Records
  BY DEF Knows, SharedTypeOK, Steps, HandlingSteps, DispatchSteps, CancelSteps
<1>1. CASE BeginEmergency(p)
  <2>1. Moved(p, "c_load", cur[p], local[p], seen[p], todo[p])
    BY <1>0, <1>1, GotoMoves DEF BeginEmergency, Knows, CancelSteps, SendingSteps
  <2>2. SharedTypeOK'
    BY <1>0, <1>1 DEF BeginEmergency, SharedTypeOK
  <2> QED
    BY <2>1, <2>2, MovedKeepsControl
<1>2. CASE CancelLoad(p)
  <2> DEFINE t == {o \in Orders : orders[o] # NoRow /\ ~IsTerminal(orders[o])}
  <2>1. t \in SUBSET Orders /\ \A o \in t : Loaded[o] \in Records
    BY LoadedType
  <2>2. todo' = [todo EXCEPT ![p] = t]
    BY <1>2 DEF CancelLoad
  <2> HIDE DEF t
  <2>3. Moved(p, "c_next", cur[p], Loaded, seen[p], t)
    BY <1>0, <1>2, <2>1, <2>2, LoadedType DEF CancelLoad, Goto, Moved, Knows, CancelSteps, SendingSteps
  <2>4. SharedTypeOK'
    BY <1>0, <1>2 DEF CancelLoad, SharedTypeOK
  <2> QED
    BY <2>3, <2>4, MovedKeepsControl
<1>3. ASSUME NEW o \in Orders, CancelOrder(p, o) PROVE ControlInv'
  <2> DEFINE step == IF Valid(p) THEN CancelEntry(local[p][o]) ELSE "c_next"
  <2> DEFINE c == IF step = "c_next" THEN NoOrder ELSE o
  <2>1. step \in {"c_find", "c_request", "c_check", "c_next"} /\ HandState(step, local[p][o].st)
    BY DEF CancelEntry, SendingSteps
  <2>2. Goto(p, step) /\ cur' = [cur EXCEPT ![p] = c]
    BY <1>3 DEF CancelOrder
  <2>3. c \in Orders \cup {NoOrder} /\ (step # "c_next" => c = o)
    OBVIOUS
  <2> HIDE DEF step, c
  <2>4. Moved(p, step, c, local[p], seen[p], todo[p] \ {o})
    BY <1>0, <1>3, <2>1, <2>2, <2>3 DEF CancelOrder, Goto, Moved, Knows, CancelSteps, SendingSteps
  <2>5. SharedTypeOK'
    BY <1>0, <1>3 DEF CancelOrder, SharedTypeOK
  <2> QED
    BY <2>4, <2>5, MovedKeepsControl
<1>4. CASE CancelFind(p)
  <2>1. cur[p] \in Orders /\ r \in Records
    BY <1>0, <1>4 DEF CancelFind, CancelSteps
  <2>2. PICK n \in Records, step \in {"c_save", "c_request"} :
          /\ SetLocal(p, cur[p], n) /\ Goto(p, step)
          /\ step = "c_request" => n.st \in {"Open", "PartiallyFilled"}
    <3>1. PICK s \in Lookup(cur[p]) :
            \/ s = NotFound /\ SetLocal(p, cur[p], [r EXCEPT !.st = "Unknown"]) /\ Goto(p, "c_save")
            \/ /\ s # NotFound /\ ValidSnapshot(r, s)
               /\ SetLocal(p, cur[p], ApplySnapshot(r, s))
               /\ Goto(p, IF s.st \in TerminalStates THEN "c_save" ELSE "c_request")
      BY <1>4 DEF CancelFind
    <3>2. CASE s = NotFound
      BY <2>1, <3>1, <3>2, RecordUpdates
    <3>3. CASE s # NotFound
      <4>1. s \in Snapshots /\ ApplySnapshot(r, s) \in Records /\ ApplySnapshot(r, s).st = s.st
        BY <2>1, <3>1, <3>3, RecordUpdates, LookupType DEF ApplySnapshot
      <4>2. s.st \in TerminalStates \/ s.st \in {"Open", "PartiallyFilled"}
        BY <3>1, <3>3, <4>1 DEF ValidSnapshot, Snapshots, SnapshotStates, TerminalStates
      <4> QED
        BY <3>1, <3>3, <4>1, <4>2
    <3> QED
      BY <3>2, <3>3
  <2>3. Moved(p, step, cur[p], [local[p] EXCEPT ![cur[p]] = n], seen[p], todo[p])
    BY <1>0, <1>4, <2>1, <2>2 DEF CancelFind, Goto, SetLocal, Moved, Knows, CancelSteps, SendingSteps
  <2>4. SharedTypeOK'
    BY <1>0, <1>4 DEF CancelFind, SharedTypeOK
  <2> QED
    BY <2>3, <2>4, MovedKeepsControl
<1>5. CASE CancelRequest(p)
  <2> DEFINE n == Apply(r, "CancelRequested")
  <2>1. cur[p] \in Orders /\ r \in Records
    BY <1>0, <1>5 DEF CancelRequest, CancelSteps
  <2>2. n \in Records /\ n.st = "PendingCancel"
    BY <2>1, RecordUpdates DEF OrderEvents, AfterEvent
  <2>3. SaveOrderRecord(p, cur[p], n) /\ SetLocal(p, cur[p], n)
    BY <1>5 DEF CancelRequest
  <2> HIDE DEF n
  <2>4. Moved(p, "c_check", cur[p], [local[p] EXCEPT ![cur[p]] = n], seen[p], todo[p])
    BY <1>0, <1>5, <2>1, <2>2, <2>3 DEF CancelRequest, Goto, SetLocal, Moved, Knows, CancelSteps, SendingSteps
  <2>5. SharedTypeOK'
    BY <1>0, <1>5, <2>1, <2>2, <2>3, SaveEffect DEF CancelRequest, SharedTypeOK
  <2> QED
    BY <2>4, <2>5, MovedKeepsControl
<1>6. CASE CheckBeforeCancel(p)
  <2>1. Moved(p, "c_cancel", cur[p], local[p], seen[p], todo[p])
    BY <1>0, <1>6, GotoMoves DEF CheckBeforeCancel, Knows, CancelSteps, SendingSteps
  <2>2. SharedTypeOK'
    BY <1>0, <1>6 DEF CheckBeforeCancel, SharedTypeOK
  <2> QED
    BY <2>1, <2>2, MovedKeepsControl
<1>7. CASE CancelAcked(p)
  <2>1. Moved(p, "c_result", cur[p], local[p], seen[p], todo[p])
    BY <1>0, <1>7, GotoMoves DEF CancelAcked, Knows, CancelSteps, SendingSteps
  <2>2. SharedTypeOK'
    BY <1>0, <1>7 DEF CancelAcked, SharedTypeOK
  <2> QED
    BY <2>1, <2>2, MovedKeepsControl
<1>8. CASE CancelLost(p)
  <2>1. cur[p] \in Orders /\ r \in Records
    BY <1>0, <1>8 DEF CancelLost, CancelSteps
  <2>2. Apply(r, "LostState") \in Records
    BY <2>1, RecordUpdates DEF OrderEvents
  <2>3. Moved(p, "c_save", cur[p], [local[p] EXCEPT ![cur[p]] = Apply(r, "LostState")], seen[p], todo[p])
    BY <1>0, <1>8, <2>1, <2>2 DEF CancelLost, Goto, SetLocal, Moved, Knows, CancelSteps, SendingSteps
  <2>4. SharedTypeOK'
    BY <1>0, <1>8 DEF CancelLost, SharedTypeOK
  <2> QED
    BY <2>3, <2>4, MovedKeepsControl
<1>9. CASE CancelResult(p)
  <2>1. cur[p] \in Orders /\ r \in Records
    BY <1>0, <1>9 DEF CancelResult, CancelSteps
  <2>2. PICK n \in Records : SetLocal(p, cur[p], n)
    <3>1. PICK s \in Lookup(cur[p]) \ {NotFound} : SetLocal(p, cur[p], ApplySnapshot(r, s))
      BY <1>9 DEF CancelResult
    <3> QED
      BY <2>1, <3>1, RecordUpdates, LookupType
  <2>3. Moved(p, "c_save", cur[p], [local[p] EXCEPT ![cur[p]] = n], seen[p], todo[p])
    BY <1>0, <1>9, <2>1, <2>2 DEF CancelResult, Goto, SetLocal, Moved, Knows, CancelSteps, SendingSteps
  <2>4. SharedTypeOK'
    BY <1>0, <1>9 DEF CancelResult, SharedTypeOK
  <2> QED
    BY <2>3, <2>4, MovedKeepsControl
<1>10. CASE CancelSave(p)
  <2>1. cur[p] \in Orders /\ r \in Records
    BY <1>0, <1>10 DEF CancelSave, CancelSteps
  <2>2. Moved(p, "c_next", NoOrder, local[p], seen[p], todo[p])
    BY <1>0, <1>10 DEF CancelSave, NextCancel, Goto, Moved, Knows, CancelSteps, SendingSteps
  <2>3. SharedTypeOK'
    BY <1>0, <1>10, <2>1, SaveEffect DEF CancelSave, SharedTypeOK
  <2> QED
    BY <2>2, <2>3, MovedKeepsControl
<1>11. CASE CancelDone(p)
  <2>1. PICK s \in {"rc_assert", "stopped"} : Finish(p, s)
    BY <1>11 DEF CancelDone
  <2>2. Moved(p, s, NoOrder, NoLocal, NothingSeen, {})
    BY <2>1, FinishMoves
  <2>3. SharedTypeOK'
    BY <1>0, <1>11 DEF CancelDone, SharedTypeOK
  <2> QED
    BY <2>2, <2>3, MovedKeepsControl
<1> HIDE DEF ControlInv
<1> QED
  BY <1>1, <1>2, <1>3, <1>4, <1>5, <1>6, <1>7, <1>8, <1>9, <1>10, <1>11 DEF CancelStep

LEMMA AbortControl ==
  ASSUME ControlInv, LeaseTypeOK', NEW p \in Procs, Abort(p)
  PROVE  ControlInv'
<1>1. SharedTypeOK'
  BY DEF Abort, SharedTypeOK, ControlInv, TypeOK, ExecTypeOK
<1>2. CASE NextCancel(p)
  <2>1. Knows(pc[p], cur[p], local[p], seen[p], todo[p])
    BY DEF ControlInv
  <2>2. Moved(p, "c_next", NoOrder, local[p], seen[p], todo[p])
    BY <1>2, <2>1 DEF NextCancel, Goto, Moved, Knows, HandState, ControlInv, TypeOK, ExecTypeOK, Steps,
       CancelSteps, HandlingSteps, CancelHandling, DispatchSteps, SendingSteps
  <2> QED
    BY <1>1, <2>2, MovedKeepsControl
<1>3. ASSUME NEW s \in {"ready", "idle", "flatten", "stopped", "rc_assert"}, Finish(p, s)
      PROVE  ControlInv'
  BY <1>1, <1>3, FinishMoves, MovedKeepsControl
<1> QED
  BY <1>2, <1>3, CallerSteps DEF Abort

LEMMA LifeControl ==
  ASSUME ControlInv, LeaseTypeOK', NEW p \in Procs, LifeStep(p)
  PROVE  ControlInv'
<1>0. Knows(pc[p], cur[p], local[p], seen[p], todo[p])
  BY DEF ControlInv
<1>1. SharedTypeOK'
  BY DEF LifeStep, Boot, Serve, Break, Flattened, Stop, Die, SharedTypeOK, ControlInv, TypeOK, ExecTypeOK
<1>2. CASE Die(p)
  BY <1>1, <1>2, FinishMoves, MovedKeepsControl DEF Die
<1>3. ASSUME NEW s \in {"off", "boot", "idle", "c_load", "stopped"}, Goto(p, s),
             UNCHANGED <<cur, local, seen, todo>>
      PROVE  ControlInv'
  <2>1. Knows(s, cur[p], local[p], seen[p], todo[p])
    BY <1>0 DEF Knows, HandState, HandlingSteps, CancelHandling, DispatchSteps, SendingSteps
  <2>2. Moved(p, s, cur[p], local[p], seen[p], todo[p])
    BY <1>3, <2>1, GotoMoves DEF Steps, CancelSteps
  <2> QED
    BY <1>1, <2>2, MovedKeepsControl
<1>4. CASE UNCHANGED <<pc, cur, local, seen, todo>>
  BY <1>1, <1>4 DEF ControlInv, TypeOK, ExecTypeOK, SharedTypeOK
<1> QED
  BY <1>2, <1>3, <1>4 DEF LifeStep, Boot, Serve, Break, Flattened, Stop

LEMMA ControlStep == ControlInv /\ [Next]_vars => ControlInv'
<1> SUFFICES ASSUME ControlInv, [Next]_vars PROVE ControlInv'
  OBVIOUS
<1>1. LeaseTypeOK'
  BY NextIsLeaseStep, LeaseTypeStep DEF ControlInv, TypeOK
<1>2. ASSUME SharedTypeOK', UNCHANGED <<pc, cur, local, seen, todo>> PROVE ControlInv'
  BY <1>1, <1>2 DEF ControlInv, TypeOK, ExecTypeOK, SharedTypeOK
<1>3. ASSUME NEW o \in Orders, VenueStep(o) PROVE ControlInv'
  <2>1. SharedTypeOK'
    <3> USE DEF ControlInv, TypeOK, ExecTypeOK, SharedTypeOK, VenueStates
    <3>1. CASE VenueReceives(o)
      BY <3>1, QtyAssumption DEF VenueReceives
    <3>2. CASE RequestLost(o)
      BY <3>2 DEF RequestLost
    <3>3. CASE VenueFill(o)
      BY <3>3, QtyAssumption DEF VenueFill, MayFill, ApplyFill
    <3>4. CASE VenueCancel(o)
      BY <3>4 DEF VenueCancel
    <3> QED
      BY <1>3, <3>1, <3>2, <3>3, <3>4 DEF VenueStep
  <2> QED
    BY <1>2, <1>3, <2>1 DEF VenueStep, VenueReceives, RequestLost, VenueFill, VenueCancel
<1>4. CASE Background \/ UNCHANGED vars
  BY <1>2, <1>4 DEF Background, execVars, vars, ControlInv, TypeOK, ExecTypeOK, SharedTypeOK
<1> QED
  BY <1>1, <1>3, <1>4, DispatchControl, RecoverControl, ReconcileControl, CancelControl, AbortControl,
     LifeControl DEF Next

LEMMA ControlHolds == Spec => []ControlInv
  BY ControlInit, ControlStep, PTL DEF Spec

\* The store, the venue and the control of every process keep their types, so
\* no step reads a record, a snapshot or an order it does not have.
THEOREM ExecTypeCorrect == Spec => []TypeOK
<1>1. ControlInv => TypeOK
  BY DEF ControlInv
<1> QED
  BY <1>1, ControlHolds, PTL

-----------------------------------------------------------------------------
(* At most one submission, and only after the record says so.              *)

\* A record in the hands of a process has a row, except while the process
\* is about to save a new intent.
Backed ==
  \A p \in Procs, o \in Orders :
    local[p][o] # NoRecord => orders[o] # NoRow \/ (pc[p] = "d_created" /\ cur[p] = o)

\* A process on its way to the submission of an order is the only one, and
\* the order was never submitted before; once PendingSubmit is saved the row
\* is never Created again.
SoleSender ==
  /\ \A p \in Procs : pc[p] \in SendingSteps => submits[cur[p]] = 0
  /\ \A p \in Procs : pc[p] \in {"d_check", "d_submit"} => orders[cur[p]].st # "Created"
  /\ \A p, q \in Procs : p # q /\ pc[p] \in SendingSteps /\ pc[q] \in SendingSteps
                         => cur[p] # cur[q]

OnceInv == Backed /\ SoleSender /\ WriteAhead /\ SubmitOnce

LEMMA OnceInit == Init => OnceInv
  BY DEF Init, OnceInv, Backed, SoleSender, WriteAhead, SubmitOnce, NoLocal, SendingSteps

\* Rows are only updated, and never back to Created.
RowsMoveOn ==
  \A x \in Orders :
    orders'[x] = orders[x] \/ (orders[x] # NoRow /\ orders'[x].st \notin {"None", "Created"})

\* Process p moved without submitting or inserting a row.
Quiet(p) ==
  /\ submits' = submits
  /\ RowsMoveOn
  /\ \A q \in Procs \ {p} : pc'[q] = pc[q] /\ cur'[q] = cur[q] /\ local'[q] = local[q]
  /\ pc'[p] \in SendingSteps => pc[p] \in SendingSteps /\ cur'[p] = cur[p]
  /\ pc'[p] \in {"d_check", "d_submit"} => orders'[cur'[p]].st # "Created"
  /\ \A o \in Orders : local'[p][o] # NoRecord =>
       orders'[o] # NoRow \/ (pc'[p] = "d_created" /\ cur'[p] = o)

LEMMA QuietKeepsOnce ==
  ASSUME ControlInv, OnceInv, NEW p \in Procs, Quiet(p)
  PROVE  OnceInv'
<1> USE DEF OnceInv, Quiet, RowsMoveOn
<1>0. \A q \in Procs : pc[q] \in SendingSteps => cur[q] \in Orders
  BY DEF ControlInv, Knows, HandlingSteps, DispatchSteps, SendingSteps
<1>1. \A x \in Orders : orders[x] # NoRow => orders'[x] # NoRow
  BY DEF NoRow
<1>2. Backed'
  BY <1>1 DEF Backed
<1>3. SoleSender'
  <2>1. \A q \in Procs : pc'[q] \in SendingSteps => pc[q] \in SendingSteps /\ cur'[q] = cur[q]
    OBVIOUS
  <2>2. \A q \in Procs : pc'[q] \in {"d_check", "d_submit"} => orders'[cur'[q]].st # "Created"
    <3> SUFFICES ASSUME NEW q \in Procs \ {p}, pc[q] \in {"d_check", "d_submit"}
                 PROVE  orders'[cur[q]].st # "Created"
      OBVIOUS
    <3> QED
      BY <1>0 DEF SoleSender, SendingSteps
  <2> QED
    BY <2>1, <2>2 DEF SoleSender
<1>4. WriteAhead'
  BY DEF WriteAhead
<1>5. SubmitOnce'
  BY DEF SubmitOnce
<1> QED
  BY <1>2, <1>3, <1>4, <1>5

\* Saving a record the process had loaded, or the one of its own intent,
\* moves an existing row on: it is neither inserted nor made Created again.
LEMMA ResaveMovesOn ==
  ASSUME ControlInv, OnceInv, NEW p \in Procs, NEW o \in Orders, NEW r \in Records,
         local[p][o] # NoRecord, pc[p] # "d_created", SaveOrderRecord(p, o, r)
  PROVE  /\ orders'[o].st \notin {"None", "Created"}
         /\ RowsMoveOn
         /\ \A x \in Orders : orders[x] # NoRow => orders'[x] # NoRow
<1>1. orders[o] # NoRow
  BY DEF OnceInv, Backed
<1>2. /\ \A x \in Orders : x # o => orders'[x] = orders[x]
      /\ orders'[o].st = r.st
      /\ orders'[o] # NoRow
      /\ r.st # "Created"
  BY <1>1, SaveEffect DEF ControlInv
<1>3. r.st # "None"
  BY DEF Records, OrderStates
<1> QED
  BY <1>1, <1>2, <1>3 DEF RowsMoveOn

LEMMA DispatchOnce ==
  ASSUME ControlInv, OnceInv, NEW p \in Procs, DispatchStep(p)
  PROVE  OnceInv'
<1> DEFINE r == local[p][cur[p]]
<1>0. /\ pc[p] \in DispatchSteps => cur[p] \in Orders /\ r \in Records /\ r # NoRecord
      /\ pc[p] = "d_created" => r.st = "Created"
      /\ pc[p] \in SendingSteps => r.st = "PendingSubmit"
      /\ \A q \in Procs : pc[q] \in SendingSteps =>
           cur[q] \in Orders /\ local[q][cur[q]] # NoRecord /\ orders[cur[q]] # NoRow
  BY DEF ControlInv, Knows, HandState, HandlingSteps, DispatchSteps, SendingSteps, Records, NoRecord,
         OrderStates, OnceInv, Backed
<1>t. /\ pc \in [Procs -> Steps] /\ cur \in [Procs -> Orders \cup {NoOrder}]
      /\ local \in [Procs -> [Orders -> Records \cup {NoRecord}]]
      /\ orders \in [Orders -> Rows \cup {NoRow}] /\ submits \in [Orders -> Nat]
  BY DEF ControlInv, TypeOK, ExecTypeOK
<1>1. ASSUME NEW o \in Orders, Dispatch(p, o) PROVE Quiet(p)
  BY <1>1, <1>t DEF Dispatch, Goto, SetLocal, Quiet, RowsMoveOn, SendingSteps, OnceInv, Backed
<1>2. CASE PersistIntent(p)
  <2> DEFINE o == cur[p]
  <2>1. o \in Orders /\ r \in Records /\ r.st = "Created"
    BY <1>0, <1>2 DEF PersistIntent, DispatchSteps
  <2>2. /\ orders' \in [Orders -> Rows \cup {NoRow}]
        /\ \A x \in Orders : x # o => orders'[x] = orders[x]
        /\ orders'[o].st = "Created" /\ orders'[o] # NoRow
        /\ orders[o] = NoRow
    BY <1>2, <2>1, SaveEffect DEF PersistIntent, ControlInv
  <2>3. submits[o] = 0 /\ submits' = submits
    BY <1>2, <2>1, <2>2, <1>t DEF PersistIntent, OnceInv, WriteAhead, NoRow
  <2>4. /\ pc' = [pc EXCEPT ![p] = "d_pending"] /\ cur' = cur
        /\ \A q \in Procs : \A x \in Orders : q # p \/ x # o => local'[q][x] = local[q][x]
    BY <1>2, <1>t DEF PersistIntent, Goto, SetLocal
  <2>5. \A q \in Procs : q # p /\ pc[q] \in SendingSteps => cur[q] # o
    BY <1>0, <2>2
  <2>6. pc[p] = "d_created"
    BY <1>2 DEF PersistIntent
  <2> HIDE DEF o
  <2>7. Backed'
    BY <2>1, <2>2, <2>4, <2>6, <1>t DEF OnceInv, Backed, o
  <2>8. SoleSender'
    <3>1. \A q \in Procs : pc'[q] \in SendingSteps => submits'[cur'[q]] = 0
      BY <2>3, <2>4, <1>t DEF OnceInv, SoleSender, o
    <3>2. \A q \in Procs : pc'[q] \in {"d_check", "d_submit"} => orders'[cur'[q]].st # "Created"
      BY <1>0, <2>2, <2>4, <2>5, <1>t DEF OnceInv, SoleSender, SendingSteps, o
    <3>3. \A q, w \in Procs : q # w /\ pc'[q] \in SendingSteps /\ pc'[w] \in SendingSteps
            => cur'[q] # cur'[w]
      BY <2>4, <2>5, <1>t DEF OnceInv, SoleSender, o
    <3> QED
      BY <3>1, <3>2, <3>3 DEF SoleSender
  <2>9. WriteAhead' /\ SubmitOnce'
    BY <2>2, <2>3, <1>t DEF OnceInv, WriteAhead, SubmitOnce
  <2> QED
    BY <2>7, <2>8, <2>9 DEF OnceInv
<1>3. CASE PersistPending(p)
  <2>1. cur[p] \in Orders /\ r \in Records /\ r # NoRecord
    BY <1>0, <1>3 DEF PersistPending, DispatchSteps
  <2>2. /\ orders'[cur[p]].st \notin {"None", "Created"}
        /\ RowsMoveOn
        /\ \A x \in Orders : orders[x] # NoRow => orders'[x] # NoRow
    BY <1>3, <2>1, ResaveMovesOn DEF PersistPending
  <2>3. Quiet(p)
    BY <1>3, <2>1, <2>2, <1>t DEF PersistPending, Goto, Quiet, RowsMoveOn, SendingSteps, OnceInv, Backed
  <2> QED
    BY <2>3, QuietKeepsOnce
<1>4. CASE CheckBeforeSubmit(p)
  <2>1. Quiet(p)
    BY <1>4, <1>t DEF CheckBeforeSubmit, Goto, Quiet, RowsMoveOn, SendingSteps, OnceInv, Backed, SoleSender
  <2> QED
    BY <2>1, QuietKeepsOnce
<1>5. CASE Submit(p) \/ SubmitRefused(p)
  <2> DEFINE o == cur[p]
  <2>1. /\ o \in Orders /\ r \in Records
        /\ pc[p] = "d_submit" /\ pc[p] \in SendingSteps
        /\ orders[o] # NoRow /\ orders[o].st \notin {"None", "Created"} /\ submits[o] = 0
    BY <1>0, <1>5, <1>t DEF Submit, SubmitRefused, DispatchSteps, SendingSteps, OnceInv, SoleSender, Rows,
       NoRow, OrderStates
  <2>2. /\ submits' = [submits EXCEPT ![o] = 1] /\ orders' = orders /\ cur' = cur
        /\ \A q \in Procs : q # p => pc'[q] = pc[q]
        /\ pc'[p] \notin SendingSteps /\ pc'[p] \notin {"d_created", "d_check", "d_submit"}
        /\ \A q \in Procs : \A x \in Orders : q # p \/ x # o => local'[q][x] = local[q][x]
    BY <1>5, <2>1, <1>t DEF Submit, SubmitRefused, Goto, SetLocal, SendingSteps
  <2>3. \A q \in Procs : q # p /\ pc[q] \in SendingSteps => cur[q] # o
    BY <2>1 DEF OnceInv, SoleSender
  <2> HIDE DEF o
  <2>4. Backed'
    BY <2>1, <2>2 DEF OnceInv, Backed
  <2>5. SoleSender'
    BY <1>0, <2>1, <2>2, <2>3, <1>t DEF OnceInv, SoleSender, SendingSteps
  <2>6. WriteAhead' /\ SubmitOnce'
    BY <2>1, <2>2, <1>t DEF OnceInv, WriteAhead, SubmitOnce
  <2> QED
    BY <2>4, <2>5, <2>6 DEF OnceInv
<1>6. ASSUME NEW ev \in {"Accepted", "Rejected", "LostState"}, SubmitReturns(p, ev) PROVE Quiet(p)
  <2>1. cur[p] \in Orders /\ r # NoRecord /\ pc[p] = "d_wait"
    BY <1>0, <1>6 DEF SubmitReturns, DispatchSteps
  <2> QED
    BY <1>6, <2>1, <1>t DEF SubmitReturns, Goto, SetLocal, Quiet, RowsMoveOn, SendingSteps, OnceInv, Backed
<1>7. CASE PersistOutcome(p)
  <2>1. cur[p] \in Orders /\ r \in Records /\ r # NoRecord
    BY <1>0, <1>7 DEF PersistOutcome, DispatchSteps
  <2>2. RowsMoveOn
    BY <1>7, <2>1, ResaveMovesOn DEF PersistOutcome
  <2>3. Quiet(p)
    BY <1>7, <2>1, <2>2, <1>t, CallerSteps
       DEF PersistOutcome, Finish, Goto, NoLocal, Quiet, SendingSteps
  <2> QED
    BY <2>3, QuietKeepsOnce
<1> QED
  BY <1>1, <1>2, <1>3, <1>4, <1>5, <1>6, <1>7, QuietKeepsOnce DEF DispatchStep

\* Process p left an operation or went on in one other than dispatch, with
\* records in hand that all have rows.
LeftWith(p, s, c, l) ==
  /\ submits' = submits
  /\ s \notin SendingSteps
  /\ pc' = [pc EXCEPT ![p] = s]
  /\ cur' = [cur EXCEPT ![p] = c]
  /\ local' = [local EXCEPT ![p] = l]
  /\ l \in [Orders -> Records \cup {NoRecord}]
  /\ \A o \in Orders : l[o] # NoRecord => orders[o] # NoRow

LEMMA LeftKeepsOnce ==
  ASSUME ControlInv, OnceInv, NEW p \in Procs, NEW s, NEW c, NEW l,
         LeftWith(p, s, c, l), RowsMoveOn
  PROVE  OnceInv'
<1>1. \A x \in Orders : orders[x] # NoRow => orders'[x] # NoRow
  BY DEF NoRow, RowsMoveOn
<1>2. Quiet(p)
  BY <1>1 DEF LeftWith, Quiet, SendingSteps, ControlInv, TypeOK, ExecTypeOK
<1> QED
  BY <1>2, QuietKeepsOnce

\* What p has in hand outside dispatch has rows.
LEMMA HandBacked ==
  ASSUME OnceInv, NEW p \in Procs, pc[p] # "d_created"
  PROVE  \A o \in Orders : local[p][o] # NoRecord => orders[o] # NoRow
  BY DEF OnceInv, Backed

\* The steps that keep the records in hand, those that drop them and those
\* that load them again.
LEMMA KeptHand ==
  ASSUME ControlInv, OnceInv, NEW p \in Procs, pc[p] # "d_created", RowsMoveOn,
         NEW s, s \notin SendingSteps, Goto(p, s), UNCHANGED <<submits, cur, local>>
  PROVE  OnceInv'
<1>1. LeftWith(p, s, cur[p], local[p])
  BY HandBacked DEF LeftWith, Goto, ControlInv, TypeOK, ExecTypeOK
<1> QED
  BY <1>1, LeftKeepsOnce

LEMMA DroppedHand ==
  ASSUME ControlInv, OnceInv, NEW p \in Procs, RowsMoveOn,
         NEW s, s \notin SendingSteps, Finish(p, s), submits' = submits
  PROVE  OnceInv'
<1>1. LeftWith(p, s, NoOrder, NoLocal)
  BY DEF LeftWith, Finish, Goto, NoLocal
<1> QED
  BY <1>1, LeftKeepsOnce

LEMMA LoadedHand ==
  ASSUME ControlInv, OnceInv, NEW p \in Procs,
         NEW s, s \notin SendingSteps, Goto(p, s), UNCHANGED <<orders, submits, cur>>,
         local' = [local EXCEPT ![p] = Loaded]
  PROVE  OnceInv'
<1>1. LeftWith(p, s, cur[p], Loaded)
  BY LoadedType DEF LeftWith, Goto, ControlInv, TypeOK, ExecTypeOK
<1>2. RowsMoveOn
  BY DEF RowsMoveOn
<1> QED
  BY <1>1, <1>2, LeftKeepsOnce

\* The record of one order in hand changes.
LEMMA ChangedHand ==
  ASSUME ControlInv, OnceInv, NEW p \in Procs, pc[p] # "d_created", RowsMoveOn,
         NEW s, s \notin SendingSteps, Goto(p, s), submits' = submits,
         NEW c, cur' = [cur EXCEPT ![p] = c],
         NEW o \in Orders, local[p][o] \in Records, NEW n \in Records, SetLocal(p, o, n)
  PROVE  OnceInv'
<1>1. local[p][o] # NoRecord
  BY DEF Records, NoRecord, OrderStates
<1> DEFINE l == [local[p] EXCEPT ![o] = n]
<1>2. /\ l \in [Orders -> Records \cup {NoRecord}]
      /\ local' = [local EXCEPT ![p] = l]
      /\ \A x \in Orders : l[x] # NoRecord => orders[x] # NoRow
  BY <1>1, HandBacked DEF SetLocal, ControlInv, TypeOK, ExecTypeOK
<1> HIDE DEF l
<1>3. LeftWith(p, s, c, l)
  BY <1>2 DEF LeftWith, Goto
<1> QED
  BY <1>3, LeftKeepsOnce

LEMMA RecoverOnce ==
  ASSUME ControlInv, OnceInv, NEW p \in Procs, RecoverStep(p)
  PROVE  OnceInv'
<1>0. Knows(pc[p], cur[p], local[p], seen[p], todo[p])
  BY DEF ControlInv
<1> USE DEF SendingSteps
<1>1. CASE BeginRecover(p)
  BY <1>1, KeptHand DEF BeginRecover, RowsMoveOn
<1>2. CASE RecoverLoad(p)
  BY <1>2, LoadedHand DEF RecoverLoad
<1>3. ASSUME NEW o \in Orders, RecoverFind(p, o) PROVE OnceInv'
  <2>1. local[p][o] \in Records
    BY <1>0, <1>3 DEF RecoverFind, Knows
  <2>2. PICK n \in Records : SetLocal(p, o, n)
    <3>1. PICK s \in Lookup(o) :
            \/ s = NotFound /\ SetLocal(p, o, [local[p][o] EXCEPT !.st = "Unknown"])
            \/ s # NotFound /\ SetLocal(p, o, ApplySnapshot(local[p][o], s))
      BY <1>3 DEF RecoverFind
    <3> QED
      BY <2>1, <3>1, RecordUpdates, LookupType DEF ControlInv
  <2>3. /\ pc[p] # "d_created" /\ RowsMoveOn /\ Goto(p, "rv_save")
        /\ submits' = submits /\ cur' = [cur EXCEPT ![p] = o]
    BY <1>3 DEF RecoverFind, RowsMoveOn
  <2> QED
    BY <2>1, <2>2, <2>3, ChangedHand
<1>4. CASE RecoverSave(p)
  <2>1. pc[p] # "d_created" /\ cur[p] \in Orders /\ local[p][cur[p]] \in Records
    BY <1>0, <1>4 DEF RecoverSave, Knows, HandlingSteps
  <2>2. local[p][cur[p]] # NoRecord
    BY <2>1 DEF Records, NoRecord, OrderStates
  <2>3. RowsMoveOn
    BY <1>4, <2>1, <2>2, ResaveMovesOn DEF RecoverSave
  <2>4. LeftWith(p, "rv_find", NoOrder, local[p])
    BY <1>4, <2>1, HandBacked DEF RecoverSave, LeftWith, Goto, ControlInv, TypeOK, ExecTypeOK
  <2> QED
    BY <2>3, <2>4, LeftKeepsOnce
<1>5. CASE RecoverDone(p)
  BY <1>5, DroppedHand DEF RecoverDone, RowsMoveOn
<1> QED
  BY <1>1, <1>2, <1>3, <1>4, <1>5 DEF RecoverStep

LEMMA ReconcileOnce ==
  ASSUME ControlInv, OnceInv, NEW p \in Procs, ReconcileStep(p)
  PROVE  OnceInv'
<1>0. Knows(pc[p], cur[p], local[p], seen[p], todo[p])
  BY DEF ControlInv
<1>t. pc \in [Procs -> Steps] /\ cur \in [Procs -> Orders \cup {NoOrder}]
      /\ local \in [Procs -> [Orders -> Records \cup {NoRecord}]]
      /\ seen \in [Procs -> [Orders -> Snapshots \cup {NotFound}]]
  BY DEF ControlInv, TypeOK, ExecTypeOK
<1> USE DEF SendingSteps
<1>1. CASE ReconcileAssert(p)
  BY <1>1, KeptHand DEF ReconcileAssert, RowsMoveOn
<1>2. CASE ReconcileLoad(p)
  BY <1>2, LoadedHand DEF ReconcileLoad
<1>3. CASE ReconcileOpen(p)
  BY <1>3, KeptHand DEF ReconcileOpen, RowsMoveOn
<1>4. ASSUME NEW o \in Orders, ReconcileFind(p, o) PROVE OnceInv'
  <2>1. Goto(p, "rc_find") /\ pc[p] # "d_created" /\ RowsMoveOn /\ UNCHANGED <<submits, cur, local>>
    BY <1>4, <1>t DEF ReconcileFind, Goto, RowsMoveOn
  <2> QED
    BY <2>1, KeptHand
<1>5. ASSUME NEW clean \in BOOLEAN, ReconcileReport(p, clean) PROVE OnceInv'
  <2>1. RowsMoveOn /\ submits' = submits /\ pc[p] # "d_created"
    BY <1>5 DEF ReconcileReport, RowsMoveOn
  <2>2. CASE Goto(p, "rc_confirm") /\ UNCHANGED <<cur, local>>
    BY <2>1, <2>2, KeptHand
  <2>3. CASE Finish(p, Caller(p))
    <3>1. Caller(p) \notin SendingSteps
      BY CallerSteps
    <3> QED
      BY <2>1, <2>3, <3>1, DroppedHand
  <2> QED
    BY <1>5, <2>2, <2>3 DEF ReconcileReport
<1>6. CASE ReconcileConfirm(p)
  BY <1>6, KeptHand DEF ReconcileConfirm, RowsMoveOn
<1>7. ASSUME NEW o \in Orders, ReconcileSave(p, o) PROVE OnceInv'
  <2>1. local[p][o] \in Records /\ seen[p][o] \in Snapshots
    BY <1>0, <1>7, <1>t DEF ReconcileSave, Knows
  <2>2. ApplySnapshot(local[p][o], seen[p][o]) \in Records /\ local[p][o] # NoRecord
    <3>1. ApplySnapshot(local[p][o], seen[p][o]) \in Records
      BY <2>1, RecordUpdates
    <3>2. local[p][o] # NoRecord
      BY <2>1 DEF Records, NoRecord, OrderStates
    <3> QED
      BY <3>1, <3>2
  <2>3. RowsMoveOn
    BY <1>7, <2>2, ResaveMovesOn DEF ReconcileSave
  <2>4. Goto(p, "rc_save") /\ pc[p] # "d_created" /\ UNCHANGED <<submits, cur, local>>
    BY <1>7, <1>t DEF ReconcileSave, Goto
  <2> QED
    BY <2>3, <2>4, KeptHand
<1>8. CASE ReconcileDone(p)
  BY <1>8, DroppedHand, CallerSteps DEF ReconcileDone, RowsMoveOn
<1> QED
  BY <1>1, <1>2, <1>3, <1>4, <1>5, <1>6, <1>7, <1>8 DEF ReconcileStep

LEMMA CancelOnce ==
  ASSUME ControlInv, OnceInv, NEW p \in Procs, CancelStep(p)
  PROVE  OnceInv'
<1> DEFINE r == local[p][cur[p]]
<1>0. /\ pc[p] \in CancelSteps \ {"c_load", "c_next"} => cur[p] \in Orders /\ r \in Records
      /\ r \in Records => r # NoRecord
  BY DEF ControlInv, Knows, HandlingSteps, CancelHandling, DispatchSteps, CancelSteps, Records,
         NoRecord, OrderStates
<1>t. /\ cur \in [Procs -> Orders \cup {NoOrder}]
      /\ local \in [Procs -> [Orders -> Records \cup {NoRecord}]]
  BY DEF ControlInv, TypeOK, ExecTypeOK
<1> USE DEF SendingSteps
<1>1. CASE BeginEmergency(p)
  BY <1>1, KeptHand DEF BeginEmergency, RowsMoveOn
<1>2. CASE CancelLoad(p)
  BY <1>2, LoadedHand DEF CancelLoad
<1>3. ASSUME NEW o \in Orders, CancelOrder(p, o) PROVE OnceInv'
  <2> DEFINE step == IF Valid(p) THEN CancelEntry(local[p][o]) ELSE "c_next"
  <2> DEFINE c == IF step = "c_next" THEN NoOrder ELSE o
  <2>1. step \notin SendingSteps
    BY DEF CancelEntry
  <2>2. RowsMoveOn
    BY <1>3 DEF CancelOrder, RowsMoveOn
  <2>3. Goto(p, step) /\ cur' = [cur EXCEPT ![p] = c] /\ UNCHANGED <<submits, local>>
    BY <1>3 DEF CancelOrder
  <2>4. pc[p] # "d_created"
    BY <1>3 DEF CancelOrder
  <2> HIDE DEF step, c
  <2>5. LeftWith(p, step, c, local[p])
    BY <1>t, <2>1, <2>3, <2>4, HandBacked DEF LeftWith, Goto
  <2> QED
    BY <2>2, <2>5, LeftKeepsOnce
\* The four steps that change the record of the order being canceled.
<1>4. ASSUME NEW s \in CancelSteps, Goto(p, s), pc[p] \in CancelSteps \ {"c_load", "c_next"},
             NEW n \in Records, SetLocal(p, cur[p], n), UNCHANGED <<submits, cur>>, RowsMoveOn
      PROVE  OnceInv'
  <2>1. cur' = [cur EXCEPT ![p] = cur[p]] /\ s \notin SendingSteps /\ pc[p] # "d_created"
    BY <1>4, <1>t DEF CancelSteps
  <2> QED
    BY <1>0, <1>4, <2>1, ChangedHand
<1>5. CASE CancelFind(p)
  <2>1. pc[p] \in CancelSteps \ {"c_load", "c_next"} /\ RowsMoveOn /\ UNCHANGED <<submits, cur>>
    BY <1>5 DEF CancelFind, CancelSteps, RowsMoveOn
  <2>2. PICK n \in Records, s \in CancelSteps : SetLocal(p, cur[p], n) /\ Goto(p, s)
    <3>1. PICK s \in Lookup(cur[p]) :
            \/ s = NotFound /\ SetLocal(p, cur[p], [r EXCEPT !.st = "Unknown"]) /\ Goto(p, "c_save")
            \/ /\ s # NotFound
               /\ SetLocal(p, cur[p], ApplySnapshot(r, s))
               /\ Goto(p, IF s.st \in TerminalStates THEN "c_save" ELSE "c_request")
      BY <1>5 DEF CancelFind
    <3> QED
      BY <1>0, <2>1, <3>1, RecordUpdates, LookupType DEF CancelSteps, ControlInv
  <2> QED
    BY <1>4, <2>1, <2>2
<1>6. CASE CancelRequest(p)
  <2> DEFINE n == Apply(r, "CancelRequested")
  <2>1. cur[p] \in Orders /\ r \in Records /\ r # NoRecord
    BY <1>0, <1>6 DEF CancelRequest, CancelSteps
  <2>2. n \in Records
    BY <2>1, RecordUpdates DEF OrderEvents
  <2>3. /\ SaveOrderRecord(p, cur[p], n) /\ SetLocal(p, cur[p], n) /\ Goto(p, "c_check")
        /\ pc[p] \in CancelSteps \ {"c_load", "c_next"} /\ pc[p] # "d_created" /\ UNCHANGED <<submits, cur>>
    BY <1>6 DEF CancelRequest, CancelSteps
  <2> HIDE DEF n
  <2>4. RowsMoveOn
    BY <2>1, <2>2, <2>3, ResaveMovesOn
  <2> QED
    BY <1>4, <2>2, <2>3, <2>4 DEF CancelSteps
<1>7. CASE CheckBeforeCancel(p) \/ CancelAcked(p)
  BY <1>7, KeptHand DEF CheckBeforeCancel, CancelAcked, RowsMoveOn
<1>8. CASE CancelLost(p)
  <2>1. cur[p] \in Orders /\ r \in Records
    BY <1>0, <1>8 DEF CancelLost, CancelSteps
  <2>2. Apply(r, "LostState") \in Records
    BY <2>1, RecordUpdates DEF OrderEvents
  <2>3. RowsMoveOn
    BY <1>8 DEF CancelLost, RowsMoveOn
  <2> QED
    BY <1>4, <1>8, <2>2, <2>3 DEF CancelLost, CancelSteps
<1>9. CASE CancelResult(p)
  <2>1. pc[p] \in CancelSteps \ {"c_load", "c_next"} /\ RowsMoveOn /\ UNCHANGED <<submits, cur>>
    BY <1>9 DEF CancelResult, CancelSteps, RowsMoveOn
  <2>2. PICK s \in Lookup(cur[p]) \ {NotFound} : SetLocal(p, cur[p], ApplySnapshot(r, s))
    BY <1>9 DEF CancelResult
  <2>3. ApplySnapshot(r, s) \in Records
    BY <1>0, <2>1, <2>2, RecordUpdates, LookupType DEF ControlInv
  <2>4. Goto(p, "c_save")
    BY <1>9 DEF CancelResult
  <2> QED
    BY <1>4, <2>1, <2>2, <2>3, <2>4 DEF CancelSteps
<1>10. CASE CancelSave(p)
  <2>1. cur[p] \in Orders /\ r \in Records /\ r # NoRecord /\ pc[p] # "d_created"
    BY <1>0, <1>10 DEF CancelSave, CancelSteps
  <2>2. RowsMoveOn
    BY <1>10, <2>1, ResaveMovesOn DEF CancelSave
  <2>3. LeftWith(p, "c_next", NoOrder, local[p])
    BY <1>10, <1>t, <2>1, HandBacked DEF CancelSave, NextCancel, LeftWith, Goto
  <2> QED
    BY <2>2, <2>3, LeftKeepsOnce
<1>11. CASE CancelDone(p)
  BY <1>11, DroppedHand DEF CancelDone, RowsMoveOn
<1> QED
  BY <1>1, <1>2, <1>3, <1>5, <1>6, <1>7, <1>8, <1>9, <1>10, <1>11 DEF CancelStep

LEMMA AbortOnce ==
  ASSUME ControlInv, OnceInv, NEW p \in Procs, Abort(p)
  PROVE  OnceInv'
<1>1. RowsMoveOn /\ submits' = submits
  BY DEF Abort, RowsMoveOn
<1>2. CASE NextCancel(p) /\ pc[p] # "d_created"
  <2>1. LeftWith(p, "c_next", NoOrder, local[p])
    BY <1>1, <1>2, HandBacked DEF NextCancel, LeftWith, Goto, SendingSteps, ControlInv, TypeOK, ExecTypeOK
  <2> QED
    BY <1>1, <2>1, LeftKeepsOnce
<1>3. ASSUME NEW s \in {"ready", "idle", "flatten", "stopped", "rc_assert"}, Finish(p, s)
      PROVE  OnceInv'
  BY <1>1, <1>3, DroppedHand DEF SendingSteps
<1> QED
  BY <1>2, <1>3, CallerSteps DEF Abort, CancelSteps

LEMMA LifeOnce ==
  ASSUME ControlInv, OnceInv, NEW p \in Procs, LifeStep(p)
  PROVE  OnceInv'
<1>1. RowsMoveOn /\ submits' = submits
  BY DEF LifeStep, Boot, Serve, Break, Flattened, Stop, Die, RowsMoveOn
<1>2. CASE Die(p)
  BY <1>1, <1>2, DroppedHand DEF Die, SendingSteps
<1>3. CASE Boot(p)
  BY <1>1, <1>3, KeptHand DEF Boot, SendingSteps
<1>4. CASE Serve(p) \/ Break(p) \/ Flattened(p) \/ Stop(p)
  <2>1. pc[p] # "d_created" /\ UNCHANGED <<cur, local>>
    BY <1>4 DEF Serve, Break, Flattened, Stop
  <2>2. PICK s \in {"off", "idle", "c_load", "stopped"} : Goto(p, s)
    BY <1>4 DEF Serve, Break, Flattened, Stop, Goto, ControlInv, TypeOK, ExecTypeOK
  <2> QED
    BY <1>1, <2>1, <2>2, KeptHand DEF SendingSteps
<1> QED
  BY <1>2, <1>3, <1>4 DEF LifeStep

LEMMA OnceStep == ControlInv /\ OnceInv /\ [Next]_vars => OnceInv'
<1> SUFFICES ASSUME ControlInv, OnceInv, [Next]_vars PROVE OnceInv'
  OBVIOUS
<1>1. ASSUME UNCHANGED <<orders, submits, pc, cur, local>> PROVE OnceInv'
  BY <1>1 DEF OnceInv, Backed, SoleSender, WriteAhead, SubmitOnce
<1>2. ASSUME NEW o \in Orders, VenueStep(o) PROVE OnceInv'
  BY <1>1, <1>2 DEF VenueStep, VenueReceives, RequestLost, VenueFill, VenueCancel
<1>3. CASE Background \/ UNCHANGED vars
  BY <1>1, <1>3 DEF Background, execVars, vars
<1> QED
  BY <1>2, <1>3, DispatchOnce, RecoverOnce, ReconcileOnce, CancelOnce, AbortOnce, LifeOnce DEF Next

LEMMA OnceHolds == Spec => []OnceInv
  BY OnceInit, OnceStep, ControlHolds, PTL DEF Spec

\* The venue is asked at most once to place an order: not twice by one
\* process, not by a second process after a takeover, not after a restart,
\* and not when the intent is dispatched again.
THEOREM SubmittedOnce == Spec => []SubmitOnce
<1>1. OnceInv => SubmitOnce
  BY DEF OnceInv
<1> QED
  BY <1>1, OnceHolds, PTL

\* An order is never sent to the venue before its durable record says so,
\* and no later write takes that back.
THEOREM RecordedBeforeSent == Spec => []WriteAhead
<1>1. OnceInv => WriteAhead
  BY DEF OnceInv
<1> QED
  BY <1>1, OnceHolds, PTL

\* The processes of durable execution are processes of RuntimeLease: what is
\* proved of the lease holds while they execute orders.
THEOREM ExecutionUsesLease == Spec => LeaseSpec
<1>1. Init => LeaseInit
  BY DEF Init
<1> QED
  BY <1>1, NextIsLeaseStep, PTL DEF Spec, LeaseSpec

-----------------------------------------------------------------------------
(* The answers of the venue can be recorded.                               *)

\* Once the venue has been asked, every event its answer turns into is a legal
\* transition of the record the process has in hand, and a cancel is only
\* requested of an order that can be canceled: OrderRecord::apply never fails
\* after a side effect.
THEOREM AnswersCanBeRecorded == Spec => []OutcomesAreLegal
<1>1. ControlInv => OutcomesAreLegal
  BY DEF ControlInv, Knows, HandState, OutcomesAreLegal, Legal
<1> QED
  BY <1>1, ControlHolds, PTL

-----------------------------------------------------------------------------
(* A terminal state is evidence.                                           *)

\* The order was sent, nothing of it is on the way and it is not live: nothing
\* more can happen to it at the venue.
Closed(o) == submits[o] > 0 /\ ~wire[o] /\ ~Live(o)

\* The venue knows nothing of an order that was not sent, and a request that
\* is on the way has not arrived.
VenueInv ==
  \A o \in Orders :
    /\ submits[o] = 0 => ~wire[o] /\ venue[o] = NotFound
    /\ wire[o] => venue[o].st = "Absent"

\* A process that has a terminal record or snapshot of an order in hand has
\* evidence, and so has the one whose snapshot shows the order at all.
HandEvidence(l, v) ==
  \A o \in Orders :
    /\ IsTerminal(l[o]) => Closed(o)
    /\ IsTerminal(v[o]) => Closed(o)
    /\ v[o] # NotFound => venue[o].st # "Absent"

EvidenceInv ==
  /\ VenueInv
  /\ \A o \in Orders : IsTerminal(orders[o]) => Closed(o)
  /\ \A p \in Procs : HandEvidence(local[p], seen[p])

LEMMA EvidenceInit == Init => EvidenceInv
  BY DEF Init, EvidenceInv, VenueInv, HandEvidence, NoLocal, NothingSeen, NoRow, NoRecord, NotFound,
         IsTerminal, TerminalStates

\* Process p did something that leaves the venue alone: what it stored or
\* took in hand is evidence too.
Observed(p) ==
  /\ UNCHANGED <<submits, wire, venue>>
  /\ \A o \in Orders : IsTerminal(orders'[o]) => Closed(o)
  /\ \A q \in Procs \ {p} : local'[q] = local[q] /\ seen'[q] = seen[q]
  /\ HandEvidence(local'[p], seen'[p])

LEMMA ObservedKeepsEvidence ==
  ASSUME EvidenceInv, NEW p \in Procs, Observed(p)
  PROVE  EvidenceInv'
<1>1. VenueInv'
  BY DEF EvidenceInv, Observed, VenueInv
<1>2. \A o \in Orders : Closed(o)' <=> Closed(o)
  BY DEF Observed, Closed, Live
<1>3. \A o \in Orders : IsTerminal(orders'[o]) => Closed(o)'
  BY <1>2 DEF Observed
<1>4. ASSUME NEW q \in Procs PROVE HandEvidence(local'[q], seen'[q])
  BY DEF EvidenceInv, Observed
<1>5. \A q \in Procs : HandEvidence(local[q], seen[q])'
  BY <1>2, <1>4 DEF Observed, HandEvidence
<1> QED
  BY <1>1, <1>3, <1>5 DEF EvidenceInv, IsTerminal

\* What a lookup returns is evidence.
LEMMA LookupEvidence ==
  ASSUME ControlInv, EvidenceInv, NEW o \in Orders, NEW s \in Lookup(o)
  PROVE  /\ IsTerminal(s) => Closed(o)
         /\ s # NotFound => venue[o].st # "Absent"
<1>1. CASE s = NotFound
  BY <1>1 DEF NotFound, IsTerminal, TerminalStates
<1>2. CASE s # NotFound
  <2>1. /\ venue[o].st # "Absent"
        /\ s = venue[o] \/ s = [venue[o] EXCEPT !.st = "Unknown"]
    BY <1>2 DEF Lookup
  <2>2. venue[o] \in [st : VenueStates, filled : 0..Qty]
    BY DEF ControlInv, TypeOK, ExecTypeOK
  <2>3. IsTerminal(s) => IsTerminal(venue[o])
    BY <2>1, <2>2 DEF IsTerminal, TerminalStates
  <2>4. IsTerminal(venue[o]) => Closed(o)
    <3>1. submits[o] > 0 /\ ~wire[o]
      BY <2>1 DEF EvidenceInv, VenueInv, NotFound, ControlInv, TypeOK, ExecTypeOK
    <3> QED
      BY <3>1 DEF Closed, Live, IsTerminal, TerminalStates
  <2> QED
    BY <2>1, <2>3, <2>4
<1> QED
  BY <1>1, <1>2

\* A save of a record that is evidence.
LEMMA SavedEvidence ==
  ASSUME ControlInv, EvidenceInv, NEW p \in Procs, NEW o \in Orders, NEW r \in Records,
         SaveOrderRecord(p, o, r), IsTerminal(r) => Closed(o)
  PROVE  \A x \in Orders : IsTerminal(orders'[x]) => Closed(x)
  BY SaveEffect DEF ControlInv, EvidenceInv, IsTerminal

\* What an operation has in hand after it is left, after it loaded the store
\* and after it changed one record.
LEMMA HandEvidences ==
  ASSUME ControlInv, EvidenceInv, NEW p \in Procs
  PROVE  /\ HandEvidence(NoLocal, NothingSeen)
         /\ HandEvidence(Loaded, seen[p])
         /\ \A o \in Orders, n \in Records :
              (IsTerminal(n) => Closed(o)) => HandEvidence([local[p] EXCEPT ![o] = n], seen[p])
<1>1. HandEvidence(local[p], seen[p])
  BY DEF EvidenceInv
<1>2. HandEvidence(NoLocal, NothingSeen)
  BY DEF HandEvidence, NoLocal, NothingSeen, NoRecord, NotFound, IsTerminal, TerminalStates
<1>3. HandEvidence(Loaded, seen[p])
  BY <1>1 DEF HandEvidence, Loaded, RecordOf, EvidenceInv, IsTerminal
<1>4. local[p] \in [Orders -> Records \cup {NoRecord}]
  BY DEF ControlInv, TypeOK, ExecTypeOK
<1>5. ASSUME NEW o \in Orders, NEW n \in Records, IsTerminal(n) => Closed(o)
      PROVE  HandEvidence([local[p] EXCEPT ![o] = n], seen[p])
  BY <1>1, <1>4, <1>5 DEF HandEvidence
<1> QED
  BY <1>2, <1>3, <1>5

\* The steps that keep what the process has in hand, with or without a save,
\* those that drop it and those that change one record.
LEMMA KeptEvidence ==
  ASSUME EvidenceInv, NEW p \in Procs,
         \A o \in Orders : IsTerminal(orders'[o]) => Closed(o),
         UNCHANGED <<submits, wire, venue, local, seen>>
  PROVE  EvidenceInv'
<1>1. Observed(p)
  BY DEF Observed, EvidenceInv
<1> QED
  BY <1>1, ObservedKeepsEvidence

LEMMA DroppedEvidence ==
  ASSUME ControlInv, EvidenceInv, NEW p \in Procs, NEW s, Finish(p, s),
         \A o \in Orders : IsTerminal(orders'[o]) => Closed(o),
         UNCHANGED <<submits, wire, venue>>
  PROVE  EvidenceInv'
<1>1. Observed(p)
  BY HandEvidences DEF Observed, Finish, ControlInv, TypeOK, ExecTypeOK
<1> QED
  BY <1>1, ObservedKeepsEvidence

LEMMA ChangedEvidence ==
  ASSUME ControlInv, EvidenceInv, NEW p \in Procs, NEW o \in Orders, NEW n \in Records,
         SetLocal(p, o, n), IsTerminal(n) => Closed(o),
         \A x \in Orders : IsTerminal(orders'[x]) => Closed(x),
         UNCHANGED <<submits, wire, venue, seen>>
  PROVE  EvidenceInv'
<1>1. HandEvidence([local[p] EXCEPT ![o] = n], seen[p])
  BY HandEvidences
<1>2. /\ local'[p] = [local[p] EXCEPT ![o] = n]
      /\ \A q \in Procs \ {p} : local'[q] = local[q]
  BY DEF SetLocal, ControlInv, TypeOK, ExecTypeOK
<1>3. Observed(p)
  BY <1>1, <1>2 DEF Observed
<1> QED
  BY <1>3, ObservedKeepsEvidence

LEMMA LoadedEvidence ==
  ASSUME ControlInv, EvidenceInv, NEW p \in Procs, local' = [local EXCEPT ![p] = Loaded],
         UNCHANGED <<orders, submits, wire, venue, seen>>
  PROVE  EvidenceInv'
<1>1. Observed(p)
  BY HandEvidences DEF Observed, EvidenceInv, ControlInv, TypeOK, ExecTypeOK
<1> QED
  BY <1>1, ObservedKeepsEvidence

LEMMA DispatchEvidence ==
  ASSUME ControlInv, OnceInv, EvidenceInv, NEW p \in Procs, DispatchStep(p)
  PROVE  EvidenceInv'
<1> DEFINE r == local[p][cur[p]]
<1>0. /\ pc[p] \in DispatchSteps => cur[p] \in Orders /\ r \in Records
      /\ cur[p] \in Orders /\ IsTerminal(r) => Closed(cur[p])
      /\ \A o \in Orders : IsTerminal(orders[o]) => Closed(o)
  BY DEF ControlInv, Knows, HandlingSteps, EvidenceInv, HandEvidence
<1>1. ASSUME NEW o \in Orders, Dispatch(p, o) PROVE EvidenceInv'
  <2>1. FromIntent \in Records /\ ~IsTerminal(FromIntent)
    BY QtyAssumption DEF FromIntent, Records, OrderStates, IsTerminal, TerminalStates
  <2> QED
    BY <1>0, <1>1, <2>1, ChangedEvidence DEF Dispatch
<1>2. CASE PersistIntent(p)
  <2>1. cur[p] \in Orders /\ r \in Records
    BY <1>0, <1>2 DEF PersistIntent, DispatchSteps
  <2>2. /\ Apply(r, "SubmitRequested") \in Records
        /\ ~IsTerminal(Apply(r, "SubmitRequested"))
    BY <2>1, RecordUpdates DEF OrderEvents, AfterEvent, IsTerminal, TerminalStates
  <2>3. \A o \in Orders : IsTerminal(orders'[o]) => Closed(o)
    BY <1>0, <1>2, <2>1, SavedEvidence DEF PersistIntent
  <2> QED
    BY <1>2, <2>1, <2>2, <2>3, ChangedEvidence DEF PersistIntent
<1>3. CASE PersistPending(p)
  <2>1. cur[p] \in Orders /\ r \in Records
    BY <1>0, <1>3 DEF PersistPending, DispatchSteps
  <2>2. \A o \in Orders : IsTerminal(orders'[o]) => Closed(o)
    BY <1>0, <1>3, <2>1, SavedEvidence DEF PersistPending
  <2> QED
    BY <1>3, <2>2, KeptEvidence DEF PersistPending
<1>4. CASE CheckBeforeSubmit(p)
  BY <1>0, <1>4, KeptEvidence DEF CheckBeforeSubmit, IsTerminal
\* The submission starts the exposure: no evidence of its end exists yet.
<1>5. CASE Submit(p) \/ SubmitRefused(p)
  <2>1. PICK o \in Orders : o = cur[p] /\ r \in Records /\ submits[o] = 0
    BY <1>0, <1>5 DEF Submit, SubmitRefused, DispatchSteps, SendingSteps, OnceInv, SoleSender
  <2>2. ~wire[o] /\ venue[o] = NotFound /\ ~Closed(o)
    BY <2>1 DEF EvidenceInv, VenueInv, Closed
  <2>3. /\ submits' = [submits EXCEPT ![o] = 1] /\ UNCHANGED <<orders, venue, seen>>
        /\ \A x \in Orders : x # o => wire'[x] = wire[x]
        /\ \A q \in Procs, x \in Orders : IsTerminal(local'[q][x]) =>
             IsTerminal(local[q][x]) \/ (x = o /\ ~wire'[o])
    <3>t. /\ submits \in [Orders -> Nat] /\ wire \in [Orders -> BOOLEAN]
          /\ local \in [Procs -> [Orders -> Records \cup {NoRecord}]]
      BY DEF ControlInv, TypeOK, ExecTypeOK
    <3>0. submits' = [submits EXCEPT ![o] = 1] /\ UNCHANGED <<orders, venue, seen>>
      BY <1>5, <2>1, <3>t DEF Submit, SubmitRefused
    <3>1. CASE Submit(p)
      <4>1. wire' = [wire EXCEPT ![o] = TRUE] /\ local' = local
        BY <2>1, <3>1 DEF Submit
      <4> QED
        BY <3>0, <3>t, <4>1
    <3>2. CASE SubmitRefused(p)
      <4>1. wire' = wire /\ local' = [local EXCEPT ![p][o] = Apply(local[p][o], "Rejected")]
        BY <2>1, <3>2 DEF SubmitRefused, SetLocal
      <4> QED
        BY <2>2, <3>0, <3>t, <4>1
    <3> QED
      BY <1>5, <3>1, <3>2
  <2>4. VenueInv'
    <3>1. submits'[o] = 1 /\ \A x \in Orders : x # o => submits'[x] = submits[x]
      BY <2>1, <2>3 DEF ControlInv, TypeOK, ExecTypeOK
    <3> QED
      BY <2>2, <2>3, <3>1 DEF EvidenceInv, VenueInv, NotFound
  <2>5. /\ \A x \in Orders : Closed(x) => Closed(x)'
        /\ ~wire'[o] => Closed(o)'
    <3>1. submits'[o] = 1 /\ \A x \in Orders : x # o => submits'[x] = submits[x]
      BY <2>1, <2>3 DEF ControlInv, TypeOK, ExecTypeOK
    <3>2. ASSUME NEW x \in Orders, Closed(x) PROVE Closed(x)'
      <4>1. x # o
        BY <2>2, <3>2
      <4> QED
        BY <2>3, <3>1, <3>2, <4>1 DEF Closed, Live
    <3>3. submits'[o] > 0 /\ ~Live(o)'
      BY <2>2, <2>3, <3>1 DEF Live, NotFound
    <3> QED
      BY <3>2, <3>3 DEF Closed
  <2>6. ASSUME NEW q \in Procs PROVE HandEvidence(local[q], seen[q])'
    <3>1. HandEvidence(local[q], seen[q])
      BY DEF EvidenceInv
    <3>2. ASSUME NEW x \in Orders, IsTerminal(local'[q][x]) PROVE Closed(x)'
      BY <2>3, <2>5, <3>1, <3>2 DEF HandEvidence
    <3>3. ASSUME NEW x \in Orders PROVE /\ IsTerminal(seen'[q][x]) => Closed(x)'
                                        /\ seen'[q][x] # NotFound => venue'[x].st # "Absent"
      BY <2>3, <2>5, <3>1 DEF HandEvidence
    <3> QED
      BY <3>2, <3>3 DEF HandEvidence
  <2> QED
    BY <2>3, <2>4, <2>5, <2>6 DEF EvidenceInv
<1>6. ASSUME NEW ev \in {"Accepted", "Rejected", "LostState"}, SubmitReturns(p, ev) PROVE EvidenceInv'
  <2>1. cur[p] \in Orders /\ r \in Records
    BY <1>0, <1>6 DEF SubmitReturns, DispatchSteps
  <2>2. Apply(r, ev) \in Records /\ (IsTerminal(Apply(r, ev)) => ev = "Rejected")
    <3>1. Apply(r, ev) \in Records /\ Apply(r, ev).st = AfterEvent(ev)
      BY <2>1, RecordUpdates DEF OrderEvents
    <3>2. AfterEvent(ev) \in TerminalStates => ev = "Rejected"
      BY DEF AfterEvent, TerminalStates
    <3> QED
      BY <3>1, <3>2 DEF IsTerminal
  <2>3. ev = "Rejected" => Closed(cur[p])
    <3> SUFFICES ASSUME venue[cur[p]].st = "Rejected" PROVE Closed(cur[p])
      BY <1>6 DEF SubmitReturns
    <3>1. submits[cur[p]] # 0 /\ ~wire[cur[p]]
      BY <2>1 DEF EvidenceInv, VenueInv, NotFound
    <3>2. submits[cur[p]] \in Nat
      BY <2>1 DEF ControlInv, TypeOK, ExecTypeOK
    <3> QED
      BY <3>1, <3>2 DEF Closed, Live
  <2> QED
    BY <1>0, <1>6, <2>1, <2>2, <2>3, ChangedEvidence DEF SubmitReturns
<1>7. CASE PersistOutcome(p)
  <2>1. cur[p] \in Orders /\ r \in Records
    BY <1>0, <1>7 DEF PersistOutcome, DispatchSteps
  <2>2. \A o \in Orders : IsTerminal(orders'[o]) => Closed(o)
    BY <1>0, <1>7, <2>1, SavedEvidence DEF PersistOutcome
  <2> QED
    BY <1>7, <2>2, DroppedEvidence DEF PersistOutcome
<1> QED
  BY <1>1, <1>2, <1>3, <1>4, <1>5, <1>6, <1>7 DEF DispatchStep

LEMMA RecoverEvidence ==
  ASSUME ControlInv, EvidenceInv, NEW p \in Procs, RecoverStep(p)
  PROVE  EvidenceInv'
<1> DEFINE r == local[p][cur[p]]
<1>0. /\ Knows(pc[p], cur[p], local[p], seen[p], todo[p])
      /\ \A o \in Orders : IsTerminal(orders[o]) => Closed(o)
      /\ \A o \in Orders : IsTerminal(local[p][o]) => Closed(o)
  BY DEF ControlInv, EvidenceInv, HandEvidence
<1>1. CASE BeginRecover(p)
  BY <1>0, <1>1, KeptEvidence DEF BeginRecover
<1>2. CASE RecoverLoad(p)
  BY <1>2, LoadedEvidence DEF RecoverLoad
<1>3. ASSUME NEW o \in Orders, RecoverFind(p, o) PROVE EvidenceInv'
  <2>1. local[p][o] \in Records
    BY <1>0, <1>3 DEF RecoverFind, Knows
  <2>2. PICK n \in Records : SetLocal(p, o, n) /\ (IsTerminal(n) => Closed(o))
    <3>1. PICK s \in Lookup(o) :
            \/ s = NotFound /\ SetLocal(p, o, [local[p][o] EXCEPT !.st = "Unknown"])
            \/ s # NotFound /\ SetLocal(p, o, ApplySnapshot(local[p][o], s))
      BY <1>3 DEF RecoverFind
    <3>2. CASE s = NotFound
      <4>1. /\ [local[p][o] EXCEPT !.st = "Unknown"] \in Records
            /\ ~IsTerminal([local[p][o] EXCEPT !.st = "Unknown"])
        BY <2>1, RecordUpdates DEF IsTerminal, TerminalStates, Records
      <4> QED
        BY <3>1, <3>2, <4>1
    <3>3. CASE s # NotFound
      <4>1. ApplySnapshot(local[p][o], s) \in Records /\ s \in Snapshots
        BY <2>1, <3>3, RecordUpdates, LookupType DEF ControlInv
      <4>2. IsTerminal(ApplySnapshot(local[p][o], s)) => Closed(o)
        BY LookupEvidence DEF ApplySnapshot, IsTerminal
      <4> QED
        BY <3>1, <3>3, <4>1, <4>2
    <3> QED
      BY <3>2, <3>3
  <2> QED
    BY <1>0, <1>3, <2>2, ChangedEvidence DEF RecoverFind
<1>4. CASE RecoverSave(p)
  <2>1. cur[p] \in Orders /\ r \in Records
    BY <1>0, <1>4 DEF RecoverSave, Knows, HandlingSteps
  <2>2. \A o \in Orders : IsTerminal(orders'[o]) => Closed(o)
    BY <1>0, <1>4, <2>1, SavedEvidence DEF RecoverSave
  <2> QED
    BY <1>4, <2>2, KeptEvidence DEF RecoverSave
<1>5. CASE RecoverDone(p)
  BY <1>0, <1>5, DroppedEvidence DEF RecoverDone
<1> QED
  BY <1>1, <1>2, <1>3, <1>4, <1>5 DEF RecoverStep

LEMMA ReconcileEvidence ==
  ASSUME ControlInv, EvidenceInv, NEW p \in Procs, ReconcileStep(p)
  PROVE  EvidenceInv'
<1>0. /\ Knows(pc[p], cur[p], local[p], seen[p], todo[p])
      /\ \A o \in Orders : IsTerminal(orders[o]) => Closed(o)
      /\ HandEvidence(local[p], seen[p])
  BY DEF ControlInv, EvidenceInv
<1>t. seen \in [Procs -> [Orders -> Snapshots \cup {NotFound}]]
  BY DEF ControlInv, TypeOK, ExecTypeOK
\* The steps that collect snapshots.
<1>1. ASSUME NEW v, seen' = [seen EXCEPT ![p] = v], UNCHANGED <<orders, submits, wire, venue, local>>,
             \A o \in Orders : /\ IsTerminal(v[o]) => Closed(o)
                               /\ v[o] # NotFound => venue[o].st # "Absent"
      PROVE  EvidenceInv'
  <2>1. HandEvidence(local[p], v)
    BY <1>0, <1>1 DEF HandEvidence
  <2>2. Observed(p)
    BY <1>0, <1>1, <1>t, <2>1 DEF Observed
  <2> QED
    BY <2>2, ObservedKeepsEvidence
<1>2. CASE ReconcileAssert(p) \/ ReconcileConfirm(p)
  BY <1>0, <1>2, KeptEvidence DEF ReconcileAssert, ReconcileConfirm
<1>3. CASE ReconcileLoad(p)
  BY <1>3, LoadedEvidence DEF ReconcileLoad
<1>4. CASE ReconcileOpen(p)
  <2> DEFINE v == [o \in Orders |-> IF Live(o) THEN venue[o] ELSE NotFound]
  <2>1. \A o \in Orders : /\ IsTerminal(v[o]) => Closed(o)
                          /\ v[o] # NotFound => venue[o].st # "Absent"
    BY DEF Live, IsTerminal, TerminalStates, NotFound
  <2>2. seen' = [seen EXCEPT ![p] = v] /\ UNCHANGED <<orders, submits, wire, venue, local>>
    BY <1>4 DEF ReconcileOpen
  <2> HIDE DEF v
  <2> QED
    BY <1>1, <2>1, <2>2
<1>5. ASSUME NEW o \in Orders, ReconcileFind(p, o) PROVE EvidenceInv'
  <2>1. PICK s \in Lookup(o) : seen' = [seen EXCEPT ![p][o] = s]
    BY <1>5 DEF ReconcileFind
  <2> DEFINE v == [seen[p] EXCEPT ![o] = s]
  <2>2. seen' = [seen EXCEPT ![p] = v] /\ UNCHANGED <<orders, submits, wire, venue, local>>
    BY <1>5, <2>1, <1>t DEF ReconcileFind
  <2>3. \A x \in Orders : /\ IsTerminal(v[x]) => Closed(x)
                          /\ v[x] # NotFound => venue[x].st # "Absent"
    BY <1>0, <1>t, LookupEvidence DEF HandEvidence
  <2> HIDE DEF v
  <2> QED
    BY <1>1, <2>2, <2>3
<1>6. ASSUME NEW clean \in BOOLEAN, ReconcileReport(p, clean) PROVE EvidenceInv'
  <2>1. \A o \in Orders : IsTerminal(orders'[o]) => Closed(o)
    BY <1>0, <1>6 DEF ReconcileReport
  <2>2. UNCHANGED <<submits, wire, venue>>
    BY <1>6 DEF ReconcileReport
  <2>3. CASE UNCHANGED <<local, seen>>
    BY <2>1, <2>2, <2>3, KeptEvidence
  <2>4. CASE Finish(p, Caller(p))
    BY <2>1, <2>2, <2>4, DroppedEvidence
  <2> QED
    BY <1>6, <2>3, <2>4 DEF ReconcileReport
<1>7. ASSUME NEW o \in Orders, ReconcileSave(p, o) PROVE EvidenceInv'
  <2>1. local[p][o] \in Records /\ seen[p][o] \in Snapshots
    BY <1>0, <1>7, <1>t DEF ReconcileSave, Knows
  <2>2. ApplySnapshot(local[p][o], seen[p][o]) \in Records
    BY <2>1, RecordUpdates
  <2>3. IsTerminal(ApplySnapshot(local[p][o], seen[p][o])) => Closed(o)
    BY <1>0 DEF HandEvidence, ApplySnapshot, IsTerminal
  <2>4. \A x \in Orders : IsTerminal(orders'[x]) => Closed(x)
    BY <1>7, <2>2, <2>3, SavedEvidence DEF ReconcileSave
  <2> QED
    BY <1>7, <2>4, KeptEvidence DEF ReconcileSave
<1>8. CASE ReconcileDone(p)
  BY <1>0, <1>8, DroppedEvidence DEF ReconcileDone
<1> QED
  BY <1>2, <1>3, <1>4, <1>5, <1>6, <1>7, <1>8 DEF ReconcileStep

LEMMA CancelEvidence ==
  ASSUME ControlInv, EvidenceInv, NEW p \in Procs, CancelStep(p)
  PROVE  EvidenceInv'
<1> DEFINE r == local[p][cur[p]]
<1>0. /\ pc[p] \in CancelHandling => cur[p] \in Orders /\ r \in Records
      /\ \A o \in Orders : IsTerminal(orders[o]) => Closed(o)
      /\ \A o \in Orders : IsTerminal(local[p][o]) => Closed(o)
  BY DEF ControlInv, EvidenceInv, HandEvidence, Knows, HandlingSteps
<1>1. CASE BeginEmergency(p) \/ CheckBeforeCancel(p) \/ CancelAcked(p)
  BY <1>0, <1>1, KeptEvidence DEF BeginEmergency, CheckBeforeCancel, CancelAcked
<1>2. CASE CancelLoad(p)
  BY <1>2, LoadedEvidence DEF CancelLoad
<1>3. ASSUME NEW o \in Orders, CancelOrder(p, o) PROVE EvidenceInv'
  BY <1>0, <1>3, KeptEvidence DEF CancelOrder
\* The venue shows the order, or does not.
<1>4. ASSUME pc[p] \in CancelHandling, NEW s \in Lookup(cur[p]),
             \/ s = NotFound /\ SetLocal(p, cur[p], [r EXCEPT !.st = "Unknown"])
             \/ s # NotFound /\ SetLocal(p, cur[p], ApplySnapshot(r, s)),
             UNCHANGED <<orders, submits, wire, venue, seen>>
      PROVE  EvidenceInv'
  <2>1. cur[p] \in Orders /\ r \in Records
    BY <1>0, <1>4
  <2>2. PICK n \in Records : SetLocal(p, cur[p], n) /\ (IsTerminal(n) => Closed(cur[p]))
    <3>1. CASE s = NotFound
      <4>1. [r EXCEPT !.st = "Unknown"] \in Records /\ ~IsTerminal([r EXCEPT !.st = "Unknown"])
        BY <2>1, RecordUpdates DEF IsTerminal, TerminalStates, Records
      <4> QED
        BY <1>4, <3>1, <4>1
    <3>2. CASE s # NotFound
      <4>1. ApplySnapshot(r, s) \in Records /\ s \in Snapshots
        BY <1>4, <2>1, <3>2, RecordUpdates, LookupType DEF ControlInv
      <4>2. IsTerminal(ApplySnapshot(r, s)) => Closed(cur[p])
        BY <1>4, <2>1, LookupEvidence DEF ApplySnapshot, IsTerminal
      <4> QED
        BY <1>4, <3>2, <4>1, <4>2
    <3> QED
      BY <3>1, <3>2
  <2> QED
    BY <1>0, <1>4, <2>1, <2>2, ChangedEvidence
<1>5. CASE CancelFind(p)
  <2>1. PICK s \in Lookup(cur[p]) :
          \/ s = NotFound /\ SetLocal(p, cur[p], [r EXCEPT !.st = "Unknown"])
          \/ s # NotFound /\ SetLocal(p, cur[p], ApplySnapshot(r, s))
    BY <1>5 DEF CancelFind
  <2> QED
    BY <1>4, <1>5, <2>1 DEF CancelFind, CancelHandling
<1>6. CASE CancelResult(p)
  <2>1. PICK s \in Lookup(cur[p]) \ {NotFound} : SetLocal(p, cur[p], ApplySnapshot(r, s))
    BY <1>6 DEF CancelResult
  <2> QED
    BY <1>4, <1>6, <2>1 DEF CancelResult, CancelHandling
<1>7. CASE CancelRequest(p)
  <2> DEFINE n == Apply(r, "CancelRequested")
  <2>1. cur[p] \in Orders /\ r \in Records
    BY <1>0, <1>7 DEF CancelRequest, CancelHandling
  <2>2. n \in Records /\ ~IsTerminal(n)
    BY <2>1, RecordUpdates DEF OrderEvents, AfterEvent, IsTerminal, TerminalStates
  <2>3. /\ SaveOrderRecord(p, cur[p], n) /\ SetLocal(p, cur[p], n)
        /\ UNCHANGED <<submits, wire, venue, seen>>
    BY <1>7 DEF CancelRequest
  <2> HIDE DEF n
  <2>4. \A o \in Orders : IsTerminal(orders'[o]) => Closed(o)
    BY <2>1, <2>2, <2>3, SavedEvidence
  <2> QED
    BY <2>1, <2>2, <2>3, <2>4, ChangedEvidence
<1>8. CASE CancelLost(p)
  <2>1. cur[p] \in Orders /\ r \in Records
    BY <1>0, <1>8 DEF CancelLost, CancelHandling
  <2>2. Apply(r, "LostState") \in Records /\ ~IsTerminal(Apply(r, "LostState"))
    BY <2>1, RecordUpdates DEF OrderEvents, AfterEvent, IsTerminal, TerminalStates
  <2> QED
    BY <1>0, <1>8, <2>1, <2>2, ChangedEvidence DEF CancelLost
<1>9. CASE CancelSave(p)
  <2>1. cur[p] \in Orders /\ r \in Records
    BY <1>0, <1>9 DEF CancelSave, CancelHandling
  <2>2. \A o \in Orders : IsTerminal(orders'[o]) => Closed(o)
    BY <1>0, <1>9, <2>1, SavedEvidence DEF CancelSave
  <2> QED
    BY <1>9, <2>2, KeptEvidence DEF CancelSave, NextCancel
<1>10. CASE CancelDone(p)
  BY <1>0, <1>10, DroppedEvidence DEF CancelDone
<1> QED
  BY <1>1, <1>2, <1>3, <1>5, <1>6, <1>7, <1>8, <1>9, <1>10 DEF CancelStep

LEMMA OtherEvidence ==
  ASSUME ControlInv, EvidenceInv, NEW p \in Procs, Abort(p) \/ LifeStep(p)
  PROVE  EvidenceInv'
<1>1. UNCHANGED <<orders, submits, wire, venue>>
  BY DEF Abort, LifeStep, Boot, Serve, Break, Flattened, Stop, Die
<1>2. \A o \in Orders : IsTerminal(orders'[o]) => Closed(o)
  BY <1>1 DEF EvidenceInv
<1>3. UNCHANGED <<local, seen>> \/ \E s : Finish(p, s)
  BY DEF Abort, NextCancel, LifeStep, Boot, Serve, Break, Flattened, Stop, Die
<1> QED
  BY <1>1, <1>2, <1>3, KeptEvidence, DroppedEvidence

\* The venue moves an order forward only: what is closed stays closed.
LEMMA VenueEvidence ==
  ASSUME ControlInv, EvidenceInv, NEW o \in Orders, VenueStep(o)
  PROVE  EvidenceInv'
<1>0. /\ UNCHANGED <<orders, submits, local, seen>>
      /\ wire \in [Orders -> BOOLEAN] /\ venue \in [Orders -> [st : VenueStates, filled : 0..Qty]]
  BY DEF VenueStep, VenueReceives, RequestLost, VenueFill, VenueCancel, ControlInv, TypeOK, ExecTypeOK
<1>1. /\ ~Closed(o)
      /\ submits[o] # 0 /\ ~wire'[o]
      /\ venue[o].st # "Absent" => venue'[o].st # "Absent"
      /\ \A x \in Orders : x # o => wire'[x] = wire[x] /\ venue'[x] = venue[x]
  <2>1. CASE VenueReceives(o)
    BY <1>0, <2>1 DEF VenueReceives, EvidenceInv, VenueInv, Closed
  <2>2. CASE RequestLost(o)
    BY <1>0, <2>2 DEF RequestLost, EvidenceInv, VenueInv, Closed
  <2>3. CASE VenueFill(o) \/ VenueCancel(o)
    <3>1. Live(o) /\ wire' = wire
      BY <1>0, <2>3 DEF VenueFill, VenueCancel, MayFill, Live, VenueStates
    <3>2. submits[o] # 0 /\ ~wire[o]
      BY <3>1 DEF EvidenceInv, VenueInv, Live, NotFound
    <3>3. venue'[o].st # "Absent" /\ \A x \in Orders : x # o => venue'[x] = venue[x]
      BY <1>0, <2>3 DEF VenueFill, VenueCancel, ApplyFill
    <3> QED
      BY <3>1, <3>2, <3>3 DEF Closed
  <2> QED
    BY <2>1, <2>2, <2>3 DEF VenueStep
<1>2. \A x \in Orders : Closed(x) => Closed(x)'
  BY <1>0, <1>1 DEF Closed, Live
<1>3. VenueInv'
  BY <1>0, <1>1 DEF EvidenceInv, VenueInv
<1>4. ASSUME NEW q \in Procs PROVE HandEvidence(local[q], seen[q])'
  <2>1. HandEvidence(local[q], seen[q])
    BY DEF EvidenceInv
  <2> QED
    BY <1>0, <1>1, <1>2, <2>1 DEF HandEvidence
<1> QED
  BY <1>0, <1>2, <1>3, <1>4 DEF EvidenceInv

LEMMA EvidenceStep == ControlInv /\ OnceInv /\ EvidenceInv /\ [Next]_vars => EvidenceInv'
<1> SUFFICES ASSUME ControlInv, OnceInv, EvidenceInv, [Next]_vars PROVE EvidenceInv'
  OBVIOUS
<1>1. CASE Background \/ UNCHANGED vars
  <2>1. UNCHANGED <<orders, submits, wire, venue, local, seen>>
    BY <1>1 DEF Background, execVars, vars
  <2> QED
    BY <2>1 DEF EvidenceInv, VenueInv, HandEvidence, Closed, Live
<1> QED
  BY <1>1, DispatchEvidence, RecoverEvidence, ReconcileEvidence, CancelEvidence, OtherEvidence,
     VenueEvidence DEF Next

LEMMA EvidenceHolds == Spec => []EvidenceInv
  BY EvidenceInit, EvidenceStep, ControlHolds, OnceHolds, PTL DEF Spec

\* An order that is live at the venue, or may still reach it, is recorded as
\* an order being worked, whatever was lost, repeated or overwritten: a
\* terminal record is only written on evidence that the order is closed, and
\* no second submission can reopen it.
THEOREM LiveIsTracked == Spec => []LiveOrderIsTracked
<1>1. ControlInv /\ OnceInv /\ EvidenceInv => LiveOrderIsTracked
  <2> SUFFICES ASSUME ControlInv, OnceInv, EvidenceInv, NEW o \in Orders, Live(o) \/ wire[o]
               PROVE  orders[o] # NoRow /\ ~IsTerminal(orders[o])
    BY DEF LiveOrderIsTracked
  <2>1. submits[o] > 0
    BY DEF EvidenceInv, VenueInv, Live, NotFound, ControlInv, TypeOK, ExecTypeOK
  <2>2. orders[o] # NoRow
    BY <2>1 DEF OnceInv, WriteAhead, NoRow
  <2>3. ~IsTerminal(orders[o])
    BY DEF EvidenceInv, Closed
  <2> QED
    BY <2>2, <2>3
<1> QED
  BY <1>1, ControlHolds, OnceHolds, EvidenceHolds, PTL

-----------------------------------------------------------------------------
(* What a process writes, and when.                                        *)

\* Process p is in a step that saves record r of order o.
Writes(p, o, r) ==
  \/ /\ pc[p] \in {"d_created", "d_pending", "d_save", "rv_save", "c_save"}
     /\ o = cur[p]
     /\ r = local[p][o]
  \/ /\ pc[p] = "c_request"
     /\ o = cur[p]
     /\ r = Apply(local[p][o], "CancelRequested")
  \/ /\ pc[p] = "rc_save"
     /\ o \in todo[p]
     /\ r = ApplySnapshot(local[p][o], seen[p][o])

ProcessStep(p) ==
  \/ DispatchStep(p)
  \/ RecoverStep(p)
  \/ ReconcileStep(p)
  \/ CancelStep(p)
  \/ Abort(p)
  \/ LifeStep(p)

\* One save by process p, which changes nothing but the row of the order.
Saves(p, o, r) ==
  /\ Writes(p, o, r)
  /\ SaveOrderRecord(p, o, r)
  /\ UNCHANGED <<submits, wire, venue, leaseVars>>

LEMMA OnlyWrites ==
  ASSUME ControlInv, NEW p \in Procs, ProcessStep(p)
  PROVE  orders' = orders \/ \E o \in Orders, r \in Records : Saves(p, o, r)
<1> DEFINE r == local[p][cur[p]]
<1>0. /\ Knows(pc[p], cur[p], local[p], seen[p], todo[p])
      /\ pc[p] \in HandlingSteps => cur[p] \in Orders /\ r \in Records
  BY DEF ControlInv, Knows
<1>1. CASE PersistIntent(p) \/ PersistPending(p) \/ PersistOutcome(p) \/ RecoverSave(p) \/ CancelSave(p)
  <2>1. /\ pc[p] \in {"d_created", "d_pending", "d_save", "rv_save", "c_save"}
        /\ SaveOrderRecord(p, cur[p], r)
        /\ UNCHANGED <<submits, wire, venue, leaseVars>>
    BY <1>1 DEF PersistIntent, PersistPending, PersistOutcome, RecoverSave, CancelSave
  <2>2. cur[p] \in Orders /\ r \in Records
    BY <1>0, <2>1 DEF HandlingSteps, DispatchSteps, CancelHandling
  <2>3. Saves(p, cur[p], r)
    BY <2>1 DEF Saves, Writes
  <2> QED
    BY <2>2, <2>3
<1>2. CASE CancelRequest(p)
  <2> DEFINE n == Apply(r, "CancelRequested")
  <2>1. pc[p] = "c_request" /\ SaveOrderRecord(p, cur[p], n) /\ UNCHANGED <<submits, wire, venue, leaseVars>>
    BY <1>2 DEF CancelRequest
  <2>2. cur[p] \in Orders /\ n \in Records
    BY <1>0, <2>1, RecordUpdates DEF HandlingSteps, CancelHandling, OrderEvents
  <2>3. Saves(p, cur[p], n)
    BY <2>1 DEF Saves, Writes
  <2> QED
    BY <2>2, <2>3
<1>3. ASSUME NEW o \in Orders, ReconcileSave(p, o) PROVE \E n \in Records : Saves(p, o, n)
  <2> DEFINE n == ApplySnapshot(local[p][o], seen[p][o])
  <2>1. local[p][o] \in Records /\ seen[p][o] \in Snapshots
    BY <1>0, <1>3 DEF ReconcileSave, Knows, ControlInv, TypeOK, ExecTypeOK
  <2>2. n \in Records
    BY <2>1, RecordUpdates
  <2>3. Saves(p, o, n)
    BY <1>3 DEF ReconcileSave, Saves, Writes
  <2> QED
    BY <2>2, <2>3
<1>4. CASE DispatchStep(p)
  BY <1>1, <1>4 DEF DispatchStep, Dispatch, CheckBeforeSubmit, Submit, SubmitRefused, SubmitReturns
<1>5. CASE RecoverStep(p)
  BY <1>1, <1>5 DEF RecoverStep, BeginRecover, RecoverLoad, RecoverFind, RecoverDone
<1>6. CASE ReconcileStep(p)
  BY <1>3, <1>6 DEF ReconcileStep, ReconcileAssert, ReconcileLoad, ReconcileOpen, ReconcileFind,
     ReconcileReport, ReconcileConfirm, ReconcileDone
<1>7. CASE CancelStep(p)
  BY <1>1, <1>2, <1>7 DEF CancelStep, BeginEmergency, CancelLoad, CancelOrder, CancelFind,
     CheckBeforeCancel, CancelAcked, CancelLost, CancelResult, CancelDone
<1>8. CASE Abort(p) \/ LifeStep(p)
  BY <1>8 DEF Abort, LifeStep, Boot, Serve, Break, Flattened, Stop, Die
<1> QED
  BY <1>4, <1>5, <1>6, <1>7, <1>8 DEF ProcessStep

\* Only the submission of an order changes what the venue was asked.
LEMMA OnlySends ==
  ASSUME NEW p \in Procs, ProcessStep(p)
  PROVE  UNCHANGED <<submits, wire, venue>> \/ Submit(p) \/ SubmitRefused(p)
<1>1. CASE DispatchStep(p)
  BY <1>1 DEF DispatchStep, Dispatch, PersistIntent, PersistPending, CheckBeforeSubmit, SubmitReturns,
     PersistOutcome
<1>2. CASE RecoverStep(p)
  BY <1>2 DEF RecoverStep, BeginRecover, RecoverLoad, RecoverFind, RecoverSave, RecoverDone
<1>3. CASE ReconcileStep(p)
  BY <1>3 DEF ReconcileStep, ReconcileAssert, ReconcileLoad, ReconcileOpen, ReconcileFind,
     ReconcileReport, ReconcileConfirm, ReconcileSave, ReconcileDone
<1>4. CASE CancelStep(p)
  BY <1>4 DEF CancelStep, BeginEmergency, CancelLoad, CancelOrder, CancelFind, CancelRequest,
     CheckBeforeCancel, CancelAcked, CancelLost, CancelResult, CancelSave, CancelDone
<1>5. CASE Abort(p) \/ LifeStep(p)
  BY <1>5 DEF Abort, LifeStep, Boot, Serve, Break, Flattened, Stop, Die
<1> QED
  BY <1>1, <1>2, <1>3, <1>4, <1>5 DEF ProcessStep

LEMMA NextSteps ==
  ASSUME [Next]_vars
  PROVE  \/ \E p \in Procs : ProcessStep(p)
         \/ \E o \in Orders : VenueStep(o)
         \/ UNCHANGED execVars
  BY DEF Next, ProcessStep, Background, vars, execVars

-----------------------------------------------------------------------------
(* The promise to an order.                                                *)

\* The book and the exposure of one order move as the promise allows.
Promised(o) ==
  \/ BookOf(o)' = BookOf(o) /\ ExposureOf(o)' = ExposureOf(o)
  \/ /\ ExposureOf(o)' = ExposureOf(o)
     /\ \/ BookOf(o) = "none" /\ BookOf(o)' = "intent"
        \/ BookOf(o) = "intent" /\ BookOf(o)' = "working"
        \/ BookOf(o) \in {"working", "closed"} /\ BookOf(o)' = "working"
        \/ BookOf(o) \in {"working", "closed"} /\ BookOf(o)' = "closed" /\ ExposureOf(o) = "closed"
  \/ /\ BookOf(o)' = BookOf(o)
     /\ \/ BookOf(o) = "working" /\ ExposureOf(o) = "none" /\ ExposureOf(o)' \in {"coming", "closed"}
        \/ ExposureOf(o) = "coming" /\ ExposureOf(o)' \in {"live", "closed"}
        \/ ExposureOf(o) = "live" /\ ExposureOf(o)' = "closed"

LEMMA PromisedIsOnceStep ==
  ASSUME NEW o \in Orders, Promised(o),
         \A x \in Orders \ {o} : BookOf(x)' = BookOf(x) /\ ExposureOf(x)' = ExposureOf(x)
  PROVE  [Once!OnceNext]_(Once!onceVars)
<1> DEFINE b == [x \in Orders |-> BookOf(x)]
           e == [x \in Orders |-> ExposureOf(x)]
<1>1. /\ b[o] = BookOf(o) /\ e[o] = ExposureOf(o)
      /\ BookOf(o)' = BookOf(o) => b' = b
      /\ ExposureOf(o)' = ExposureOf(o) => e' = e
      /\ b' = [b EXCEPT ![o] = BookOf(o)']
      /\ e' = [e EXCEPT ![o] = ExposureOf(o)']
  OBVIOUS
<1> HIDE DEF b, e
<1>2. CASE BookOf(o)' = BookOf(o) /\ ExposureOf(o)' = ExposureOf(o)
  BY <1>1, <1>2 DEF Once!onceVars, b, e
<1>3. CASE /\ ExposureOf(o)' = ExposureOf(o)
           /\ \/ BookOf(o) = "none" /\ BookOf(o)' = "intent"
              \/ BookOf(o) = "intent" /\ BookOf(o)' = "working"
              \/ BookOf(o) \in {"working", "closed"} /\ BookOf(o)' = "working"
              \/ BookOf(o) \in {"working", "closed"} /\ BookOf(o)' = "closed" /\ ExposureOf(o) = "closed"
  <2>1. Once!Record(o) \/ Once!Request(o) \/ Once!Update(o)
    BY <1>1, <1>3 DEF Once!Record, Once!Request, Once!Update, b, e
  <2> QED
    BY <2>1 DEF Once!OnceNext
<1>4. CASE /\ BookOf(o)' = BookOf(o)
           /\ \/ BookOf(o) = "working" /\ ExposureOf(o) = "none" /\ ExposureOf(o)' \in {"coming", "closed"}
              \/ ExposureOf(o) = "coming" /\ ExposureOf(o)' \in {"live", "closed"}
              \/ ExposureOf(o) = "live" /\ ExposureOf(o)' = "closed"
  <2>1. Once!Send(o) \/ Once!Settle(o)
    BY <1>1, <1>4 DEF Once!Send, Once!Settle, b, e
  <2> QED
    BY <2>1 DEF Once!OnceNext
<1> QED
  BY <1>2, <1>3, <1>4 DEF Promised

\* A save moves the book of its order as the promise allows: an insert is the
\* intent, an update never goes back to it, and a terminal state is written
\* on evidence only.
LEMMA SavePromised ==
  ASSUME ControlInv, OnceInv, EvidenceInv, EvidenceInv', NEW p \in Procs, NEW o \in Orders,
         NEW r \in Records, Saves(p, o, r)
  PROVE  [Once!OnceNext]_(Once!onceVars)
<1>1. /\ \A x \in Orders : x # o => orders'[x] = orders[x]
      /\ orders'[o].st = r.st
      /\ orders[o] # NoRow => r.st # "Created"
      /\ UNCHANGED <<submits, wire, venue>>
  BY SaveEffect DEF Saves, ControlInv
<1>2. /\ \A x \in Orders : ExposureOf(x)' = ExposureOf(x)
      /\ \A x \in Orders \ {o} : BookOf(x)' = BookOf(x)
  BY <1>1 DEF ExposureOf, BookOf, Live
<1>3. r.st \in OrderStates /\ BookOf(o)' \in {"intent", "working", "closed"}
  BY <1>1 DEF Records, OrderStates, BookOf
<1>4. BookOf(o)' = "closed" =>
        ExposureOf(o) = "closed" /\ orders[o].st \notin {"None", "Created"}
  <2> SUFFICES ASSUME BookOf(o)' = "closed" PROVE ExposureOf(o) = "closed" /\ orders[o].st \notin {"None", "Created"}
    OBVIOUS
  <2>1. IsTerminal(orders'[o])
    BY <1>1 DEF BookOf, IsTerminal
  <2>2. Closed(o)
    BY <1>1, <2>1 DEF EvidenceInv, Closed, Live
  <2>3. submits[o] > 0 /\ submits[o] \in Nat
    BY <2>2 DEF Closed, ControlInv, TypeOK, ExecTypeOK
  <2> QED
    BY <2>2, <2>3 DEF Closed, ExposureOf, OnceInv, WriteAhead
<1>5. CASE pc[p] = "d_created"
  <2>1. r.st = "Created"
    <3>1. r = local[p][cur[p]]
      BY <1>5 DEF Saves, Writes
    <3>2. HandState(pc[p], local[p][cur[p]].st)
      BY DEF ControlInv, Knows
    <3> QED
      BY <1>5, <3>1, <3>2 DEF HandState
  <2>2. orders[o] = NoRow
    BY <1>1, <2>1
  <2>3. BookOf(o) = "none" /\ BookOf(o)' = "intent"
    BY <1>1, <2>1, <2>2 DEF BookOf, NoRow, TerminalStates
  <2> QED
    BY <1>2, <2>3, PromisedIsOnceStep DEF Promised
<1>6. CASE pc[p] # "d_created"
  <2>1. local[p][o] \in Records
    BY <1>6 DEF Saves, Writes, ControlInv, Knows, HandlingSteps, DispatchSteps, CancelHandling
  <2>2. orders[o] # NoRow
    BY <1>6, <2>1 DEF OnceInv, Backed, Records, NoRecord, OrderStates
  <2>3. orders[o] \in Rows /\ r.st # "Created"
    BY <1>1, <2>2 DEF ControlInv, TypeOK, ExecTypeOK
  <2>4. BookOf(o) \in {"intent", "working", "closed"}
    BY <2>3 DEF BookOf, Rows, OrderStates
  <2>5. BookOf(o)' \in {"working", "closed"}
    BY <1>1, <1>3, <2>3 DEF BookOf, OrderStates
  <2>6. BookOf(o)' = "closed" => BookOf(o) \in {"working", "closed"}
    BY <1>4, <2>4 DEF BookOf
  <2>7. Promised(o)
    BY <1>2, <1>4, <2>4, <2>5, <2>6 DEF Promised
  <2> QED
    BY <1>2, <2>7, PromisedIsOnceStep
<1> QED
  BY <1>5, <1>6

\* The submission: the book shows an order being worked, and nothing was sent.
LEMMA SendPromised ==
  ASSUME ControlInv, OnceInv, EvidenceInv, NEW p \in Procs, Submit(p) \/ SubmitRefused(p)
  PROVE  [Once!OnceNext]_(Once!onceVars)
<1>1. PICK o \in Orders : o = cur[p]
  BY DEF Submit, SubmitRefused, ControlInv, Knows, HandlingSteps, DispatchSteps
<1>2. submits[o] = 0 /\ orders[o].st \notin {"None", "Created"}
  <2>1. local[p][o] \in Records /\ pc[p] = "d_submit"
    BY <1>1 DEF Submit, SubmitRefused, ControlInv, Knows, HandlingSteps, DispatchSteps
  <2>2. orders[o] # NoRow /\ orders[o].st # "Created" /\ submits[o] = 0
    BY <1>1, <2>1 DEF OnceInv, Backed, SoleSender, SendingSteps, Records, NoRecord, OrderStates
  <2>3. orders[o].st # "None"
    BY <2>2 DEF ControlInv, TypeOK, ExecTypeOK, Rows, OrderStates
  <2> QED
    BY <2>2, <2>3
<1>3. ~wire[o] /\ venue[o] = NotFound /\ ~IsTerminal(orders[o])
  BY <1>2 DEF EvidenceInv, VenueInv, Closed
<1>t. submits \in [Orders -> Nat] /\ wire \in [Orders -> BOOLEAN]
  BY DEF ControlInv, TypeOK, ExecTypeOK
<1>4. /\ submits' = [submits EXCEPT ![o] = 1] /\ UNCHANGED <<orders, venue>>
      /\ wire' = wire \/ wire' = [wire EXCEPT ![o] = TRUE]
  BY <1>1, <1>2, <1>t DEF Submit, SubmitRefused
<1>5. \A x \in Orders \ {o} : BookOf(x)' = BookOf(x) /\ ExposureOf(x)' = ExposureOf(x)
  BY <1>4, <1>t DEF BookOf, ExposureOf, Live
<1>6. BookOf(o) = "working" /\ BookOf(o)' = "working"
  BY <1>2, <1>3, <1>4 DEF BookOf, IsTerminal
<1>7. ExposureOf(o) = "none" /\ ExposureOf(o)' \in {"coming", "closed"}
  BY <1>2, <1>3, <1>4, <1>t DEF ExposureOf, Live, NotFound
<1> QED
  BY <1>5, <1>6, <1>7, PromisedIsOnceStep DEF Promised

\* The request arrives or is lost, the order fills or is canceled.
LEMMA VenuePromised ==
  ASSUME ControlInv, OnceInv, EvidenceInv, NEW o \in Orders, VenueStep(o)
  PROVE  [Once!OnceNext]_(Once!onceVars)
<1>0. /\ UNCHANGED <<orders, submits>>
      /\ wire \in [Orders -> BOOLEAN] /\ venue \in [Orders -> [st : VenueStates, filled : 0..Qty]]
  BY DEF VenueStep, VenueReceives, RequestLost, VenueFill, VenueCancel, ControlInv, TypeOK, ExecTypeOK
<1>1. CASE VenueReceives(o) \/ RequestLost(o)
  <2>1. /\ wire[o] /\ submits[o] # 0
        /\ wire' = [wire EXCEPT ![o] = FALSE]
        /\ \A x \in Orders : x # o => venue'[x] = venue[x]
    BY <1>0, <1>1 DEF VenueReceives, RequestLost, EvidenceInv, VenueInv
  <2>2. ExposureOf(o) = "coming" /\ ExposureOf(o)' \in {"live", "closed"}
    BY <1>0, <2>1 DEF ExposureOf
  <2>3. \A x \in Orders \ {o} : ExposureOf(x)' = ExposureOf(x)
    BY <1>0, <2>1 DEF ExposureOf, Live
  <2>4. \A x \in Orders : BookOf(x)' = BookOf(x)
    BY <1>0 DEF BookOf
  <2> QED
    BY <2>2, <2>3, <2>4, PromisedIsOnceStep DEF Promised
<1>2. CASE VenueFill(o) \/ VenueCancel(o)
  <2>1. /\ Live(o) /\ wire' = wire
        /\ \A x \in Orders : x # o => venue'[x] = venue[x]
    BY <1>0, <1>2 DEF VenueFill, VenueCancel, MayFill, Live, VenueStates
  <2>2. submits[o] # 0 /\ ~wire[o]
    BY <2>1 DEF EvidenceInv, VenueInv, Live, NotFound
  <2>3. ExposureOf(o) = "live" /\ ExposureOf(o)' \in {"live", "closed"}
    BY <1>0, <2>1, <2>2 DEF ExposureOf
  <2>4. \A x \in Orders \ {o} : ExposureOf(x)' = ExposureOf(x)
    BY <1>0, <2>1 DEF ExposureOf, Live
  <2>5. \A x \in Orders : BookOf(x)' = BookOf(x)
    BY <1>0 DEF BookOf
  <2> QED
    BY <2>3, <2>4, <2>5, PromisedIsOnceStep DEF Promised
<1> QED
  BY <1>1, <1>2 DEF VenueStep

LEMMA OnceOnlyStep ==
  ASSUME ControlInv, OnceInv, EvidenceInv, [Next]_vars
  PROVE  [Once!OnceNext]_(Once!onceVars)
<1>1. EvidenceInv'
  BY EvidenceStep
<1>2. ASSUME UNCHANGED <<orders, submits, wire, venue>> PROVE [Once!OnceNext]_(Once!onceVars)
  <2>1. /\ [x \in Orders |-> BookOf(x)]' = [x \in Orders |-> BookOf(x)]
        /\ [x \in Orders |-> ExposureOf(x)]' = [x \in Orders |-> ExposureOf(x)]
    BY <1>2 DEF BookOf, ExposureOf, Live
  <2> QED
    BY <2>1 DEF Once!onceVars
<1>3. ASSUME NEW p \in Procs, ProcessStep(p) PROVE [Once!OnceNext]_(Once!onceVars)
  <2>1. CASE orders' = orders /\ UNCHANGED <<submits, wire, venue>>
    BY <1>2, <2>1
  <2>2. CASE Submit(p) \/ SubmitRefused(p)
    BY <2>2, SendPromised
  <2>3. ASSUME NEW o \in Orders, NEW r \in Records, Saves(p, o, r) PROVE [Once!OnceNext]_(Once!onceVars)
    BY <1>1, <2>3, SavePromised
  <2> QED
    BY <1>3, <2>1, <2>2, <2>3, OnlyWrites, OnlySends
<1>4. CASE UNCHANGED execVars
  BY <1>2, <1>4 DEF execVars
<1> QED
  BY <1>3, <1>4, VenuePromised, NextSteps

\* Durable execution keeps the promise of OnceOnly to every order, for any
\* number of processes and orders and with any crashes, takeovers, releases
\* and lost messages: the exposure starts once, after it was recorded, and the
\* record is closed only when the exposure is.
THEOREM KeepsThePromise == Spec => ImplementsOnceOnly
<1>1. Init => Once!OnceInit
  <2> SUFFICES ASSUME Init PROVE Once!OnceInit
    OBVIOUS
  <2>1. \A o \in Orders : BookOf(o) = "none" /\ ExposureOf(o) = "none"
    BY DEF Init, BookOf, ExposureOf, NoRow, TerminalStates
  <2> QED
    BY <2>1 DEF Once!OnceInit
<1>2. ControlInv /\ OnceInv /\ EvidenceInv /\ [Next]_vars => [Once!OnceNext]_(Once!onceVars)
  BY OnceOnlyStep
<1> QED
  BY <1>1, <1>2, ControlHolds, OnceHolds, EvidenceHolds, PTL DEF Spec, ImplementsOnceOnly, Once!OnceSpec

-----------------------------------------------------------------------------
(* Fencing of the order table, while no lease row is deleted.              *)

\* The stored token counts the tenures; a process holds the token of its
\* tenure, or none; the newest token belongs to the holder of the row, and no
\* two running processes share one.
HolderInv ==
  /\ lease.token = tenure
  /\ \A p \in Procs : tok[p] = mine[p] /\ tok[p] <= lease.token
  /\ \A p \in Procs : Up(p) /\ tok[p] = lease.token => lease.holder = p
  /\ \A p, q \in Procs : Up(p) /\ Up(q) /\ tok[p] = tok[q] => p = q

LEMMA HolderInit == LeaseInit => HolderInv
  BY DEF LeaseInit, HolderInv, NoLease, Up

LEMMA HolderStep ==
  ASSUME LeaseTypeOK, HolderInv, ~MayRelease, [LeaseNext]_leaseVars
  PROVE  HolderInv' /\ lease.token <= lease'.token
<1> USE LeaseAssumption DEF LeaseTypeOK
<1>1. ASSUME NEW p \in Procs, AcquireLease(p) PROVE HolderInv' /\ lease.token <= lease'.token
  <2>1. /\ lease' = [holder |-> p, token |-> tenure', left |-> Ttl]
        /\ tok' = [tok EXCEPT ![p] = tenure'] /\ mine' = [mine EXCEPT ![p] = tenure']
        /\ mode[p] = "down" /\ mode' = [mode EXCEPT ![p] = "starting"]
        /\ tenure' = IF lease.holder = p THEN tenure ELSE tenure + 1
    <3>1. AcquiredToken(p) = tenure'
      BY <1>1 DEF AcquireLease, AcquiredToken, NoLease, HolderInv
    <3> QED
      BY <1>1, <3>1 DEF AcquireLease
  <2>2. \A q \in Procs \ {p} : Up(q) => tok[q] < tenure'
    BY <2>1 DEF HolderInv
  <2>3. tenure' >= tenure /\ tenure' \in Nat
    BY <2>1
  <2>4. \A q \in Procs \ {p} : tok'[q] = tok[q] /\ mine'[q] = mine[q] /\ (Up(q)' <=> Up(q))
    BY <2>1 DEF Up
  <2> QED
    BY <2>1, <2>2, <2>3, <2>4 DEF HolderInv
<1>2. ASSUME NEW p \in Procs, Crash(p) PROVE HolderInv' /\ lease.token <= lease'.token
  BY <1>2 DEF Crash, HolderInv, Up
<1>3. ASSUME lease'.token = lease.token, lease'.holder = lease.holder, UNCHANGED <<tok, tenure, mine>>,
             \A p \in Procs : Up(p)' => Up(p)
      PROVE  HolderInv' /\ lease.token <= lease'.token
  BY <1>3 DEF HolderInv
<1>4. ASSUME NEW p \in Procs, RenewLease(p) PROVE HolderInv' /\ lease.token <= lease'.token
  BY <1>3, <1>4 DEF RenewLease, Up
<1>5. ASSUME NEW p \in Procs,
             SpawnHeartbeat(p) \/ RenewError(p) \/ ObserveLost(p) \/ Shutdown(p) \/ StopHeartbeat(p)
      PROVE  HolderInv' /\ lease.token <= lease'.token
  BY <1>3, <1>5 DEF SpawnHeartbeat, RenewError, ObserveLost, Shutdown, StopHeartbeat, Up
<1>6. CASE TimePasses \/ UNCHANGED leaseVars
  BY <1>3, <1>6 DEF TimePasses, leaseVars, Up
<1> QED
  BY <1>1, <1>2, <1>4, <1>5, <1>6 DEF LeaseNext, ReleaseLease

\* A row carries the token and the tenure of its writer, no newer than the
\* stored token.
RowsFenced ==
  \A o \in Orders : orders[o].tok = orders[o].by /\ orders[o].tok <= lease.token

FencedInv == HolderInv /\ RowsFenced

LEMMA FencedInit == Init => FencedInv
  BY HolderInit DEF Init, FencedInv, RowsFenced, NoRow, LeaseInit, NoLease

\* A save needs a token no smaller than the stored one, and leaves its own.
LEMMA SaveFenced ==
  ASSUME ControlInv, NEW p \in Procs, NEW o \in Orders, NEW r \in Records, SaveOrderRecord(p, o, r)
  PROVE  /\ \A x \in Orders : x # o => orders'[x] = orders[x]
         /\ orders'[o].tok = tok[p] /\ orders'[o].by = mine[p] /\ orders'[o].st = r.st
         /\ orders[o].tok <= tok[p]
  BY DEF SaveOrderRecord, MaySave, ControlInv, TypeOK, LeaseTypeOK, ExecTypeOK, Rows, NoRow

LEMMA FencedStep ==
  ASSUME ControlInv, FencedInv, ~MayRelease, [Next]_vars
  PROVE  FencedInv' /\ (\A o \in Orders : orders[o].by <= orders'[o].by)
<1>1. HolderInv' /\ lease.token <= lease'.token
  BY NextIsLeaseStep, HolderStep DEF ControlInv, TypeOK, FencedInv
<1>t. lease.token \in Nat /\ lease'.token \in Nat /\ \A o \in Orders : orders[o].tok \in Nat /\ orders[o].by \in Nat
  <2>1. LeaseTypeOK /\ LeaseTypeOK' /\ ExecTypeOK
    BY NextIsLeaseStep, LeaseTypeStep DEF ControlInv, TypeOK
  <2> QED
    BY <2>1 DEF LeaseTypeOK, ExecTypeOK, Rows, NoRow
<1>2. ASSUME orders' = orders PROVE RowsFenced' /\ (\A o \in Orders : orders[o].by <= orders'[o].by)
  BY <1>1, <1>2, <1>t DEF FencedInv, RowsFenced
<1>3. ASSUME NEW p \in Procs, NEW o \in Orders, NEW r \in Records, Saves(p, o, r)
      PROVE  RowsFenced' /\ (\A x \in Orders : orders[x].by <= orders'[x].by)
  <2>1. /\ \A x \in Orders : x # o => orders'[x] = orders[x]
        /\ orders'[o].tok = tok[p] /\ orders'[o].by = mine[p]
        /\ orders[o].tok <= tok[p]
    BY <1>3, SaveFenced DEF Saves
  <2>2. tok[p] = mine[p] /\ tok[p] <= lease.token /\ lease' = lease /\ tok[p] \in Nat
    BY <1>3 DEF Saves, leaseVars, FencedInv, HolderInv, ControlInv, TypeOK, LeaseTypeOK
  <2>3. \A x \in Orders : orders[x].tok = orders[x].by /\ orders[x].tok <= lease.token
    BY DEF FencedInv, RowsFenced
  <2> QED
    BY <2>1, <2>2, <2>3, <1>t DEF RowsFenced
<1>4. ASSUME NEW p \in Procs, ProcessStep(p)
      PROVE  RowsFenced' /\ (\A x \in Orders : orders[x].by <= orders'[x].by)
  BY <1>2, <1>3, <1>4, OnlyWrites
<1>5. CASE (\E o \in Orders : VenueStep(o)) \/ UNCHANGED execVars
  BY <1>1, <1>2, <1>5 DEF FencedInv, VenueStep, VenueReceives, RequestLost, VenueFill, VenueCancel, execVars
<1> QED
  BY <1>1, <1>4, <1>5, NextSteps DEF FencedInv

\* The lease holder is never fenced off from its own table, unless lease rows
\* are deleted: release_lease restarts the tokens, and rows of an earlier
\* tenure then carry greater ones.
THEOREM HolderMayWrite == ~MayRelease => (Spec => []ActiveHolderMayWrite)
<1> SUFFICES ASSUME ~MayRelease PROVE Spec => []ActiveHolderMayWrite
  OBVIOUS
<1>1. ControlInv /\ FencedInv /\ [Next]_vars => FencedInv'
  BY FencedStep
<1>2. FencedInv => ActiveHolderMayWrite
  BY DEF FencedInv, RowsFenced, ActiveHolderMayWrite, Valid
<1> QED
  BY <1>1, <1>2, FencedInit, ControlHolds, PTL DEF Spec

\* No process overwrites a record that a later tenure wrote, unless lease rows
\* are deleted.
THEOREM NoStaleOverwrite == ~MayRelease => (Spec => StaleNeverOverwrites)
<1> SUFFICES ASSUME ~MayRelease PROVE Spec => StaleNeverOverwrites
  OBVIOUS
<1>1. ControlInv /\ FencedInv /\ [Next]_vars => FencedInv'
  BY FencedStep
<1>2. ControlInv /\ FencedInv /\ [Next]_vars => [\A o \in Orders : orders[o].by <= orders'[o].by]_vars
  BY FencedStep
<1> QED
  BY <1>1, <1>2, FencedInit, ControlHolds, PTL DEF Spec, StaleNeverOverwrites

-----------------------------------------------------------------------------
(* A process that does anything is running.                                *)

AliveInv == \A p \in Procs : pc[p] = "off" <=> ~Up(p)

\* Every step of a process is taken by a running one, or starts it, and no
\* operation ends in the process being off.
LEMMA WorkingSteps ==
  ASSUME ControlInv, NEW p \in Procs,
         DispatchStep(p) \/ RecoverStep(p) \/ ReconcileStep(p) \/ CancelStep(p) \/ Abort(p)
  PROVE  /\ pc[p] # "off" /\ pc'[p] # "off"
         /\ \A q \in Procs \ {p} : /\ pc'[q] = pc[q] /\ cur'[q] = cur[q] /\ local'[q] = local[q]
                                   /\ seen'[q] = seen[q] /\ todo'[q] = todo[q]
         /\ UNCHANGED leaseVars
<1>t. pc \in [Procs -> Steps] /\ Caller(p) # "off"
  BY CallerSteps DEF ControlInv, TypeOK, ExecTypeOK
<1> USE DEF Goto, Finish, SetLocal
<1>1. CASE DispatchStep(p)
  BY <1>1, <1>t DEF DispatchStep, Dispatch, PersistIntent, PersistPending, CheckBeforeSubmit,
     Submit, SubmitRefused, SubmitReturns, PersistOutcome, ControlInv, TypeOK, ExecTypeOK
<1>2. CASE RecoverStep(p)
  BY <1>2, <1>t DEF RecoverStep, BeginRecover, RecoverLoad, RecoverFind, RecoverSave, RecoverDone,
     ControlInv, TypeOK, ExecTypeOK
<1>3. CASE ReconcileStep(p)
  BY <1>3, <1>t DEF ReconcileStep, ReconcileAssert, ReconcileLoad, ReconcileOpen, ReconcileFind,
     ReconcileReport, ReconcileConfirm, ReconcileSave, ReconcileDone, ControlInv, TypeOK, ExecTypeOK
<1>4. CASE CancelStep(p)
  BY <1>4, <1>t DEF CancelStep, BeginEmergency, CancelLoad, CancelOrder, CancelEntry, CancelFind,
     CancelRequest, CheckBeforeCancel, CancelAcked, CancelLost, CancelResult, CancelSave, NextCancel,
     CancelDone, ControlInv, TypeOK, ExecTypeOK
<1>5. CASE Abort(p)
  BY <1>5, <1>t DEF Abort, NextCancel, DispatchSteps, RecoverSteps, ReconcileSteps, CancelSteps,
     ControlInv, TypeOK, ExecTypeOK
<1> QED
  BY <1>1, <1>2, <1>3, <1>4, <1>5

\* The life of a process around its operations; its token changes only when it
\* starts or ends.
LEMMA LifeSteps ==
  ASSUME ControlInv, AliveInv, NEW p \in Procs, LifeStep(p)
  PROVE  /\ pc'[p] \in {"off", "boot", "idle", "c_load", "stopped"}
         /\ pc'[p] = "off" <=> ~Up(p)'
         /\ \A q \in Procs \ {p} : /\ pc'[q] = pc[q] /\ cur'[q] = cur[q] /\ local'[q] = local[q]
                                   /\ seen'[q] = seen[q] /\ todo'[q] = todo[q]
                                   /\ tok'[q] = tok[q] /\ mode'[q] = mode[q]
         /\ UNCHANGED <<orders, submits, wire, venue>>
<1> USE DEF ControlInv, TypeOK, LeaseTypeOK, ExecTypeOK, AliveInv, Up, Goto
<1>1. CASE Boot(p)
  BY <1>1 DEF Boot, AcquireLease
<1>2. CASE Serve(p)
  BY <1>2 DEF Serve, SpawnHeartbeat
<1>3. CASE Break(p)
  BY <1>3 DEF Break, ObserveLost, Shutdown
<1>4. CASE Flattened(p)
  BY <1>4 DEF Flattened, leaseVars
<1>5. CASE Stop(p)
  BY <1>5 DEF Stop, StopHeartbeat, ReleaseLease
<1>6. CASE Die(p)
  BY <1>6 DEF Die, Crash, Finish
<1> QED
  BY <1>1, <1>2, <1>3, <1>4, <1>5, <1>6 DEF LifeStep

LEMMA BackgroundSteps ==
  ASSUME ControlInv, [Next]_vars, ~\E p \in Procs : ProcessStep(p)
  PROVE  /\ UNCHANGED <<orders, pc, cur, local, seen, todo, tok, mode>>
         /\ lease'.token = lease.token /\ lease'.holder = lease.holder
<1>1. ASSUME NEW o \in Orders, VenueStep(o)
      PROVE  UNCHANGED <<orders, pc, cur, local, seen, todo, tok, mode, lease>>
  BY <1>1 DEF VenueStep, VenueReceives, RequestLost, VenueFill, VenueCancel, leaseVars
<1>2. CASE UNCHANGED vars
  BY <1>2 DEF vars, leaseVars, execVars
<1>3. CASE Background
  BY <1>3 DEF Background, execVars, RenewLease, RenewError, TimePasses, ControlInv, TypeOK, LeaseTypeOK
<1> QED
  BY <1>1, <1>2, <1>3 DEF Next, ProcessStep

LEMMA AliveStep == ControlInv /\ AliveInv /\ [Next]_vars => AliveInv'
<1> SUFFICES ASSUME ControlInv, AliveInv, [Next]_vars PROVE AliveInv'
  OBVIOUS
<1>1. ASSUME NEW p \in Procs, ProcessStep(p), ~LifeStep(p) PROVE AliveInv'
  BY <1>1, WorkingSteps DEF ProcessStep, AliveInv, Up, leaseVars
<1>2. ASSUME NEW p \in Procs, LifeStep(p) PROVE AliveInv'
  <2>1. \A q \in Procs \ {p} : pc'[q] = pc[q] /\ mode'[q] = mode[q]
    BY <1>2, LifeSteps
  <2>2. pc'[p] = "off" <=> ~Up(p)'
    BY <1>2, LifeSteps
  <2> QED
    BY <2>1, <2>2 DEF AliveInv, Up
<1>3. CASE ~\E p \in Procs : ProcessStep(p)
  BY <1>3, BackgroundSteps DEF AliveInv, Up
<1> QED
  BY <1>1, <1>2, <1>3 DEF ProcessStep

LEMMA AliveHolds == Spec => []AliveInv
<1>1. Init => AliveInv
  BY DEF Init, LeaseInit, AliveInv, Up
<1> QED
  BY <1>1, AliveStep, ControlHolds, PTL DEF Spec

-----------------------------------------------------------------------------
(* Nothing terminal is resurrected within a tenure.                        *)

Reconciling == {"rc_open", "rc_find", "rc_confirm", "rc_save"}

\* In step s, with order c in hand and the orders t to visit, a process may
\* still write a row of order o that exists.
MayStillWrite(s, c, t, o) ==
  \/ s \in DispatchSteps \ {"d_created"} /\ c = o
  \/ s \in {"rv_find", "rv_save"} /\ o \in t
  \/ s \in {"c_next"} \cup CancelHandling /\ o \in t
  \/ s \in CancelHandling /\ c = o
  \/ s \in {"rc_open", "rc_find", "rc_confirm"}
  \/ s = "rc_save" /\ o \in t

\* An order whose terminal row was written in the tenure of p, and that p may
\* still write, is one that p is reconciling and knows to be terminal.
Fresh(p, o) ==
  IsTerminal(orders[o]) /\ orders[o].tok = tok[p] /\ MayStillWrite(pc[p], cur[p], todo[p], o)
    => pc[p] \in Reconciling /\ local[p][o].st = orders[o].st

FreshInv == \A p \in Procs, o \in Orders : Fresh(p, o)

\* It is enough to look at the process that moved: a row it wrote carries its
\* own token, which no other running process has.
LEMMA FreshKept ==
  ASSUME ControlInv, FencedInv, AliveInv, FreshInv, NEW p \in Procs, pc[p] # "off",
         tok' = tok,
         \A q \in Procs \ {p} : pc'[q] = pc[q] /\ cur'[q] = cur[q] /\ local'[q] = local[q] /\ todo'[q] = todo[q],
         \A o \in Orders : orders'[o] = orders[o] \/ orders'[o].tok = tok[p],
         \A o \in Orders : Fresh(p, o)'
  PROVE  FreshInv'
<1> SUFFICES ASSUME NEW q \in Procs, NEW o \in Orders, q # p PROVE Fresh(q, o)'
  BY DEF FreshInv
<1>1. CASE orders'[o] = orders[o]
  BY <1>1 DEF FreshInv, Fresh
<1>2. CASE orders'[o].tok = tok[p]
  <2>1. SUFFICES ASSUME tok[q] = tok[p], MayStillWrite(pc[q], cur[q], todo[q], o) PROVE FALSE
    BY <1>2 DEF Fresh
  <2>2. pc[q] # "off"
    BY <2>1 DEF MayStillWrite, DispatchSteps, CancelHandling
  <2> QED
    BY <2>1, <2>2 DEF AliveInv, FencedInv, HolderInv
<1> QED
  BY <1>1, <1>2

\* A step of p that saves nothing.
LEMMA FreshWithoutSave ==
  ASSUME ControlInv, FreshInv, NEW p \in Procs, orders' = orders, tok' = tok,
         \A o \in Orders : MayStillWrite(pc'[p], cur'[p], todo'[p], o) =>
           \/ ~IsTerminal(orders[o])
           \/ MayStillWrite(pc[p], cur[p], todo[p], o) /\ pc[p] \notin Reconciling
           \/ /\ MayStillWrite(pc[p], cur[p], todo[p], o)
              /\ pc'[p] \in Reconciling /\ local'[p] = local[p]
           \/ pc'[p] \in Reconciling /\ local'[p][o].st = orders[o].st
  PROVE  \A o \in Orders : Fresh(p, o)'
  BY DEF FreshInv, Fresh

\* A step of p that saves order o: it will not write it again, or the row is
\* not terminal.
LEMMA FreshWithSave ==
  ASSUME ControlInv, FreshInv, NEW p \in Procs, NEW o \in Orders, NEW r \in Records,
         SaveOrderRecord(p, o, r), tok' = tok, local'[p] = local[p] \/ pc'[p] \notin Reconciling,
         ~IsTerminal(r) \/ ~MayStillWrite(pc'[p], cur'[p], todo'[p], o),
         \A x \in Orders \ {o} : MayStillWrite(pc'[p], cur'[p], todo'[p], x) =>
           /\ MayStillWrite(pc[p], cur[p], todo[p], x)
           /\ pc'[p] \in Reconciling <=> pc[p] \in Reconciling
  PROVE  \A x \in Orders : Fresh(p, x)'
<1>1. /\ \A x \in Orders : x # o => orders'[x] = orders[x]
      /\ orders'[o].st = r.st
  BY SaveFenced
<1>2. Fresh(p, o)'
  BY <1>1 DEF Fresh, IsTerminal
<1>3. ASSUME NEW x \in Orders \ {o} PROVE Fresh(p, x)'
  BY <1>1 DEF FreshInv, Fresh
<1> QED
  BY <1>2, <1>3

LEMMA DispatchFresh ==
  ASSUME ControlInv, FreshInv, NEW p \in Procs, DispatchStep(p), tok' = tok
  PROVE  \A o \in Orders : Fresh(p, o)'
<1> DEFINE r == local[p][cur[p]]
<1>0. pc[p] \in DispatchSteps => cur[p] \in Orders /\ r \in Records
  BY DEF ControlInv, Knows, HandlingSteps
<1>t. pc \in [Procs -> Steps] /\ cur \in [Procs -> Orders \cup {NoOrder}] /\ todo \in [Procs -> SUBSET Orders]
  BY DEF ControlInv, TypeOK, ExecTypeOK
<1> USE DEF MayStillWrite, Reconciling, DispatchSteps, CancelHandling
<1>1. ASSUME NEW o \in Orders, Dispatch(p, o) PROVE \A x \in Orders : Fresh(p, x)'
  <2>1. pc'[p] = "d_created" /\ orders' = orders
    BY <1>1, <1>t DEF Dispatch, Goto
  <2> QED
    BY <2>1, FreshWithoutSave
<1>2. CASE PersistIntent(p) \/ PersistPending(p)
  <2>1. /\ pc[p] \in {"d_created", "d_pending"} /\ SaveOrderRecord(p, cur[p], r)
        /\ pc'[p] \in {"d_pending", "d_check"} /\ cur'[p] = cur[p] /\ todo'[p] = todo[p]
    BY <1>2, <1>t DEF PersistIntent, PersistPending, Goto
  <2>2. cur[p] \in Orders /\ r \in Records /\ ~IsTerminal(r)
    BY <1>0, <2>1 DEF ControlInv, Knows, HandState, SendingSteps, IsTerminal, TerminalStates
  <2>3. /\ pc'[p] \notin Reconciling
        /\ \A x \in Orders \ {cur[p]} : ~MayStillWrite(pc'[p], cur'[p], todo'[p], x)
    BY <2>1
  <2> HIDE DEF MayStillWrite, Reconciling
  <2> QED
    BY <2>1, <2>2, <2>3, FreshWithSave
<1>3. CASE CheckBeforeSubmit(p) \/ Submit(p) \/ SubmitRefused(p)
           \/ \E ev \in {"Accepted", "Rejected", "LostState"} : SubmitReturns(p, ev)
  <2>1. /\ pc[p] \in {"d_check", "d_submit", "d_wait"} /\ pc'[p] \in {"d_submit", "d_wait", "d_save"}
        /\ cur'[p] = cur[p] /\ orders' = orders
    BY <1>3, <1>t DEF CheckBeforeSubmit, Submit, SubmitRefused, SubmitReturns, Goto
  <2> QED
    BY <2>1, FreshWithoutSave
<1>4. CASE PersistOutcome(p)
  <2>1. pc'[p] \in {"ready", "idle", "flatten"}
    BY <1>4, <1>t, CallerSteps DEF PersistOutcome, Finish, Goto
  <2> QED
    BY <2>1 DEF Fresh
<1> QED
  BY <1>1, <1>2, <1>3, <1>4 DEF DispatchStep

LEMMA RecoverFresh ==
  ASSUME ControlInv, FreshInv, NEW p \in Procs, RecoverStep(p), tok' = tok
  PROVE  \A o \in Orders : Fresh(p, o)'
<1>0. /\ pc[p] = "rv_save" => cur[p] \in Orders /\ local[p][cur[p]] \in Records
  BY DEF ControlInv, Knows, HandlingSteps
<1>t. pc \in [Procs -> Steps] /\ cur \in [Procs -> Orders \cup {NoOrder}] /\ todo \in [Procs -> SUBSET Orders]
  BY DEF ControlInv, TypeOK, ExecTypeOK
<1> USE DEF MayStillWrite, Reconciling, DispatchSteps, CancelHandling
<1>1. CASE BeginRecover(p) \/ RecoverDone(p)
  <2>1. pc'[p] \in {"rv_load", "rc_assert"}
    BY <1>1, <1>t DEF BeginRecover, RecoverDone, Finish, Goto
  <2> QED
    BY <2>1 DEF Fresh
<1>2. CASE RecoverLoad(p)
  <2>1. pc'[p] = "rv_find" /\ todo'[p] = {o \in Orders : orders[o].st \in AmbiguousStates} /\ orders' = orders
    BY <1>2, <1>t DEF RecoverLoad, Goto
  <2>2. \A o \in todo'[p] : ~IsTerminal(orders[o])
    BY <2>1 DEF AmbiguousStates, IsTerminal, TerminalStates
  <2> QED
    BY <2>1, <2>2, FreshWithoutSave
<1>3. ASSUME NEW o \in Orders, RecoverFind(p, o) PROVE \A x \in Orders : Fresh(p, x)'
  <2>1. pc[p] = "rv_find" /\ pc'[p] = "rv_save" /\ todo'[p] = todo[p] /\ orders' = orders
    BY <1>3, <1>t DEF RecoverFind, Goto
  <2> QED
    BY <2>1, FreshWithoutSave
<1>4. CASE RecoverSave(p)
  <2>1. /\ pc[p] = "rv_save" /\ SaveOrderRecord(p, cur[p], local[p][cur[p]])
        /\ pc'[p] = "rv_find" /\ todo'[p] = todo[p] \ {cur[p]}
    BY <1>4, <1>t DEF RecoverSave, Goto
  <2>2. /\ pc'[p] \notin Reconciling /\ pc[p] \notin Reconciling
        /\ ~MayStillWrite(pc'[p], cur'[p], todo'[p], cur[p])
        /\ \A x \in Orders \ {cur[p]} :
             MayStillWrite(pc'[p], cur'[p], todo'[p], x) => MayStillWrite(pc[p], cur[p], todo[p], x)
    BY <2>1
  <2> HIDE DEF MayStillWrite, Reconciling
  <2> QED
    BY <1>0, <2>1, <2>2, FreshWithSave
<1> QED
  BY <1>1, <1>2, <1>3, <1>4 DEF RecoverStep

LEMMA ReconcileFresh ==
  ASSUME ControlInv, FreshInv, NEW p \in Procs, ReconcileStep(p), tok' = tok
  PROVE  \A o \in Orders : Fresh(p, o)'
<1>0. Knows(pc[p], cur[p], local[p], seen[p], todo[p])
  BY DEF ControlInv
<1>t. /\ pc \in [Procs -> Steps] /\ todo \in [Procs -> SUBSET Orders]
      /\ local \in [Procs -> [Orders -> Records \cup {NoRecord}]]
      /\ seen \in [Procs -> [Orders -> Snapshots \cup {NotFound}]]
  BY DEF ControlInv, TypeOK, ExecTypeOK
<1> USE DEF MayStillWrite, Reconciling, DispatchSteps, CancelHandling
<1>1. CASE ReconcileAssert(p) \/ ReconcileDone(p)
  <2>1. pc'[p] \in {"rc_load", "ready", "idle", "flatten"}
    BY <1>1, <1>t, CallerSteps DEF ReconcileAssert, ReconcileDone, Finish, Goto
  <2> QED
    BY <2>1 DEF Fresh
<1>2. CASE ReconcileLoad(p)
  <2>1. pc'[p] = "rc_open" /\ orders' = orders /\ local'[p] = Loaded
    BY <1>2, <1>t DEF ReconcileLoad, Goto
  <2>2. \A o \in Orders : local'[p][o].st = orders[o].st
    BY <2>1 DEF Loaded, RecordOf
  <2> QED
    BY <2>1, <2>2, FreshWithoutSave
<1>3. ASSUME pc[p] \in {"rc_open", "rc_find", "rc_confirm"}, pc'[p] \in Reconciling,
             UNCHANGED <<orders, local>>
      PROVE  \A o \in Orders : Fresh(p, o)'
  BY <1>3, FreshWithoutSave
<1>4. CASE ReconcileOpen(p) \/ (\E o \in Orders : ReconcileFind(p, o)) \/ ReconcileConfirm(p)
  BY <1>3, <1>4, <1>t DEF ReconcileOpen, ReconcileFind, ReconcileConfirm, Goto
<1>5. ASSUME NEW clean \in BOOLEAN, ReconcileReport(p, clean) PROVE \A o \in Orders : Fresh(p, o)'
  <2>1. CASE Goto(p, "rc_confirm") /\ UNCHANGED local
    BY <1>3, <1>5, <1>t, <2>1 DEF ReconcileReport, Goto
  <2>2. CASE Finish(p, Caller(p))
    <3>1. pc'[p] \in {"ready", "idle", "flatten"}
      BY <1>t, <2>2, CallerSteps DEF Finish, Goto
    <3> QED
      BY <3>1 DEF Fresh
  <2> QED
    BY <1>5, <2>1, <2>2 DEF ReconcileReport
<1>6. ASSUME NEW o \in Orders, ReconcileSave(p, o) PROVE \A x \in Orders : Fresh(p, x)'
  <2> DEFINE n == ApplySnapshot(local[p][o], seen[p][o])
  <2>1. n \in Records
    <3>1. local[p][o] \in Records /\ seen[p][o] \in Snapshots
      BY <1>0, <1>6, <1>t DEF ReconcileSave, Knows
    <3> QED
      BY <3>1, RecordUpdates
  <2>2. /\ pc[p] = "rc_save" /\ pc'[p] = "rc_save" /\ SaveOrderRecord(p, o, n)
        /\ todo'[p] = todo[p] \ {o} /\ local'[p] = local[p]
    BY <1>6, <1>t DEF ReconcileSave
  <2>3. /\ ~MayStillWrite(pc'[p], cur'[p], todo'[p], o)
        /\ \A x \in Orders \ {o} : MayStillWrite(pc'[p], cur'[p], todo'[p], x) =>
             /\ MayStillWrite(pc[p], cur[p], todo[p], x)
             /\ pc'[p] \in Reconciling <=> pc[p] \in Reconciling
    BY <2>2
  <2> HIDE DEF n, MayStillWrite, Reconciling
  <2> QED
    BY <2>1, <2>2, <2>3, FreshWithSave
<1> QED
  BY <1>1, <1>2, <1>4, <1>5, <1>6 DEF ReconcileStep

LEMMA CancelFresh ==
  ASSUME ControlInv, FreshInv, NEW p \in Procs, CancelStep(p), tok' = tok
  PROVE  \A o \in Orders : Fresh(p, o)'
<1> DEFINE r == local[p][cur[p]]
<1>0. pc[p] \in CancelHandling => cur[p] \in Orders /\ r \in Records /\ cur[p] \notin todo[p]
  BY DEF ControlInv, Knows, HandlingSteps
<1>t. pc \in [Procs -> Steps] /\ cur \in [Procs -> Orders \cup {NoOrder}] /\ todo \in [Procs -> SUBSET Orders]
  BY DEF ControlInv, TypeOK, ExecTypeOK
<1> USE DEF MayStillWrite, Reconciling, DispatchSteps, CancelHandling
<1>1. CASE BeginEmergency(p) \/ CancelDone(p)
  <2>1. pc'[p] \in {"c_load", "rc_assert", "stopped"}
    BY <1>1, <1>t DEF BeginEmergency, CancelDone, Finish, Goto
  <2> QED
    BY <2>1 DEF Fresh
<1>2. CASE CancelLoad(p)
  <2>1. /\ pc'[p] = "c_next" /\ orders' = orders
        /\ todo'[p] = {o \in Orders : orders[o] # NoRow /\ ~IsTerminal(orders[o])}
    BY <1>2, <1>t DEF CancelLoad, Goto
  <2> QED
    BY <2>1, FreshWithoutSave
<1>3. ASSUME NEW o \in Orders, CancelOrder(p, o) PROVE \A x \in Orders : Fresh(p, x)'
  <2>1. /\ pc[p] = "c_next" /\ o \in todo[p] /\ todo'[p] = todo[p] \ {o} /\ orders' = orders
        /\ pc'[p] \in {"c_next", "c_find", "c_request", "c_check"}
        /\ pc'[p] # "c_next" => cur'[p] = o
    BY <1>3, <1>t DEF CancelOrder, CancelEntry, Goto
  <2> QED
    BY <2>1, FreshWithoutSave
<1>4. CASE CancelFind(p) \/ CheckBeforeCancel(p) \/ CancelAcked(p) \/ CancelLost(p) \/ CancelResult(p)
  <2>1. /\ pc[p] \in CancelHandling /\ pc'[p] \in CancelHandling
        /\ cur'[p] = cur[p] /\ todo'[p] = todo[p] /\ orders' = orders
    BY <1>4, <1>t DEF CancelFind, CheckBeforeCancel, CancelAcked, CancelLost, CancelResult, Goto
  <2> QED
    BY <2>1, FreshWithoutSave
<1>5. CASE CancelRequest(p)
  <2> DEFINE n == Apply(r, "CancelRequested")
  <2>1. cur[p] \in Orders /\ r \in Records
    BY <1>0, <1>5 DEF CancelRequest
  <2>2. n \in Records /\ ~IsTerminal(n)
    BY <2>1, RecordUpdates DEF OrderEvents, AfterEvent, IsTerminal, TerminalStates
  <2>3. /\ pc[p] = "c_request" /\ pc'[p] = "c_check" /\ cur'[p] = cur[p] /\ todo'[p] = todo[p]
        /\ SaveOrderRecord(p, cur[p], n)
    BY <1>5, <1>t DEF CancelRequest, Goto
  <2>4. /\ pc'[p] \notin Reconciling /\ pc[p] \notin Reconciling
        /\ \A x \in Orders \ {cur[p]} :
             MayStillWrite(pc'[p], cur'[p], todo'[p], x) => MayStillWrite(pc[p], cur[p], todo[p], x)
    BY <2>3
  <2> HIDE DEF n, MayStillWrite, Reconciling
  <2> QED
    BY <2>1, <2>2, <2>3, <2>4, FreshWithSave
<1>6. CASE CancelSave(p)
  <2>1. /\ pc[p] = "c_save" /\ SaveOrderRecord(p, cur[p], r)
        /\ pc'[p] = "c_next" /\ todo'[p] = todo[p]
    BY <1>6, <1>t DEF CancelSave, NextCancel, Goto
  <2>2. cur[p] \in Orders /\ r \in Records /\ cur[p] \notin todo[p]
    BY <1>0, <2>1
  <2>3. /\ pc'[p] \notin Reconciling /\ pc[p] \notin Reconciling
        /\ ~MayStillWrite(pc'[p], cur'[p], todo'[p], cur[p])
        /\ \A x \in Orders \ {cur[p]} :
             MayStillWrite(pc'[p], cur'[p], todo'[p], x) => MayStillWrite(pc[p], cur[p], todo[p], x)
    BY <2>1, <2>2
  <2> HIDE DEF MayStillWrite, Reconciling
  <2> QED
    BY <2>1, <2>2, <2>3, FreshWithSave
<1> QED
  BY <1>1, <1>2, <1>3, <1>4, <1>5, <1>6 DEF CancelStep

LEMMA AbortFresh ==
  ASSUME ControlInv, FreshInv, NEW p \in Procs, Abort(p), tok' = tok
  PROVE  \A o \in Orders : Fresh(p, o)'
<1>t. pc \in [Procs -> Steps] /\ todo \in [Procs -> SUBSET Orders] /\ orders' = orders
  BY DEF Abort, ControlInv, TypeOK, ExecTypeOK
<1>1. CASE pc[p] \in CancelHandling /\ NextCancel(p)
  <2>1. pc'[p] = "c_next" /\ todo'[p] = todo[p]
    BY <1>1, <1>t DEF NextCancel, Goto
  <2> QED
    BY <1>1, <1>t, <2>1, FreshWithoutSave DEF MayStillWrite, Reconciling, DispatchSteps, CancelHandling
<1>2. ASSUME NEW s \in {"ready", "idle", "flatten", "stopped", "rc_assert"}, Finish(p, s)
      PROVE  \A o \in Orders : Fresh(p, o)'
  <2>1. pc'[p] = s
    BY <1>2, <1>t DEF Finish, Goto
  <2> QED
    BY <2>1 DEF Fresh, MayStillWrite, DispatchSteps, CancelHandling
<1> QED
  BY <1>1, <1>2, CallerSteps DEF Abort, CancelSteps, CancelHandling

LEMMA FreshStep ==
  ASSUME ControlInv, FencedInv, AliveInv, FreshInv, [Next]_vars
  PROVE  FreshInv'
<1>1. ASSUME NEW p \in Procs, ProcessStep(p), ~LifeStep(p) PROVE FreshInv'
  <2>1. /\ pc[p] # "off" /\ tok' = tok
        /\ \A q \in Procs \ {p} : pc'[q] = pc[q] /\ cur'[q] = cur[q] /\ local'[q] = local[q] /\ todo'[q] = todo[q]
    BY <1>1, WorkingSteps DEF ProcessStep, leaseVars
  <2>2. \A o \in Orders : orders'[o] = orders[o] \/ orders'[o].tok = tok[p]
    BY <1>1, OnlyWrites, SaveFenced DEF Saves
  <2>3. \A o \in Orders : Fresh(p, o)'
    BY <1>1, <2>1, DispatchFresh, RecoverFresh, ReconcileFresh, CancelFresh, AbortFresh DEF ProcessStep
  <2> QED
    BY <2>1, <2>2, <2>3, FreshKept
<1>2. ASSUME NEW p \in Procs, LifeStep(p) PROVE FreshInv'
  <2>1. \A o \in Orders : Fresh(p, o)'
    BY <1>2, LifeSteps DEF Fresh, MayStillWrite, DispatchSteps, CancelHandling
  <2>2. ASSUME NEW q \in Procs \ {p}, NEW o \in Orders PROVE Fresh(q, o)'
    BY <1>2, LifeSteps DEF FreshInv, Fresh
  <2> QED
    BY <2>1, <2>2 DEF FreshInv
<1>3. CASE ~\E p \in Procs : ProcessStep(p)
  BY <1>3, BackgroundSteps DEF FreshInv, Fresh
<1> QED
  BY <1>1, <1>2, <1>3 DEF ProcessStep

\* A record that reached Filled, Canceled or Rejected is not taken out of that
\* state by the tenure that wrote it: the loops never come back to an order
\* they have closed, and reconciliation refuses a snapshot that contradicts a
\* terminal record.
THEOREM TerminalStays == ~MayRelease => (Spec => TerminalSticky)
<1> SUFFICES ASSUME ~MayRelease PROVE Spec => TerminalSticky
  OBVIOUS
<1> DEFINE Stays == \A o \in Orders : IsTerminal(orders[o]) /\ orders'[o].st # orders[o].st
                                        => orders'[o].by > orders[o].by
<1>1. Init => FreshInv
  BY DEF Init, FreshInv, Fresh, NoRow, IsTerminal, TerminalStates
<1>2. ControlInv /\ FencedInv /\ AliveInv /\ FreshInv /\ [Next]_vars => FencedInv' /\ FreshInv'
  BY FencedStep, FreshStep
<1>3. ControlInv /\ FencedInv /\ AliveInv /\ FreshInv /\ [Next]_vars => [Stays]_vars
  <2> SUFFICES ASSUME ControlInv, FencedInv, FreshInv, [Next]_vars,
                      NEW o \in Orders, IsTerminal(orders[o]), orders'[o].st # orders[o].st
               PROVE  orders'[o].by > orders[o].by
    BY DEF Stays
  <2>1. PICK p \in Procs, r \in Records : Saves(p, o, r)
    <3>1. PICK p \in Procs : ProcessStep(p)
      BY BackgroundSteps
    <3>2. PICK x \in Orders, r \in Records : Saves(p, x, r)
      BY <3>1, OnlyWrites
    <3>3. x = o
      BY <3>2, SaveFenced DEF Saves
    <3> QED
      BY <3>2, <3>3
  <2>2. /\ orders'[o].by = mine[p] /\ orders'[o].st = r.st /\ orders[o].tok <= tok[p]
        /\ tok[p] = mine[p] /\ orders[o].by = orders[o].tok
        /\ orders[o].tok \in Nat /\ tok[p] \in Nat
    <3>1. orders[o].tok \in Nat /\ tok[p] \in Nat
      BY DEF ControlInv, TypeOK, LeaseTypeOK, ExecTypeOK, Rows, NoRow
    <3> QED
      BY <2>1, <3>1, SaveFenced DEF Saves, FencedInv, HolderInv, RowsFenced
  <2>3. SUFFICES ASSUME orders[o].tok = tok[p] PROVE FALSE
    BY <2>2
  <2>4. Knows(pc[p], cur[p], local[p], seen[p], todo[p])
    BY DEF ControlInv
  <2>5. pc[p] # "d_created"
    <3> SUFFICES ASSUME pc[p] = "d_created" PROVE FALSE
      OBVIOUS
    <3>1. r.st = "Created"
      BY <2>1, <2>4 DEF Saves, Writes, Knows, HandState
    <3>2. orders[o] = NoRow
      BY <2>1, <3>1, SaveEffect DEF Saves, ControlInv
    <3> QED
      BY <3>2 DEF NoRow, IsTerminal, TerminalStates
  <2>6. MayStillWrite(pc[p], cur[p], todo[p], o)
    BY <2>1, <2>4, <2>5 DEF Saves, Writes, Knows, MayStillWrite, DispatchSteps, CancelHandling
  <2>7. pc[p] \in Reconciling /\ local[p][o].st = orders[o].st
    BY <2>3, <2>6 DEF FreshInv, Fresh
  <2>8. pc[p] = "rc_save" /\ o \in todo[p] /\ r = ApplySnapshot(local[p][o], seen[p][o])
    BY <2>1, <2>7 DEF Saves, Writes, Reconciling
  <2>9. ValidSnapshot(local[p][o], seen[p][o])
    BY <2>4, <2>8 DEF Knows, Matches
  <2> QED
    BY <2>2, <2>7, <2>8, <2>9 DEF ValidSnapshot, ApplySnapshot, IsTerminal
<1> HIDE DEF Stays
<1>4. Spec => [][Stays]_vars
  BY <1>1, <1>2, <1>3, FencedInit, ControlHolds, AliveHolds, PTL DEF Spec
<1> QED
  BY <1>4 DEF TerminalSticky, Stays

-----------------------------------------------------------------------------
(* A clean report means that nothing is on its way.                        *)

\* The order is, or is about to be, on its way to the venue.
Coming(o) == wire[o] \/ \E q \in Procs : pc[q] = "d_submit" /\ cur[q] = o

\* The lease holder that reconciles has a record of every such order: what
\* was sent, or was about to be, was saved before the records were loaded,
\* and nobody without the lease gets as far as a submission afterwards.
KnownInv ==
  \A p \in Procs, o \in Orders :
    Valid(p) /\ pc[p] \in Reconciling /\ Coming(o) => local[p][o].st \notin {"None", "Created"}

\* A process gets into reconciliation by loading the records, and keeps them.
LEMMA EntersByLoading ==
  ASSUME ControlInv, NEW p \in Procs, ProcessStep(p), pc'[p] \in Reconciling
  PROVE  ReconcileLoad(p) \/ (pc[p] \in Reconciling /\ local'[p] = local[p])
<1>t. pc \in [Procs -> Steps]
  BY DEF ControlInv, TypeOK, ExecTypeOK
<1> USE DEF Goto, Reconciling
<1>1. CASE DispatchStep(p)
  BY <1>1, <1>t, CallerSteps DEF DispatchStep, Dispatch, PersistIntent, PersistPending, CheckBeforeSubmit,
     Submit, SubmitRefused, SubmitReturns, PersistOutcome, Finish
<1>2. CASE RecoverStep(p)
  BY <1>2, <1>t DEF RecoverStep, BeginRecover, RecoverLoad, RecoverFind, RecoverSave, RecoverDone, Finish
<1>3. CASE ReconcileStep(p)
  BY <1>3, <1>t, CallerSteps DEF ReconcileStep, ReconcileAssert, ReconcileOpen, ReconcileFind,
     ReconcileReport, ReconcileConfirm, ReconcileSave, ReconcileDone, Finish
<1>4. CASE CancelStep(p)
  BY <1>4, <1>t DEF CancelStep, BeginEmergency, CancelLoad, CancelOrder, CancelEntry, CancelFind,
     CancelRequest, CheckBeforeCancel, CancelAcked, CancelLost, CancelResult, CancelSave, NextCancel,
     CancelDone, Finish
<1>5. CASE Abort(p)
  BY <1>5, <1>t, CallerSteps DEF Abort, NextCancel, Finish
<1>6. CASE LifeStep(p)
  BY <1>6, <1>t DEF LifeStep, Boot, Serve, Break, Flattened, Stop, Die, Finish
<1> QED
  BY <1>1, <1>2, <1>3, <1>4, <1>5, <1>6 DEF ProcessStep

\* A process gets to its submission through the fresh lease check only.
LEMMA EntersByCheck ==
  ASSUME ControlInv, NEW p \in Procs, ProcessStep(p), pc'[p] = "d_submit"
  PROVE  pc[p] = "d_check" /\ Valid(p) /\ UNCHANGED <<wire, leaseVars>>
<1>t. pc \in [Procs -> Steps]
  BY DEF ControlInv, TypeOK, ExecTypeOK
<1> USE DEF Goto
<1>1. CASE DispatchStep(p)
  BY <1>1, <1>t, CallerSteps DEF DispatchStep, Dispatch, PersistIntent, PersistPending, CheckBeforeSubmit,
     Submit, SubmitRefused, SubmitReturns, PersistOutcome, Finish
<1>2. CASE RecoverStep(p)
  BY <1>2, <1>t DEF RecoverStep, BeginRecover, RecoverLoad, RecoverFind, RecoverSave, RecoverDone, Finish
<1>3. CASE ReconcileStep(p)
  BY <1>3, <1>t, CallerSteps DEF ReconcileStep, ReconcileAssert, ReconcileLoad, ReconcileOpen, ReconcileFind,
     ReconcileReport, ReconcileConfirm, ReconcileSave, ReconcileDone, Finish
<1>4. CASE CancelStep(p)
  BY <1>4, <1>t DEF CancelStep, BeginEmergency, CancelLoad, CancelOrder, CancelEntry, CancelFind,
     CancelRequest, CheckBeforeCancel, CancelAcked, CancelLost, CancelResult, CancelSave, NextCancel,
     CancelDone, Finish
<1>5. CASE Abort(p)
  BY <1>5, <1>t, CallerSteps DEF Abort, NextCancel, Finish
<1>6. CASE LifeStep(p)
  BY <1>6, <1>t DEF LifeStep, Boot, Serve, Break, Flattened, Stop, Die, Finish
<1> QED
  BY <1>1, <1>2, <1>3, <1>4, <1>5, <1>6 DEF ProcessStep

\* While a lease holder reconciles, no other order gets on its way.
LEMMA NothingNewComing ==
  ASSUME ControlInv, AliveInv, [Next]_vars, NEW p \in Procs, Valid(p), pc'[p] \in Reconciling,
         NEW o \in Orders, Coming(o)'
  PROVE  Coming(o)
<1>1. ASSUME NEW q \in Procs, ProcessStep(q) PROVE Coming(o)
  <2>1. ASSUME NEW x \in Procs, x # q, pc'[x] = "d_submit", cur'[x] = o PROVE Coming(o)
    <3>1. pc[x] = pc'[x] /\ cur[x] = cur'[x]
      BY <1>1, <2>1, WorkingSteps, LifeSteps DEF ProcessStep
    <3> QED
      BY <2>1, <3>1 DEF Coming
  <2>2. pc'[q] # "d_submit"
    <3> SUFFICES ASSUME pc'[q] = "d_submit" PROVE FALSE
      OBVIOUS
    <3>1. Valid(q)
      BY <1>1, EntersByCheck
    <3>2. p = q
      BY <3>1 DEF Valid
    <3> QED
      BY <3>2 DEF Reconciling
  <2>3. ASSUME wire'[o] PROVE Coming(o)
    <3>1. CASE UNCHANGED wire
      BY <2>3, <3>1 DEF Coming
    <3>2. CASE Submit(q) /\ ~wire[o]
      <4>1. wire' = [wire EXCEPT ![cur[q]] = TRUE] /\ pc[q] = "d_submit"
        BY <3>2 DEF Submit
      <4>2. cur[q] = o
        BY <2>3, <3>2, <4>1 DEF ControlInv, TypeOK, ExecTypeOK
      <4> QED
        BY <4>1, <4>2 DEF Coming
    <3>3. CASE SubmitRefused(q)
      BY <2>3, <3>3 DEF SubmitRefused, Coming
    <3>4. CASE wire[o]
      BY <3>4 DEF Coming
    <3> QED
      BY <1>1, <3>1, <3>2, <3>3, <3>4, OnlySends
  <2> QED
    BY <2>1, <2>2, <2>3 DEF Coming
<1>2. CASE ~\E q \in Procs : ProcessStep(q)
  <2>1. UNCHANGED <<pc, cur>>
    BY <1>2, BackgroundSteps
  <2>2. wire'[o] => wire[o]
    <3>1. ASSUME NEW x \in Orders, VenueStep(x) PROVE wire'[o] => wire[o]
      BY <3>1 DEF VenueStep, VenueReceives, RequestLost, VenueFill, VenueCancel, ControlInv, TypeOK, ExecTypeOK
    <3>2. CASE UNCHANGED execVars
      BY <3>2 DEF execVars
    <3> QED
      BY <1>2, <3>1, <3>2, NextSteps
  <2> QED
    BY <2>1, <2>2 DEF Coming
<1> QED
  BY <1>1, <1>2

LEMMA KnownStep ==
  ASSUME ControlInv, OnceInv, EvidenceInv, AliveInv, KnownInv, [Next]_vars, AliveInv'
  PROVE  KnownInv'
<1> SUFFICES ASSUME NEW p \in Procs, NEW o \in Orders, Valid(p)', pc'[p] \in Reconciling, Coming(o)'
             PROVE  local'[p][o].st \notin {"None", "Created"}
  BY DEF KnownInv
<1>1. ReconcileLoad(p) \/ (pc[p] \in Reconciling /\ local'[p] = local[p])
  <2>1. CASE ProcessStep(p)
    BY <2>1, EntersByLoading
  <2>2. ASSUME NEW q \in Procs, ProcessStep(q), q # p PROVE pc[p] = pc'[p] /\ local'[p] = local[p]
    BY <2>2, WorkingSteps, LifeSteps DEF ProcessStep
  <2>3. CASE ~\E q \in Procs : ProcessStep(q)
    BY <2>3, BackgroundSteps
  <2> QED
    BY <2>1, <2>2, <2>3
<1>2. Up(p) /\ Up(p)'
  BY <1>1 DEF AliveInv, Reconciling, ReconcileLoad
<1>3. Valid(p)
  BY <1>2, StaysInvalid, NextIsLeaseStep DEF ControlInv, TypeOK
<1>4. Coming(o)
  BY <1>3, NothingNewComing
<1>5. CASE pc[p] \in Reconciling /\ local'[p] = local[p]
  BY <1>3, <1>4, <1>5 DEF KnownInv
<1>6. CASE ReconcileLoad(p)
  <2>1. orders[o].st \notin {"None", "Created"}
    <3>1. CASE wire[o]
      <4>1. submits[o] > 0
        BY <3>1 DEF EvidenceInv, VenueInv, ControlInv, TypeOK, ExecTypeOK
      <4> QED
        BY <4>1 DEF OnceInv, WriteAhead
    <3>2. ASSUME NEW q \in Procs, pc[q] = "d_submit", cur[q] = o PROVE orders[o].st \notin {"None", "Created"}
      <4>1. local[q][o] \in Records
        BY <3>2 DEF ControlInv, Knows, HandlingSteps, DispatchSteps
      <4>2. orders[o] # NoRow /\ orders[o].st # "Created"
        BY <3>2, <4>1 DEF OnceInv, Backed, SoleSender, Records, NoRecord, OrderStates
      <4> QED
        BY <4>2 DEF ControlInv, TypeOK, ExecTypeOK, Rows, OrderStates
    <3> QED
      BY <1>4, <3>1, <3>2 DEF Coming
  <2>2. local'[p][o].st = orders[o].st
    BY <1>6 DEF ReconcileLoad, Loaded, RecordOf, ControlInv, TypeOK, ExecTypeOK
  <2> QED
    BY <2>1, <2>2
<1> QED
  BY <1>1, <1>5, <1>6

\* While the lease holder acts on a clean report, no request is on its way to
\* the venue and no process is about to send one: a daemon that starts to
\* serve after reconcile_once takes over no submission in flight.
THEOREM CleanReportIsClean == Spec => []CleanMeansNothingPending
<1>1. Init => KnownInv
  BY DEF Init, KnownInv, Reconciling
<1>2. ControlInv /\ OnceInv /\ EvidenceInv /\ AliveInv /\ AliveInv' /\ KnownInv /\ [Next]_vars => KnownInv'
  BY KnownStep
<1>3. ControlInv /\ OnceInv /\ EvidenceInv /\ KnownInv => CleanMeansNothingPending
  <2> SUFFICES ASSUME ControlInv, OnceInv, EvidenceInv, KnownInv, NEW p \in Procs,
                      pc[p] \in {"rc_confirm", "rc_save"}, Valid(p)
               PROVE  (\A o \in Orders : ~wire[o]) /\ (\A q \in Procs : pc[q] # "d_submit")
    BY DEF CleanMeansNothingPending
  <2>1. ASSUME NEW o \in Orders, Coming(o) PROVE FALSE
    <3>1. local[p][o].st \notin {"None", "Created"}
      BY <2>1 DEF KnownInv, Reconciling
    <3>2. submits[o] = 0 \/ wire[o]
      BY <2>1 DEF Coming, OnceInv, SoleSender, SendingSteps
    <3>3. ~IsTerminal(local[p][o])
      BY <3>2 DEF EvidenceInv, HandEvidence, Closed
    <3>4. Matches(local[p][o], seen[p][o])
      BY DEF ControlInv, Knows
    <3>5. seen[p][o] # NotFound
      BY <3>1, <3>3, <3>4 DEF Matches, NoRecord
    <3>6. venue[o].st # "Absent"
      BY <3>5 DEF EvidenceInv, HandEvidence
    <3> QED
      BY <3>2, <3>6 DEF EvidenceInv, VenueInv, NotFound
  <2>2. \A q \in Procs : pc[q] = "d_submit" => cur[q] \in Orders
    BY DEF ControlInv, Knows, HandlingSteps, DispatchSteps
  <2> QED
    BY <2>1, <2>2 DEF Coming
<1> QED
  BY <1>1, <1>2, <1>3, ControlHolds, OnceHolds, EvidenceHolds, AliveHolds, PTL DEF Spec
=============================================================================
