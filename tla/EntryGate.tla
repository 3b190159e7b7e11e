----------------------------- MODULE EntryGate -----------------------------
(***************************************************************************)
(* Who may add exposure: the admission state of the real-venue daemon      *)
(* (pg-core live_daemon), with the EntryGuard, the StartupChecklist of     *)
(* pg-runtime, the SubscriptionSupervisor of pg-marketdata and the risk    *)
(* gate of pg-risk.                                                        *)
(*                                                                         *)
(* The daemon is one select! loop; every branch runs to its end before the *)
(* next one is taken, so each is one action.  What the branches meet (a    *)
(* reconcile report, a universe refresh, a reload, a feed, an operator)    *)
(* may come in any order and with any outcome.                             *)
(***************************************************************************)
CONSTANTS
  Feeds,      \* feed specs some strategy may subscribe to
  AutoStart   \* PG_AUTO_START

ASSUME GateAssumption == AutoStart \in BOOLEAN

VARIABLES
  liveMode,    \* TRUE: PG_RUN_MODE=live; FALSE: paper
  dynamic,     \* dynamic_enabled: the registry had dynamic templates at startup
  running,     \* the event loop is running
  started,     \* trading_started
  halt,        \* operator_halt
  allow,       \* risk_limits.allow_new_exposure
  blocked,     \* EntryGuard: a topology_blocker is set
  reconClean,  \* EntryGuard: reconcile_clean
  gates,       \* StartupChecklist: the gates that change after startup
  hold,        \* runtime_pins.safe_hold contains the traded asset
  subscribed,  \* the feeds of the supervisor
  status,      \* SubscriptionState of each feed
  fatal,       \* feeds with a FeedFatal waiting in the channel
  restart,     \* history: a reload found the template mode changed
  sent         \* history: what the last step dispatched

settings == <<liveMode, dynamic>>
vars == <<settings, running, started, halt, allow, blocked, reconClean, gates,
          hold, subscribed, status, fatal, restart, sent>>

Gates == {"MarketDataSynchronized", "OwnershipReconciled", "UnknownStateClear"}
FeedStates == {"Connected", "Reconnecting", "Stale", "Failed"}
Effects == {"none", "Increase", "ReduceOnly"}

TypeOK ==
  /\ liveMode \in BOOLEAN
  /\ dynamic \in BOOLEAN
  /\ running \in BOOLEAN
  /\ started \in BOOLEAN
  /\ halt \in BOOLEAN
  /\ allow \in BOOLEAN
  /\ blocked \in BOOLEAN
  /\ reconClean \in BOOLEAN
  /\ gates \in [Gates -> BOOLEAN]
  /\ hold \in BOOLEAN
  /\ subscribed \in SUBSET Feeds
  /\ status \in [Feeds -> FeedStates]
  /\ fatal \in SUBSET Feeds
  /\ restart \in BOOLEAN
  /\ sent \in Effects

-----------------------------------------------------------------------------
(* StartupChecklist, EntryGuard and supervisor queries.                    *)

\* required_gates: paper needs no reconciled ownership and no resolved orders.
RequiredGates == IF liveMode THEN Gates ELSE {"MarketDataSynchronized"}

ReadyFor(g) == \A gate \in RequiredGates : g[gate]

AllConnected(fs, st) == fs # {} /\ \A f \in fs : st[f] = "Connected"

Ready(bl, rc, g) == ~bl /\ rc /\ ReadyFor(g)

MayIncrease(on, bl, rc, g, fs, st) ==
  on /\ AllConnected(fs, st) /\ Ready(bl, rc, g)

\* apply_derived_feeds: a feed that was not subscribed starts Reconnecting.
DerivedStatus(fs) ==
  [f \in Feeds |-> IF f \in fs \cap subscribed THEN status[f] ELSE "Reconnecting"]

-----------------------------------------------------------------------------
\* The state serve reaches before its loop: startup recovery and
\* reconciliation were clean or not, fills were ingested or not.
Startup(clean, resolved, ingested) ==
  [gates |-> [gate \in Gates |->
                CASE gate = "OwnershipReconciled" -> clean /\ ingested
                  [] gate = "UnknownStateClear" -> resolved /\ ingested
                  [] OTHER -> FALSE],
   entry |-> clean /\ ingested /\ resolved]

Init ==
  /\ liveMode \in BOOLEAN
  /\ dynamic \in BOOLEAN
  /\ running = TRUE
  /\ \E clean, resolved, ingested \in BOOLEAN :
       LET s == Startup(clean, resolved, ingested)
       IN  /\ gates = s.gates
           /\ reconClean = s.entry
           /\ started = (AutoStart /\ s.entry)
  /\ halt = FALSE
  /\ allow = FALSE
  /\ blocked = FALSE
  /\ hold \in BOOLEAN
  /\ subscribed \in (SUBSET Feeds) \ {{}}
  /\ status = [f \in Feeds |-> "Reconnecting"]
  /\ fatal = {}
  /\ restart = FALSE
  /\ sent = "none"

-----------------------------------------------------------------------------
(* Market events.                                                          *)

\* Mutant: the risk gate is not asked in paper mode.
MaySubmitInPaper(effect) ==
  effect = "Increase" => ~hold /\ (liveMode => allow)

\* submit_intent: SAFE_HOLD and evaluate_order refuse an Increase.
MaySubmit(effect) ==
  effect = "Increase" => ~hold /\ allow

\* An event marks its feed connected and is routed to the strategies, which
\* may submit at most what the gates admit; a halted daemon skips them all.
MarketEvent(f) ==
  /\ running
  /\ status' = [status EXCEPT ![f] = IF f \in subscribed THEN "Connected" ELSE @]
  /\ sent' \in {"none"} \cup
       {e \in {"Increase", "ReduceOnly"} : ~halt /\ MaySubmit(e)}
  /\ UNCHANGED <<running, started, halt, allow, blocked, reconClean, gates, hold,
                 subscribed, fatal, restart, settings>>

\* The task of a feed used up its reconnect budget.
FeedGivesUp(f) ==
  /\ running
  /\ f \in subscribed
  /\ fatal' = fatal \cup {f}
  /\ sent' = "none"
  /\ UNCHANGED <<running, started, halt, allow, blocked, reconClean, gates, hold,
                 subscribed, status, restart, settings>>

\* Mutant: the exposure is not paused while the feed is restarted.
FeedFatalKeepsTrading(f) ==
  /\ running
  /\ f \in fatal
  /\ fatal' = fatal \ {f}
  /\ status' = [status EXCEPT ![f] = IF f \in subscribed THEN "Reconnecting" ELSE @]
  /\ sent' = "none"
  /\ UNCHANGED <<running, started, halt, allow, blocked, reconClean, gates, hold,
                 subscribed, restart, settings>>

\* The loop takes the FeedFatal: mark_failed, then restart_failed, which
\* leaves an unsubscribed feed alone.
FeedFatal(f) ==
  /\ running
  /\ f \in fatal
  /\ fatal' = fatal \ {f}
  /\ allow' = FALSE
  /\ status' = [status EXCEPT ![f] = IF f \in subscribed THEN "Reconnecting" ELSE @]
  /\ sent' = "none"
  /\ UNCHANGED <<running, started, halt, blocked, reconClean, gates, hold,
                 subscribed, restart, settings>>

-----------------------------------------------------------------------------
(* Timers.                                                                 *)

\* Mutant: a clean reconciliation lifts the topology pause.
ReconcileTickUnblocks(clean) ==
  /\ running
  /\ gates' = IF clean
                THEN [gates EXCEPT !["OwnershipReconciled"] = TRUE,
                                   !["UnknownStateClear"] = TRUE]
                ELSE [gates EXCEPT !["OwnershipReconciled"] = FALSE]
  /\ hold' \in IF clean THEN BOOLEAN ELSE {hold, TRUE}
  /\ reconClean' = clean
  /\ blocked' = (blocked /\ ~clean)
  /\ allow' = (~halt /\ MayIncrease(started, blocked', clean, gates', subscribed, status))
  /\ sent' = "none"
  /\ UNCHANGED <<running, started, halt, subscribed, status, fatal, restart, settings>>

\* One reconcile cycle over every venue with fill ingestion and position
\* views: a clean one passes both gates and replaces the safe holds; one
\* that is not clean only adds safe holds and fails one gate.
ReconcileTick(clean) ==
  /\ running
  /\ gates' = IF clean
                THEN [gates EXCEPT !["OwnershipReconciled"] = TRUE,
                                   !["UnknownStateClear"] = TRUE]
                ELSE [gates EXCEPT !["OwnershipReconciled"] = FALSE]
  /\ hold' \in IF clean THEN BOOLEAN ELSE {hold, TRUE}
  /\ reconClean' = clean
  /\ allow' = (~halt /\ MayIncrease(started, blocked, clean, gates', subscribed, status))
  /\ sent' = "none"
  /\ UNCHANGED <<running, started, halt, blocked, subscribed, status, fatal, restart, settings>>

\* Mutant: the market-data gate is only ever failed, never passed again.
HealthTickLatches(quiet) ==
  /\ running
  /\ status' = [f \in Feeds |->
                  IF f \in quiet \cap subscribed /\ status[f] # "Failed"
                    THEN "Stale" ELSE status[f]]
  /\ gates' = [gates EXCEPT !["MarketDataSynchronized"] =
                 @ /\ AllConnected(subscribed, status')]
  /\ allow' = (~halt /\ MayIncrease(started, blocked, reconClean, gates', subscribed, status'))
  /\ sent' = "none"
  /\ UNCHANGED <<running, started, halt, blocked, reconClean, hold, subscribed,
                 fatal, restart, settings>>

\* refresh_staleness marks feeds without recent events, then every gate is
\* evaluated again.
HealthTick(quiet) ==
  /\ running
  /\ status' = [f \in Feeds |->
                  IF f \in quiet \cap subscribed /\ status[f] # "Failed"
                    THEN "Stale" ELSE status[f]]
  /\ gates' = [gates EXCEPT !["MarketDataSynchronized"] =
                 AllConnected(subscribed, status')]
  /\ allow' = (~halt /\ MayIncrease(started, blocked, reconClean, gates', subscribed, status'))
  /\ sent' = "none"
  /\ UNCHANGED <<running, started, halt, blocked, reconClean, hold, subscribed,
                 fatal, restart, settings>>

\* New feeds are validated and handed to the feed tasks.  A failure comes
\* before the supervisor took them (no feeds, a feed that is not supported)
\* or after it (a feed task that cannot be spawned).
ApplyTopology(fs, ok) ==
  /\ blocked' = ~ok
  /\ \/ /\ fs # {}
        /\ subscribed' = fs
        /\ status' = DerivedStatus(fs)
     \/ /\ ~ok
        /\ UNCHANGED <<subscribed, status>>

\* The universe tick of a daemon with dynamic templates: refresh, then apply.
UniverseTick(refreshed, fs, ok) ==
  /\ running
  /\ dynamic
  /\ allow' = FALSE
  /\ IF refreshed
       THEN ApplyTopology(fs, ok)
       ELSE blocked' = TRUE /\ UNCHANGED <<subscribed, status>>
  /\ sent' = "none"
  /\ UNCHANGED <<running, started, halt, reconClean, gates, hold, fatal, restart, settings>>

-----------------------------------------------------------------------------
(* Operators.                                                              *)

\* A reload pauses exposure.  A rejected one may have changed part of the
\* registry; one that changes the template mode asks for a restart; with
\* static strategies the new feeds are applied at once; with dynamic ones
\* the pause lasts until a universe tick.
Reload(accepted, mode, fs, ok) ==
  /\ running
  /\ allow' = FALSE
  /\ IF accepted /\ mode = dynamic /\ ~dynamic
       THEN ApplyTopology(fs, ok)
       ELSE blocked' = TRUE /\ UNCHANGED <<subscribed, status>>
  /\ restart' = IF accepted THEN mode # dynamic ELSE restart
  /\ sent' = "none"
  /\ UNCHANGED <<running, started, halt, reconClean, gates, hold, fatal, settings>>

OperatorStop ==
  /\ running
  /\ started' = FALSE
  /\ allow' = FALSE
  /\ sent' = "none"
  /\ UNCHANGED <<running, halt, blocked, reconClean, gates, hold, subscribed,
                 status, fatal, restart, settings>>

\* Mutant: Start does not ask whether an emergency exit halted the daemon.
OperatorStartAnyway ==
  /\ running
  /\ AllConnected(subscribed, status)
  /\ Ready(blocked, reconClean, gates)
  /\ started' = TRUE
  /\ allow' = MayIncrease(TRUE, blocked, reconClean, gates, subscribed, status)
  /\ sent' = "none"
  /\ UNCHANGED <<running, halt, blocked, reconClean, gates, hold, subscribed,
                 status, fatal, restart, settings>>

OperatorStart ==
  /\ running
  /\ ~halt
  /\ AllConnected(subscribed, status)
  /\ Ready(blocked, reconClean, gates)
  /\ started' = TRUE
  /\ allow' = MayIncrease(TRUE, blocked, reconClean, gates, subscribed, status)
  /\ sent' = "none"
  /\ UNCHANGED <<running, halt, blocked, reconClean, gates, hold, subscribed,
                 status, fatal, restart, settings>>

\* EmergencyExit halts for good, then cancels and flattens what the
\* strategies own; the flattening orders reduce only.
EmergencyExit ==
  /\ running
  /\ halt' = TRUE
  /\ started' = FALSE
  /\ allow' = FALSE
  /\ sent' \in {"none", "ReduceOnly"}
  /\ UNCHANGED <<running, blocked, reconClean, gates, hold, subscribed, status,
                 fatal, restart, settings>>

\* The loop breaks: the lease is lost, a signal, or no event senders left.
\* apply_shutdown_policy may flatten what the strategies own.
LoopBreaks ==
  /\ running
  /\ running' = FALSE
  /\ started' = FALSE
  /\ allow' = FALSE
  /\ sent' \in {"none", "ReduceOnly"}
  /\ UNCHANGED <<halt, blocked, reconClean, gates, hold, subscribed, status,
                 fatal, restart, settings>>

-----------------------------------------------------------------------------
EventStep == \E f \in Feeds : MarketEvent(f) \/ FeedGivesUp(f) \/ FeedFatal(f)

TimerStep ==
  \/ \E clean \in BOOLEAN : ReconcileTick(clean)
  \/ \E quiet \in SUBSET Feeds : HealthTick(quiet)
  \/ \E refreshed, ok \in BOOLEAN, fs \in SUBSET Feeds : UniverseTick(refreshed, fs, ok)

OperatorStep ==
  \/ \E accepted, mode, ok \in BOOLEAN, fs \in SUBSET Feeds : Reload(accepted, mode, fs, ok)
  \/ OperatorStop
  \/ OperatorStart
  \/ EmergencyExit

Next == EventStep \/ TimerStep \/ OperatorStep \/ LoopBreaks

Spec == Init /\ [][Next]_vars

\* The health tick is an interval timer in the select! loop.  Nothing else is
\* assumed: reports, feeds and operators may never come.
FairSpec == Spec /\ WF_vars(\E quiet \in SUBSET Feeds : HealthTick(quiet))

-----------------------------------------------------------------------------
(* Properties.                                                             *)

\* Whenever the risk gate is open, everything it was opened on still holds:
\* the operator started trading and did not halt it, no topology change is
\* pending, the last reconciliation was clean, the gates of the mode are
\* passed and every subscribed feed is connected.
AllowIsJustified ==
  allow => /\ running /\ started /\ ~halt
           /\ Ready(blocked, reconClean, gates)
           /\ AllConnected(subscribed, status)

\* Not even in paper mode, whose checklist does not ask for it, is exposure
\* added while the last reconciliation left an issue.
NoIncreaseUnreconciled ==
  sent = "Increase" => reconClean /\ gates["OwnershipReconciled"] /\ gates["UnknownStateClear"]

\* An emergency exit is final for the life of the process: trading is never
\* started again and no strategy adds exposure.
HaltIsFinal == [][halt => halt' /\ ~started' /\ sent' # "Increase"]_vars

\* A topology pause is lifted only by a topology that has feeds, never
\* together with opening the risk gate, and a feed it adds is not taken for
\* connected: no event, reconciliation or operator command lifts the pause.
OnlyTopologyUnblocks ==
  [][blocked /\ ~blocked' =>
       /\ ~allow'
       /\ subscribed' # {}
       /\ \A f \in subscribed' \ subscribed : status'[f] # "Connected"]_vars

\* Everything in order from some time on: trading is started and not halted,
\* no topology change is pending, reports are clean and feeds connected.
InOrder ==
  /\ running /\ started /\ ~halt /\ ~blocked /\ reconClean
  /\ AllConnected(subscribed, status)

\* A pause is never permanent: once everything is in order for good, the risk
\* gate opens again, without an operator, whatever closed it.
ReopensByItself == <>[]InOrder => []<>allow

\* After a reload that changed the dynamic-template mode the daemon asks for
\* a restart, so exposure stays closed in this process.
RestartRequired == restart => ~allow
=============================================================================
