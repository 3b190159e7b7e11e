# Verification of the PG-TSY trading core

TLA+ models of the trading core of this repository (`rust/crates`), the TLC
runs that check them on small instances, and TLAPS proofs of what matters most
for every instance. `PROJECT.json` holds the machine-readable side: which
definition stands for which lines, the runs, their mutants, the hazards and the
theorems. Paths below are relative to `rust/crates/` unless they say otherwise.

## 1. The system

A *daemon* (`pg-core`) runs strategies against real venues. It takes a lease in
PostgreSQL, recovers and reconciles what an earlier process left behind, then
serves one `select!` loop: market events, timers, operator commands, the
health of its lease. Everything that touches a venue goes through
`DurableExecution` (`pg-orchestrator`), which writes each order to the store
before and after the venue is asked.

| Part | State | Operations | Talks to |
|---|---|---|---|
| Runtime lease (`pg-store/src/lib.rs`) | row `runtime_leases`: holder, fencing token, expiry | acquire, assert, renew, release; heartbeat task | every daemon with the same lease key |
| Order state machine (`pg-oms`) | `OrderRecord`: state, cumulative fill | `apply`, `apply_fill`, `accept` | called by the orchestrator |
| Order store (`pg-store`) | `order_records` with the writer's token, a trigger against a second `Created` | `save_order_record`, `load_orders_for_venue` | orchestrator, daemon |
| Durable execution (`pg-orchestrator`) | in-memory copies of records during an operation | `dispatch`, `cancel_order`, `recover_ambiguous`, `reconcile_once` | store, venue adapter |
| Reconciliation (`pg-reconcile`) | none (pure) | `reconcile` | called by `reconcile_once` |
| Fill ledger (`pg-store/src/fill_ledger*`) | `execution_fills` | idempotent insert, settlement of a complete history | daemon |
| Admission (`pg-core/src/live_daemon.rs`, `unattended_guard.rs`, `pg-runtime`, `pg-risk`) | `allow_new_exposure`, `EntryGuard`, checklist gates, safe holds, operator halt | each branch of the loop | supervisor, operators, reconciliation |
| Feeds (`pg-marketdata`, `live_daemon.rs`) | `SubscriptionState` per feed, one task per feed, order books, caches | observe, fail, reconnect, give up, restart, staleness, depth sequencing | loop, venue streams |
| Strategies (`pg-strategy`) | rolling windows, score machine, policies, registry of instances | evaluate a market event, reload, refresh | loop |
| Shadow daemon (`pg-core/src/daemon.rs`) and venue (`pg-execution/src/shadow.rs`) | an in-process book, order records, gate | the same loop without a real venue | store, feeds |
| Matching (`pg-execution/src/matching.rs`, `pg-sim`) | simulated orders and their links | submit, match, contingencies | replay, research |
| Operator path (`pg-control`, `operator_control.rs`) | rate limiter, two bounded channels, a bridge | admit, forward, answer, emergency exit | loop |
| Adapters (`rust/adapters/*`) | connections, private streams, history cursors | `ExecutionAdapter`, market streams | venues |
| Offline tools (`pg-dream`, `pg-replay`, `research/`, `integrations/`) | – | – | – |

What is hard about it:

* *several processes*: a daemon that lost its lease may still be in the middle
  of an operation; every `await` on the store or the venue is a point where
  another process, the venue, the clock or a crash may intervene;
* *the venue*: a request may be lost, arrive after its timeout, or be
  acknowledged while the acknowledgement is lost; lookups may be late; orders
  fill and are canceled without being asked;
* *the store*: a save is a blind write of a copy loaded several awaits ago; it is
  fenced by tokens only, and one step of several may fail;
* *admission*: `allow_new_exposure` is a cached decision over feeds, reports,
  topology and operators, each of which changes independently of it;
* *reads that are not one read*: a lookup, a merged list of open orders, a page of
  trades or a reconcile tick asks several questions one after another while orders
  fill and move between the lists;
* *tasks and channels*: feed tasks, operator handlers and private streams end, are
  restarted and fill bounded channels while their reports are still queued;
* *configuration under load*: strategies are reloaded and instruments added and
  dropped while orders and positions of theirs are open.

`PROJECT.json` lists these as `hazards`, each at its line, with the properties
that would catch it going wrong, or a note when none does yet.

## 2. Modules

| Module | Models | Uses |
|---|---|---|
| `RuntimeLease` | lease row, processes, heartbeat, release, crash, clock | |
| `Oms` | order state machine, snapshot rules (constant operators) | |
| `DurableExecution` | the four operations of `pg-orchestrator` on `order_records`, one venue | `RuntimeLease`, `Oms` |
| `OnceOnly` | abstract: what durable execution promises to an order | |
| `EntryGate` | who may add exposure: the event loop's admission state | |
| `FillLedger` | execution fills: insertion, settlement, ingestion by the daemon | `Oms` |
| `DepthBook` | order book from snapshot and diffs, one Binance depth session after another | |
| `LiveFeeds` | feed tasks, supervisor, reconnects and the fatal channel of the live daemon | |
| `LivePolicy` | policies of the live daemon: attempts, reconcile tick, position view, adoption at startup | |
| `LiveSignals` | factor windows, confidence, entry filter, throttle; feature plan and rules of a policy | |
| `StrategyMachine`, `StrategyOrders` | the score machine as operators, and with a venue whose reports are late and repeated | |
| `StrategyRegistry` | definition files, instances, reloads, universe refreshes, routing | `StrategyMachine` |
| `OperatorControl` | limiter, channels, bridge, operator branch, emergency exit | |
| `ShadowVenue`, `ShadowDaemon` | the in-process venue as operators, and the shadow daemon on it | |
| `VenueAdapters` | submit, cancel, lookup and recovery of the IBKR, Hyperliquid and Binance adapters | `Oms` |
| `IbkrInstruments` | one IBKR connection per instrument, the composite adapter, universe ticks, restarts | |
| `UserStream`, `TradeHistory` | Binance: private stream with its tracker; verified trade history and `fills()` | |
| `Simulator` | the matching kernels of `pg-sim` and `pg-execution`, and linked orders | |
| `MCDurableExecution`, `MCFillLedger`, `MCShadowDaemon` | symmetry, bounds and constants for TLC | |
| `MCControl`, `MCMarket`, `MCVenues`, `MCStrategy` | several independent components in one run | |
| `FiniteSums` | induction over finite sets and sums over them, for the proofs | |
| `DurableExecution_proofs` | theorems about `RuntimeLease`, `DurableExecution`, `OnceOnly` | |
| `FillLedger_proofs` | theorems about `FillLedger` | `FiniteSums` |
| `Control_proofs` | theorems about `EntryGate`, `LiveFeeds`, `OperatorControl` | `FiniteSums` |
| `Market_proofs` | theorems about `DepthBook`, `Simulator`, `LiveSignals` | `FiniteSums` |
| `Venues_proofs` | theorems about `VenueAdapters`, `UserStream`, `IbkrInstruments`, `TradeHistory` | `FiniteSums` |
| `Shadow_proofs` | theorems about `ShadowVenue`, `ShadowDaemon` | |
| `Strategy_proofs` | theorems about `StrategyOrders`, `LivePolicy`, `StrategyRegistry` | `FiniteSums` |

Definitions with the comment *Mutant* are plausible bugs; they are
used by nothing but the mutation runs and show that each property can fail.

The last four MC modules put components that share no state side by side: a
variable `part`, chosen in the initial state and never changed, says which of them
moves. The behaviours are exactly those of the components, one after another, and
each property speaks of its own component. Composition proper, where components
do interact, is `DurableExecution` (with the lease), `StrategyOrders` and
`StrategyRegistry` (with the machine) and `ShadowDaemon` (with the venue).

### RuntimeLease

`lease` is the row with the ticks left before it expires (`NoLease` when it is
absent). A process is `down`, `starting` (lease acquired, no heartbeat: startup
recovery runs here), `serving` or `stopping`. `AcquireLease` is the one SQL
statement of `acquire_lease`: a new row has token 1, the same holder keeps its
token, another holder gets the next one, and a row that is not expired blocks
everyone but its holder. `RenewLease` and `RenewError` are a turn of the heartbeat
task, which publishes `Lost` and ends on any failure. `ReleaseLease` deletes the
row. `tenure` and `mine` are history variables: the number of changes of
ownership, and the one in which a process acquired.

A process is named by its holder id, so a restarted daemon is the same process;
two running processes with the same `PG_INSTANCE_ID` are outside the model.

### DurableExecution

`pc[p]` is the next step of process `p`; a step is the code between two awaits
that matter. Consecutive awaits are merged only when nothing between them is
visible to another process: a save and the journal entry after it, whose failure
is the failure of the next step. `local[p]` are the record copies of the running
operation, `seen[p]` the snapshots `reconcile_once` collected, `todo[p]` the orders
its loop has still to visit.

* `Dispatch`, `PersistIntent`, `PersistPending`, `CheckBeforeSubmit`, `Submit` or
  `SubmitRefused`, `SubmitReturns`, `PersistOutcome`: `dispatch`.
* `BeginRecover` ... `RecoverDone`: `recover_ambiguous`, always followed by
  `ReconcileAssert` ... `ReconcileDone`: `reconcile_once`.
* `BeginEmergency` or `Break`, `CancelLoad`, `CancelOrder`, `CancelFind`,
  `CancelRequest`, `CheckBeforeCancel`, `CancelAcked` or `CancelLost`,
  `CancelResult`, `CancelSave`, `CancelDone`: `cancel_order` in the loops of
  `emergency_flatten_owned` and `apply_shutdown_policy`.
* `Abort`: any await returned an error; the callers log it and go on. A startup
  error and the `?` of the event loop end the process without a release: `Die`.

`SaveOrderRecord` is `save_order_record` with the trigger of migration 0003: an
insert always succeeds; an update needs a token at least the stored one and is
refused when the new state is `Created`. Rows also carry the tenure of the writer
(`by`), a history value.

The venue is external. A request on the `wire` is received (accepted or
rejected) or lost at any time, also after the submit has returned. `Lookup` may
always answer nothing, as the code expects of delayed history. The outcomes of
`submit` follow the contract in `pg-execution/src/lib.rs:116-118`: an error that
leaves the outcome open is `Unknown` or `Transport`, every other error means that
the venue does not have the order.

Abstracted: identity fields of an order (asset, side, venue order id) are
functions of it; quantities are multiples of one fill; the loops visit orders in
any order; foreign orders and positions make a report dirty or not
(`elsewhereClean`). Several venues are independent of each other in this code and
one is modelled.

### EntryGate

Each branch of the `select!` loop of `live_daemon::serve` is one action, since
the loop runs a branch to its end. `allow` is `risk_limits.allow_new_exposure`,
`blocked` and `reconClean` the `EntryGuard`, `gates` those gates of the
`StartupChecklist` that change after startup, `hold` the safe hold of the traded
asset, `subscribed` and `status` the supervisor, `fatal` the queue of feeds whose
task gave up. `sent` records what the last step dispatched. Outcomes of
reconciliation, refresh, reload and feed tasks are nondeterministic.

### FillLedger

`ledger` is `execution_fills`; a fill has an account scope, a venue fill id, an order
and a quantity, and `own` says whether its venue, asset, side and venue order id are
those of the order. Nothing is assumed of what a venue reports. Each transaction of
the store is one step, because it locks the lease row and the order row first.
`BeginIngest`, `IngestFill` or `IngestFails`, `EvidenceEnds`, `CheckOrder`,
`IngestReturns` and `TickEnds` are `ingest_owned_fills` in the reconcile tick;
`Settle` is `settle_complete_order_history`; `OrchestratorSaves` stands for what
`DurableExecution` writes, which never moves the cumulative fill. The lease is reduced
to growing tokens, which `TokensAreFencing` justifies as long as nobody releases it.
A process runs one operation at a time, so a save that is stale within one tenure does
not occur here; `DurableExecution` has those.

`Settle` has no caller in the live daemon of this commit; it is the only code that
advances `filled_quantity`.

### DepthBook

The bridge (`binance_depth.rs`) and the session around it (`stream_depth` of
`adapters/pg-binance/src/market_transport.rs`). `hist[i]` is the venue's book after
update `i`, so "the book is right" can be stated exactly. `VenueSends` loses and repeats
diffs and leaves gaps between their ids, `SnapshotArrives` takes the book of any past
update, `Disconnect` breaks the session at any await. An error of the bridge ends the
session; its caller is expected to start another ("the parent reconnect supervisor"),
which is `Connect`. A level is present or absent; books deeper than a snapshot and the
cut at 50 published levels are left out.

### LiveFeeds

A feed is a number in the order of its key, a task the sequence number it was
spawned with. `ApplyFeeds` and its kin are what a reload or a universe tick does: drop tasks of
feeds nobody wants, spawn the missing ones in key order until an IBKR feed finds no
client id left. A task reconnects up to `MaxReconnects` times and then puts its feed
into the `FeedFatal` channel, whose capacity may make it wait; the loop marks the feed
and restarts it. `resubscribed` remembers feeds that were dropped at some time, because
only for those a late report may meet a newer task.

### LivePolicy

Policies trade one instrument. An attempt is remembered before it is sent, whatever
becomes of it; a reconcile tick reads orders, positions and fills in three steps, with
the venue moving between them, and only a clean one replaces `latest_orders` and the
position view. Restarts adopt the orders found in the store. Settlement is done by
`FillLedger` and fills, cancels and the venue's reduce-only rule are external.

### LiveSignals

The rolling windows of `factors.rs` and `automation.rs` in the order in which an event
passes them. A factor is either undefined or defined, depending on how many samples
there are; confidence is computed exactly, with the weights as fractions. A close is the
logarithm of its price, so that returns are differences. The values of factors are left
open: a filter or rule whose features are known may go either way.

### StrategyMachine, StrategyOrders, StrategyRegistry

`OnSignal` and `OnFillProgress` are `on_signal` and `on_intent_fill_progress`. In
`StrategyOrders` a report stays in `reports` once sent, so it may be delivered late and
again, also after the next intent. `StrategyRegistry` keeps the files, the instances each
file owns and their machines; a reload visits the files one by one and may fail at any.

### OperatorControl

A handler per chat, the limiter they share, the bot's channel, the bridge, which
forwards one request and waits for its answer, the runtime's channel and the operator
branch. A handler may stop waiting at any time. The emergency exit reads the fills on
record and sends one order.

### ShadowDaemon and ShadowVenue

The `select!` is biased, so a branch needs that no earlier one is ready. Any database call
may fail (`Outcomes`), the book dies with the process and the records do not. The position
is read once per market event for all policies of the instrument.

### VenueAdapters, IbkrInstruments, UserStream, TradeHistory

`VenueAdapters` follows one order through one of three adapters: a request travels
on its own, the answer may be lost, and a lookup reads the venue's lists one per step in
the order of the code. The record is moved as `DurableExecution` moves it. In
`IbkrInstruments` the gateway shows an open order to the client that placed it, or to
all (`accountWide`); client ids are handed out in key order at startup and go on growing.
`UserStream` has the bounded channel, the gates before and after a session and the
tracker; its caller is external. `TradeHistory` has the paged fetch with its snapshots,
its verification and the stored cursor, and the adapter's one-page `fills()`.

### Simulator

Two implementations of the same rules. `MatchOnce` is a match of the engine of `pg-sim`,
`MatchOrder` is `match_order` of `pg-execution`; `coord` is what the
`CompositeCoordinator` would make of the same fills.

## 3. Properties and runs

Run one with `tlc -workers 2 -config <run>.cfg <module>`.

| Run | Instance | Checks |
|---|---|---|
| `exec_takeover` | 2 processes, quantity 2, no release; a takeover with 1 order or 2 orders in one tenure | `FencingOrder`, `LiveOrderIsTracked`, `CleanMeansNothingPending`, `ActiveHolderMayWrite`, `OutcomesAreLegal`, `TerminalSticky`, `StaleNeverOverwrites` |
| `exec_release` | 2 processes, 1 order, release | `SubmitOnce`, `WriteAhead`, `ImplementsOnceOnly` |
| `control` | 2 processes with 3 tenures; 2 feeds in both modes, static and dynamic; 2 feed tasks, 4 client ids | `LostLeaseStops`, `AllowIsJustified`, `NoIncreaseUnreconciled`, `HaltIsFinal`, `OnlyTopologyUnblocks`, `ReopensByItself`, `FeedSafety`, `FeedsRecover` |
| `operator` | 2 chats, 1 user, channels of 1, 3 requests | `OperatorSafety`, `SentIsCarriedOut` |
| `fills` | 2 processes, 2 tenures, 2 orders, 2 scopes, quantity 2 | `OneRowPerTrade`, `OmsFollowsLedger`, `CleanIngest`, `LedgerImmutable`, `FillsNeverShrink` |
| `market` | 3 prices, 4 updates, buffer of 2; 2 linked orders of quantity 2; windows of 1 to 3 | `PublishedIsVenueBook`, `PublishedNeverGoesBack`, `MarketSafety` |
| `venues` | 3 adapters; 2 instruments, 2 orders, 2 starts; 2 sessions; 5 trade ids in pages of 2 | `AdapterSafety`, `ConnectionSafety`, `StreamSafety`, `HistorySafety`, `ReadsHideNoFill` |
| `shadow` | 2 policies, 3 orders, 2 starts | `ShadowSafety`, `ExitsOnlyReduce`, `FatalEndsProcess` |
| `strategy` | 3 intents; 2 files, 3 instruments, 6 definitions; 1 policy, 4 orders, 2 starts | `ScoreSafety`, `RegistrySafety`, `LivePolicySafety`, `StrategySteps` |
| `stale_overwrite`, `gate_restart`, `rejected_live` | | one property each that the documents or the code's own messages state and the code violates (section 5) |

In words:

* `SubmitOnce`: the venue is asked at most once to place an order, across crashes,
  takeovers, lost acknowledgements and repeated dispatches. The trigger of
  migration 0003 carries this; without it the mutant submits twice.
* `WriteAhead`: nothing is sent for an order whose record does not say so.
* `LiveOrderIsTracked`: an order that is live or may still arrive is never recorded
  as closed, whoever wrote last.
* `CleanMeansNothingPending`: while the lease holder acts on a clean report, nothing
  is on the wire and nobody is about to submit.
* `FencingOrder`, `TerminalSticky`, `StaleNeverOverwrites`, `ActiveHolderMayWrite`: what
  fencing by tokens gives as long as tokens are never reset.
* `OutcomesAreLegal`: the answer to a side effect is always a legal transition.
* `ImplementsOnceOnly`: every step of the system is a step of `OnceOnly`, in which
  exposure goes from none to coming, live and closed, starts only after the book
  shows the order as being worked, and is shown as closed only when it is.
* `AllowIsJustified`: the cached decision is never stale: everything it was based on
  still holds while it is true. `ReopensByItself`: no pause outlives its reason.
* `FeedSafety`: a watched feed runs, or the report of its end is on the way, and it has one
  task unless a drop crossed a report. `FeedsRecover`: a dead feed is restarted or
  closes the gate; it never goes on looking alive.
* `OperatorSafety`: rate limits hold over all chats of a user, requests of a chat are carried
  out once and in order although handlers stop waiting, an answer belongs to its request,
  nothing queued restarts trading after an emergency exit, and the exit sells exactly what
  the fills on record explain. `SentIsCarriedOut`: what entered the channel is carried out.
* `OneRowPerTrade`, `LedgerImmutable`: whatever is reported, a trade is stored once, also
  under two account scopes, and no row is ever replaced. `OmsFollowsLedger`: the rows of an
  order never exceed the request and a settled quantity has rows behind it.
  `FillsNeverShrink`, `CleanIngest`: it is never taken back, and an ingestion that reports no
  mismatch to the lease holder is right about every order its records call filled.
* `PublishedIsVenueBook`, `PublishedNeverGoesBack`: a published book is the venue's own at
  its sequence, and sequences only grow, across reconnects.
* `MarketSafety`: two matching kernels fill every order alike, linked orders never fill more
  than they may together; a signal rests on a trade and a quote and comes no faster than
  configured, although receive times are not in order; a policy never decides on partial
  features, and its planned feeds are enough for all of them.
* `AdapterSafety`: what an adapter reports is true of the venue: a final state is the venue's
  with its fill, a rejection left nothing behind (but see section 5), and an empty lookup
  proves absence, because the lists are read in the direction in which orders move.
* `ConnectionSafety`: an order that a clean reconcile listed keeps the connection that can
  cancel it, a merged read is complete, and a restart with the same instruments sees
  every order of its predecessor.
* `StreamSafety`: a healthy tracker on a session that was connected when the truth was read has
  every trade. `HistorySafety`, `ReadsHideNoFill`: no trade is ever behind the stored cursor
  without being stored, evidence is one cut of the account, and a snapshot that is adopted
  has every fill of its order.
* `ShadowSafety`: exposure needs a clean reconcile of this very process, drift keeps the gate
  closed, a policy has one working order, and shutdown leaves nothing that its policy
  says it should not. `ExitsOnlyReduce`: two policies that saw the same position never turn
  it around. `FatalEndsProcess`: a feed that failed for good ends the process.
* `ScoreSafety`: a settled machine owns exactly what the venue holds, whatever the order of
  the reports. `RegistrySafety`: every instance has one file and scored exposure its
  instance, after failed reloads too. `LivePolicySafety`: a policy is unlocked only when
  none of its orders can trade, enters from flat, never holds more than one order
  quantity, and no tick forgets the peak of a trailing exit. `StrategySteps`: no order while
  the machine is lost, no working instance dropped, no pinned one refreshed away.

**Bounds.** Two processes are enough for an old and a new leader to meet at every
pair of steps. Ttl 1 lets the lease expire between any two steps. `MaxTenure` bounds
changes of ownership, not restarts of the same holder, which are unbounded. Orders
interact only through the loops, so `exec_takeover` lets two orders meet within one tenure
and a takeover happen with one (`OneOrderOrOneTenure`). Quantity 2 has a partial fill.
Four updates of the venue are enough for a snapshot older than the published book, a gap
after it and a diff that spans it; a buffer of two can both fill up and be replayed.
Channels of one or two are full after one or two sends. Five trade ids in pages of two
and at most two pages reach the page limit, a short page and an id gap. Three intents let a
report of the first meet the third. Two starts are a crash and a recovery. Deadlock checking
is off where the system may stop: when a bound is used up, or after the loop ended.

**Fairness.** The lease part assumes weak fairness of a turn of the heartbeat and
of the loop noticing `Lost`: the first is a tokio interval, the second a branch
of the `select!` over the heartbeat's watch channel. The gate part assumes weak fairness of the
health tick, an interval in the loop. The feed part assumes it of the loop taking a fatal
report or a market event, of the staleness refresh of the health tick, and of time passing:
branches of the same `select!`, which polls them in random order. The operator run assumes that
handlers, the bridge and the operator branch go on, each a task or a branch that is ready. The
shadow daemon assumes it of the branch that is polled first and of the steps of its
shutdown. Nothing is assumed of venues, databases, feeds, reports or operators.

## 4. Theorems

Each holds for every number of processes, orders, feeds, policies, files, trades and
events, every quantity, window and ttl that the assumptions of the modules allow. Run
`tlapm <module>.tla`.

**Assumptions.** What the modules assume of their constants is what the code's types and
validators ensure: quantities, ttl, windows and capacities are positive, the markers
(`NoHolder`, `NoOrder`, `NoTicket`, `NoIntent`, `Ghost`, `NoValue`) are not among the values
they stand beside. Four say more. `FeedAssumption`: the sequence numbers bound is not
smaller than the number of feeds, so the model gets past startup. `RegistryAssumption`: the files of
a directory are distinct and name instruments that exist. `ValidWindows`: what
`FactorConfig::validate` and the engine's constructor accept. `RuleAssumption`: rules name
registered features only, as `FeatureProviderRegistry::plan` requires. TLC evaluates them all.

Hypotheses of single theorems, each of which TLC or the code shows to be needed:

* `~MayRelease` in `TokensAreFencing`, `HolderMayWrite`, `NoStaleOverwrite` and
  `TerminalStays`: no lease row is deleted. `stale_overwrite` is the counterexample.
* one policy per instrument (`PolicyIds = {p}`) in `LonePolicyIsSafe`. The registry does not forbid two
  policies on one instrument; both act on the instrument's net position
  (`live_daemon.rs:1429`), so neither need be flat when it enters. `UnlockedPolicyIsIdle` holds for any set.
* `MinEmitInterval > 0` in `SignalsAreSound`: with zero, events out of order give negative spacing.
* in `MarketIsSafe`, `Tuned`: neither the two factors that need no trade, nor everything but
  a quote, reaches `min_confidence`. The defaults satisfy it; the code accepts
  configurations that do not, and for those a signal without a trade is possible. And every
  candle has a volume: a window of empty candles has no volume ratio.

**What is proved, and along which invariant.**

`DurableExecution_proofs` (lease and durable execution):

* `LeaseTypeCorrect`, `TokensAreFencing`, `LeaseLostForGood`. `FencingOrder` speaks of running
  processes only; the invariant adds that the row's token is at least every token
  held, that a process with the row's token is in the current tenure, and that tokens
  grow with tenures.
* `ExecTypeCorrect`, `SubmittedOnce`, `RecordedBeforeSent`. The first layer, `ControlInv`, says
  what a process knows in each step: an order it handles has a record in hand, loops
  only visit loaded orders. The second, `OnceInv`, adds that records in hand have rows
  (`Backed`) and that a process between the first save of an intent and its submission is
  the only one (`SoleSender`): the insert of the row elects the sender, and the trigger
  keeps the election from being held again. None of this depends on the lease:
  `SubmitOnce` holds even with expired leases and reset tokens.
* `AnswersCanBeRecorded` follows from `ControlInv`. `LiveIsTracked` needs `EvidenceInv`: whoever
  has a terminal record or snapshot in hand, or stored one, has evidence that the
  order is closed at the venue, and closed orders stay closed.
* `KeepsThePromise`: every step is a step of `OnceOnly` or a stutter, action by action, from the same
  invariants.
* `HolderMayWrite`, `NoStaleOverwrite`: rows carry the token of their writer and no token is
  newer than the lease's (`FencedInv`). `TerminalStays` also needs that a process which may
  still write a terminal row of its own tenure is reconciling it and knows that it is
  terminal (`FreshInv`). `CleanReportIsClean` needs that the reconciling holder has loaded a record
  of everything that is on its way (`KnownInv`).
* `ExecutionUsesLease` carries the theorems of the lease over.

`FillLedger_proofs`:

* `TradeStoredOnce`, `IngestIsClean`, `EvidenceIsImmutable`. One account scope per order turns the
  primary key into a key per order (`OneScope`, `UniqueKeys`); at most one process has the
  current token, and what it has compared stays explained because every other writer
  of the ledger needs the token (`ComparedIsExplained`).
* `LedgerBacksOms`, `FillsStay`: the sums of rows, with `FiniteSums`. A settlement replaces a
  record only by a total that the rows it has just checked add up to.

`Control_proofs`:

* `GateTypeCorrect`, `OpenGateIsJustified`, `IncreaseIsReconciled`, `EmergencyHaltIsFinal`,
  `PauseNeedsTopology`. `AllowIsJustified` is inductive with the type invariant; for
  `NoIncreaseUnreconciled` a clean report must also have passed both gates.
* `FeedsAreWatched`. `FeedInv` adds that a managed task is a task of its feed and that a
  feed which was never dropped leads one life (`OneLife`): its managed task is its only one, and
  a report of its end excludes a running one.
* `OperatorPathIsSafe`. Handlers, channel, bridge, runtime channel and what is done form one queue
  per chat (`PathInv`, `OrderInv`); the bridge has exactly one request outstanding
  (`BridgeInv`); the limiter's window of accepted requests covers every window of the clock
  (`RateInv`).

`Market_proofs`:

* `DepthTypeCorrect`, `PublishedBookIsTrue`, `BridgeBookIsTrue`, `BooksNeverGoBack`. Every diff
  spans updates the venue has made, the book waiting to be published is true as well, and the
  diffs of a session are newer than anything published before it (`SessionIsNewer`), which
  is why an old snapshot can never take the published book back.
* `SimulatorIsSafe`. Both kernels reduce to the same minimum (`MatchOnceIs`, `MatchOrderIs`); the
  quantity of an order is what its peer has left (`SizeInv`), and the child of an OTO sleeps until
  its parent is complete (`ParentInv`).
* `SignalsAreSound`, `MarketIsSafe`. A feature with a value comes from a feed that delivered; the
  confidence is bounded by the product of its parts without the volatility, and each missing
  part bounds one of them.

`Venues_proofs`:

* `AdaptersTellTheTruth`, `AdoptionHidesNoFill`. `VAInv`: a request is sent once, and an order that
  was at the venue when a lookup began is still in one of the lists the lookup has not read
  (`StillListed`), which is what makes the direction of reading matter.
* `StreamMissesNothing`: as long as no loss is announced, every trade is on the books or in a queue
  (`Followed`).
* `ConnectionsCoverOrders`: an order that a clean read listed is pinned (`TrustedInv`), the children
  that have answered showed what they could (`ReadInv`), and without a change of instruments the client
  ids are those of a fresh start (`SteadyInv`).
* `HistoryLosesNothing`, `EvidenceIsACut`, `NoReadHidesAFill`: the cursor of a fetch, of its evidence and
  of the store is right after a trade, and what was read or stored is all that is before it
  (`CursorInv`). A short page therefore proves the end and a full one never skips an id.

`Shadow_proofs`: `ShadowDaemonIsSafe`, `ExitsNeverReverse`. `reconcile_clean` starts out saying
nothing; the biased select makes it mean something by the time the gate reads it
(`GateInv`: in the loop, no reconcile due implies that one has run).

`Strategy_proofs`:

* `MachineTracksVenue`, `LostAsksNothing`: while an intent is in flight its order is the venue's last
  one, the position is where the machine started plus what it filled (`FlightInv`), and a
  final report tells the whole quantity (`ReportInv`).
* `UnlockedPolicyIsIdle`, `LonePolicyIsSafe`: an order that can trade is on record as such, holds its
  policy locked and is among the orders a tick has read (`TicketInv`).
* `RegistryStaysWhole`, `WorkSurvives`, `PinsSurvive`, `StrategiesStepSafely`: every file operation keeps the
  shape of the registry (`RegInv`: the sources partition the instances, a template names its
  instances), whether it fails or not, hence so does a walk over the files that stops anywhere.

**Induction.** Some proofs need induction over data: sums over finite sets, the walk over the
files of a directory, the largest id of a page. `FiniteSums` has it for sets, where the
provers can use it: a set that contains each subset whose proper subsets it
contains has them all (`SubsetInduction`), and the same for the numbers up to a bound. A recursive
function is unfolded from the existence of a function that satisfies its equation.

**Only model-checked**: the liveness properties (`LostLeaseStops`, `ReopensByItself`,
`FeedsRecover`, `SentIsCarriedOut`, `FatalEndsProcess`), because the prover has neither fairness
nor `ENABLED`. Every invariant and every other action property of a passing run has its theorem.

The proofs changed the models in a few places. Arms of `CASE` that overlapped in `Simulator`, `LiveSignals` and
`StrategyRegistry` were made disjoint, since `CASE` leaves open which of two true arms it takes. Pages of
`TradeHistory` are sets of trade ids, the walk over definition files in `StrategyRegistry` is a
recursive function of the position, and the limiter of `OperatorControl` is written over the
requests still in its window.

## 5. Where documents and code disagree

* `stale_overwrite`: `release_lease` deletes the row and the next token is 1 again, while
  `docs/STORAGE_RECOVERY.md:9` calls the token monotonically increasing. A process of an
  older tenure can then hold a token that is not smaller and overwrite a newer record,
  against line 23. It needs a graceful shutdown in between; without one `exec_takeover`
  shows that it cannot happen.
* `gate_restart`: a reload that changes the template mode asks for a restart, but
  the next universe tick lifts the block.
* `rejected_live`: when the answer to a submit is lost, the IBKR and Hyperliquid adapters look
  the order up. A lookup that fails to decode returns `Conversion`, which `dispatch` takes for
  a definite rejection like every error but `Unknown` and `Transport`: the record is closed
  while the order works. `adapters/pg-binance/src/order_protocol.rs:3` says that a lost
  acknowledgement is never a rejection.

The following are stated in modules and have counterexamples too; adding the definition
to the cfg of the run named here reproduces them.

* `OldLeaderIsPowerless` (`DurableExecution`, `exec_takeover`): `save_order_record` compares
  with the stored row, not with the lease, so an old leader can still write a row the new
  one has not touched, and submit between its lease check and the submit, against
  `docs/STORAGE_RECOVERY.md:23` and `docs/PRODUCTION_CLOSURE_ARCHITECTURE.md:185`.
* `LedgerEqualsOms` (`FillLedger`, `fills`): the daemon compares the ledger only with orders
  the OMS calls filled, while `docs/PAPER_FAULT_MATRIX.md:17` wants the quantities equal.
* `ReloadIsAllOrNothing` (`StrategyRegistry`, `strategy`): a reload that is rejected at a later
  file keeps what earlier files changed, while the comments of `reload_strategies` in
  `pg-core/src/daemon.rs` promise to validate everything first.
* `IdleIsRemovable` (`StrategyRegistry`, `strategy`): the score machine of a policy-driven
  instance still runs and enters, although its orders are suppressed; such an instance can
  then not be removed by a reload, although it never traded.
* `GapForcesReconcile` (`UserStream`, `venues`): a reconciliation that was read while the socket
  was still connecting leaves out trades of that interval, and nothing asks for another
  one, while `adapters/pg-binance/src/user_stream.rs:2` says that every gap does.
* `OwnCandlesOnly` (`LiveSignals`, `market`): `on_market_event` does not look at the interval
  of a candle, so two score strategies on one asset with different intervals feed each
  other's windows; `LiveFeatureEngine::on_event` does look (`OwnCandles` holds).

## 6. Plan

1. Done: lease, order machine, durable execution, admission gate, fill ledger, depth
   book, with their first theorems.
2. Done: shadow venue and daemon, feed tasks, live policies and position views, score
   machine, registry, signals, adapters, IBKR connections, private stream, trade history,
   operator path, matching kernels.
3. Done: a theorem for every invariant and action property that a passing run checks,
   and the refinement of `OnceOnly`.
4. Next: `MarketSafety` and `LivePolicySafety` from weaker hypotheses, above all what several policies
   on one instrument may do together; the safety half of the liveness properties
   (that what they wait for stays enabled); commission reports after their executions.
5. Not planned: continuity of closed candles across reconnects and history requests, and
   the universe filters.

## 7. Not modelled

* Wire formats, signing, authentication, configuration and secrets, HTTP, the wording of
  messages and metrics: I/O or layout without state that a property could be about.
* The values of factors, sizing and cost arithmetic: only whether they are defined matters
  to the control, and they are left open.
* The event journal, checkpoints, reports and audit tables, which are appended to and not
  read by the modelled operations; observability, which only reads.
* Latest-value and hot caches, which serve reports; ranking of universes, any selection in
  the model.
* Two running processes with one `PG_INSTANCE_ID`, which the lease takes for one holder, and
  fees, hence a commission report that comes after its execution: the ledger then refuses
  the second report (`IngestFails`).
* `pg-dream`, `pg-replay`, `pg-journal`, the Python research and integrations: offline tools.

`PROJECT.json` gives the reason per component.
