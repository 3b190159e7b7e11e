------------------------------ MODULE LiveFeeds ------------------------------
(***************************************************************************)
(* The market-data tasks of the live daemon: FeedTaskManager, the          *)
(* SubscriptionSupervisor, spawn_live_feed's reconnect loop, the FeedFatal *)
(* channel, and the branches of the event loop that touch them.  A feed is *)
(* a number, in the order of its key.  A task is named by the sequence     *)
(* number it was spawned with, which gives an IBKR feed its client id.     *)
(***************************************************************************)
EXTENDS Integers, Sequences, FiniteSets

CONSTANTS
  NumFeeds,       \* feeds a strategy may ask for
  IbkrFeeds,      \* the ones of IBKR; the others are of Hyperliquid
  MaxReconnects,  \* PG_MARKET_MAX_RECONNECTS
  ClientIds,      \* IBKR client ids left for market data
  MaxSequence,    \* bound: tasks spawned
  FatalCapacity   \* capacity of the FeedFatal channel

FeedIds == 1 .. NumFeeds
NoTask == -1

ASSUME FeedAssumption ==
  /\ NumFeeds \in Nat \ {0} /\ IbkrFeeds \subseteq FeedIds
  /\ MaxReconnects \in Nat \ {0} /\ ClientIds \in Nat
  /\ MaxSequence \in Nat /\ NumFeeds <= MaxSequence
  /\ FatalCapacity \in Nat \ {0}

VARIABLES
  serving,     \* the event loop runs
  wanted,      \* supervisor.feeds
  feedState,   \* feed -> SubscriptionState
  recent,      \* feeds with an event within max_staleness
  managed,     \* FeedTaskManager.tasks: feed -> task
  live,        \* tasks that run: sequence -> feed and failures
  nextSequence,
  gaveUp,      \* the FeedFatal channel
  queuedEvents,\* feeds with a market event in the channel
  resubscribed \* feeds that were dropped at some time

feedTasks == <<managed, live, nextSequence>>
supervisor == <<wanted, feedState, recent>>
lfVars == <<serving, supervisor, feedTasks, gaveUp, queuedEvents, resubscribed>>

RunningFor(f) == {s \in DOMAIN live : live[s].feed = f}

-----------------------------------------------------------------------------
(* Spawning *)

\* feed_endpoint: a client id is left for the sequence.
Spawnable(f, s) == f \in IbkrFeeds => s < ClientIds

\* spawn_live_feed for the feeds of a sorted sequence, until one has no endpoint.
Spawned(fs) == {i \in DOMAIN fs : \A j \in 1 .. i : Spawnable(fs[j], nextSequence + j - 1)}

Start(fs, kept, alive) ==
  LET ok == Spawned(fs)
      id(i) == nextSequence + i - 1
      taskOf(f) == CHOOSE i \in ok : fs[i] = f
  IN  /\ nextSequence + Len(fs) <= MaxSequence
      /\ nextSequence' = nextSequence + IF Cardinality(ok) = Len(fs) THEN Len(fs) ELSE Cardinality(ok) + 1
      /\ managed' = [f \in FeedIds |->
                       IF \E i \in ok : fs[i] = f THEN id(taskOf(f)) ELSE kept[f]]
      /\ live' = [s \in DOMAIN alive \cup {id(i) : i \in ok} |->
                       IF s \in DOMAIN alive THEN alive[s]
                       ELSE [feed |-> fs[s - nextSequence + 1], failures |-> 0]]

\* The feeds of a set in key order.
InKeyOrder(fs) ==
  [i \in 1 .. Cardinality(fs) |-> CHOOSE f \in fs : Cardinality({g \in fs : g <= f}) = i]

Without(tasks) == [s \in DOMAIN live \ tasks |-> live[s]]

\* The feeds without a task.
MissingTasks(fs, kept) == {f \in fs : kept[f] = NoTask}

\* FeedTaskManager::sync: abort what is no longer wanted, tell the supervisor,
\* spawn what is missing.
Sync(fs) ==
  LET kept == [f \in FeedIds |-> IF f \in fs THEN managed[f] ELSE NoTask]
      aborted == {managed[f] : f \in FeedIds \ fs}
      missing == MissingTasks(fs, kept)
  IN  /\ Start(InKeyOrder(missing), kept, Without(aborted))
      /\ wanted' = fs
      /\ feedState' = [f \in FeedIds |->
                         IF f \in fs \cap wanted THEN feedState[f] ELSE "Reconnecting"]
      /\ recent' = recent \cap fs \cap wanted
      /\ resubscribed' = resubscribed \cup (wanted \ fs)

-----------------------------------------------------------------------------
LFInit ==
  /\ serving = TRUE
  /\ wanted \in (SUBSET FeedIds) \ {{}}
  /\ feedState = [f \in FeedIds |-> "Reconnecting"] /\ recent = {}
  /\ LET fs == InKeyOrder(wanted)
     IN  /\ \A i \in DOMAIN fs : Spawnable(fs[i], i - 1)
         /\ nextSequence = Len(fs)
         /\ managed = [f \in FeedIds |->
              IF f \in wanted THEN Cardinality({g \in wanted : g < f}) ELSE NoTask]
         /\ live = [s \in 0 .. Len(fs) - 1 |-> [feed |-> fs[s + 1], failures |-> 0]]
  /\ gaveUp = <<>> /\ queuedEvents = {}
  /\ resubscribed = {}

-----------------------------------------------------------------------------
(* A feed task *)

\* The stream delivers an event.
Stream(s) ==
  /\ queuedEvents' = queuedEvents \cup {live[s].feed}
  /\ UNCHANGED <<serving, supervisor, feedTasks, gaveUp, resubscribed>>

\* The stream ends or fails and the task tries again.
Reconnect(s) ==
  /\ live[s].failures + 1 < MaxReconnects
  /\ live' = [live EXCEPT ![s].failures = @ + 1]
  /\ UNCHANGED <<serving, supervisor, managed, nextSequence, gaveUp, queuedEvents, resubscribed>>

\* Mutant: the last failure ends the task without a word.
GiveUpQuietly(s) ==
  /\ live[s].failures + 1 >= MaxReconnects
  /\ live' = Without({s})
  /\ UNCHANGED <<serving, supervisor, managed, nextSequence, gaveUp, queuedEvents, resubscribed>>

\* The reconnect budget is used up: the task waits for room, reports and ends.
GiveUp(s) ==
  /\ live[s].failures + 1 >= MaxReconnects
  /\ Len(gaveUp) < FatalCapacity
  /\ gaveUp' = Append(gaveUp, live[s].feed)
  /\ live' = Without({s})
  /\ UNCHANGED <<serving, supervisor, managed, nextSequence, queuedEvents, resubscribed>>

-----------------------------------------------------------------------------
(* Branches of the event loop *)

\* SubscriptionSupervisor::observe
Observe(f) ==
  /\ f \in queuedEvents
  /\ queuedEvents' = queuedEvents \ {f}
  /\ feedState' = [feedState EXCEPT ![f] = IF f \in wanted THEN "Connected" ELSE @]
  /\ recent' = IF f \in wanted THEN recent \cup {f} ELSE recent
  /\ UNCHANGED <<serving, wanted, feedTasks, gaveUp, resubscribed>>

\* Mutant: a feed that was marked failed counts as dropped.
StillWantedNever(f) == FALSE

\* supervisor.status(&spec).is_some()
StillWanted(f) == f \in wanted

\* mark_failed, then restart_failed, which forgets the task it had for the feed.
RestartFailed ==
  /\ gaveUp # <<>>
  /\ LET f == Head(gaveUp)
         kept == [managed EXCEPT ![f] = NoTask]
     IN  IF StillWanted(f)
         THEN /\ Start(<<f>>, kept, live)
              /\ feedState' = [feedState EXCEPT ![f] = "Reconnecting"]
         ELSE /\ managed' = kept
              /\ UNCHANGED <<live, nextSequence, feedState>>
  /\ gaveUp' = Tail(gaveUp)
  /\ UNCHANGED <<serving, wanted, recent, queuedEvents, resubscribed>>

\* The last event of a feed gets older than max_staleness.
Age(f) ==
  /\ f \in recent
  /\ recent' = recent \ {f}
  /\ UNCHANGED <<serving, wanted, feedState, feedTasks, gaveUp, queuedEvents, resubscribed>>

\* refresh_staleness for one feed.
Stale(f) == feedState[f] # "Failed" /\ f \notin recent

RefreshStaleness ==
  /\ feedState' = [f \in FeedIds |->
                     IF f \in wanted /\ Stale(f) THEN "Stale" ELSE feedState[f]]
  /\ UNCHANGED <<serving, wanted, recent, feedTasks, gaveUp, queuedEvents, resubscribed>>

\* A universe tick, or a reload without dynamic templates, that derived feeds.
ApplyFeeds(fs) ==
  /\ fs # {}
  /\ Sync(fs)
  /\ UNCHANGED <<serving, gaveUp, queuedEvents>>

\* stop_all: the loop has ended and the managed tasks are aborted.
StopAll ==
  /\ managed' = [f \in FeedIds |-> NoTask]
  /\ live' = Without({managed[f] : f \in FeedIds})
  /\ serving' = FALSE
  /\ UNCHANGED <<supervisor, nextSequence, gaveUp, queuedEvents, resubscribed>>

TaskStep == \E s \in DOMAIN live : Stream(s) \/ Reconnect(s) \/ GiveUp(s)

LoopStep ==
  \/ RestartFailed \/ RefreshStaleness \/ StopAll
  \/ \E f \in FeedIds : Observe(f)
  \/ \E fs \in SUBSET FeedIds : ApplyFeeds(fs)

LFNext ==
  \/ TaskStep
  \/ serving /\ LoopStep
  \/ \E f \in FeedIds : Age(f)

\* The loop's select picks any branch that is ready, and time passes.
LFFairness ==
  /\ WF_lfVars(serving /\ RestartFailed) /\ WF_lfVars(serving /\ RefreshStaleness)
  /\ \A f \in FeedIds : WF_lfVars(serving /\ Observe(f)) /\ WF_lfVars(Age(f))

LFSpec == LFInit /\ [][LFNext]_lfVars /\ LFFairness

-----------------------------------------------------------------------------
(* Properties *)

SubscriptionStates == {"Connected", "Reconnecting", "Stale"}

\* Type: the supervisor, and the task manager hold what they should.
LFTypeOK ==
  /\ serving \in BOOLEAN
  /\ wanted \subseteq FeedIds /\ recent \subseteq wanted /\ resubscribed \subseteq FeedIds
  /\ feedState \in [FeedIds -> SubscriptionStates]
  /\ nextSequence \in 0 .. MaxSequence
  /\ managed \in [FeedIds -> {NoTask} \cup 0 .. nextSequence - 1]
  /\ DOMAIN live \subseteq 0 .. nextSequence - 1
  /\ \A s \in DOMAIN live :
       live[s].feed \in FeedIds /\ live[s].failures \in 0 .. MaxReconnects - 1
  /\ gaveUp \in Seq(FeedIds) /\ Len(gaveUp) <= FatalCapacity
  /\ queuedEvents \subseteq FeedIds

Reported(f) == \E i \in DOMAIN gaveUp : gaveUp[i] = f
Exhausted == nextSequence > ClientIds

\* A feed the supervisor watches is never silently dead: its managed task runs, or
\* the report of its end is on the way to the loop, or a spawn has found no client
\* id left.
NoSilentFeed ==
  serving => \A f \in wanted :
    \/ managed[f] \in DOMAIN live /\ live[managed[f]].feed = f
    \/ Reported(f)
    \/ Exhausted

\* A feed that was never dropped has at most one task, counting a reported end: a
\* second subscription of the same feed needs a drop that crossed a report.
OneTaskPerStableFeed ==
  \A f \in FeedIds \ resubscribed :
    /\ Cardinality(RunningFor(f)) <= 1
    /\ Reported(f) => RunningFor(f) = {}

\* The manager holds no task for a feed nobody wants, so none is left running by a
\* late report of a feed that was dropped.
ManagedIsWanted == \A f \in FeedIds : managed[f] # NoTask => f \in wanted

\* The feed tasks as a whole: every watched feed has its one task, or its end is on the
\* way to the loop, whatever reloads, reconnects and reports interleave.
FeedSafety == LFTypeOK /\ NoSilentFeed /\ OneTaskPerStableFeed /\ ManagedIsWanted

\* A feed whose task is gone for good does not keep the market-data gate open on
\* the events that were still queued.
DeadFeedClosesGate ==
  \A f \in FeedIds :
    <>[](serving /\ f \in wanted /\ RunningFor(f) = {}) => <>[](feedState[f] # "Connected")

\* A feed that gave up is restarted, unless it is dropped or the client ids (or the
\* model's sequence numbers) are used up.
GivenUpComesBack ==
  \A f \in FeedIds :
    (serving /\ f \in wanted /\ RunningFor(f) = {}) ~>
      (~serving \/ f \notin wanted \/ RunningFor(f) # {} \/ nextSequence >= ClientIds)

\* A dead feed never goes on looking alive: it is restarted or it closes the gate.
FeedsRecover == DeadFeedClosesGate /\ GivenUpComesBack

=============================================================================
