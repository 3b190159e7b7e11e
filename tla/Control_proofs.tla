--------------------------- MODULE Control_proofs ---------------------------
(***************************************************************************)
(* Theorems about what lets the live daemon add exposure: the admission    *)
(* state of its event loop, for every set of feeds, both run modes, and    *)
(* with or without dynamic templates; the feed tasks behind it, for every  *)
(* number of feeds, client ids, reconnects and reports in transit; and the *)
(* path of an operator's request, for every number of chats and users.     *)
(***************************************************************************)
EXTENDS EntryGate, LiveFeeds, OperatorControl, FiniteSums, SequenceTheorems

-----------------------------------------------------------------------------
(* The admission of new exposure *)

\* What a clean report leaves behind, and what an emergency exit ends: the
\* two facts that, with AllowIsJustified, every branch of the loop preserves.
GateInv ==
  /\ TypeOK
  /\ AllowIsJustified
  /\ reconClean => gates["OwnershipReconciled"] /\ gates["UnknownStateClear"]
  /\ halt => ~started
  /\ NoIncreaseUnreconciled

LEMMA GateInvInit == Init => GateInv
  BY GateAssumption
     DEF Init, GateInv, TypeOK, AllowIsJustified, NoIncreaseUnreconciled, Startup,
         Gates, FeedStates, Effects

\* Applying a topology keeps the types of the feeds and of the pause.
LEMMA TopologyTypes ==
  ASSUME TypeOK, NEW fs \in SUBSET Feeds, NEW ok \in BOOLEAN, ApplyTopology(fs, ok)
  PROVE  /\ blocked' \in BOOLEAN
         /\ subscribed' \in SUBSET Feeds
         /\ status' \in [Feeds -> FeedStates]
  BY DEF ApplyTopology, DerivedStatus, TypeOK, FeedStates

LEMMA GateInvStep == GateInv /\ [Next]_vars => GateInv'
<1> SUFFICES ASSUME GateInv, [Next]_vars PROVE GateInv'
  OBVIOUS
<1> USE DEF GateInv, TypeOK, settings, Gates, FeedStates, Effects, NoIncreaseUnreconciled
<1>1. ASSUME NEW f \in Feeds, MarketEvent(f) PROVE GateInv'
  BY <1>1 DEF MarketEvent, MaySubmit, AllowIsJustified, Ready, ReadyFor, RequiredGates, AllConnected
<1>2. ASSUME NEW f \in Feeds, FeedGivesUp(f) PROVE GateInv'
  BY <1>2 DEF FeedGivesUp, AllowIsJustified, Ready, ReadyFor, RequiredGates, AllConnected
<1>3. ASSUME NEW f \in Feeds, FeedFatal(f) PROVE GateInv'
  BY <1>3 DEF FeedFatal, AllowIsJustified
<1>4. ASSUME NEW clean \in BOOLEAN, ReconcileTick(clean) PROVE GateInv'
  BY <1>4 DEF ReconcileTick, AllowIsJustified, MayIncrease, Ready, ReadyFor, RequiredGates, AllConnected
<1>5. ASSUME NEW quiet \in SUBSET Feeds, HealthTick(quiet) PROVE GateInv'
  BY <1>5 DEF HealthTick, AllowIsJustified, MayIncrease, Ready, ReadyFor, RequiredGates, AllConnected
<1>6. ASSUME NEW refreshed \in BOOLEAN, NEW ok \in BOOLEAN, NEW fs \in SUBSET Feeds,
             UniverseTick(refreshed, fs, ok)
      PROVE GateInv'
  BY <1>6, TopologyTypes DEF UniverseTick, AllowIsJustified
<1>7. ASSUME NEW accepted \in BOOLEAN, NEW mode \in BOOLEAN, NEW ok \in BOOLEAN,
             NEW fs \in SUBSET Feeds, Reload(accepted, mode, fs, ok)
      PROVE GateInv'
  BY <1>7, TopologyTypes DEF Reload, AllowIsJustified
<1>8. CASE OperatorStop
  BY <1>8 DEF OperatorStop, AllowIsJustified
<1>9. CASE OperatorStart
  BY <1>9 DEF OperatorStart, AllowIsJustified, MayIncrease, Ready, ReadyFor, RequiredGates, AllConnected
<1>10. CASE EmergencyExit
  BY <1>10 DEF EmergencyExit, AllowIsJustified
<1>11. CASE LoopBreaks
  BY <1>11 DEF LoopBreaks, AllowIsJustified
<1>12. CASE UNCHANGED vars
  BY <1>12 DEF vars, AllowIsJustified, Ready, ReadyFor, RequiredGates, AllConnected
<1> HIDE DEF GateInv
<1> QED
  BY <1>1, <1>2, <1>3, <1>4, <1>5, <1>6, <1>7, <1>8, <1>9, <1>10, <1>11, <1>12
     DEF Next, EventStep, TimerStep, OperatorStep

LEMMA GateInvHolds == Spec => []GateInv
  BY GateInvInit, GateInvStep, PTL DEF Spec

\* The admission state keeps its types.
THEOREM GateTypeCorrect == Spec => []TypeOK
<1>1. GateInv => TypeOK
  BY DEF GateInv
<1> QED
  BY <1>1, GateInvHolds, PTL

\* Whatever order the branches of the loop run in, an open risk gate is still
\* justified by everything may_increase asked when it was opened.
THEOREM OpenGateIsJustified == Spec => []AllowIsJustified
<1>1. GateInv => AllowIsJustified
  BY DEF GateInv
<1> QED
  BY <1>1, GateInvHolds, PTL

\* No Increase is dispatched after a report with an issue, in paper mode too.
THEOREM IncreaseIsReconciled == Spec => []NoIncreaseUnreconciled
<1>1. GateInv => NoIncreaseUnreconciled
  BY DEF GateInv
<1> QED
  BY <1>1, GateInvHolds, PTL

\* An emergency exit is final: operator_halt is never reset, trading_started
\* stays FALSE and no Increase follows.
THEOREM EmergencyHaltIsFinal == Spec => HaltIsFinal
<1>1. GateInv /\ [Next]_vars => [halt => halt' /\ ~started' /\ sent' # "Increase"]_vars
  <2> DEFINE Final == halt' /\ ~started' /\ sent' # "Increase"
  <2> SUFFICES ASSUME GateInv, Next, halt PROVE Final
    BY DEF Final
  <2>0. ~started
    BY DEF GateInv
  <2>1. ASSUME NEW f \in Feeds, MarketEvent(f) PROVE Final
    BY <2>0, <2>1 DEF MarketEvent
  <2>2. ASSUME NEW f \in Feeds, FeedGivesUp(f) PROVE Final
    BY <2>0, <2>2 DEF FeedGivesUp
  <2>9. ASSUME NEW f \in Feeds, FeedFatal(f) PROVE Final
    BY <2>0, <2>9 DEF FeedFatal
  <2>3. ASSUME NEW clean \in BOOLEAN, ReconcileTick(clean) PROVE Final
    BY <2>0, <2>3 DEF ReconcileTick
  <2>4. ASSUME NEW quiet \in SUBSET Feeds, HealthTick(quiet) PROVE Final
    BY <2>0, <2>4 DEF HealthTick
  <2>5. ASSUME NEW refreshed, NEW fs, NEW ok, UniverseTick(refreshed, fs, ok) PROVE Final
    BY <2>0, <2>5 DEF UniverseTick
  <2>6. ASSUME NEW accepted, NEW mode, NEW fs, NEW ok, Reload(accepted, mode, fs, ok) PROVE Final
    BY <2>0, <2>6 DEF Reload
  <2>7. CASE OperatorStop \/ OperatorStart
    BY <2>0, <2>7 DEF OperatorStop, OperatorStart
  <2>8. CASE EmergencyExit \/ LoopBreaks
    BY <2>0, <2>8 DEF EmergencyExit, LoopBreaks
  <2> HIDE DEF Final
  <2> QED
    BY <2>1, <2>2, <2>3, <2>4, <2>5, <2>6, <2>7, <2>8, <2>9 DEF Next, EventStep, TimerStep, OperatorStep
<1> QED
  BY <1>1, GateInvHolds, PTL DEF Spec, HaltIsFinal

\* A topology pause is lifted only by applying a topology with feeds, the
\* gate still closed and the new feeds not yet connected.
THEOREM PauseNeedsTopology == Spec => OnlyTopologyUnblocks
<1> DEFINE Lifted == blocked /\ ~blocked' =>
                       /\ ~allow'
                       /\ subscribed' # {}
                       /\ \A f \in subscribed' \ subscribed : status'[f] # "Connected"
<1>1. GateInv /\ [Next]_vars => [Lifted]_vars
  <2> SUFFICES ASSUME GateInv, Next, blocked, ~blocked'
               PROVE  /\ ~allow'
                      /\ subscribed' # {}
                      /\ \A f \in subscribed' \ subscribed : status'[f] # "Connected"
    BY DEF Lifted
  <2>1. \/ \E refreshed, ok \in BOOLEAN, fs \in SUBSET Feeds : UniverseTick(refreshed, fs, ok)
        \/ \E accepted, mode, ok \in BOOLEAN, fs \in SUBSET Feeds : Reload(accepted, mode, fs, ok)
    BY DEF Next, EventStep, TimerStep, OperatorStep, MarketEvent, FeedGivesUp, FeedFatal,
           ReconcileTick, HealthTick, OperatorStop, OperatorStart, EmergencyExit, LoopBreaks
  <2>2. PICK ok \in BOOLEAN, fs \in SUBSET Feeds : ~allow' /\ ApplyTopology(fs, ok)
    BY <2>1 DEF UniverseTick, Reload
  <2> QED
    BY <2>2 DEF ApplyTopology, DerivedStatus, GateInv, TypeOK
<1> QED
  BY <1>1, GateInvHolds, PTL DEF Spec, OnlyTopologyUnblocks, Lifted

-----------------------------------------------------------------------------
(* The feed tasks *)

LEMMA FeedsFinite ==
  ASSUME NEW M \in SUBSET FeedIds
  PROVE  IsFiniteSet(M) /\ Cardinality(M) \in Nat /\ Cardinality(M) <= NumFeeds
<1>1. IsFiniteSet(FeedIds) /\ Cardinality(FeedIds) = NumFeeds
  BY FeedAssumption, FS_Interval DEF FeedIds
<1>2. IsFiniteSet(M) /\ Cardinality(M) <= NumFeeds
  BY <1>1, FS_Subset
<1> QED
  BY <1>2, FS_CardinalityType

\* The place of a feed in the key order of a set.
Place(M, f) == Cardinality({g \in M : g <= f})

LEMMA PlaceOrder ==
  ASSUME NEW M \in SUBSET FeedIds, NEW f \in M
  PROVE  /\ Place(M, f) \in 1..Cardinality(M)
         /\ Cardinality({g \in M : g < f}) = Place(M, f) - 1
         /\ \A h \in M : f < h => Place(M, f) < Place(M, h)
<1>0. \A g \in M : g \in Int
  BY FeedAssumption DEF FeedIds
<1>1. PICK A \in SUBSET M : A = {g \in M : g <= f}
  OBVIOUS
<1>2. f \in A /\ IsFiniteSet(A) /\ Cardinality(A) \in Nat /\ IsFiniteSet(M) /\ Cardinality(M) \in Nat
  BY <1>1, FeedsFinite DEF FeedIds
<1>3. Cardinality(A) <= Cardinality(M)
  BY <1>2, FS_Subset
<1>4. Cardinality(A) # 0
  BY <1>2, FS_EmptySet
<1>5. Place(M, f) = Cardinality(A)
  BY <1>1 DEF Place
<1>6. Cardinality({g \in M : g < f}) = Place(M, f) - 1
  <2>1. PICK B : B = {g \in M : g < f}
    OBVIOUS
  <2>2. B = A \ {f}
    BY <1>0, <1>1, <2>1
  <2>3. Cardinality(B) = Cardinality(A) - 1
    BY <1>2, <2>2, FS_RemoveElement
  <2> QED
    BY <1>5, <2>1, <2>3
<1>7. ASSUME NEW h \in M, f < h PROVE Place(M, f) < Place(M, h)
  <2>1. PICK C \in SUBSET M : C = {g \in M : g <= h}
    OBVIOUS
  <2>2. A \in SUBSET C /\ h \in C /\ h \notin A
    <3>1. \A g \in M : g <= f => g <= h
      BY <1>0, <1>7
    <3>2. h <= h /\ ~(h <= f)
      BY <1>0, <1>7
    <3> QED
      BY <1>1, <2>1, <3>1, <3>2
  <2>3. IsFiniteSet(C) /\ Cardinality(C) \in Nat
    BY FeedsFinite
  <2>4. Cardinality(A) <= Cardinality(C) /\ (Cardinality(C) = Cardinality(A) => C = A)
    BY <2>2, <2>3, FS_Subset
  <2>5. Cardinality(A) < Cardinality(C)
    BY <1>2, <2>2, <2>3, <2>4
  <2>6. Place(M, h) = Cardinality(C)
    BY <2>1 DEF Place
  <2> QED
    BY <1>5, <2>5, <2>6
<1> QED
  BY <1>2, <1>3, <1>4, <1>5, <1>6, <1>7

\* Every place is taken by exactly one feed.
LEMMA PlacesTaken ==
  ASSUME NEW M \in SUBSET FeedIds
  PROVE  /\ \A i \in 1..Cardinality(M) : \E f \in M : Place(M, f) = i
         /\ \A f, h \in M : Place(M, f) = Place(M, h) => f = h
<1>1. ASSUME NEW f \in M, NEW h \in M, Place(M, f) = Place(M, h) PROVE f = h
  <2>0. Cardinality(M) \in Nat
    BY FeedsFinite
  <2>1. f \in Int /\ h \in Int
    BY FeedAssumption DEF FeedIds
  <2>2. /\ Place(M, f) \in 1..Cardinality(M) /\ (f < h => Place(M, f) < Place(M, h))
        /\ Place(M, h) \in 1..Cardinality(M) /\ (h < f => Place(M, h) < Place(M, f))
    BY PlaceOrder
  <2>3. ~(f < h) /\ ~(h < f)
    BY <1>1, <2>0, <2>2
  <2> QED
    BY <2>1, <2>3
<1>2. PICK n \in Nat : n = Cardinality(M)
  BY FeedsFinite
<1>3. PICK place : place = [f \in M |-> Place(M, f)]
  OBVIOUS
<1>4. place \in [M -> 1..n]
  BY <1>2, <1>3, PlaceOrder
<1>5. place \in Injection(M, 1..n)
  BY <1>1, <1>3, <1>4 DEF Injection, IsInjective
<1>6. IsFiniteSet(1..n) /\ Cardinality(1..n) = n
  BY <1>2, FS_Interval
<1>7. place \in Surjection(M, 1..n)
  BY <1>2, <1>5, <1>6, FS_Injection
<1>8. \A i \in 1..n : \E f \in M : place[f] = i
  BY <1>7 DEF Surjection
<1> QED
  BY <1>1, <1>2, <1>3, <1>8

\* A sequence that lists every feed of a set once.
Lists(fs, M) ==
  /\ Len(fs) \in Nat /\ DOMAIN fs = 1..Len(fs)
  /\ \A i \in DOMAIN fs : fs[i] \in M
  /\ \A i, j \in DOMAIN fs : fs[i] = fs[j] => i = j
  /\ \A f \in M : \E i \in DOMAIN fs : fs[i] = f

\* The key order lists the feeds of a set, each in its place.
LEMMA KeyOrderLists ==
  ASSUME NEW M \in SUBSET FeedIds
  PROVE  /\ Lists(InKeyOrder(M), M) /\ Len(InKeyOrder(M)) = Cardinality(M)
         /\ \A f \in M : InKeyOrder(M)[Place(M, f)] = f
<1>1. PICK n \in Nat : n = Cardinality(M)
  BY FeedsFinite
<1>2. PICK fs : fs = InKeyOrder(M)
  OBVIOUS
<1>3. fs = [i \in 1..n |-> CHOOSE f \in M : Place(M, f) = i]
  BY <1>1, <1>2 DEF InKeyOrder, Place
<1>4. ASSUME NEW i \in 1..n PROVE fs[i] \in M /\ Place(M, fs[i]) = i
  <2>1. \E f \in M : Place(M, f) = i
    BY <1>1, PlacesTaken
  <2>2. fs[i] = CHOOSE f \in M : Place(M, f) = i
    BY <1>3
  <2> QED
    BY <2>1, <2>2, Zenon
<1>5. fs \in [1..n -> M]
  BY <1>3, <1>4
<1>6. fs \in Seq(M) /\ DOMAIN fs = 1..n /\ Len(fs) = n
  BY <1>5
<1>7. ASSUME NEW f \in M PROVE Place(M, f) \in 1..n /\ fs[Place(M, f)] = f
  <2>1. PICK i \in 1..n : i = Place(M, f)
    BY <1>1, PlaceOrder
  <2>2. fs[i] \in M /\ Place(M, fs[i]) = Place(M, f)
    BY <1>4, <2>1
  <2> QED
    BY <2>1, <2>2, PlacesTaken
<1>8. \A i, j \in 1..n : fs[i] = fs[j] => i = j
  BY <1>4
<1>9. Lists(fs, M)
  BY <1>4, <1>6, <1>7, <1>8 DEF Lists
<1> QED
  BY <1>1, <1>2, <1>6, <1>7, <1>9

LEMMA OneLists == ASSUME NEW f PROVE Lists(<<f>>, {f}) /\ Len(<<f>>) = 1
BY DEF Lists

\* The feeds that get a task are the first ones, up to the first without an endpoint.
LEMMA SpawnedPrefix ==
  ASSUME nextSequence \in Nat, NEW fs, Len(fs) \in Nat, DOMAIN fs = 1..Len(fs),
         NEW ok, ok = Spawned(fs)
  PROVE  /\ Cardinality(ok) \in 0..Len(fs) /\ ok = 1..Cardinality(ok)
         /\ Cardinality(ok) < Len(fs) =>
              ~Spawnable(fs[Cardinality(ok) + 1], nextSequence + Cardinality(ok))
<1>1. PICK n \in Nat : n = Len(fs)
  OBVIOUS
<1>2. ok \in SUBSET (1..n)
  BY <1>1 DEF Spawned
<1>3. IsFiniteSet(1..n) /\ Cardinality(1..n) = n
  BY FS_Interval
<1>4. IsFiniteSet(ok) /\ Cardinality(ok) <= n
  BY <1>2, <1>3, FS_Subset
<1>5. PICK k \in Nat : k = Cardinality(ok)
  BY <1>4, FS_CardinalityType
<1>6. ASSUME NEW i \in ok PROVE i \in 1..k
  <2>1. i \in Nat \ {0} /\ 1..i \in SUBSET ok
    BY <1>1, <1>2 DEF Spawned
  <2>2. Cardinality(1..i) = i
    BY <2>1, FS_Interval
  <2>3. Cardinality(1..i) <= Cardinality(ok)
    BY <1>4, <2>1, FS_Subset
  <2> QED
    BY <1>5, <2>1, <2>2, <2>3
<1>7. IsFiniteSet(1..k) /\ Cardinality(1..k) = k
  BY FS_Interval
<1>8. ok = 1..k
  BY <1>5, <1>6, <1>7, FS_Subset
<1>9. ASSUME k < n PROVE ~Spawnable(fs[k + 1], nextSequence + k)
  <2>1. PICK m \in 1..n : m = k + 1
    BY <1>1, <1>9
  <2>2. m \notin ok
    BY <1>8, <2>1
  <2>3. PICK j \in 1..m : ~Spawnable(fs[j], nextSequence + j - 1)
    BY <1>1, <2>1, <2>2 DEF Spawned
  <2>4. CASE j = m
    BY <2>1, <2>3, <2>4
  <2>5. CASE j # m
    <3>1. j \in ok
      BY <1>8, <2>1, <2>5
    <3> QED
      BY <2>3, <3>1 DEF Spawned
  <2> QED
    BY <2>4, <2>5
<1> QED
  BY <1>1, <1>4, <1>5, <1>8, <1>9
\* What a start leaves: the tasks that ran go on, a new task is the managed one of
\* its feed, and a feed that was to be started and was not found no client id.
Started(M, kept, alive) ==
  /\ nextSequence' \in Nat /\ nextSequence <= nextSequence' /\ nextSequence' <= MaxSequence
  /\ managed' \in [FeedIds -> {NoTask} \cup 0 .. nextSequence' - 1]
  /\ DOMAIN live' \in SUBSET (0 .. nextSequence' - 1)
  /\ \A s \in DOMAIN alive : s \in DOMAIN live' /\ live'[s] = alive[s]
  /\ \A s \in DOMAIN live' \ DOMAIN alive :
       /\ nextSequence <= s /\ live'[s] \in [feed : M, failures : {0}]
       /\ managed'[live'[s].feed] = s
  /\ \A f \in FeedIds :
       \/ managed'[f] = kept[f] /\ (f \in M => Exhausted')
       \/ f \in M /\ managed'[f] \in DOMAIN live' /\ live'[managed'[f]].feed = f

LEMMA NumberBelow ==
  ASSUME NEW a \in Int, NEW b \in Int, NEW c \in Int, 0 <= a, a < b, b <= c
  PROVE  a \in 0 .. c - 1
  OBVIOUS

LEMMA StartEffect ==
  ASSUME nextSequence \in Nat, NEW M \in SUBSET FeedIds, NEW fs, Lists(fs, M),
         NEW kept \in [FeedIds -> {NoTask} \cup 0 .. nextSequence - 1],
         NEW alive, DOMAIN alive \in SUBSET (0 .. nextSequence - 1),
         Start(fs, kept, alive)
  PROVE  Started(M, kept, alive)
<1>1. PICK n \in Nat : n = Len(fs) /\ DOMAIN fs = 1 .. n
  BY DEF Lists
<1>2. PICK ok : ok = Spawned(fs)
  OBVIOUS
<1>3. PICK k \in Nat : k = Cardinality(ok)
  BY <1>1, <1>2, SpawnedPrefix
<1>4. /\ k <= n /\ ok = 1 .. k
      /\ k < n => ~Spawnable(fs[k + 1], nextSequence + k)
  BY <1>1, <1>2, <1>3, SpawnedPrefix
<1>5. /\ nextSequence + n <= MaxSequence
      /\ nextSequence' = nextSequence + IF k = n THEN n ELSE k + 1
      /\ managed' = [f \in FeedIds |->
           IF \E i \in ok : fs[i] = f THEN nextSequence + (CHOOSE i \in ok : fs[i] = f) - 1
                                      ELSE kept[f]]
      /\ live' = [s \in DOMAIN alive \cup {nextSequence + i - 1 : i \in ok} |->
           IF s \in DOMAIN alive THEN alive[s]
           ELSE [feed |-> fs[s - nextSequence + 1], failures |-> 0]]
  BY <1>1, <1>2, <1>3 DEF Start
<1>6. /\ nextSequence' \in Nat /\ nextSequence + k <= nextSequence' /\ nextSequence' <= MaxSequence
      /\ k < n => nextSequence' = nextSequence + k + 1
  <2>1. nextSequence + n \in Nat /\ nextSequence + k \in Nat /\ MaxSequence \in Nat
    BY FeedAssumption
  <2>2. nextSequence + n <= MaxSequence /\ nextSequence' = nextSequence + IF k = n THEN n ELSE k + 1
    BY <1>5
  <2>3. CASE k = n
    BY <2>1, <2>2, <2>3
  <2>4. CASE k < n
    <3>1. nextSequence' = nextSequence + k + 1
      BY <2>2, <2>4
    <3>2. k + 1 <= n
      BY <2>4
    <3>3. nextSequence + k + 1 \in Nat /\ nextSequence + k <= nextSequence + k + 1
          /\ nextSequence + k + 1 <= nextSequence + n
      BY <3>2
    <3>4. nextSequence + k + 1 <= MaxSequence
      BY <2>1, <2>2, <3>3
    <3> QED
      BY <3>1, <3>3, <3>4
  <2> QED
    BY <1>4, <2>3, <2>4
<1>7. k < n => Exhausted'
  <2>1. ASSUME k < n PROVE nextSequence + k >= ClientIds
    BY <1>4, <2>1, FeedAssumption DEF Spawnable
  <2> QED
    BY <1>6, <2>1, FeedAssumption DEF Exhausted
<1>8. ASSUME NEW i \in 1 .. k
      PROVE  /\ fs[i] \in M /\ fs[i] \in FeedIds /\ managed'[fs[i]] = nextSequence + i - 1
  <2>1. i \in DOMAIN fs /\ fs[i] \in M /\ fs[i] \in FeedIds
    BY <1>1, <1>4 DEF Lists
  <2>2. PICK f \in FeedIds : f = fs[i]
    BY <2>1
  <2>3. \E j \in ok : fs[j] = f
    BY <1>4, <2>2
  <2>4. PICK j : j = CHOOSE l \in ok : fs[l] = f
    OBVIOUS
  <2>5. j \in ok /\ fs[j] = f
    BY <2>3, <2>4, Zenon
  <2>6. j = i
    BY <1>1, <1>4, <2>1, <2>2, <2>5 DEF Lists
  <2>7. managed'[f] = nextSequence + j - 1
    BY <1>5, <2>3, <2>4
  <2> QED
    BY <2>1, <2>2, <2>6, <2>7
<1>9. ASSUME NEW f \in FeedIds, ~\E i \in 1 .. k : fs[i] = f
      PROVE  managed'[f] = kept[f] /\ (f \in M => k < n)
  <2>1. managed'[f] = kept[f]
    BY <1>4, <1>5, <1>9
  <2>2. ASSUME f \in M PROVE k < n
    <3>1. PICK i \in 1 .. n : fs[i] = f
      BY <1>1, <2>2 DEF Lists
    <3> QED
      BY <1>4, <1>9, <3>1
  <2> QED
    BY <2>1, <2>2
<1>10. DOMAIN live' = DOMAIN alive \cup {nextSequence + i - 1 : i \in 1 .. k}
  BY <1>4, <1>5
<1>11. ASSUME NEW i \in 1 .. k, NEW s, s = nextSequence + i - 1
       PROVE  /\ s \in DOMAIN live' /\ s \notin DOMAIN alive /\ s \in 0 .. nextSequence' - 1
              /\ live'[s] = [feed |-> fs[i], failures |-> 0]
  <2>1. s \in Nat /\ s - nextSequence + 1 = i /\ s < nextSequence + k /\ nextSequence <= s
    BY <1>11
  <2>2. s \in DOMAIN live'
    BY <1>10, <1>11
  <2>3. s \notin DOMAIN alive
    BY <2>1
  <2>4. live'[s] = [feed |-> fs[i], failures |-> 0]
    BY <1>5, <1>10, <2>1, <2>2, <2>3
  <2>5. s \in 0 .. nextSequence' - 1
    <3>1. nextSequence' \in Int /\ nextSequence + k \in Int /\ nextSequence + k <= nextSequence'
      BY <1>6
    <3>2. s \in Int /\ 0 <= s /\ s < nextSequence + k
      BY <2>1
    <3> QED
      BY <3>1, <3>2, NumberBelow
  <2> QED
    BY <2>2, <2>3, <2>4, <2>5
<1>12. \A s \in DOMAIN alive : s \in DOMAIN live' /\ live'[s] = alive[s]
  BY <1>5
<1>13. DOMAIN live' \in SUBSET (0 .. nextSequence' - 1)
  <2>1. DOMAIN alive \in SUBSET (0 .. nextSequence' - 1)
    BY <1>6
  <2> QED
    BY <1>10, <1>11, <2>1
<1>14. ASSUME NEW s \in DOMAIN live' \ DOMAIN alive
       PROVE  /\ nextSequence <= s /\ live'[s] \in [feed : M, failures : {0}]
              /\ managed'[live'[s].feed] = s
  <2>1. PICK i \in 1 .. k : s = nextSequence + i - 1
    BY <1>10
  <2>2. live'[s] = [feed |-> fs[i], failures |-> 0]
    BY <1>11, <2>1
  <2> QED
    BY <1>8, <2>1, <2>2
<1>15. ASSUME NEW f \in FeedIds
       PROVE  \/ managed'[f] = kept[f] /\ (f \in M => Exhausted')
              \/ f \in M /\ managed'[f] \in DOMAIN live' /\ live'[managed'[f]].feed = f
  <2>1. CASE \E i \in 1 .. k : fs[i] = f
    <3>1. PICK i \in 1 .. k : fs[i] = f
      BY <2>1
    <3>2. managed'[f] = nextSequence + i - 1 /\ f \in M
      BY <1>8, <3>1
    <3>3. live'[managed'[f]] = [feed |-> fs[i], failures |-> 0] /\ managed'[f] \in DOMAIN live'
      BY <1>11, <3>2
    <3> QED
      BY <3>1, <3>2, <3>3
  <2>2. CASE ~\E i \in 1 .. k : fs[i] = f
    BY <1>7, <1>9, <2>2
  <2> QED
    BY <2>1, <2>2
<1>16. managed' \in [FeedIds -> {NoTask} \cup 0 .. nextSequence' - 1]
  <2>1. DOMAIN managed' = FeedIds /\ managed' = [f \in FeedIds |-> managed'[f]]
    BY <1>5
  <2>2. ASSUME NEW f \in FeedIds PROVE managed'[f] \in {NoTask} \cup 0 .. nextSequence' - 1
    <3>1. kept[f] \in {NoTask} \cup 0 .. nextSequence' - 1
      BY <1>6
    <3> QED
      BY <1>13, <1>15, <3>1
  <2> QED
    BY <2>1, <2>2
<1>17. nextSequence <= nextSequence'
  BY <1>6
<1> QED
  BY <1>6, <1>12, <1>13, <1>14, <1>15, <1>16, <1>17 DEF Started
\* A feed that was never dropped: only its managed task runs for it, its end is
\* reported once, and never of a feed the manager has forgotten.
OneLife(f) ==
  /\ \A s \in DOMAIN live : live[s].feed = f => s = managed[f]
  /\ Reported(f) => \A s \in DOMAIN live : live[s].feed # f
  /\ \A i, j \in DOMAIN gaveUp : gaveUp[i] = f /\ gaveUp[j] = f => i = j
  /\ serving /\ managed[f] = NoTask => ~Reported(f)

TaskRecords == [feed : FeedIds, failures : 0 .. MaxReconnects - 1]

\* The feeds' inductive invariant: a managed number is never another feed's task,
\* which is what makes aborting one feed harmless to the others.
FeedInv ==
  /\ LFTypeOK /\ ManagedIsWanted /\ NoSilentFeed
  /\ \A s \in DOMAIN live : live[s] \in TaskRecords
  /\ \A f \in FeedIds : managed[f] \in DOMAIN live => live[managed[f]].feed = f
  /\ \A f \in FeedIds \ resubscribed : OneLife(f)

LEMMA FeedInvSafe == FeedInv => FeedSafety
<1> SUFFICES ASSUME FeedInv PROVE OneTaskPerStableFeed
  BY DEF FeedInv, FeedSafety
<1>1. ASSUME NEW f \in FeedIds \ resubscribed
      PROVE  Cardinality(RunningFor(f)) <= 1 /\ (Reported(f) => RunningFor(f) = {})
  <2>0. OneLife(f)
    BY <1>1 DEF FeedInv
  <2>1. PICK R : R = RunningFor(f)
    OBVIOUS
  <2>2. R \in SUBSET {managed[f]}
    BY <2>0, <2>1 DEF OneLife, RunningFor
  <2>3. IsFiniteSet({managed[f]}) /\ Cardinality({managed[f]}) = 1
    BY FS_Singleton
  <2>4. Cardinality(R) <= 1
    BY <2>2, <2>3, FS_Subset
  <2>5. Reported(f) => RunningFor(f) = {}
    BY <2>0 DEF OneLife, RunningFor
  <2> QED
    BY <2>1, <2>4, <2>5
<1> QED
  BY <1>1 DEF OneTaskPerStableFeed

LEMMA FeedInvInit == LFInit => FeedInv
<1> SUFFICES ASSUME LFInit PROVE FeedInv
  OBVIOUS
<1>1. wanted \in SUBSET FeedIds
  BY DEF LFInit
<1>2. PICK fs : fs = InKeyOrder(wanted)
  OBVIOUS
<1>3. PICK n \in Nat : n = Len(fs) /\ n = Cardinality(wanted) /\ n <= NumFeeds
  BY <1>1, <1>2, KeyOrderLists, FeedsFinite
<1>4. Lists(fs, wanted) /\ DOMAIN fs = 1 .. n
  BY <1>1, <1>2, <1>3, KeyOrderLists DEF Lists
<1>5. /\ nextSequence = n
      /\ managed = [f \in FeedIds |->
           IF f \in wanted THEN Cardinality({g \in wanted : g < f}) ELSE NoTask]
      /\ live = [s \in 0 .. n - 1 |-> [feed |-> fs[s + 1], failures |-> 0]]
  BY <1>2, <1>3 DEF LFInit
<1>6. ASSUME NEW f \in wanted
      PROVE  /\ managed[f] \in 0 .. n - 1 /\ fs[managed[f] + 1] = f
  <2>1. managed[f] = Place(wanted, f) - 1 /\ Place(wanted, f) \in 1 .. n
    BY <1>1, <1>3, <1>5, PlaceOrder
  <2>2. fs[Place(wanted, f)] = f
    BY <1>1, <1>2, KeyOrderLists
  <2> QED
    BY <2>1, <2>2
<1>7. ASSUME NEW s \in DOMAIN live
      PROVE  /\ s \in 0 .. n - 1 /\ live[s] \in TaskRecords
             /\ live[s].feed = fs[s + 1] /\ live[s].feed \in wanted
             /\ live[s].failures = 0
             /\ managed[live[s].feed] = s
  <2>1. s \in 0 .. n - 1 /\ live[s] = [feed |-> fs[s + 1], failures |-> 0]
    BY <1>5
  <2>2. s + 1 \in 1 .. n /\ fs[s + 1] \in wanted
    BY <1>4, <2>1 DEF Lists
  <2>3. 0 \in 0 .. MaxReconnects - 1
    BY FeedAssumption
  <2>4. live[s] \in TaskRecords
    BY <1>1, <2>1, <2>2, <2>3 DEF TaskRecords
  <2>5. PICK f \in wanted : f = fs[s + 1]
    BY <2>2
  <2>6. managed[f] \in 0 .. n - 1 /\ fs[managed[f] + 1] = fs[s + 1]
    BY <1>6, <2>5
  <2>7. managed[f] + 1 = s + 1
    BY <1>4, <2>1, <2>2, <2>6 DEF Lists
  <2> QED
    BY <2>1, <2>2, <2>4, <2>5, <2>6, <2>7
<1>8. ASSUME NEW f \in FeedIds
      PROVE  /\ managed[f] \in {NoTask} \cup 0 .. n - 1 /\ (managed[f] # NoTask => f \in wanted)
             /\ f \in wanted => managed[f] \in DOMAIN live
             /\ managed[f] \in DOMAIN live => live[managed[f]].feed = f
  <2>1. CASE f \in wanted
    BY <1>5, <1>6, <1>7, <2>1
  <2>2. CASE f \notin wanted
    BY <1>5, <2>2 DEF NoTask
  <2> QED
    BY <2>1, <2>2
<1>9. LFTypeOK
  <2>1. managed \in [FeedIds -> {NoTask} \cup 0 .. nextSequence - 1]
    BY <1>5, <1>8
  <2>2. nextSequence \in 0 .. MaxSequence
    BY <1>3, <1>5, FeedAssumption
  <2>3. /\ serving \in BOOLEAN /\ recent \subseteq wanted /\ resubscribed \subseteq FeedIds
        /\ feedState \in [FeedIds -> SubscriptionStates] /\ queuedEvents \subseteq FeedIds
    BY DEF LFInit, SubscriptionStates
  <2>4. gaveUp \in Seq(FeedIds) /\ Len(gaveUp) <= FatalCapacity
    BY FeedAssumption DEF LFInit
  <2>5. \A s \in DOMAIN live :
          live[s].feed \in FeedIds /\ live[s].failures \in 0 .. MaxReconnects - 1
    BY <1>1, <1>7 DEF TaskRecords
  <2>6. DOMAIN live \subseteq 0 .. nextSequence - 1
    BY <1>5
  <2> QED
    BY <1>1, <2>1, <2>2, <2>3, <2>4, <2>5, <2>6 DEF LFTypeOK
<1>10. ManagedIsWanted /\ NoSilentFeed
  BY <1>1, <1>8 DEF ManagedIsWanted, NoSilentFeed
<1>11. \A f \in FeedIds \ resubscribed : OneLife(f)
  <2>1. DOMAIN gaveUp = {}
    BY DEF LFInit
  <2> QED
    BY <1>7, <2>1 DEF OneLife, Reported
<1> QED
  BY <1>7, <1>8, <1>9, <1>10, <1>11 DEF FeedInv

\* What the supervisor and the stream do leaves tasks and reports alone.
LEMMA WatchStep ==
  ASSUME FeedInv, UNCHANGED <<serving, wanted, feedTasks, gaveUp, resubscribed>>,
         recent' \subseteq wanted, queuedEvents' \subseteq FeedIds,
         feedState' \in [FeedIds -> SubscriptionStates]
  PROVE  FeedInv'
  BY DEF FeedInv, LFTypeOK, ManagedIsWanted, NoSilentFeed, OneLife, Reported, Exhausted, feedTasks,
         TaskRecords

LEMMA StreamStep ==
  ASSUME FeedInv, NEW s \in DOMAIN live, Stream(s) PROVE FeedInv'
  BY WatchStep DEF FeedInv, LFTypeOK, Stream, supervisor

LEMMA ObserveStep ==
  ASSUME FeedInv, NEW f \in FeedIds, Observe(f) PROVE FeedInv'
<1>1. feedState' \in [FeedIds -> SubscriptionStates]
  BY DEF FeedInv, LFTypeOK, Observe, SubscriptionStates
<1>2. recent' \subseteq wanted /\ queuedEvents' \subseteq FeedIds
  BY DEF FeedInv, LFTypeOK, Observe
<1> QED
  BY <1>1, <1>2, WatchStep DEF Observe

LEMMA AgeStep ==
  ASSUME FeedInv, NEW f \in FeedIds, Age(f) PROVE FeedInv'
  BY WatchStep DEF FeedInv, LFTypeOK, Age

LEMMA StalenessStep ==
  ASSUME FeedInv, RefreshStaleness PROVE FeedInv'
  BY WatchStep DEF FeedInv, LFTypeOK, RefreshStaleness, SubscriptionStates

LEMMA ReconnectStep ==
  ASSUME FeedInv, NEW s \in DOMAIN live, Reconnect(s) PROVE FeedInv'
<1>1. PICK n \in Nat : n = live[s].failures /\ n + 1 < MaxReconnects
  BY DEF FeedInv, LFTypeOK, Reconnect
<1>2. DOMAIN live' = DOMAIN live /\ \A t \in DOMAIN live : t # s => live'[t] = live[t]
  BY DEF Reconnect
<1>3. live'[s] = [live[s] EXCEPT !.failures = n + 1]
  BY <1>1 DEF Reconnect
<1>4. n + 1 \in 0 .. MaxReconnects - 1
  BY <1>1, FeedAssumption
<1>5. live[s] \in TaskRecords
  BY DEF FeedInv
<1>6. live'[s].feed = live[s].feed /\ live'[s] \in TaskRecords
  BY <1>3, <1>4, <1>5 DEF TaskRecords
<1>7. \A t \in DOMAIN live : live'[t].feed = live[t].feed /\ live'[t] \in TaskRecords
  BY <1>2, <1>6 DEF FeedInv
<1>8. UNCHANGED <<serving, wanted, feedState, recent, managed, nextSequence, gaveUp, queuedEvents,
                  resubscribed>>
  BY DEF Reconnect, supervisor
<1>9. LFTypeOK'
  BY <1>2, <1>7, <1>8 DEF FeedInv, LFTypeOK, TaskRecords
<1>10. (ManagedIsWanted /\ NoSilentFeed)'
  BY <1>2, <1>7, <1>8 DEF FeedInv, LFTypeOK, ManagedIsWanted, NoSilentFeed, Reported, Exhausted
<1>11. ASSUME NEW f \in FeedIds \ resubscribed PROVE OneLife(f)'
  BY <1>2, <1>7, <1>8 DEF FeedInv, OneLife, Reported
<1> QED
  BY <1>2, <1>7, <1>8, <1>9, <1>10, <1>11 DEF FeedInv, TaskRecords

\* The end of a task is reported, so a watched feed is not silent; the task was the
\* managed one if the feed was never dropped.
LEMMA GiveUpStep ==
  ASSUME FeedInv, NEW s \in DOMAIN live, GiveUp(s) PROVE FeedInv'
<1>1. PICK g \in FeedIds : g = live[s].feed
  BY DEF FeedInv, LFTypeOK
<1>2. gaveUp' = Append(gaveUp, g) /\ gaveUp \in Seq(FeedIds) /\ Len(gaveUp) < FatalCapacity
  BY <1>1 DEF GiveUp, FeedInv, LFTypeOK
<1>3. PICK n \in Nat : n = Len(gaveUp) /\ DOMAIN gaveUp = 1 .. n
  BY <1>2
<1>4. /\ gaveUp' \in Seq(FeedIds) /\ Len(gaveUp') = n + 1 /\ DOMAIN gaveUp' = 1 .. (n + 1)
      /\ gaveUp'[n + 1] = g /\ \A i \in 1 .. n : gaveUp'[i] = gaveUp[i]
  BY <1>2, <1>3
<1>5. DOMAIN live' = DOMAIN live \ {s} /\ \A t \in DOMAIN live' : live'[t] = live[t]
  BY DEF GiveUp, Without
<1>6. UNCHANGED <<serving, wanted, feedState, recent, managed, nextSequence, queuedEvents, resubscribed>>
  BY DEF GiveUp, supervisor
<1>7. ASSUME NEW f PROVE Reported(f)' <=> (Reported(f) \/ f = g)
  <2>1. Reported(f)' <=> \E i \in 1 .. (n + 1) : gaveUp'[i] = f
    BY <1>4 DEF Reported
  <2>2. Reported(f) <=> \E i \in 1 .. n : gaveUp[i] = f
    BY <1>3 DEF Reported
  <2>3. ASSUME Reported(f) \/ f = g PROVE Reported(f)'
    <3>1. CASE Reported(f)
      <4>1. PICK i \in 1 .. n : gaveUp[i] = f
        BY <2>2, <3>1
      <4>2. i \in 1 .. (n + 1) /\ gaveUp'[i] = f
        BY <1>4, <4>1
      <4> QED
        BY <2>1, <4>2
    <3>2. CASE f = g
      <4>1. n + 1 \in 1 .. (n + 1)
        OBVIOUS
      <4> QED
        BY <1>4, <2>1, <3>2, <4>1
    <3> QED
      BY <2>3, <3>1, <3>2
  <2>4. ASSUME Reported(f)' PROVE Reported(f) \/ f = g
    <3>1. PICK i \in 1 .. (n + 1) : gaveUp'[i] = f
      BY <2>1, <2>4
    <3>2. CASE i = n + 1
      BY <1>4, <3>1, <3>2
    <3>3. CASE i # n + 1
      <4>1. i \in 1 .. n
        BY <3>1, <3>3
      <4> QED
        BY <1>4, <2>2, <3>1, <4>1
    <3> QED
      BY <3>2, <3>3
  <2> QED
    BY <2>3, <2>4
<1>8. LFTypeOK'
  <2>1. DOMAIN live' \subseteq 0 .. nextSequence - 1
    BY <1>5 DEF FeedInv, LFTypeOK
  <2>2. n + 1 <= FatalCapacity
    BY <1>2, <1>3, FeedAssumption
  <2> QED
    BY <1>4, <1>5, <1>6, <2>1, <2>2 DEF FeedInv, LFTypeOK
<1>9. NoSilentFeed'
  <2> SUFFICES ASSUME serving, NEW f \in wanted
               PROVE  \/ managed[f] \in DOMAIN live' /\ live'[managed[f]].feed = f
                      \/ Reported(f)' \/ Exhausted
    BY <1>6 DEF NoSilentFeed, Exhausted
  <2>1. \/ managed[f] \in DOMAIN live /\ live[managed[f]].feed = f
        \/ Reported(f) \/ Exhausted
    BY DEF FeedInv, NoSilentFeed
  <2>2. CASE managed[f] = s /\ live[s].feed = f
    BY <1>1, <1>7, <2>2
  <2>3. CASE managed[f] # s
    BY <1>5, <1>7, <2>1, <2>3
  <2> QED
    BY <1>7, <2>1, <2>2, <2>3
<1>10. ASSUME NEW f \in FeedIds \ resubscribed PROVE OneLife(f)'
  <2>0. OneLife(f)
    BY <1>10 DEF FeedInv
  <2>1. CASE f # g
    <3>1. Reported(f)' <=> Reported(f)
      BY <1>7, <2>1
    <3>2. \A i \in 1 .. (n + 1) : gaveUp'[i] = f => i \in 1 .. n /\ gaveUp[i] = f
      <4>1. \A i \in 1 .. (n + 1) : i # n + 1 => i \in 1 .. n
        OBVIOUS
      <4> QED
        BY <1>4, <2>1, <4>1
    <3>3. \A i, j \in DOMAIN gaveUp' : gaveUp'[i] = f /\ gaveUp'[j] = f => i = j
      BY <1>3, <1>4, <2>0, <3>2 DEF OneLife
    <3> QED
      BY <1>5, <1>6, <2>0, <3>1, <3>3 DEF OneLife
  <2>2. CASE f = g
    <3>1. s = managed[f] /\ ~Reported(f)
      BY <1>1, <2>0, <2>2 DEF OneLife
    <3>2. \A t \in DOMAIN live' : live'[t].feed # f
      BY <1>5, <2>0, <3>1 DEF OneLife
    <3>3. \A i \in 1 .. (n + 1) : gaveUp'[i] = f => i = n + 1
      <4>1. \A i \in 1 .. (n + 1) : i # n + 1 => i \in 1 .. n
        OBVIOUS
      <4> QED
        BY <1>3, <1>4, <3>1, <4>1 DEF Reported
    <3>4. managed'[f] # NoTask
      <4>1. s \in Nat
        BY DEF FeedInv, LFTypeOK
      <4> QED
        BY <1>6, <3>1, <4>1 DEF NoTask
    <3> QED
      BY <1>4, <3>2, <3>3, <3>4 DEF OneLife
  <2> QED
    BY <2>1, <2>2
<1>11. ManagedIsWanted'
  BY <1>6 DEF FeedInv, ManagedIsWanted
<1>12. \A t \in DOMAIN live' : live'[t] \in TaskRecords'
  BY <1>5 DEF FeedInv, TaskRecords
<1>13. \A f \in FeedIds : managed'[f] \in DOMAIN live' => live'[managed'[f]].feed = f
  BY <1>5, <1>6 DEF FeedInv
<1> QED
  BY <1>6, <1>8, <1>9, <1>10, <1>11, <1>12, <1>13 DEF FeedInv

\* Starting tasks for feeds that have none disturbs no other feed's task.
LEMMA LaunchTasks ==
  ASSUME FeedInv, NEW M \in SUBSET FeedIds, NEW kept, NEW alive, Started(M, kept, alive),
         \A f \in FeedIds : kept[f] \in {managed[f], NoTask},
         \A f \in M : kept[f] = NoTask,
         DOMAIN alive \in SUBSET DOMAIN live, \A s \in DOMAIN alive : alive[s] = live[s]
  PROVE  /\ \A s \in DOMAIN live' : live'[s] \in TaskRecords
         /\ \A f \in FeedIds : managed'[f] \in DOMAIN live' => live'[managed'[f]].feed = f
         /\ \A s \in DOMAIN live' :
              \/ s \in DOMAIN alive /\ live'[s] = live[s]
              \/ live'[s].feed \in M /\ s = managed'[live'[s].feed]
         /\ \A f \in FeedIds \ M : managed'[f] = kept[f]
         /\ Exhausted => Exhausted'
<1>0. nextSequence \in Nat /\ DOMAIN live \in SUBSET (0 .. nextSequence - 1)
  BY DEF FeedInv, LFTypeOK
<1>1. \A s \in DOMAIN live' :
        \/ s \in DOMAIN alive /\ live'[s] = live[s]
        \/ /\ live'[s].feed \in M /\ s = managed'[live'[s].feed] /\ nextSequence <= s
           /\ live'[s] \in [feed : M, failures : {0}]
  BY DEF Started
<1>2. 0 \in 0 .. MaxReconnects - 1
  BY FeedAssumption
<1>3. \A s \in DOMAIN live' : live'[s] \in TaskRecords
  BY <1>1, <1>2 DEF FeedInv, TaskRecords
<1>4. \A f \in FeedIds \ M : managed'[f] = kept[f]
  BY DEF Started
<1>5. ASSUME NEW f \in FeedIds, managed'[f] \in DOMAIN live' PROVE live'[managed'[f]].feed = f
  <2>1. CASE managed'[f] = kept[f]
    <3>1. managed'[f] # NoTask
      BY <1>5 DEF Started, NoTask
    <3>2. managed'[f] = managed[f] /\ managed[f] \in 0 .. nextSequence - 1
      BY <2>1, <3>1 DEF FeedInv, LFTypeOK
    <3>3. ~(nextSequence <= managed[f])
      BY <1>0, <3>2
    <3>4. managed[f] \in DOMAIN alive /\ live'[managed[f]] = live[managed[f]]
      BY <1>1, <1>5, <3>2, <3>3
    <3> QED
      BY <3>2, <3>4 DEF FeedInv
  <2>2. CASE managed'[f] # kept[f]
    BY <2>2 DEF Started
  <2> QED
    BY <2>1, <2>2
<1>6. Exhausted => Exhausted'
  BY <1>0, FeedAssumption DEF Started, Exhausted
<1> QED
  BY <1>1, <1>3, <1>4, <1>5, <1>6

\* The report of a feed still wanted starts its next task, of one dropped is forgotten.
LEMMA RestartStep ==
  ASSUME FeedInv, serving, RestartFailed PROVE FeedInv'
<1>1. PICK n \in Nat : n + 1 = Len(gaveUp) /\ DOMAIN gaveUp = 1 .. (n + 1) /\ gaveUp \in Seq(FeedIds)
  <2>0. gaveUp \in Seq(FeedIds) /\ gaveUp # <<>>
    BY DEF FeedInv, LFTypeOK, RestartFailed
  <2>1. gaveUp \in Seq(FeedIds) /\ Len(gaveUp) \in Nat /\ Len(gaveUp) # 0
    BY <2>0
  <2>2. Len(gaveUp) - 1 \in Nat /\ (Len(gaveUp) - 1) + 1 = Len(gaveUp)
    BY <2>1
  <2> QED
    <3>1. PICK n \in Nat : n = Len(gaveUp) - 1
      BY <2>2
    <3>2. n + 1 = Len(gaveUp) /\ DOMAIN gaveUp = 1 .. (n + 1)
      BY <2>1, <3>1
    <3> QED
      BY <2>1, <3>2
<1>2. PICK g \in FeedIds : g = Head(gaveUp) /\ g = gaveUp[1]
  BY <1>1
<1>3. gaveUp' = Tail(gaveUp)
  BY DEF RestartFailed
<1>4. /\ gaveUp' \in Seq(FeedIds) /\ Len(gaveUp') = n /\ DOMAIN gaveUp' = 1 .. n
      /\ \A i \in 1 .. n : gaveUp'[i] = gaveUp[i + 1]
  BY <1>1, <1>3
<1>5. \A i \in 1 .. n : i + 1 \in DOMAIN gaveUp /\ i + 1 # 1
  BY <1>1
<1>6. UNCHANGED <<serving, wanted, recent, queuedEvents, resubscribed>>
  BY DEF RestartFailed
<1>7. ASSUME NEW f PROVE Reported(f)' => Reported(f)
  BY <1>4, <1>5 DEF Reported
<1>8. ASSUME NEW f, f # g PROVE Reported(f) => Reported(f)'
  <2>1. ASSUME NEW i \in 1 .. (n + 1), gaveUp[i] = f PROVE Reported(f)'
    <3>1. i # 1
      BY <1>2, <1>8, <2>1
    <3>2. i - 1 \in 1 .. n /\ (i - 1) + 1 = i
      BY <2>1, <3>1
    <3> QED
      BY <1>4, <2>1, <3>2 DEF Reported
  <2> QED
    BY <1>1, <2>1 DEF Reported
<1>9. Reported(g) /\ (g \notin resubscribed => OneLife(g) /\ ~Reported(g)')
  <2>1. 1 \in DOMAIN gaveUp
    BY <1>1
  <2>2. ASSUME g \notin resubscribed PROVE OneLife(g) /\ ~Reported(g)'
    <3>1. OneLife(g)
      BY <2>2 DEF FeedInv
    <3> QED
      BY <1>2, <1>4, <1>5, <2>1, <3>1 DEF OneLife, Reported
  <2> QED
    BY <1>2, <2>1, <2>2 DEF Reported
<1>10. ASSUME NEW f \in FeedIds, \A i \in DOMAIN gaveUp : \A j \in DOMAIN gaveUp :
                                   gaveUp[i] = f /\ gaveUp[j] = f => i = j
       PROVE  \A i, j \in DOMAIN gaveUp' : gaveUp'[i] = f /\ gaveUp'[j] = f => i = j
  <2>1. ASSUME NEW i \in 1 .. n, NEW j \in 1 .. n, gaveUp'[i] = f, gaveUp'[j] = f PROVE i = j
    <3>1. i + 1 = j + 1
      BY <1>4, <1>5, <1>10, <2>1
    <3> QED
      BY <3>1
  <2> QED
    BY <1>4, <2>1
<1>11. PICK kept : kept = [managed EXCEPT ![g] = NoTask]
  OBVIOUS
<1>12. /\ kept \in [FeedIds -> {NoTask} \cup 0 .. nextSequence - 1] /\ kept[g] = NoTask
       /\ \A f \in FeedIds : f # g => kept[f] = managed[f]
  BY <1>11 DEF FeedInv, LFTypeOK
<1>13. n <= FatalCapacity
  BY <1>1, FeedAssumption DEF FeedInv, LFTypeOK
<1>14. CASE g \in wanted
  <2>1. Start(<<g>>, kept, live) /\ feedState' = [feedState EXCEPT ![g] = "Reconnecting"]
    BY <1>2, <1>11, <1>14 DEF RestartFailed, StillWanted
  <2>2. PICK M \in SUBSET FeedIds : M = {g}
    OBVIOUS
  <2>3. nextSequence \in Nat /\ DOMAIN live \in SUBSET (0 .. nextSequence - 1)
    BY DEF FeedInv, LFTypeOK
  <2>4. Lists(<<g>>, M)
    BY <2>2, OneLists
  <2>5. Started(M, kept, live)
    BY <1>12, <2>1, <2>3, <2>4, StartEffect
  <2>6. /\ \A s \in DOMAIN live' : live'[s] \in TaskRecords
        /\ \A f \in FeedIds : managed'[f] \in DOMAIN live' => live'[managed'[f]].feed = f
        /\ \A s \in DOMAIN live' :
              \/ s \in DOMAIN live /\ live'[s] = live[s]
              \/ live'[s].feed \in M /\ s = managed'[live'[s].feed]
        /\ \A f \in FeedIds \ M : managed'[f] = kept[f]
        /\ Exhausted => Exhausted'
    BY <1>12, <2>2, <2>5, LaunchTasks
  <2>7. \A f \in FeedIds : f # g => managed'[f] = managed[f]
    BY <1>12, <2>2, <2>6
  <2>8. LFTypeOK'
    <3>1. feedState' \in [FeedIds -> SubscriptionStates]
      BY <2>1 DEF FeedInv, LFTypeOK, SubscriptionStates
    <3>2. /\ nextSequence' \in 0 .. MaxSequence
          /\ managed' \in [FeedIds -> {NoTask} \cup 0 .. nextSequence' - 1]
          /\ DOMAIN live' \subseteq 0 .. nextSequence' - 1
      BY <2>5, FeedAssumption DEF Started
    <3>3. \A s \in DOMAIN live' :
            live'[s].feed \in FeedIds /\ live'[s].failures \in 0 .. MaxReconnects - 1
      BY <2>6 DEF TaskRecords
    <3> QED
      BY <1>4, <1>6, <1>13, <3>1, <3>2, <3>3 DEF FeedInv, LFTypeOK
  <2>9. ManagedIsWanted'
    BY <1>6, <1>14, <2>7 DEF FeedInv, ManagedIsWanted
  <2>10. ASSUME NEW f \in wanted
         PROVE  \/ managed'[f] \in DOMAIN live' /\ live'[managed'[f]].feed = f
                \/ Reported(f)' \/ Exhausted'
    <3>0. f \in FeedIds
      BY DEF FeedInv, LFTypeOK
    <3>1. CASE f = g
      BY <1>12, <2>2, <2>5, <3>1 DEF Started
    <3>2. CASE f # g
      <4>1. \/ managed[f] \in DOMAIN live /\ live[managed[f]].feed = f
            \/ Reported(f) \/ Exhausted
        BY DEF FeedInv, NoSilentFeed
      <4>2. \A s \in DOMAIN live : s \in DOMAIN live' /\ live'[s] = live[s]
        BY <2>5 DEF Started
      <4> QED
        BY <1>8, <2>6, <2>7, <3>0, <3>2, <4>1, <4>2
    <3> QED
      BY <3>1, <3>2
  <2>11. ASSUME NEW f \in FeedIds \ resubscribed PROVE OneLife(f)'
    <3>0. OneLife(f)
      BY DEF FeedInv
    <3>1. CASE f = g
      <4>1. \A s \in DOMAIN live : live[s].feed # g
        BY <1>9, <3>0, <3>1 DEF OneLife
      <4>2. \A s \in DOMAIN live' : live'[s].feed = g => s = managed'[g]
        BY <2>6, <4>1
      <4> QED
        BY <1>9, <1>10, <3>0, <3>1, <4>2 DEF OneLife
    <3>2. CASE f # g
      <4>1. \A s \in DOMAIN live' : live'[s].feed = f => s \in DOMAIN live /\ live[s].feed = f
        BY <2>2, <2>6, <3>2
      <4> QED
        BY <1>6, <1>7, <1>10, <2>7, <3>0, <3>2, <4>1 DEF OneLife
    <3> QED
      BY <3>1, <3>2
  <2> QED
    BY <1>6, <2>6, <2>8, <2>9, <2>10, <2>11 DEF FeedInv, NoSilentFeed, TaskRecords
<1>15. CASE g \notin wanted
  <2>1. managed' = kept /\ UNCHANGED <<live, nextSequence, feedState>>
    BY <1>2, <1>11, <1>15 DEF RestartFailed, StillWanted
  <2>2. managed[g] = NoTask
    BY <1>15 DEF FeedInv, ManagedIsWanted
  <2>3. \A f \in FeedIds : managed'[f] = managed[f]
    BY <1>12, <2>1, <2>2
  <2>4. LFTypeOK'
    BY <1>4, <1>6, <1>12, <1>13, <2>1 DEF FeedInv, LFTypeOK
  <2>5. ASSUME NEW f \in FeedIds \ resubscribed PROVE OneLife(f)'
    BY <1>6, <1>7, <1>10, <2>1, <2>3 DEF FeedInv, OneLife
  <2>6. NoSilentFeed'
    <3>1. wanted \subseteq FeedIds /\ g \notin wanted
      BY <1>15 DEF FeedInv, LFTypeOK
    <3> QED
      BY <1>6, <1>8, <2>1, <2>3, <3>1 DEF FeedInv, NoSilentFeed, Exhausted
  <2> QED
    BY <1>6, <2>1, <2>3, <2>4, <2>5, <2>6 DEF FeedInv, ManagedIsWanted, TaskRecords
<1> QED
  BY <1>14, <1>15

\* A new set of feeds: what is dropped is aborted, what has no task is started, and
\* the managed task of a feed that stays is never among the aborted ones.
LEMMA SyncStep ==
  ASSUME FeedInv, serving, NEW fs \in SUBSET FeedIds, ApplyFeeds(fs) PROVE FeedInv'
<1>1. PICK kept : kept = [f \in FeedIds |-> IF f \in fs THEN managed[f] ELSE NoTask]
  OBVIOUS
<1>2. PICK aborted : aborted = {managed[f] : f \in FeedIds \ fs}
  OBVIOUS
<1>3. PICK alive : alive = Without(aborted)
  OBVIOUS
<1>4. PICK M \in SUBSET FeedIds : M = MissingTasks(fs, kept)
  BY DEF MissingTasks
<1>5. /\ Start(InKeyOrder(M), kept, alive) /\ wanted' = fs
      /\ feedState' = [f \in FeedIds |-> IF f \in fs \cap wanted THEN feedState[f] ELSE "Reconnecting"]
      /\ recent' = recent \cap fs \cap wanted
      /\ resubscribed' = resubscribed \cup (wanted \ fs)
      /\ UNCHANGED <<serving, gaveUp, queuedEvents>>
  BY <1>1, <1>2, <1>3, <1>4 DEF ApplyFeeds, Sync
<1>6. /\ kept \in [FeedIds -> {NoTask} \cup 0 .. nextSequence - 1]
      /\ \A f \in FeedIds : kept[f] \in {managed[f], NoTask}
      /\ \A f \in fs : kept[f] = managed[f]
      /\ \A f \in FeedIds \ fs : kept[f] = NoTask
  BY <1>1 DEF FeedInv, LFTypeOK
<1>7. M \in SUBSET fs /\ \A f \in M : kept[f] = NoTask /\ managed[f] = NoTask
  BY <1>4, <1>6 DEF MissingTasks
<1>8. \A f \in fs \ M : managed[f] # NoTask /\ f \in wanted
  BY <1>4, <1>6 DEF MissingTasks, FeedInv, ManagedIsWanted
<1>9. /\ DOMAIN alive = DOMAIN live \ aborted
      /\ \A s \in DOMAIN alive : alive[s] = live[s]
  BY <1>3 DEF Without
<1>10. nextSequence \in Nat /\ DOMAIN live \in SUBSET (0 .. nextSequence - 1)
  BY DEF FeedInv, LFTypeOK
<1>11. DOMAIN alive \in SUBSET (0 .. nextSequence - 1) /\ DOMAIN alive \in SUBSET DOMAIN live
  BY <1>9, <1>10
<1>12. Lists(InKeyOrder(M), M)
  BY KeyOrderLists
<1>13. Started(M, kept, alive)
  BY <1>5, <1>6, <1>10, <1>11, <1>12, StartEffect
<1>14. /\ \A s \in DOMAIN live' : live'[s] \in TaskRecords
       /\ \A f \in FeedIds : managed'[f] \in DOMAIN live' => live'[managed'[f]].feed = f
       /\ \A s \in DOMAIN live' :
             \/ s \in DOMAIN alive /\ live'[s] = live[s]
             \/ live'[s].feed \in M /\ s = managed'[live'[s].feed]
       /\ \A f \in FeedIds \ M : managed'[f] = kept[f]
       /\ Exhausted => Exhausted'
  BY <1>6, <1>7, <1>9, <1>11, <1>13, LaunchTasks
<1>15. LFTypeOK'
  <2>1. feedState' \in [FeedIds -> SubscriptionStates]
    BY <1>5 DEF FeedInv, LFTypeOK, SubscriptionStates
  <2>2. /\ nextSequence' \in 0 .. MaxSequence
        /\ managed' \in [FeedIds -> {NoTask} \cup 0 .. nextSequence' - 1]
        /\ DOMAIN live' \subseteq 0 .. nextSequence' - 1
    BY <1>13, FeedAssumption DEF Started
  <2>3. \A s \in DOMAIN live' :
          live'[s].feed \in FeedIds /\ live'[s].failures \in 0 .. MaxReconnects - 1
    BY <1>14 DEF TaskRecords
  <2>4. wanted' \subseteq FeedIds /\ recent' \subseteq wanted' /\ resubscribed' \subseteq FeedIds
    BY <1>5 DEF FeedInv, LFTypeOK
  <2> QED
    BY <1>5, <2>1, <2>2, <2>3, <2>4 DEF FeedInv, LFTypeOK
<1>16. ManagedIsWanted'
  BY <1>5, <1>6, <1>7, <1>14 DEF ManagedIsWanted
<1>17. NoSilentFeed'
  <2>1. ASSUME NEW f \in fs
        PROVE  \/ managed'[f] \in DOMAIN live' /\ live'[managed'[f]].feed = f
               \/ Reported(f)' \/ Exhausted'
    <3>1. CASE f \in M
      <4>1. managed'[f] = kept[f] => Exhausted'
        BY <1>7, <1>13, <3>1 DEF Started, NoTask
      <4> QED
        BY <1>13, <3>1, <4>1 DEF Started
    <3>2. CASE f \notin M
      <4>1. managed'[f] = managed[f] /\ f \in wanted
        BY <1>6, <1>8, <1>14, <3>2
      <4>2. \/ managed[f] \in DOMAIN live /\ live[managed[f]].feed = f
            \/ Reported(f) \/ Exhausted
        BY <4>1 DEF FeedInv, NoSilentFeed
      <4>3. Reported(f) => Reported(f)'
        BY <1>5 DEF Reported
      <4>4. ASSUME managed[f] \in DOMAIN live, live[managed[f]].feed = f
            PROVE  managed[f] \in DOMAIN live' /\ live'[managed[f]].feed = f
        <5>1. managed[f] \notin aborted
          <6> SUFFICES ASSUME NEW g \in FeedIds \ fs, managed[g] = managed[f] PROVE FALSE
            BY <1>2
          <6>1. live[managed[g]].feed = g
            BY <4>4 DEF FeedInv
          <6> QED
            BY <4>4, <6>1
        <5>2. managed[f] \in DOMAIN alive /\ alive[managed[f]] = live[managed[f]]
          BY <1>9, <4>4, <5>1
        <5> QED
          BY <1>13, <4>4, <5>2 DEF Started
      <4> QED
        BY <1>14, <4>1, <4>2, <4>3, <4>4
    <3> QED
      BY <3>1, <3>2
  <2> QED
    BY <1>5, <2>1 DEF NoSilentFeed
<1>18. ASSUME NEW f \in FeedIds \ resubscribed' PROVE OneLife(f)'
  <2>0. OneLife(f) /\ (Reported(f)' <=> Reported(f))
    BY <1>5, <1>18 DEF FeedInv, Reported
  <2>1. kept[f] = managed[f]
    <3>1. CASE f \in fs
      BY <1>6, <3>1
    <3>2. CASE f \notin fs
      <4>1. f \notin wanted
        BY <1>5, <1>18, <3>2
      <4> QED
        BY <1>6, <3>2, <4>1 DEF FeedInv, ManagedIsWanted
    <3> QED
      BY <3>1, <3>2
  <2>2. CASE f \in M
    <3>1. managed[f] = NoTask /\ ~Reported(f)
      BY <1>7, <2>0, <2>2 DEF OneLife
    <3>2. \A s \in DOMAIN live : live[s].feed # f
      <4>1. NoTask \notin DOMAIN live
        BY <1>10 DEF NoTask
      <4> QED
        BY <2>0, <3>1, <4>1 DEF OneLife
    <3>3. \A s \in DOMAIN live' : live'[s].feed = f => s = managed'[f]
      BY <1>11, <1>14, <3>2
    <3> QED
      BY <1>5, <2>0, <3>1, <3>3 DEF OneLife
  <2>3. CASE f \notin M
    <3>1. managed'[f] = managed[f]
      BY <1>14, <2>1, <2>3
    <3>2. \A s \in DOMAIN live' : live'[s].feed = f => s \in DOMAIN live /\ live[s].feed = f
      BY <1>11, <1>14, <2>3
    <3> QED
      BY <1>5, <2>0, <3>1, <3>2 DEF OneLife
  <2> QED
    BY <2>2, <2>3
<1> QED
  BY <1>14, <1>15, <1>16, <1>17, <1>18 DEF FeedInv, TaskRecords

LEMMA StopAllStep ==
  ASSUME FeedInv, StopAll PROVE FeedInv'
<1>1. /\ managed' = [f \in FeedIds |-> NoTask] /\ ~serving' /\ serving' \in BOOLEAN
      /\ UNCHANGED <<wanted, feedState, recent, nextSequence, gaveUp, queuedEvents, resubscribed>>
  BY DEF StopAll, supervisor
<1>2. /\ DOMAIN live' = DOMAIN live \ {managed[f] : f \in FeedIds}
      /\ \A s \in DOMAIN live' : live'[s] = live[s]
  BY DEF StopAll, Without
<1>3. NoTask \notin DOMAIN live' /\ DOMAIN live' \subseteq DOMAIN live
  BY <1>2 DEF FeedInv, LFTypeOK, NoTask
<1>4. LFTypeOK'
  BY <1>1, <1>2, <1>3 DEF FeedInv, LFTypeOK
<1>5. (ManagedIsWanted /\ NoSilentFeed)'
  BY <1>1 DEF ManagedIsWanted, NoSilentFeed
<1>6. ASSUME NEW f \in FeedIds \ resubscribed PROVE OneLife(f)'
  <2>1. OneLife(f)
    BY DEF FeedInv
  <2>2. \A s \in DOMAIN live' : live'[s].feed # f
    BY <1>2, <2>1 DEF OneLife
  <2> QED
    BY <1>1, <2>1, <2>2 DEF OneLife
<1>7. \A f \in FeedIds : managed'[f] \notin DOMAIN live'
  BY <1>1, <1>3
<1> QED
  BY <1>1, <1>2, <1>3, <1>4, <1>5, <1>6, <1>7 DEF FeedInv, TaskRecords

LEMMA FeedInvStep == FeedInv /\ [LFNext]_lfVars => FeedInv'
<1> SUFFICES ASSUME FeedInv, [LFNext]_lfVars PROVE FeedInv'
  OBVIOUS
<1>1. ASSUME NEW s \in DOMAIN live, Stream(s) \/ Reconnect(s) \/ GiveUp(s) PROVE FeedInv'
  BY <1>1, StreamStep, ReconnectStep, GiveUpStep
<1>2. CASE serving /\ LoopStep
  BY <1>2, RestartStep, StalenessStep, StopAllStep, ObserveStep, SyncStep DEF LoopStep
<1>3. ASSUME NEW f \in FeedIds, Age(f) PROVE FeedInv'
  BY <1>3, AgeStep
<1>4. CASE UNCHANGED lfVars
  <2>1. UNCHANGED <<serving, wanted, feedTasks, gaveUp, resubscribed, recent, queuedEvents, feedState>>
    BY <1>4 DEF lfVars, supervisor
  <2> QED
    BY <2>1, WatchStep DEF FeedInv, LFTypeOK
<1> QED
  BY <1>1, <1>2, <1>3, <1>4 DEF LFNext, TaskStep

\* However drops, reloads, reconnects and reports of given-up feeds interleave, a watched
\* feed has its managed task or a report of its end on the way, until the client ids are
\* used up, and a feed that was never dropped has one task: for every number of feeds,
\* client ids and reconnects and every capacity of the report channel.
THEOREM FeedsAreWatched == LFSpec => []FeedSafety
<1>1. LFSpec => []FeedInv
  BY FeedInvInit, FeedInvStep, PTL DEF LFSpec
<1> QED
  BY <1>1, FeedInvSafe, PTL

-----------------------------------------------------------------------------
(* The operator's path: what is true of every state *)

RequestSet == [chat : Chats, user : OperatorUsers, cmd : Commands, at : Nat]
Tasks == [st : {"idle", "sending", "waiting"}, id : Nat]

OCTypes ==
  /\ clock \in Nat /\ normal \in [OperatorUsers -> Seq(Nat)]
  /\ lastUse \in [OperatorUsers -> [Cooling -> Int]]
  /\ handler \in [Chats -> Tasks] /\ bridge \in Tasks
  /\ inbox \in Seq(Nat) /\ runtimeBox \in Seq(Nat) /\ done \in Seq(Nat)
  /\ requests \in Seq(RequestSet) /\ Len(requests) <= MaxRequests
  /\ answers \in [Ids -> {"none", "accepted", "rejected"}]
  /\ shown \in [Ids -> {"none", "timeout", "accepted", "rejected"}]
  /\ trading \in [halt : BOOLEAN, started : BOOLEAN, exit : Nat]
  /\ exitOrder \in [size : Nat, recorded : Nat] /\ up \in BOOLEAN

\* Of n requests, the numbers in a channel are some; a channel holds a request.
Real(n, i) == i \in Nat /\ 1 <= i /\ i <= n
AllReal(n, s) == \A x \in DOMAIN s : Real(n, s[x])
Holds(s, i) == \E x \in DOMAIN s : s[x] = i

PathInv ==
  /\ AllReal(Len(requests), inbox) /\ AllReal(Len(requests), runtimeBox)
  /\ AllReal(Len(requests), done) /\ Len(inbox) <= ChannelSize
  /\ \A c \in Chats :
       /\ handler[c].st = "idle" => handler[c].id = Nobody
       /\ handler[c].st # "idle" => Real(Len(requests), handler[c].id) /\ requests[handler[c].id].chat = c

\* The bridge has one request outstanding: it is in the runtime's channel, or the
\* emergency exit is at it, or it is answered.
BridgeInv ==
  /\ bridge.st \in {"idle", "waiting"}
  /\ bridge.st = "idle" => bridge.id = Nobody /\ runtimeBox = <<>> /\ trading.exit = Nobody
  /\ bridge.st = "waiting" =>
       /\ Real(Len(requests), bridge.id)
       /\ \/ runtimeBox = <<bridge.id>> /\ trading.exit = Nobody /\ answers[bridge.id] = "none"
          \/ /\ runtimeBox = <<>> /\ trading.exit = bridge.id /\ answers[bridge.id] = "none"
             /\ Holds(done, bridge.id)
          \/ runtimeBox = <<>> /\ trading.exit = Nobody /\ answers[bridge.id] # "none"

\* Of one chat, the first was sent first.
Before(r, i, j) == r[i].chat = r[j].chat => i < j
AllBefore(r, s, j) == \A x \in DOMAIN s : Before(r, s[x], j)
Ahead(r, s, t) == \A y \in DOMAIN t : AllBefore(r, s, t[y])
SentInOrder(r, s) == \A x, y \in DOMAIN s : x < y => Before(r, s[x], s[y])

\* The way of the requests is one queue, in order, with what is being sent behind it.
OrderInv ==
  /\ SentInOrder(requests, done) /\ SentInOrder(requests, inbox) /\ Ahead(requests, done, inbox)
  /\ Ahead(requests, done, runtimeBox) /\ Ahead(requests, runtimeBox, inbox)
  /\ \A c \in Chats : handler[c].st = "sending" =>
       /\ AllBefore(requests, done, handler[c].id) /\ AllBefore(requests, runtimeBox, handler[c].id)
       /\ AllBefore(requests, inbox, handler[c].id)

AnswerInv ==
  /\ \A i \in Ids : answers[i] # "none" => Holds(done, i)
  /\ \A i \in Ids : shown[i] \notin {"none", "timeout"} => shown[i] = answers[i] /\ answers[i] # "none"

HaltInv ==
  /\ \A x \in DOMAIN done : requests[done[x]].cmd = "emergency" => trading.halt
  /\ trading.halt => ~trading.started
  /\ exitOrder.size = exitOrder.recorded

OCInv == OCTypes /\ PathInv /\ BridgeInv /\ OrderInv /\ AnswerInv /\ HaltInv

-----------------------------------------------------------------------------
(* Channels *)

LEMMA AppendIs ==
  ASSUME NEW S, NEW s \in Seq(S), NEW e \in S
  PROVE  /\ Append(s, e) \in Seq(S) /\ Len(Append(s, e)) = Len(s) + 1
         /\ \A x \in DOMAIN s : x \in DOMAIN Append(s, e) /\ Append(s, e)[x] = s[x]
         /\ Len(s) + 1 \in DOMAIN Append(s, e) /\ Append(s, e)[Len(s) + 1] = e
         /\ \A x \in DOMAIN Append(s, e) : x \in DOMAIN s \/ x = Len(s) + 1
         /\ DOMAIN s = 1 .. Len(s) /\ Len(s) \in Nat
  OBVIOUS

LEMMA TailIs ==
  ASSUME NEW S, NEW s \in Seq(S), s # <<>>
  PROVE  /\ Head(s) = s[1] /\ 1 \in DOMAIN s /\ Head(s) \in S /\ Tail(s) \in Seq(S)
         /\ Len(Tail(s)) = Len(s) - 1 /\ Len(s) \in Nat
         /\ \A x \in DOMAIN Tail(s) : x + 1 \in DOMAIN s /\ 1 < x + 1 /\ x \in Nat /\ Tail(s)[x] = s[x + 1]
         /\ DOMAIN s \subseteq Nat
  OBVIOUS

LEMMA HoldsAppend ==
  ASSUME NEW s \in Seq(Nat), NEW e \in Nat
  PROVE  Holds(Append(s, e), e) /\ \A i : Holds(s, i) => Holds(Append(s, e), i)
  BY AppendIs DEF Holds

LEMMA RealAppend ==
  ASSUME NEW s \in Seq(Nat), NEW e \in Nat, NEW n, AllReal(n, s), Real(n, e)
  PROVE  AllReal(n, Append(s, e))
  BY AppendIs DEF AllReal

LEMMA RealTail ==
  ASSUME NEW s \in Seq(Nat), s # <<>>, NEW n, AllReal(n, s)
  PROVE  AllReal(n, Tail(s)) /\ Real(n, Head(s))
  BY TailIs DEF AllReal

LEMMA AllBeforeAppend ==
  ASSUME NEW r, NEW s \in Seq(Nat), NEW e \in Nat, NEW j, AllBefore(r, s, j), Before(r, e, j)
  PROVE  AllBefore(r, Append(s, e), j)
  BY AppendIs DEF AllBefore

LEMMA AllBeforeTail ==
  ASSUME NEW r, NEW s \in Seq(Nat), s # <<>>, NEW j, AllBefore(r, s, j)
  PROVE  AllBefore(r, Tail(s), j) /\ Before(r, Head(s), j)
  BY TailIs DEF AllBefore

LEMMA AheadAppend ==
  ASSUME NEW r, NEW s \in Seq(Nat), NEW t \in Seq(Nat), NEW e \in Nat, Ahead(r, s, t), AllBefore(r, s, e)
  PROVE  Ahead(r, s, Append(t, e))
  BY AppendIs DEF Ahead

LEMMA AheadTail ==
  ASSUME NEW r, NEW s \in Seq(Nat), NEW t \in Seq(Nat), t # <<>>, Ahead(r, s, t)
  PROVE  Ahead(r, s, Tail(t)) /\ AllBefore(r, s, Head(t))
  BY TailIs DEF Ahead

LEMMA OrderAppend ==
  ASSUME NEW r, NEW s \in Seq(Nat), NEW e \in Nat, SentInOrder(r, s), AllBefore(r, s, e)
  PROVE  SentInOrder(r, Append(s, e))
<1> SUFFICES ASSUME NEW x \in DOMAIN Append(s, e), NEW y \in DOMAIN Append(s, e), x < y
             PROVE  Before(r, Append(s, e)[x], Append(s, e)[y])
  BY DEF SentInOrder
<1>1. x \in DOMAIN s /\ (y \in DOMAIN s \/ y = Len(s) + 1)
  BY AppendIs
<1> QED
  BY <1>1, AppendIs DEF SentInOrder, AllBefore

LEMMA OrderTail ==
  ASSUME NEW r, NEW s \in Seq(Nat), s # <<>>, SentInOrder(r, s)
  PROVE  SentInOrder(r, Tail(s)) /\ \A y \in DOMAIN Tail(s) : Before(r, Head(s), Tail(s)[y])
<1>1. ASSUME NEW x \in DOMAIN Tail(s), NEW y \in DOMAIN Tail(s), x < y
      PROVE  Before(r, Tail(s)[x], Tail(s)[y])
  <2>1. x + 1 < y + 1
    BY <1>1, TailIs
  <2> QED
    BY <2>1, TailIs DEF SentInOrder
<1>2. ASSUME NEW y \in DOMAIN Tail(s) PROVE Before(r, Head(s), Tail(s)[y])
  BY TailIs DEF SentInOrder
<1> QED
  BY <1>1, <1>2 DEF SentInOrder

\* What was admitted is not changed by what is admitted later.
LEMMA GrownRequests ==
  ASSUME NEW r \in Seq(RequestSet), NEW q \in RequestSet
  PROVE  /\ \A i : Real(Len(r), i) => Real(Len(r) + 1, i) /\ Append(r, q)[i] = r[i]
         /\ \A s : AllReal(Len(r), s) => AllReal(Len(r) + 1, s) /\ AllBefore(Append(r, q), s, Len(r) + 1)
         /\ \A s, j : AllReal(Len(r), s) /\ Real(Len(r), j) /\ AllBefore(r, s, j) =>
              AllBefore(Append(r, q), s, j)
         /\ \A s : AllReal(Len(r), s) /\ SentInOrder(r, s) => SentInOrder(Append(r, q), s)
         /\ \A s, t : AllReal(Len(r), s) /\ AllReal(Len(r), t) /\ Ahead(r, s, t) =>
              Ahead(Append(r, q), s, t)
<1>1. ASSUME NEW i, Real(Len(r), i) PROVE Real(Len(r) + 1, i) /\ Append(r, q)[i] = r[i] /\ i < Len(r) + 1
  BY <1>1, AppendIs DEF Real
<1>2. ASSUME NEW s, AllReal(Len(r), s) PROVE AllReal(Len(r) + 1, s) /\ AllBefore(Append(r, q), s, Len(r) + 1)
  BY <1>1, <1>2 DEF AllReal, AllBefore, Before
<1>3. ASSUME NEW s, NEW j, AllReal(Len(r), s), Real(Len(r), j), AllBefore(r, s, j)
      PROVE  AllBefore(Append(r, q), s, j)
  BY <1>1, <1>3 DEF AllReal, AllBefore, Before
<1>4. ASSUME NEW s, AllReal(Len(r), s), SentInOrder(r, s) PROVE SentInOrder(Append(r, q), s)
  BY <1>1, <1>4 DEF AllReal, SentInOrder, Before
<1>5. ASSUME NEW s, NEW t, AllReal(Len(r), s), AllReal(Len(r), t), Ahead(r, s, t) PROVE Ahead(Append(r, q), s, t)
  BY <1>3, <1>5 DEF AllReal, Ahead
<1> QED
  BY <1>1, <1>2, <1>3, <1>4, <1>5

-----------------------------------------------------------------------------
(* The path of a request *)

LEMMA OperatorNumbers ==
  /\ PerWindow \in Nat /\ PerWindow > 0 /\ RateWindow \in Nat /\ RateWindow > 0 /\ Cooldown \in Nat
  /\ ChannelSize \in Nat /\ ChannelSize > 0 /\ MaxRequests \in Nat /\ MaxClock \in Nat
  BY OperatorAssumption

LEMMA RealIsId ==
  ASSUME OCTypes, NEW i, Real(Len(requests), i) PROVE i \in Ids /\ i \in Nat /\ i # Nobody
  BY OperatorNumbers DEF OCTypes, Real, Ids, Nobody

LEMMA QuietIs == Quiet \in Tasks /\ Quiet.st = "idle" /\ Quiet.id = Nobody
  BY DEF Quiet, Tasks, Nobody

LEMMA OCInvInit == OCInit => OCInv
<1> SUFFICES ASSUME OCInit PROVE OCInv
  OBVIOUS
<1>1. OCTypes
  <2>1. Never \in Int
    BY OperatorNumbers DEF Never
  <2>2. /\ clock \in Nat /\ normal \in [OperatorUsers -> Seq(Nat)]
        /\ inbox \in Seq(Nat) /\ runtimeBox \in Seq(Nat) /\ done \in Seq(Nat)
        /\ requests \in Seq(RequestSet) /\ Len(requests) <= MaxRequests
    BY OperatorNumbers DEF OCInit
  <2>3. lastUse \in [OperatorUsers -> [Cooling -> Int]]
    BY <2>1 DEF OCInit
  <2>4. handler \in [Chats -> Tasks] /\ bridge \in Tasks
    BY QuietIs DEF OCInit
  <2>5. /\ answers \in [Ids -> {"none", "accepted", "rejected"}]
        /\ shown \in [Ids -> {"none", "timeout", "accepted", "rejected"}]
        /\ exitOrder \in [size : Nat, recorded : Nat]
    BY DEF OCInit, NoExitOrder
  <2>6. trading \in [halt : BOOLEAN, started : BOOLEAN, exit : Nat] /\ up \in BOOLEAN
    BY DEF OCInit, Nobody
  <2> QED
    BY <2>2, <2>3, <2>4, <2>5, <2>6 DEF OCTypes
<1>2. inbox = <<>> /\ runtimeBox = <<>> /\ done = <<>> /\ requests = <<>>
  BY DEF OCInit
<1>3. /\ DOMAIN inbox = {} /\ DOMAIN runtimeBox = {} /\ DOMAIN done = {} /\ Len(inbox) = 0
  BY <1>2
<1>4. \A c \in Chats : handler[c].st = "idle" /\ handler[c].id = Nobody
  BY QuietIs DEF OCInit
<1>5. PathInv
  BY <1>3, <1>4, OperatorNumbers DEF PathInv, AllReal
<1>6. BridgeInv
  BY <1>2, QuietIs DEF OCInit, BridgeInv
<1>7. OrderInv
  BY <1>3, <1>4 DEF OrderInv, SentInOrder, Ahead, AllBefore
<1>8. AnswerInv
  BY DEF OCInit, AnswerInv
<1>9. HaltInv
  BY <1>3 DEF OCInit, HaltInv, NoExitOrder
<1> QED
  BY <1>1, <1>5, <1>6, <1>7, <1>8, <1>9 DEF OCInv

LEMMA PathKept ==
  ASSUME PathInv, OrderInv, UNCHANGED <<inbox, runtimeBox, done, requests, handler>> PROVE PathInv' /\ OrderInv'
  BY DEF PathInv, OrderInv
LEMMA BridgeKept ==
  ASSUME BridgeInv, UNCHANGED <<bridge, runtimeBox, trading, answers, done, requests>> PROVE BridgeInv'
  BY DEF BridgeInv
LEMMA AnswerKept ==
  ASSUME AnswerInv, UNCHANGED <<answers, shown, done>> PROVE AnswerInv'
  BY DEF AnswerInv
LEMMA HaltKept ==
  ASSUME HaltInv, UNCHANGED <<done, requests, trading, exitOrder>> PROVE HaltInv'
  BY DEF HaltInv

LEMMA ClockInv == ASSUME OCInv, ClockTicks PROVE OCInv'
<1>1. /\ UNCHANGED <<normal, lastUse, handler, inbox, bridge, runtimeBox, requests, shown, answers, done,
                     trading, exitOrder, up>>
      /\ clock' = clock + 1
  BY DEF ClockTicks, ocLimit, ocPath, ocEffects
<1>2. OCTypes'
  BY <1>1 DEF OCInv, OCTypes
<1> QED
  BY <1>1, <1>2, PathKept, BridgeKept, AnswerKept, HaltKept DEF OCInv

\* The new request is the last one and is behind everything in the channels.
LEMMA AdmitInv ==
  ASSUME OCInv, NEW c \in Chats, NEW u \in OperatorUsers, NEW cmd \in Commands, Admit(c, u, cmd),
         normal' \in [OperatorUsers -> Seq(Nat)], lastUse' \in [OperatorUsers -> [Cooling -> Int]]
  PROVE  OCInv'
<1>0. OCTypes /\ PathInv /\ BridgeInv /\ OrderInv /\ AnswerInv /\ HaltInv
  BY DEF OCInv
<1>1. /\ UNCHANGED <<clock, inbox, bridge, runtimeBox, shown, answers, done, trading, exitOrder, up>>
      /\ Len(requests) < MaxRequests
  BY DEF Admit, ocEffects
<1>2. PICK q \in RequestSet : requests' = Append(requests, q) /\ q.chat = c
  <2>1. [chat |-> c, user |-> u, cmd |-> cmd, at |-> clock] \in RequestSet
    BY <1>0 DEF RequestSet, OCTypes
  <2> QED
    BY <2>1 DEF Admit
<1>3. PICK n \in Nat : n = Len(requests)
  BY <1>0 DEF OCTypes
<1>4. /\ requests \in Seq(RequestSet) /\ requests' \in Seq(RequestSet) /\ Len(requests') = n + 1
      /\ requests'[n + 1] = q
  BY <1>0, <1>2, <1>3, AppendIs DEF OCTypes
<1>5. [st |-> "sending", id |-> n + 1] \in Tasks
  BY <1>3 DEF Tasks
<1>6. /\ handler' \in [Chats -> Tasks] /\ handler'[c] = [st |-> "sending", id |-> n + 1]
      /\ \A d \in Chats : d # c => handler'[d] = handler[d]
  BY <1>0, <1>3, <1>5 DEF Admit, OCTypes
<1>7. OCTypes'
  BY <1>0, <1>1, <1>3, <1>4, <1>6, OperatorNumbers DEF OCTypes
<1>8. /\ \A i : Real(n, i) => Real(n + 1, i) /\ requests'[i] = requests[i]
      /\ \A s : AllReal(n, s) => AllReal(n + 1, s) /\ AllBefore(requests', s, n + 1)
      /\ \A s, j : AllReal(n, s) /\ Real(n, j) /\ AllBefore(requests, s, j) => AllBefore(requests', s, j)
      /\ \A s : AllReal(n, s) /\ SentInOrder(requests, s) => SentInOrder(requests', s)
      /\ \A s, t : AllReal(n, s) /\ AllReal(n, t) /\ Ahead(requests, s, t) => Ahead(requests', s, t)
  BY <1>2, <1>3, <1>4, GrownRequests
<1>9. /\ AllReal(n, inbox) /\ AllReal(n, runtimeBox) /\ AllReal(n, done) /\ Len(inbox) <= ChannelSize
      /\ \A d \in Chats : handler[d].st # "idle" => Real(n, handler[d].id) /\ requests[handler[d].id].chat = d
      /\ \A d \in Chats : handler[d].st = "idle" => handler[d].id = Nobody
  BY <1>0, <1>3 DEF PathInv
<1>10. PathInv'
  <2>1. ASSUME NEW d \in Chats
        PROVE  /\ handler'[d].st = "idle" => handler'[d].id = Nobody
               /\ handler'[d].st # "idle" => Real(n + 1, handler'[d].id) /\ requests'[handler'[d].id].chat = d
    <3>1. CASE d = c
      <4>1. Real(n + 1, n + 1)
        BY <1>3 DEF Real
      <4> QED
        BY <1>2, <1>4, <1>6, <3>1, <4>1
    <3>2. CASE d # c
      BY <1>6, <1>8, <1>9, <3>2
    <3> QED
      BY <3>1, <3>2
  <2> QED
    BY <1>1, <1>4, <1>8, <1>9, <2>1 DEF PathInv
<1>11. BridgeInv'
  BY <1>0, <1>1, <1>3, <1>4, <1>8 DEF BridgeInv
<1>12. OrderInv'
  <2>1. ASSUME NEW d \in Chats, handler'[d].st = "sending"
        PROVE  /\ AllBefore(requests', done, handler'[d].id) /\ AllBefore(requests', runtimeBox, handler'[d].id)
               /\ AllBefore(requests', inbox, handler'[d].id)
    <3>1. CASE d = c
      BY <1>6, <1>8, <1>9, <3>1
    <3>2. CASE d # c
      <4>1. handler[d].st = "sending" /\ handler'[d] = handler[d]
        BY <1>6, <2>1, <3>2
      <4>2. /\ AllBefore(requests, done, handler[d].id) /\ AllBefore(requests, runtimeBox, handler[d].id)
            /\ AllBefore(requests, inbox, handler[d].id) /\ Real(n, handler[d].id)
        BY <1>0, <1>9, <4>1 DEF OrderInv
      <4> QED
        BY <1>8, <1>9, <4>1, <4>2
    <3> QED
      BY <3>1, <3>2
  <2>2. /\ SentInOrder(requests', done) /\ SentInOrder(requests', inbox) /\ Ahead(requests', done, inbox)
        /\ Ahead(requests', done, runtimeBox) /\ Ahead(requests', runtimeBox, inbox)
    BY <1>0, <1>8, <1>9 DEF OrderInv
  <2> QED
    BY <1>1, <2>1, <2>2 DEF OrderInv
<1>13. HaltInv'
  BY <1>0, <1>1, <1>8, <1>9 DEF HaltInv, AllReal
<1> QED
  BY <1>0, <1>1, <1>7, <1>10, <1>11, <1>12, <1>13, AnswerKept DEF OCInv

LEMMA SendInv == ASSUME OCInv, NEW c \in Chats, Send(c) PROVE OCInv'
<1>0. OCTypes /\ PathInv /\ BridgeInv /\ OrderInv /\ AnswerInv /\ HaltInv
  BY DEF OCInv
<1>1. /\ UNCHANGED <<clock, normal, lastUse, bridge, runtimeBox, requests, shown, answers, done, trading,
                     exitOrder, up>>
      /\ handler[c].st = "sending" /\ Len(inbox) < ChannelSize
  BY DEF Send, ocLimit, ocEffects
<1>2. PICK i : i = handler[c].id
  OBVIOUS
<1>3. i \in Nat /\ Real(Len(requests), i) /\ requests[i].chat = c
  BY <1>0, <1>1, <1>2 DEF PathInv, Real
<1>4. inbox' = Append(inbox, i) /\ inbox \in Seq(Nat) /\ runtimeBox \in Seq(Nat) /\ done \in Seq(Nat)
  BY <1>0, <1>2 DEF Send, OCTypes
<1>5. inbox' \in Seq(Nat) /\ Len(inbox') <= ChannelSize
  BY <1>1, <1>3, <1>4, AppendIs, OperatorNumbers
<1>6. /\ handler' \in [Chats -> Tasks] /\ handler'[c].st = "waiting" /\ handler'[c].id = i
      /\ \A d \in Chats : d # c => handler'[d] = handler[d]
  BY <1>0, <1>2 DEF Send, OCTypes, Tasks
<1>7. OCTypes'
  BY <1>0, <1>1, <1>5, <1>6 DEF OCTypes
<1>8. PathInv'
  <2>1. AllReal(Len(requests), inbox')
    BY <1>0, <1>3, <1>4, RealAppend DEF PathInv
  <2> QED
    BY <1>0, <1>1, <1>3, <1>5, <1>6, <2>1 DEF PathInv
<1>9. OrderInv'
  <2>1. AllBefore(requests, done, i) /\ AllBefore(requests, runtimeBox, i) /\ AllBefore(requests, inbox, i)
    BY <1>0, <1>1, <1>2 DEF OrderInv
  <2>2. SentInOrder(requests, inbox') /\ Ahead(requests, done, inbox') /\ Ahead(requests, runtimeBox, inbox')
    BY <1>0, <1>3, <1>4, <2>1, OrderAppend, AheadAppend DEF OrderInv
  <2>3. ASSUME NEW d \in Chats, handler'[d].st = "sending"
        PROVE  /\ AllBefore(requests, done, handler'[d].id) /\ AllBefore(requests, runtimeBox, handler'[d].id)
               /\ AllBefore(requests, inbox', handler'[d].id)
    <3>1. d # c /\ handler'[d] = handler[d] /\ handler[d].st = "sending"
      BY <1>6, <2>3
    <3>2. requests[handler[d].id].chat = d
      BY <1>0, <3>1 DEF PathInv
    <3>3. Before(requests, i, handler[d].id)
      BY <1>3, <3>1, <3>2 DEF Before
    <3>4. AllBefore(requests, inbox, handler[d].id)
      BY <1>0, <3>1 DEF OrderInv
    <3>5. AllBefore(requests, inbox', handler[d].id)
      BY <1>3, <1>4, <3>3, <3>4, AllBeforeAppend
    <3> QED
      BY <1>0, <3>1, <3>5 DEF OrderInv
  <2> QED
    BY <1>0, <1>1, <2>2, <2>3 DEF OrderInv
<1> QED
  BY <1>0, <1>1, <1>7, <1>8, <1>9, BridgeKept, AnswerKept, HaltKept DEF OCInv

\* A handler that is done leaves the path as it was.
LEMMA HandlerRests ==
  ASSUME OCTypes, PathInv, OrderInv, NEW c \in Chats, handler' = [handler EXCEPT ![c] = Quiet],
         UNCHANGED <<inbox, runtimeBox, done, requests>>
  PROVE  PathInv' /\ OrderInv' /\ handler' \in [Chats -> Tasks]
<1>1. /\ handler' \in [Chats -> Tasks] /\ handler'[c] = Quiet
      /\ \A d \in Chats : d # c => handler'[d] = handler[d]
  BY QuietIs DEF OCTypes
<1>2. PathInv'
  BY <1>1, QuietIs DEF PathInv
<1>3. OrderInv'
  <2>1. \A d \in Chats : handler'[d].st = "sending" => handler'[d] = handler[d]
    BY <1>1, QuietIs
  <2> QED
    BY <2>1 DEF OrderInv
<1> QED
  BY <1>1, <1>2, <1>3

LEMMA TimeoutInv == ASSUME OCInv, NEW c \in Chats, ResponseTimeout(c) PROVE OCInv'
<1>0. OCTypes /\ PathInv /\ BridgeInv /\ OrderInv /\ AnswerInv /\ HaltInv
  BY DEF OCInv
<1>1. /\ UNCHANGED <<clock, normal, lastUse, inbox, bridge, runtimeBox, requests, answers, done, trading,
                     exitOrder, up>>
      /\ handler' = [handler EXCEPT ![c] = Quiet] /\ handler[c].st = "waiting"
      /\ shown' = [shown EXCEPT ![handler[c].id] = "timeout"]
  BY DEF ResponseTimeout, Told, ocLimit, ocEffects
<1>2. PathInv' /\ OrderInv' /\ handler' \in [Chats -> Tasks]
  BY <1>0, <1>1, HandlerRests
<1>3. /\ shown' \in [Ids -> {"none", "timeout", "accepted", "rejected"}]
      /\ \A i \in Ids : shown'[i] \in {shown[i], "timeout"}
  BY <1>0, <1>1 DEF OCTypes
<1>4. OCTypes'
  BY <1>0, <1>1, <1>2, <1>3 DEF OCTypes
<1>5. AnswerInv'
  BY <1>0, <1>1, <1>3 DEF AnswerInv
<1> QED
  BY <1>0, <1>1, <1>2, <1>4, <1>5, BridgeKept, HaltKept DEF OCInv

LEMMA ForwardsInv == ASSUME OCInv, BridgeForwards PROVE OCInv'
<1>0. OCTypes /\ PathInv /\ BridgeInv /\ OrderInv /\ AnswerInv /\ HaltInv
  BY DEF OCInv
<1>1. /\ UNCHANGED <<clock, normal, lastUse, handler, requests, shown, answers, done, trading, exitOrder, up>>
      /\ bridge.st = "idle" /\ inbox # <<>> /\ inbox' = Tail(inbox)
  BY DEF BridgeForwards, ocLimit, ocEffects
<1>2. inbox \in Seq(Nat) /\ done \in Seq(Nat)
  BY <1>0 DEF OCTypes
<1>3. PICK k \in Nat : k = Head(inbox)
  BY <1>1, <1>2, TailIs
<1>4. runtimeBox = <<>> /\ trading.exit = Nobody
  BY <1>0, <1>1 DEF BridgeInv
<1>5. bridge' = [st |-> "waiting", id |-> k] /\ runtimeBox' = <<k>>
  BY <1>3, <1>4 DEF BridgeForwards
<1>6. inbox' \in Seq(Nat) /\ Len(inbox') = Len(inbox) - 1 /\ Len(inbox) \in Nat
  BY <1>1, <1>2, TailIs
<1>7. OCTypes'
  <2>1. bridge' \in Tasks /\ runtimeBox' \in Seq(Nat)
    BY <1>3, <1>5 DEF Tasks
  <2> QED
    BY <1>0, <1>1, <1>6, <2>1 DEF OCTypes
<1>8. AllReal(Len(requests), inbox') /\ Real(Len(requests), k)
  BY <1>0, <1>1, <1>2, <1>3, RealTail DEF PathInv
<1>9. DOMAIN runtimeBox' = {1} /\ runtimeBox'[1] = k
  BY <1>5
<1>10. PathInv'
  <2>1. AllReal(Len(requests), runtimeBox')
    BY <1>8, <1>9 DEF AllReal
  <2>2. Len(inbox') <= ChannelSize
    BY <1>0, <1>6, OperatorNumbers DEF PathInv
  <2> QED
    BY <1>0, <1>1, <1>8, <2>1, <2>2 DEF PathInv
<1>11. AllBefore(requests, done, k) /\ Ahead(requests, done, inbox')
  BY <1>0, <1>1, <1>2, <1>3, AheadTail DEF OrderInv
<1>12. OrderInv'
  <2>1. SentInOrder(requests, inbox') /\ \A y \in DOMAIN inbox' : Before(requests, k, inbox'[y])
    BY <1>0, <1>1, <1>2, <1>3, OrderTail DEF OrderInv
  <2>2. Ahead(requests, done, runtimeBox') /\ Ahead(requests, runtimeBox', inbox')
    BY <1>9, <1>11, <2>1 DEF Ahead, AllBefore
  <2>3. ASSUME NEW c \in Chats, handler[c].st = "sending"
        PROVE  /\ AllBefore(requests, done, handler[c].id) /\ AllBefore(requests, runtimeBox', handler[c].id)
               /\ AllBefore(requests, inbox', handler[c].id)
    <3>1. AllBefore(requests, done, handler[c].id) /\ AllBefore(requests, inbox, handler[c].id)
      BY <1>0, <2>3 DEF OrderInv
    <3>2. AllBefore(requests, inbox', handler[c].id) /\ Before(requests, k, handler[c].id)
      BY <1>1, <1>2, <1>3, <3>1, AllBeforeTail
    <3>3. AllBefore(requests, runtimeBox', handler[c].id)
      BY <1>9, <3>2 DEF AllBefore
    <3> QED
      BY <3>1, <3>2, <3>3
  <2> QED
    BY <1>0, <1>1, <1>11, <2>1, <2>2, <2>3 DEF OrderInv
<1>13. BridgeInv'
  <2>1. ~Holds(done, k)
    BY <1>3, <1>11 DEF Holds, AllBefore, Before
  <2>2. answers[k] = "none"
    BY <1>0, <1>8, <2>1, RealIsId DEF AnswerInv
  <2>3. bridge'.st = "waiting" /\ bridge'.id = k
    BY <1>5
  <2> QED
    BY <1>1, <1>4, <1>5, <1>8, <2>2, <2>3 DEF BridgeInv
<1> QED
  BY <1>0, <1>1, <1>7, <1>10, <1>12, <1>13, AnswerKept, HaltKept DEF OCInv

LEMMA RepliesInv == ASSUME OCInv, BridgeReplies PROVE OCInv'
<1>0. OCTypes /\ PathInv /\ BridgeInv /\ OrderInv /\ AnswerInv /\ HaltInv
  BY DEF OCInv
<1>1. /\ UNCHANGED <<clock, normal, lastUse, inbox, runtimeBox, requests, answers, done, trading, exitOrder, up>>
      /\ bridge.st = "waiting" /\ answers[bridge.id] # "none" /\ bridge' = Quiet
  BY DEF BridgeReplies, ocLimit, ocEffects
<1>2. Real(Len(requests), bridge.id) /\ runtimeBox = <<>> /\ trading.exit = Nobody
  BY <1>0, <1>1 DEF BridgeInv
<1>3. bridge.id \in Ids
  BY <1>0, <1>2, RealIsId
<1>4. bridge' \in Tasks /\ BridgeInv'
  BY <1>1, <1>2, QuietIs DEF BridgeInv
<1>5. /\ PathInv' /\ OrderInv' /\ handler' \in [Chats -> Tasks]
      /\ shown' \in [Ids -> {"none", "timeout", "accepted", "rejected"}]
      /\ \A i \in Ids : shown'[i] = shown[i] \/ (i = bridge.id /\ shown'[i] = answers[i])
  <2>1. CASE UNCHANGED <<handler, shown>>
    BY <1>0, <1>1, <2>1, PathKept DEF OCTypes
  <2>2. CASE \E c \in Chats :
               /\ Listens(c)
               /\ shown' = [shown EXCEPT ![handler[c].id] = answers[bridge.id]]
               /\ handler' = [handler EXCEPT ![c] = Quiet]
    <3>1. PICK c \in Chats :
            /\ Listens(c)
            /\ shown' = [shown EXCEPT ![handler[c].id] = answers[bridge.id]]
            /\ handler' = [handler EXCEPT ![c] = Quiet]
      BY <2>2
    <3>2. handler[c].id = bridge.id
      BY <3>1 DEF Listens
    <3>3. answers[bridge.id] \in {"none", "timeout", "accepted", "rejected"}
      BY <1>0, <1>3 DEF OCTypes
    <3>4. PathInv' /\ OrderInv' /\ handler' \in [Chats -> Tasks]
      BY <1>0, <1>1, <3>1, HandlerRests
    <3> QED
      BY <1>0, <3>1, <3>2, <3>3, <3>4 DEF OCTypes
  <2> QED
    BY <2>1, <2>2 DEF BridgeReplies
<1>6. OCTypes'
  BY <1>0, <1>1, <1>4, <1>5 DEF OCTypes
<1>7. AnswerInv'
  BY <1>0, <1>1, <1>5 DEF AnswerInv
<1> QED
  BY <1>0, <1>1, <1>4, <1>5, <1>6, <1>7, HaltKept DEF OCInv

\* The daemon takes the one request of its channel and notes it as carried out.
LEMMA TakesRequest ==
  ASSUME OCTypes, PathInv, BridgeInv, OrderInv, runtimeBox # <<>>,
         done' = Append(done, NextRequest), runtimeBox' = Tail(runtimeBox),
         UNCHANGED <<inbox, requests, handler>>
  PROVE  /\ PathInv' /\ OrderInv' /\ bridge.st = "waiting" /\ runtimeBox = <<bridge.id>>
         /\ NextRequest = bridge.id /\ NextRequest \in Nat /\ NextRequest \in Ids /\ answers[bridge.id] = "none"
         /\ Real(Len(requests), bridge.id) /\ runtimeBox' = <<>> /\ done' \in Seq(Nat)
         /\ Holds(done', bridge.id) /\ \A i : Holds(done, i) => Holds(done', i)
<1>1. /\ bridge.st = "waiting" /\ runtimeBox = <<bridge.id>> /\ Real(Len(requests), bridge.id)
      /\ answers[bridge.id] = "none"
  BY DEF BridgeInv
<1>2. PICK k \in Nat : k = bridge.id
  BY DEF OCTypes, Tasks
<1>3. NextRequest = k /\ runtimeBox' = <<>> /\ runtimeBox[1] = k /\ DOMAIN runtimeBox = {1}
  BY <1>1, <1>2 DEF NextRequest
<1>4. k \in Ids /\ done \in Seq(Nat) /\ inbox \in Seq(Nat)
  BY <1>1, <1>2, RealIsId DEF OCTypes
<1>5. done' = Append(done, k) /\ done' \in Seq(Nat)
  BY <1>2, <1>3, <1>4, AppendIs
<1>6. DOMAIN runtimeBox' = {}
  BY <1>3
<1>7. PathInv'
  <2>1. AllReal(Len(requests), done')
    BY <1>1, <1>2, <1>4, <1>5, RealAppend DEF PathInv
  <2>2. AllReal(Len(requests), runtimeBox')
    BY <1>6 DEF AllReal
  <2> QED
    BY <2>1, <2>2 DEF PathInv
<1>8. OrderInv'
  <2>1. AllBefore(requests, done, k) /\ \A y \in DOMAIN inbox : Before(requests, k, inbox[y])
    BY <1>3 DEF OrderInv, Ahead, AllBefore
  <2>2. SentInOrder(requests, done')
    BY <1>2, <1>4, <1>5, <2>1, OrderAppend DEF OrderInv
  <2>3. Ahead(requests, done', inbox)
    <3>1. ASSUME NEW y \in DOMAIN inbox PROVE AllBefore(requests, done', inbox[y])
      <4>1. AllBefore(requests, done, inbox[y])
        BY DEF OrderInv, Ahead
      <4> QED
        BY <1>2, <1>4, <1>5, <2>1, <4>1, AllBeforeAppend
    <3> QED
      BY <3>1 DEF Ahead
  <2>4. Ahead(requests, done', runtimeBox') /\ Ahead(requests, runtimeBox', inbox)
    BY <1>6 DEF Ahead, AllBefore
  <2>5. ASSUME NEW c \in Chats, handler[c].st = "sending"
        PROVE  AllBefore(requests, done', handler[c].id) /\ AllBefore(requests, runtimeBox', handler[c].id)
    <3>1. AllBefore(requests, done, handler[c].id) /\ Before(requests, k, handler[c].id)
      BY <1>3, <2>5 DEF OrderInv, AllBefore
    <3>2. AllBefore(requests, done', handler[c].id)
      BY <1>2, <1>4, <1>5, <3>1, AllBeforeAppend
    <3> QED
      BY <1>6, <3>2 DEF AllBefore
  <2> QED
    BY <2>2, <2>3, <2>4, <2>5 DEF OrderInv
<1>9. Holds(done', k) /\ \A i : Holds(done, i) => Holds(done', i)
  BY <1>2, <1>4, <1>5, HoldsAppend
<1> QED
  BY <1>1, <1>2, <1>3, <1>4, <1>5, <1>7, <1>8, <1>9

LEMMA DaemonInv == ASSUME OCInv, NEW ready \in BOOLEAN, DaemonRuns(ready) PROVE OCInv'
<1>0. OCTypes /\ PathInv /\ BridgeInv /\ OrderInv /\ AnswerInv /\ HaltInv
  BY DEF OCInv
<1>1. /\ UNCHANGED <<clock, normal, lastUse, handler, inbox, bridge, requests, shown, exitOrder, up>>
      /\ trading.exit = Nobody /\ runtimeBox # <<>> /\ NextCommand # "emergency"
      /\ done' = Append(done, NextRequest) /\ runtimeBox' = Tail(runtimeBox)
  BY DEF DaemonRuns, ocLimit
<1>2. /\ PathInv' /\ OrderInv' /\ bridge.st = "waiting" /\ runtimeBox = <<bridge.id>>
      /\ NextRequest = bridge.id /\ NextRequest \in Nat /\ NextRequest \in Ids /\ answers[bridge.id] = "none"
      /\ Real(Len(requests), bridge.id) /\ runtimeBox' = <<>> /\ done' \in Seq(Nat)
      /\ Holds(done', bridge.id) /\ \A i : Holds(done, i) => Holds(done', i)
  BY <1>0, <1>1, TakesRequest
<1>3. PICK a \in {"accepted", "rejected"} : answers' = [answers EXCEPT ![NextRequest] = a]
  BY DEF DaemonRuns
<1>4. /\ answers' \in [Ids -> {"none", "accepted", "rejected"}] /\ answers'[bridge.id] = a
      /\ \A i \in Ids : i # bridge.id => answers'[i] = answers[i]
  BY <1>0, <1>2, <1>3 DEF OCTypes
<1>5. /\ trading' \in [halt : BOOLEAN, started : BOOLEAN, exit : Nat]
      /\ trading'.halt = trading.halt /\ trading'.exit = trading.exit
      /\ trading.halt => ~trading'.started
  <2>1. PICK b \in BOOLEAN : trading' = [trading EXCEPT !.started = b] /\ (trading.halt => ~b)
    <3>1. trading = [trading EXCEPT !.started = trading.started] /\ trading.started \in BOOLEAN
      BY <1>0 DEF OCTypes
    <3>2. CASE NextCommand = "start" /\ Starts(ready)
      BY <3>2 DEF DaemonRuns, Starts
    <3>3. CASE NextCommand = "stop"
      BY <3>3 DEF DaemonRuns
    <3>4. CASE ~(NextCommand = "start" /\ Starts(ready)) /\ NextCommand # "stop"
      <4>1. trading' = trading
        BY <3>4 DEF DaemonRuns
      <4>2. trading.halt => ~trading.started
        BY <1>0 DEF HaltInv
      <4> QED
        BY <3>1, <4>1, <4>2
    <3> QED
      BY <3>2, <3>3, <3>4
  <2> QED
    BY <1>0, <2>1 DEF OCTypes
<1>6. OCTypes'
  <2>1. runtimeBox' \in Seq(Nat)
    BY <1>2
  <2> QED
    BY <1>0, <1>1, <1>2, <1>4, <1>5, <2>1 DEF OCTypes
<1>7. BridgeInv'
  BY <1>0, <1>1, <1>2, <1>4, <1>5 DEF BridgeInv
<1>8. AnswerInv'
  <2>1. ASSUME NEW i \in Ids, answers'[i] # "none" PROVE Holds(done', i)
    BY <1>0, <1>2, <1>4, <2>1 DEF AnswerInv
  <2>2. ASSUME NEW i \in Ids, shown[i] \notin {"none", "timeout"}
        PROVE  shown[i] = answers'[i] /\ answers'[i] # "none"
    <3>1. shown[i] = answers[i] /\ answers[i] # "none"
      BY <1>0, <2>2 DEF AnswerInv
    <3> QED
      BY <1>2, <1>4, <3>1
  <2> QED
    BY <1>1, <2>1, <2>2 DEF AnswerInv
<1>9. HaltInv'
  <2>1. ASSUME NEW x \in DOMAIN done', requests[done'[x]].cmd = "emergency" PROVE trading.halt
    <3>1. x \in DOMAIN done /\ done'[x] = done[x]
      BY <1>0, <1>1, <1>2, <2>1, AppendIs DEF OCTypes, NextCommand
    <3> QED
      BY <1>0, <2>1, <3>1 DEF HaltInv
  <2> QED
    BY <1>0, <1>1, <1>5, <2>1 DEF HaltInv
<1> QED
  BY <1>2, <1>6, <1>7, <1>8, <1>9 DEF OCInv

LEMMA HaltsInv == ASSUME OCInv, EmergencyHalts PROVE OCInv'
<1>0. OCTypes /\ PathInv /\ BridgeInv /\ OrderInv /\ AnswerInv /\ HaltInv
  BY DEF OCInv
<1>1. /\ UNCHANGED <<clock, normal, lastUse, handler, inbox, bridge, requests, shown, answers, exitOrder, up>>
      /\ runtimeBox # <<>> /\ trading' = [halt |-> TRUE, started |-> FALSE, exit |-> NextRequest]
      /\ done' = Append(done, NextRequest) /\ runtimeBox' = Tail(runtimeBox)
  BY DEF EmergencyHalts, ocLimit
<1>2. /\ PathInv' /\ OrderInv' /\ bridge.st = "waiting" /\ runtimeBox = <<bridge.id>>
      /\ NextRequest = bridge.id /\ NextRequest \in Nat /\ NextRequest \in Ids /\ answers[bridge.id] = "none"
      /\ Real(Len(requests), bridge.id) /\ runtimeBox' = <<>> /\ done' \in Seq(Nat)
      /\ Holds(done', bridge.id) /\ \A i : Holds(done, i) => Holds(done', i)
  BY <1>0, <1>1, TakesRequest
<1>3. /\ trading' \in [halt : BOOLEAN, started : BOOLEAN, exit : Nat] /\ trading'.halt = TRUE
      /\ trading'.started = FALSE /\ trading'.exit = bridge.id
  BY <1>1, <1>2
<1>4. OCTypes'
  <2>1. runtimeBox' \in Seq(Nat)
    BY <1>2
  <2> QED
    BY <1>0, <1>1, <1>2, <1>3, <2>1 DEF OCTypes
<1>5. BridgeInv'
  BY <1>1, <1>2, <1>3 DEF BridgeInv
<1>6. AnswerInv'
  BY <1>0, <1>1, <1>2 DEF AnswerInv
<1>7. HaltInv'
  BY <1>0, <1>1, <1>3 DEF HaltInv
<1> QED
  BY <1>2, <1>4, <1>5, <1>6, <1>7 DEF OCInv

LEMMA FlattensInv ==
  ASSUME OCInv, NEW acc \in Accounts, NEW read \in BOOLEAN, EmergencyFlattens(acc, read) PROVE OCInv'
<1>0. OCTypes /\ PathInv /\ BridgeInv /\ OrderInv /\ AnswerInv /\ HaltInv
  BY DEF OCInv
<1>1. /\ UNCHANGED <<clock, normal, lastUse, handler, inbox, bridge, runtimeBox, requests, shown, done, up>>
      /\ trading.exit # Nobody /\ answers' = [answers EXCEPT ![trading.exit] = "accepted"]
      /\ trading' = [trading EXCEPT !.exit = Nobody]
  BY DEF EmergencyFlattens, ocLimit, ocPath
<1>2. /\ bridge.st = "waiting" /\ trading.exit = bridge.id /\ answers[bridge.id] = "none"
      /\ runtimeBox = <<>> /\ Holds(done, bridge.id) /\ Real(Len(requests), bridge.id)
  BY <1>0, <1>1 DEF BridgeInv
<1>3. bridge.id \in Ids
  BY <1>0, <1>2, RealIsId
<1>4. /\ answers' \in [Ids -> {"none", "accepted", "rejected"}] /\ answers'[bridge.id] = "accepted"
      /\ \A i \in Ids : i # bridge.id => answers'[i] = answers[i]
  BY <1>0, <1>1, <1>2, <1>3 DEF OCTypes
<1>5. /\ trading' \in [halt : BOOLEAN, started : BOOLEAN, exit : Nat] /\ trading'.halt = trading.halt
      /\ trading'.started = trading.started /\ trading'.exit = Nobody
  BY <1>0, <1>1 DEF OCTypes, Nobody
<1>6. exitOrder' \in [size : Nat, recorded : Nat] /\ exitOrder'.size = exitOrder'.recorded
  <2>1. acc.recorded \in Nat /\ Position(acc) \in Nat
    BY DEF Accounts, Position
  <2>2. CASE read /\ Owns(acc)
    <3>1. exitOrder' = [size |-> Position(acc), recorded |-> acc.recorded] /\ acc.recorded = Position(acc)
      BY <2>2 DEF EmergencyFlattens, Owns
    <3> QED
      BY <2>1, <3>1
  <2>3. CASE ~(read /\ Owns(acc))
    <3>1. exitOrder' = NoExitOrder
      BY <2>3 DEF EmergencyFlattens
    <3> QED
      BY <3>1 DEF NoExitOrder
  <2> QED
    BY <2>2, <2>3
<1>7. OCTypes'
  BY <1>0, <1>1, <1>4, <1>5, <1>6 DEF OCTypes
<1>8. BridgeInv'
  BY <1>0, <1>1, <1>2, <1>4, <1>5 DEF BridgeInv
<1>9. AnswerInv'
  <2>1. ASSUME NEW i \in Ids, answers'[i] # "none" PROVE Holds(done, i)
    BY <1>0, <1>2, <1>4, <2>1 DEF AnswerInv
  <2>2. ASSUME NEW i \in Ids, shown[i] \notin {"none", "timeout"}
        PROVE  shown[i] = answers'[i] /\ answers'[i] # "none"
    <3>1. shown[i] = answers[i] /\ answers[i] # "none"
      BY <1>0, <2>2 DEF AnswerInv
    <3> QED
      BY <1>2, <1>4, <3>1
  <2> QED
    BY <1>1, <2>1, <2>2 DEF AnswerInv
<1>10. HaltInv'
  BY <1>0, <1>1, <1>5, <1>6 DEF HaltInv
<1> QED
  BY <1>0, <1>1, <1>7, <1>8, <1>9, <1>10, PathKept DEF OCInv

LEMMA EndsInv == ASSUME OCInv, LoopEnds PROVE OCInv'
<1>0. OCTypes /\ PathInv /\ BridgeInv /\ OrderInv /\ AnswerInv /\ HaltInv
  BY DEF OCInv
<1>1. /\ UNCHANGED <<clock, normal, lastUse, requests, shown, answers, done, exitOrder>> /\ up' = FALSE
      /\ trading.exit = Nobody /\ trading' = [trading EXCEPT !.started = FALSE]
      /\ handler' = [c \in Chats |-> Quiet] /\ bridge' = Quiet /\ inbox' = <<>> /\ runtimeBox' = <<>>
  BY DEF LoopEnds, ocLimit
<1>2. /\ trading' \in [halt : BOOLEAN, started : BOOLEAN, exit : Nat] /\ trading'.halt = trading.halt
      /\ trading'.started = FALSE /\ trading'.exit = Nobody
  BY <1>0, <1>1 DEF OCTypes
<1>3. OCTypes'
  <2>1. handler' \in [Chats -> Tasks] /\ bridge' \in Tasks
    BY <1>1, QuietIs
  <2>2. inbox' \in Seq(Nat) /\ runtimeBox' \in Seq(Nat)
    BY <1>1
  <2>3. up' \in BOOLEAN
    BY <1>1
  <2> QED
    BY <1>0, <1>1, <1>2, <2>1, <2>2, <2>3 DEF OCTypes
<1>4. /\ DOMAIN inbox' = {} /\ DOMAIN runtimeBox' = {} /\ Len(inbox') = 0
      /\ \A c \in Chats : handler'[c].st = "idle" /\ handler'[c].id = Nobody
  BY <1>1, QuietIs
<1>5. PathInv'
  BY <1>0, <1>1, <1>4, OperatorNumbers DEF PathInv, AllReal
<1>6. OrderInv'
  BY <1>0, <1>1, <1>4 DEF OrderInv, SentInOrder, Ahead, AllBefore
<1>7. BridgeInv'
  BY <1>1, <1>2, QuietIs DEF BridgeInv
<1>8. HaltInv'
  BY <1>0, <1>1, <1>2 DEF HaltInv
<1> QED
  BY <1>0, <1>1, <1>3, <1>5, <1>6, <1>7, <1>8, AnswerKept DEF OCInv

-----------------------------------------------------------------------------
(* The rate limiter *)

\* Of the requests r: those of a user, those of the window before now, those of a window.
OfUser(r, u) == {i \in 1 .. Len(r) : r[i].user = u}
LastWindow(r, now, u) == {i \in OfUser(r, u) : now - r[i].at < RateWindow}
InWindow(r, u, t) == {i \in OfUser(r, u) : r[i].at \in t .. (t + RateWindow - 1)}

\* f gives each request of the last window an entry of its own in the queue q.
Counted(r, now, q, u, f) ==
  /\ f \in [LastWindow(r, now, u) -> DOMAIN q]
  /\ \A i, j \in LastWindow(r, now, u) : f[i] = f[j] => i = j
  /\ \A i \in LastWindow(r, now, u) : q[f[i]] = r[i].at

Spaced(r, u) ==
  \A i, j \in OfUser(r, u) :
    i < j /\ r[i].cmd = r[j].cmd /\ r[i].cmd \in Cooling => r[j].at - r[i].at >= Cooldown

\* q is the queue of the user and use the last time of each command that must cool.
RateOk(r, now, q, use, u) ==
  /\ Len(q) <= PerWindow
  /\ \E f : Counted(r, now, q, u, f)
  /\ \A i \in OfUser(r, u) : r[i].at <= now /\ (r[i].cmd \in Cooling => r[i].at <= use[r[i].cmd])
  /\ Spaced(r, u)
  /\ \A t \in Nat : Cardinality(InWindow(r, u, t)) <= PerWindow

LEMMA RequestOf ==
  ASSUME NEW r \in Seq(RequestSet), NEW u, NEW i \in OfUser(r, u)
  PROVE  i \in 1 .. Len(r) /\ r[i] \in RequestSet /\ r[i].at \in Nat /\ r[i].user = u
<1>1. i \in 1 .. Len(r) /\ r[i].user = u
  BY DEF OfUser
<1>2. r[i] \in RequestSet
  BY <1>1
<1> QED
  BY <1>1, <1>2 DEF RequestSet

LEMMA TimePasses ==
  ASSUME NEW r \in Seq(RequestSet), NEW now \in Nat, NEW q, NEW use, NEW u, RateOk(r, now, q, use, u)
  PROVE  RateOk(r, now + 1, q, use, u)
<1>1. LastWindow(r, now + 1, u) \subseteq LastWindow(r, now, u)
  <2> SUFFICES ASSUME NEW i \in LastWindow(r, now + 1, u) PROVE now - r[i].at < RateWindow /\ i \in OfUser(r, u)
    BY DEF LastWindow
  <2>1. i \in OfUser(r, u) /\ (now + 1) - r[i].at < RateWindow
    BY DEF LastWindow
  <2>2. r[i].at \in Nat
    BY <2>1, RequestOf
  <2>3. ASSUME NEW a \in Nat, (now + 1) - a < RateWindow PROVE now - a < RateWindow
    BY <2>3, OperatorNumbers
  <2> QED
    BY <2>1, <2>2, <2>3
<1>2. PICK f : Counted(r, now, q, u, f)
  BY DEF RateOk
<1>3. PICK g : g = [i \in LastWindow(r, now + 1, u) |-> f[i]]
  OBVIOUS
<1>4. Counted(r, now + 1, q, u, g)
  BY <1>1, <1>2, <1>3 DEF Counted
<1>5. ASSUME NEW i \in OfUser(r, u) PROVE r[i].at <= now + 1
  <2>1. r[i].at \in Nat /\ r[i].at <= now
    BY RequestOf DEF RateOk
  <2> QED
    BY <2>1
<1> QED
  BY <1>4, <1>5 DEF RateOk

\* A request of somebody else changes nothing for a user.
LEMMA OthersRequest ==
  ASSUME NEW r \in Seq(RequestSet), NEW e \in RequestSet, NEW now, NEW q, NEW use, NEW u, e.user # u,
         RateOk(r, now, q, use, u)
  PROVE  RateOk(Append(r, e), now, q, use, u)
<1>1. PICK k : k = Append(r, e)
  OBVIOUS
<1>2. /\ OfUser(k, u) = OfUser(r, u) /\ \A i \in OfUser(r, u) : k[i] = r[i]
  BY <1>1, AppendIs DEF OfUser
<1>3. LastWindow(k, now, u) = LastWindow(r, now, u) /\ \A t \in Nat : InWindow(k, u, t) = InWindow(r, u, t)
  BY <1>2 DEF LastWindow, InWindow
<1>4. \A i \in LastWindow(r, now, u) : i \in OfUser(r, u)
  BY DEF LastWindow
<1>5. \A f : Counted(r, now, q, u, f) => Counted(k, now, q, u, f)
  BY <1>2, <1>3, <1>4 DEF Counted
<1>6. Spaced(k, u)
  BY <1>2 DEF RateOk, Spaced
<1>7. \E f : Counted(k, now, q, u, f)
  BY <1>5 DEF RateOk
<1> QED
  BY <1>1, <1>2, <1>3, <1>6, <1>7 DEF RateOk

\* What allow drops from the front of the queue belongs to no request of the last window.
LEMMA RecentCounts ==
  ASSUME OCTypes, NEW u \in OperatorUsers, NEW f, Counted(requests, clock, normal[u], u, f)
  PROVE  Recent(u) \in Seq(Nat) /\ \E g : Counted(requests, clock, Recent(u), u, g)
<1>1. PICK q \in Seq(Nat) : q = normal[u]
  BY DEF OCTypes
<1>2. PICK W : W = LastWindow(requests, clock, u)
  OBVIOUS
<1>3. \A i \in W : f[i] \in Fresh(u) /\ q[f[i]] = requests[i].at
  <2>1. \A i \in W : f[i] \in DOMAIN q /\ q[f[i]] = requests[i].at /\ clock - requests[i].at < RateWindow
    BY <1>1, <1>2 DEF Counted, LastWindow
  <2> QED
    BY <1>1, <2>1 DEF Fresh
<1>4. CASE Fresh(u) = {}
  <2>1. Recent(u) = <<>> /\ W = {}
    BY <1>3, <1>4 DEF Recent
  <2>2. Counted(requests, clock, <<>>, u, [i \in W |-> 1])
    BY <1>2, <2>1 DEF Counted
  <2> QED
    BY <2>1, <2>2
<1>5. CASE Fresh(u) # {}
  <2>1. PICK m : m = Min(Fresh(u))
    OBVIOUS
  <2>2. Fresh(u) \in SUBSET Nat /\ \A k \in Fresh(u) : k \in 1 .. Len(q)
    BY <1>1 DEF Fresh
  <2>3. m \in Fresh(u) /\ \A k \in Fresh(u) : m <= k
    BY <1>5, <2>1, <2>2, SmallestOf
  <2>4. m \in 1 .. Len(q) /\ m \in Nat /\ Len(q) \in Nat
    BY <1>1, <2>2, <2>3
  <2>5. PICK s : s = SubSeq(q, m, Len(q))
    OBVIOUS
  <2>6. /\ s \in Seq(Nat) /\ DOMAIN s = 1 .. (Len(q) - m + 1)
        /\ \A k \in DOMAIN s : s[k] = q[m + k - 1]
    <3>1. \A k \in m .. Len(q) : q[k] \in Nat
      BY <1>1, <2>4
    <3>2. /\ s \in Seq(Nat) /\ Len(s) = (IF m <= Len(q) THEN Len(q) - m + 1 ELSE 0)
          /\ \A k \in 1 .. Len(q) - m + 1 : s[k] = q[m + k - 1]
      BY <2>4, <2>5, <3>1, SubSeqProperties
    <3>3. Len(s) = Len(q) - m + 1 /\ DOMAIN s = 1 .. Len(s)
      BY <2>4, <3>2
    <3> QED
      BY <3>2, <3>3
  <2>7. Recent(u) = s
    BY <1>1, <1>5, <2>1, <2>5 DEF Recent
  <2>8. PICK g : g = [i \in W |-> f[i] - m + 1]
    OBVIOUS
  <2>9. ASSUME NEW i \in W PROVE g[i] \in DOMAIN s /\ s[g[i]] = requests[i].at /\ f[i] = g[i] + m - 1 /\ f[i] \in Nat
    <3>1. f[i] \in Nat /\ f[i] <= Len(q) /\ m <= f[i] /\ g[i] = f[i] - m + 1
      BY <1>1, <1>3, <2>2, <2>3, <2>8
    <3>2. g[i] \in DOMAIN s /\ m + g[i] - 1 = f[i]
      <4>1. g[i] \in Int /\ 1 <= g[i] /\ g[i] <= Len(q) - m + 1 /\ m + g[i] - 1 = f[i]
        <5>1. ASSUME NEW a \in Nat, NEW b \in Nat, NEW l \in Nat, a <= l, b <= a
              PROVE  a - b + 1 \in Int /\ 1 <= a - b + 1 /\ a - b + 1 <= l - b + 1 /\ b + (a - b + 1) - 1 = a
          BY <5>1
        <5> QED
          BY <2>4, <3>1, <5>1
      <4> QED
        BY <2>4, <2>6, <4>1
    <3>3. s[g[i]] = q[f[i]]
      BY <2>6, <3>2
    <3> QED
      BY <1>3, <2>4, <3>1, <3>2, <3>3
  <2>10. ASSUME NEW i \in W, NEW j \in W, g[i] = g[j] PROVE i = j
    <3>1. f[i] = f[j]
      BY <2>9, <2>10
    <3> QED
      BY <1>2, <2>10, <3>1 DEF Counted
  <2>11. Counted(requests, clock, s, u, g)
    BY <1>2, <2>8, <2>9, <2>10 DEF Counted
  <2> QED
    BY <2>6, <2>7, <2>11
<1> QED
  BY <1>4, <1>5

\* The cooldown of the request e is over; its use is remembered.
IsCool(e, now, use) == e.cmd \in Cooling => now - use[e.cmd] >= Cooldown
UsedNow(e, now, use, use2) == \A k \in Cooling : use2[k] = IF k = e.cmd THEN now ELSE use[k]

\* A request that allow lets through, of the user itself.
LEMMA OwnRequest ==
  ASSUME NEW r \in Seq(RequestSet), NEW e \in RequestSet, NEW now \in Nat, NEW q, NEW use \in [Cooling -> Int],
         NEW u, NEW rec \in Seq(Nat), NEW g, NEW use2 \in [Cooling -> Int],
         RateOk(r, now, q, use, u), Counted(r, now, rec, u, g), Len(rec) < PerWindow,
         e.user = u, e.at = now, IsCool(e, now, use), UsedNow(e, now, use, use2)
  PROVE  RateOk(Append(r, e), now, Append(rec, now), use2, u)
<1>1. PICK k : k = Append(r, e)
  OBVIOUS
<1>2. PICK n \in Nat : n = Len(r) + 1
  OBVIOUS
<1>3. /\ OfUser(k, u) = OfUser(r, u) \cup {n} /\ n \notin OfUser(r, u) /\ k[n] = e
      /\ \A i \in OfUser(r, u) : k[i] = r[i] /\ i \in Nat /\ i < n
      /\ k \in Seq(RequestSet) /\ Len(k) = n
  <2>1. /\ k \in Seq(RequestSet) /\ Len(k) = n /\ k[n] = e /\ \A i \in 1 .. Len(r) : k[i] = r[i]
    BY <1>1, <1>2, AppendIs
  <2>2. 1 .. n = (1 .. Len(r)) \cup {n} /\ n \notin 1 .. Len(r)
    BY <1>2
  <2>3. \A i \in 1 .. Len(r) : i \in Nat /\ i < n
    BY <1>2
  <2> QED
    BY <2>1, <2>2, <2>3 DEF OfUser
<1>4. PICK s \in Seq(Nat) : s = Append(rec, now)
  BY AppendIs
<1>5. PICK l \in Nat : l = Len(rec) + 1
  OBVIOUS
<1>6. /\ Len(s) = l /\ s[l] = now /\ DOMAIN s = 1 .. l /\ l <= PerWindow
      /\ \A x \in DOMAIN rec : x \in DOMAIN s /\ s[x] = rec[x] /\ x # l
  <2>1. /\ Len(s) = l /\ s[l] = now /\ DOMAIN s = 1 .. l /\ \A x \in DOMAIN rec : s[x] = rec[x]
    BY <1>4, <1>5, AppendIs
  <2>2. DOMAIN rec = 1 .. Len(rec) /\ Len(rec) \in Nat /\ l <= PerWindow
    BY <1>5, OperatorNumbers
  <2>3. \A x \in 1 .. Len(rec) : x \in 1 .. l /\ x # l
    BY <1>5
  <2> QED
    BY <2>1, <2>2, <2>3
<1>7. LastWindow(k, now, u) = LastWindow(r, now, u) \cup {n}
  <2>1. now - k[n].at < RateWindow
    BY <1>3, OperatorNumbers
  <2> QED
    BY <1>3, <2>1 DEF LastWindow
<1>8. PICK h : h = [i \in LastWindow(k, now, u) |-> IF i = n THEN l ELSE g[i]]
  OBVIOUS
<1>9. Counted(k, now, s, u, h)
  <2>1. ASSUME NEW i \in LastWindow(r, now, u)
        PROVE  /\ i # n /\ h[i] = g[i] /\ g[i] \in DOMAIN rec /\ rec[g[i]] = k[i].at
    <3>1. i \in OfUser(r, u)
      BY DEF LastWindow
    <3> QED
      BY <1>3, <1>7, <1>8, <3>1 DEF Counted
  <2>2. h[n] = l /\ k[n].at = now /\ l \in DOMAIN s
    BY <1>3, <1>5, <1>6, <1>7, <1>8
  <2>3. ASSUME NEW i \in LastWindow(k, now, u) PROVE h[i] \in DOMAIN s /\ s[h[i]] = k[i].at
    BY <1>6, <1>7, <2>1, <2>2
  <2>4. ASSUME NEW i \in LastWindow(k, now, u), NEW j \in LastWindow(k, now, u), h[i] = h[j] PROVE i = j
    <3>1. CASE i = n
      BY <1>6, <1>7, <2>1, <2>2, <2>4, <3>1
    <3>2. CASE j = n
      BY <1>6, <1>7, <2>1, <2>2, <2>4, <3>2
    <3>3. CASE i # n /\ j # n
      <4>1. i \in LastWindow(r, now, u) /\ j \in LastWindow(r, now, u) /\ g[i] = g[j]
        BY <1>7, <2>1, <2>4, <3>3
      <4> QED
        BY <4>1 DEF Counted
    <3> QED
      BY <3>1, <3>2, <3>3
  <2> QED
    BY <1>8, <2>3, <2>4 DEF Counted
<1>10. ASSUME NEW i \in OfUser(k, u)
       PROVE  k[i].at <= now /\ (k[i].cmd \in Cooling => k[i].at <= use2[k[i].cmd])
  <2>1. CASE i = n
    BY <1>3, <2>1 DEF UsedNow
  <2>2. CASE i # n
    <3>1. i \in OfUser(r, u) /\ k[i] = r[i]
      BY <1>3, <2>2
    <3>2. r[i].at \in Nat /\ r[i].at <= now /\ (r[i].cmd \in Cooling => r[i].at <= use[r[i].cmd])
      BY <3>1, RequestOf DEF RateOk
    <3> QED
      BY <3>1, <3>2 DEF UsedNow
  <2> QED
    BY <2>1, <2>2
<1>11. Spaced(k, u)
  <2> SUFFICES ASSUME NEW i \in OfUser(k, u), NEW j \in OfUser(k, u), i < j, k[i].cmd = k[j].cmd, k[i].cmd \in Cooling
               PROVE  k[j].at - k[i].at >= Cooldown
    BY DEF Spaced
  <2>1. i \in OfUser(r, u) /\ k[i] = r[i]
    BY <1>3
  <2>2. CASE j \in OfUser(r, u)
    BY <1>3, <2>1, <2>2 DEF RateOk, Spaced
  <2>3. CASE j = n
    <3>1. /\ r[i].at \in Nat /\ r[i].at <= use[e.cmd] /\ use[e.cmd] \in Int /\ now - use[e.cmd] >= Cooldown
          /\ k[j].at = now /\ k[i].at = r[i].at
      BY <1>3, <2>1, <2>3, RequestOf DEF RateOk, IsCool
    <3>2. ASSUME NEW a \in Nat, NEW b \in Int, a <= b, now - b >= Cooldown PROVE now - a >= Cooldown
      BY <3>2, OperatorNumbers
    <3>3. now - r[i].at >= Cooldown
      BY <3>1, <3>2
    <3> QED
      BY <3>1, <3>3
  <2> QED
    BY <1>3, <2>2, <2>3
<1>12. ASSUME NEW t \in Nat PROVE Cardinality(InWindow(k, u, t)) <= PerWindow
  <2>1. CASE now \in t .. (t + RateWindow - 1)
    <3>1. InWindow(k, u, t) \subseteq LastWindow(k, now, u)
      <4> SUFFICES ASSUME NEW i \in InWindow(k, u, t) PROVE i \in OfUser(k, u) /\ now - k[i].at < RateWindow
        BY DEF LastWindow
      <4>1. i \in OfUser(k, u) /\ k[i].at \in t .. (t + RateWindow - 1)
        BY DEF InWindow
      <4>2. ASSUME NEW a \in t .. (t + RateWindow - 1) PROVE now - a < RateWindow
        BY <2>1, <4>2, OperatorNumbers
      <4> QED
        BY <4>1, <4>2
    <3>2. PICK w : w = [i \in InWindow(k, u, t) |-> h[i]]
      OBVIOUS
    <3>3. w \in Injection(InWindow(k, u, t), 1 .. l)
      <4>1. w \in [InWindow(k, u, t) -> 1 .. l]
        BY <1>6, <1>9, <3>1, <3>2 DEF Counted
      <4>2. \A i, j \in InWindow(k, u, t) : w[i] = w[j] => i = j
        BY <1>9, <3>1, <3>2 DEF Counted
      <4> QED
        BY <4>1, <4>2 DEF Injection, IsInjective
    <3>4. IsFiniteSet(1 .. l) /\ Cardinality(1 .. l) = l
      BY <1>5, FS_Interval
    <3>5. IsFiniteSet(InWindow(k, u, t)) /\ Cardinality(InWindow(k, u, t)) <= Cardinality(1 .. l)
      BY <3>3, <3>4, FS_Injection
    <3>6. Cardinality(InWindow(k, u, t)) \in Nat
      BY <3>5, FS_CardinalityType
    <3> QED
      BY <1>5, <1>6, <3>4, <3>5, <3>6, OperatorNumbers
  <2>2. CASE now \notin t .. (t + RateWindow - 1)
    <3>1. InWindow(k, u, t) = InWindow(r, u, t)
      BY <1>3, <2>2 DEF InWindow
    <3> QED
      BY <3>1 DEF RateOk
  <2> QED
    BY <2>1, <2>2
<1> QED
  BY <1>1, <1>4, <1>6, <1>9, <1>10, <1>11, <1>12 DEF RateOk

-----------------------------------------------------------------------------
(* The specification *)

RateInv == \A u \in OperatorUsers : RateOk(requests, clock, normal[u], lastUse[u], u)

LEMMA RateInit == OCInit => RateInv
<1> SUFFICES ASSUME OCInit, NEW u \in OperatorUsers PROVE RateOk(requests, clock, normal[u], lastUse[u], u)
  BY DEF RateInv
<1>1. requests = <<>> /\ normal[u] = <<>>
  BY DEF OCInit
<1>2. OfUser(requests, u) = {}
  BY <1>1 DEF OfUser
<1>3. LastWindow(requests, clock, u) = {} /\ \A t \in Nat : InWindow(requests, u, t) = {}
  BY <1>2 DEF LastWindow, InWindow
<1>4. Counted(requests, clock, normal[u], u, [i \in {} |-> 1])
  BY <1>3 DEF Counted
<1>5. Spaced(requests, u)
  BY <1>2 DEF Spaced
<1>6. \A t \in Nat : Cardinality(InWindow(requests, u, t)) = 0
  BY <1>3, FS_EmptySet
<1>7. Len(normal[u]) <= PerWindow
  BY <1>1, OperatorNumbers
<1>8. \E f : Counted(requests, clock, normal[u], u, f)
  BY <1>4
<1> QED
  BY <1>2, <1>5, <1>6, <1>7, <1>8, OperatorNumbers DEF RateOk

LEMMA AdmitRate ==
  ASSUME OCInv, RateInv, NEW c \in Chats, NEW u \in OperatorUsers, NEW cmd \in Commands, Admit(c, u, cmd)
  PROVE  RateInv' /\ normal' \in [OperatorUsers -> Seq(Nat)] /\ lastUse' \in [OperatorUsers -> [Cooling -> Int]]
<1>0. OCTypes
  BY DEF OCInv
<1>1. PICK e \in RequestSet : requests' = Append(requests, e) /\ e.user = u /\ e.cmd = cmd /\ e.at = clock
  <2>1. [chat |-> c, user |-> u, cmd |-> cmd, at |-> clock] \in RequestSet
    BY <1>0 DEF RequestSet, OCTypes
  <2> QED
    BY <2>1 DEF Admit
<1>2. PICK f : Counted(requests, clock, normal[u], u, f)
  BY DEF RateInv, RateOk
<1>3. Recent(u) \in Seq(Nat) /\ \E g : Counted(requests, clock, Recent(u), u, g)
  BY <1>0, <1>2, RecentCounts
<1>4. PICK rec \in Seq(Nat) : rec = Recent(u)
  BY <1>3
<1>5. PICK g : Counted(requests, clock, rec, u, g)
  BY <1>3, <1>4
<1>6. Len(rec) < PerWindow /\ (cmd \in Cooling => clock - lastUse[u][cmd] >= Cooldown) /\ clock' = clock
  BY <1>4 DEF Admit, Admits, Cooled
<1>7. /\ clock \in Nat /\ requests \in Seq(RequestSet) /\ normal \in [OperatorUsers -> Seq(Nat)]
      /\ lastUse \in [OperatorUsers -> [Cooling -> Int]]
  BY <1>0 DEF OCTypes
<1>8. PICK s \in Seq(Nat) : s = Append(rec, clock)
  BY <1>7, AppendIs
<1>9. PICK use : use = [k \in Cooling |-> IF k = cmd THEN clock ELSE lastUse[u][k]]
  OBVIOUS
<1>10. use \in [Cooling -> Int] /\ \A k \in Cooling : use[k] = IF k = cmd THEN clock ELSE lastUse[u][k]
  BY <1>7, <1>9
<1>11. normal' = [normal EXCEPT ![u] = s] /\ lastUse' = [lastUse EXCEPT ![u] = use]
  BY <1>4, <1>8, <1>9 DEF Admit
<1>12. normal' \in [OperatorUsers -> Seq(Nat)] /\ lastUse' \in [OperatorUsers -> [Cooling -> Int]]
  BY <1>7, <1>8, <1>10, <1>11
<1>13. RateOk(requests', clock', normal'[u], lastUse'[u], u)
  <2>1. RateOk(requests, clock, normal[u], lastUse[u], u) /\ lastUse[u] \in [Cooling -> Int]
    BY <1>7 DEF RateInv
  <2>2. RateOk(Append(requests, e), clock, Append(rec, clock), use, u)
    <3>1. IsCool(e, clock, lastUse[u])
      BY <1>1, <1>6 DEF IsCool
    <3>2. UsedNow(e, clock, lastUse[u], use)
      BY <1>1, <1>10 DEF UsedNow
    <3>3. e.user = u /\ e.at = clock /\ use \in [Cooling -> Int]
      BY <1>1, <1>10
    <3>4. /\ requests \in Seq(RequestSet) /\ e \in RequestSet /\ clock \in Nat /\ lastUse[u] \in [Cooling -> Int]
          /\ rec \in Seq(Nat) /\ Counted(requests, clock, rec, u, g) /\ Len(rec) < PerWindow
          /\ RateOk(requests, clock, normal[u], lastUse[u], u)
      BY <1>5, <1>6, <1>7, <2>1
    <3> QED
      BY <3>1, <3>2, <3>3, <3>4, OwnRequest
  <2>3. normal'[u] = s /\ lastUse'[u] = use
    BY <1>7, <1>11
  <2> QED
    BY <1>1, <1>6, <1>8, <2>2, <2>3
<1>14. ASSUME NEW v \in OperatorUsers, v # u PROVE RateOk(requests', clock', normal'[v], lastUse'[v], v)
  <2>1. normal'[v] = normal[v] /\ lastUse'[v] = lastUse[v]
    BY <1>7, <1>11, <1>14
  <2>2. RateOk(requests, clock, normal[v], lastUse[v], v)
    BY DEF RateInv
  <2>3. RateOk(Append(requests, e), clock, normal[v], lastUse[v], v)
    BY <1>1, <1>7, <1>14, <2>2, OthersRequest
  <2> QED
    BY <1>1, <1>6, <2>1, <2>3
<1> QED
  BY <1>12, <1>13, <1>14 DEF RateInv

LEMMA RateKept ==
  ASSUME RateInv, UNCHANGED <<requests, clock, normal, lastUse>> PROVE RateInv'
  BY DEF RateInv

LEMMA OperatorInvStep == OCInv /\ RateInv /\ [OCNext]_ocVars => (OCInv /\ RateInv)'
<1> SUFFICES ASSUME OCInv, RateInv, [OCNext]_ocVars PROVE (OCInv /\ RateInv)'
  OBVIOUS
<1>1. CASE ClockTicks
  <2>1. UNCHANGED <<requests, normal, lastUse>> /\ clock' = clock + 1
    BY <1>1 DEF ClockTicks, ocLimit, ocPath
  <2>2. requests \in Seq(RequestSet) /\ clock \in Nat
    BY DEF OCInv, OCTypes
  <2>3. RateInv'
    BY <2>1, <2>2, TimePasses DEF RateInv
  <2> QED
    BY <1>1, <2>3, ClockInv
<1>2. ASSUME NEW c \in Chats, Send(c) PROVE (OCInv /\ RateInv)'
  BY <1>2, SendInv, RateKept DEF Send, ocLimit
<1>3. ASSUME NEW c \in Chats, ResponseTimeout(c) PROVE (OCInv /\ RateInv)'
  BY <1>3, TimeoutInv, RateKept DEF ResponseTimeout, Told, ocLimit
<1>4. ASSUME NEW c \in Chats, NEW u \in OperatorUsers, NEW cmd \in Commands, Admit(c, u, cmd)
      PROVE  (OCInv /\ RateInv)'
  <2>1. RateInv' /\ normal' \in [OperatorUsers -> Seq(Nat)] /\ lastUse' \in [OperatorUsers -> [Cooling -> Int]]
    BY <1>4, AdmitRate
  <2> QED
    BY <1>4, <2>1, AdmitInv
<1>5. CASE BridgeForwards
  BY <1>5, ForwardsInv, RateKept DEF BridgeForwards, ocLimit
<1>6. CASE BridgeReplies
  BY <1>6, RepliesInv, RateKept DEF BridgeReplies, ocLimit
<1>7. ASSUME NEW b \in BOOLEAN, DaemonRuns(b) PROVE (OCInv /\ RateInv)'
  BY <1>7, DaemonInv, RateKept DEF DaemonRuns, ocLimit
<1>8. ASSUME NEW b \in BOOLEAN, NEW acc \in Accounts, EmergencyFlattens(acc, b) PROVE (OCInv /\ RateInv)'
  BY <1>8, FlattensInv, RateKept DEF EmergencyFlattens, ocLimit, ocPath
<1>9. CASE EmergencyHalts
  BY <1>9, HaltsInv, RateKept DEF EmergencyHalts, ocLimit
<1>10. CASE LoopEnds
  BY <1>10, EndsInv, RateKept DEF LoopEnds, ocLimit
<1>11. CASE UNCHANGED ocVars
  <2>1. UNCHANGED <<clock, normal, lastUse, handler, inbox, bridge, runtimeBox, requests, shown, answers, done,
                    trading, exitOrder, up>>
    BY <1>11 DEF ocVars, ocLimit, ocPath, ocEffects
  <2>2. OCTypes'
    BY <2>1 DEF OCInv, OCTypes
  <2> QED
    BY <2>1, <2>2, PathKept, BridgeKept, AnswerKept, HaltKept, RateKept DEF OCInv
<1> QED
  BY <1>1, <1>2, <1>3, <1>4, <1>5, <1>6, <1>7, <1>8, <1>9, <1>10, <1>11 DEF OCNext

LEMMA OperatorInvIsSafe == OCInv /\ RateInv => OperatorSafety
<1> SUFFICES ASSUME OCInv, RateInv PROVE OperatorSafety
  OBVIOUS
<1>0. OCTypes /\ PathInv /\ BridgeInv /\ OrderInv /\ AnswerInv /\ HaltInv
  BY DEF OCInv
<1>1. PICK n \in Nat : n = Len(requests)
  BY <1>0 DEF OCTypes
<1>2. Range(done) \subseteq 1 .. n
  BY <1>0, <1>1 DEF PathInv, AllReal, Real, Range
<1>3. OCTypeOK
  <2>1. \A i : Real(n, i) => i \in 0 .. n
    BY <1>1 DEF Real
  <2>2. Nobody \in 0 .. n
    BY <1>1 DEF Nobody
  <2>3. \A c \in Chats : handler[c].id \in 0 .. n
    BY <1>0, <1>1, <2>1, <2>2 DEF PathInv
  <2>4. bridge.id \in 0 .. n /\ trading.exit \in 0 .. n
    BY <1>0, <1>1, <2>1, <2>2 DEF BridgeInv
  <2>5. Len(runtimeBox) <= ChannelSize
    <3>1. runtimeBox = <<>> \/ \E i : runtimeBox = <<i>>
      BY <1>0 DEF BridgeInv
    <3>2. Len(runtimeBox) = 0 \/ Len(runtimeBox) = 1
      BY <3>1
    <3>3. 0 <= ChannelSize /\ 1 <= ChannelSize
      BY OperatorNumbers
    <3> QED
      BY <3>2, <3>3
  <2>6. \A u \in OperatorUsers : Len(normal[u]) <= PerWindow
    BY DEF RateInv, RateOk
  <2>7. Len(inbox) <= ChannelSize
    BY <1>0 DEF PathInv
  <2> QED
    BY <1>1, <1>2, <2>3, <2>4, <2>5, <2>6, <2>7 DEF OCTypeOK
<1>4. RateIsRespected
  <2> SUFFICES ASSUME NEW u \in OperatorUsers
               PROVE  /\ \A t \in 0 .. MaxClock : Cardinality(InWindow(requests, u, t)) <= PerWindow
                      /\ Spaced(requests, u)
    BY DEF RateIsRespected, InWindow, Spaced, OfUser
  <2>1. RateOk(requests, clock, normal[u], lastUse[u], u)
    BY DEF RateInv
  <2>2. \A t \in 0 .. MaxClock : t \in Nat
    BY OperatorNumbers
  <2> QED
    BY <2>1, <2>2 DEF RateOk
<1>5. CarriedOutInOrder
  BY <1>0 DEF OrderInv, SentInOrder, Before, CarriedOutInOrder
<1>6. AnswersAreTheirOwn
  BY <1>0 DEF AnswerInv, Holds, Range, AnswersAreTheirOwn
<1>7. HaltOutlivesTheQueue
  BY <1>0 DEF HaltInv, Range, HaltOutlivesTheQueue
<1>8. FlattensOnlyOwned
  BY <1>0 DEF HaltInv, FlattensOnlyOwned
<1> QED
  BY <1>3, <1>4, <1>5, <1>6, <1>7, <1>8 DEF OperatorSafety

\* TelegramBot, its rate limiter, the bridge and the daemon's operator branch keep their
\* limits, order, answers and the halt for every number of chats, users and requests.
THEOREM OperatorPathIsSafe == OCSpec => []OperatorSafety
<1>1. OCInit => OCInv /\ RateInv
  BY OCInvInit, RateInit
<1> QED
  BY <1>1, OperatorInvStep, OperatorInvIsSafe, PTL DEF OCSpec

=============================================================================
