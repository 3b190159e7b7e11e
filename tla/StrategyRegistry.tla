-------------------------- MODULE StrategyRegistry ---------------------------
(***************************************************************************)
(* The registry of strategy instances and the definition files they come   *)
(* from.  A file holds a static definition (one instance per instrument    *)
(* it lists) or a dynamic template (instances for what a universe refresh  *)
(* selects).  The daemon loads the directory at startup, re-reads it on an *)
(* operator's reload, refreshes the templates on a timer and routes market *)
(* events to the instances.  Every action is one turn of the daemon's      *)
(* event loop, so a whole reload or refresh is one step.                   *)
(***************************************************************************)
EXTENDS StrategyMachine, FiniteSets, Sequences, Functions

CONSTANTS
  PathOrder,     \* the definition files in the order read_dir is sorted to
  Instruments,   \* [venue, asset] pairs
  Defs,          \* what an operator may write into a file
  Served,        \* venue -> candle intervals the venue serves
  TopN,          \* bound: instruments a universe filter selects
  MaxEdits, MaxReloads, MaxRefreshes   \* bounds

ASSUME RegistryAssumption ==
  /\ PathOrder \in Seq(Range(PathOrder)) /\ IsInjective(PathOrder)
  /\ \A i \in Instruments : i.venue \in DOMAIN Served
  /\ \A d \in Defs : d.kind \in {"bad", "static", "dynamic"} /\ d.insts \subseteq Instruments

VARIABLES
  disk,         \* file -> definition
  reg,          \* StrategyRegistry
  exposed,      \* instance -> how it came to hold exposure at the venue
  pins,         \* instruments pinned by the last clean reconcile
  universe,     \* topology of the last refresh: "valid" or "frozen"
  outcome,      \* result of the last reload
  counts        \* edits, reloads and refreshes so far

srVars == <<disk, reg, exposed, pins, universe, outcome, counts>>

Paths == Range(PathOrder)

-----------------------------------------------------------------------------
(* Definitions (definition.rs) *)

\* instance_identities: the id names the venue or the asset only when the
\* definition has several of them, or is dynamic.
IdOf(d, insts, i) ==
  IF d.kind = "dynamic" \/ Cardinality({j.venue : j \in insts}) > 1
    THEN <<d.base, i.venue, i.asset>>
  ELSE IF Cardinality(insts) > 1 THEN <<d.base, i.asset>>
  ELSE <<d.base>>

\* build_instances(_for) with build_policy_instances(_for) succeed: the
\* candle interval is served by every venue and the scores are in range.
Buildable(d, insts) ==
  ~d.enabled \/
    /\ insts # {}
    /\ d.kind = "dynamic" => {i.venue : i \in insts} \subseteq d.venues
    /\ d.interval = "default" \/ \A i \in insts : d.interval \in Served[i.venue]
    /\ d.sane

\* The instances built, by id.
Instances(d, insts) ==
  IF ~d.enabled THEN <<>>
  ELSE [id \in {IdOf(d, insts, i) : i \in insts} |->
          [inst |-> CHOOSE i \in insts : IdOf(d, insts, i) = id,
           driven |-> d.driven, machine |-> NewMachine(d.short)]]

-----------------------------------------------------------------------------
(* The registry (registry.rs) *)

EmptyRegistry == [strategies |-> <<>>, sources |-> <<>>, templates |-> <<>>]

Without(f, S) == Restrict(f, DOMAIN f \ S)
Overlay(f, g) == [x \in DOMAIN f \cup DOMAIN g |-> IF x \in DOMAIN g THEN g[x] ELSE f[x]]
Put(f, x, v) == Overlay(f, [y \in {x} |-> v])

SourceIds(r, p) == IF p \in DOMAIN r.sources THEN r.sources[p] ELSE {}

Taken(r, ids) == ids \cap DOMAIN r.strategies # {}

\* Mutant: an instance at work may be removed.
AlwaysRemovable(r, ids) == TRUE

AllRemovable(r, ids) ==
  \A id \in ids \cap DOMAIN r.strategies : Removable(r.strategies[id].machine)

Fail(r) == [ok |-> FALSE, reg |-> r]
Done(r) == [ok |-> TRUE, reg |-> r]

AsTemplate(r, p, d) ==
  [r EXCEPT !.templates = Put(@, p, d), !.sources = Put(@, p, {})]

LoadFile(r, p, d) ==
  LET new == Instances(d, d.insts)
  IN CASE d.kind = "bad" -> Fail(r)
       [] d.kind = "dynamic" -> Done(AsTemplate(r, p, d))
       [] OTHER ->
            IF ~Buildable(d, d.insts) \/ Taken(r, DOMAIN new)
              THEN Fail(r)
              ELSE Done([r EXCEPT !.strategies = Overlay(@, new),
                                  !.sources = Put(@, p, DOMAIN new)])

\* reload_file: the old instances must be removable; the template of the file
\* is dropped before the new static definition is built.
ReloadFile(r, p, d) ==
  LET old == SourceIds(r, p)
      dropped == [r EXCEPT !.strategies = Without(@, old)]
      bare == [r EXCEPT !.templates = Without(@, {p})]
      new == Instances(d, d.insts)
  IN CASE ~AllRemovable(r, old) -> Fail(r)
       [] AllRemovable(r, old) /\ d.kind = "bad" -> Fail(r)
       [] AllRemovable(r, old) /\ d.kind = "dynamic" -> Done(AsTemplate(dropped, p, d))
       [] OTHER ->
            IF \/ ~Buildable(d, d.insts)
               \/ Taken(r, DOMAIN new \ old)
              THEN Fail(bare)
              ELSE Done([bare EXCEPT !.strategies = Overlay(dropped.strategies, new),
                                     !.sources = Put(@, p, DOMAIN new)])

\* apply_dynamic_instruments: an instance whose id stays is kept as it is.
ApplyDynamic(r, p, insts) ==
  LET d == r.templates[p]
      old == SourceIds(r, p)
      new == Instances(d, insts)
      added == DOMAIN new \ old
      removed == old \ DOMAIN new
  IN IF \/ ~Buildable(d, insts)
        \/ Taken(r, added)
        \/ ~AllRemovable(r, removed)
       THEN Fail(r)
       ELSE Done([r EXCEPT !.strategies = Overlay(Without(@, removed), Restrict(new, added)),
                           !.sources = Put(@, p, DOMAIN new)])

\* Mutant: the pins are forgotten.
SelectedUnpinned(d, found) == {i \in found : i.venue \in d.venues}

\* What a discovered universe and the pins select for a template.
Selected(d, found) == {i \in found \cup pins : i.venue \in d.venues}

\* One file at startup, in a reload and in a refresh, which only looks at templates.
OnFile(job, r, p) ==
  CASE job.what = "load" -> LoadFile(r, p, job.files[p])
    [] job.what = "reload" -> ReloadFile(r, p, job.files[p])
    [] job.what = "refresh" ->
         IF p \in DOMAIN r.templates THEN ApplyDynamic(r, p, Selected(r.templates[p], job.found))
                                     ELSE Done(r)

\* The files one after another until one fails.
OverFiles(job, r) ==
  LET run[n \in 0..Len(PathOrder)] ==
        IF n = 0 THEN Done(r)
        ELSE IF run[n - 1].ok THEN OnFile(job, run[n - 1].reg, PathOrder[n]) ELSE run[n - 1]
  IN run[Len(PathOrder)]

LoadDir(files) == OverFiles([what |-> "load", files |-> files], EmptyRegistry)

-----------------------------------------------------------------------------
(* The daemon *)

SRInit ==
  /\ disk \in [Paths -> Defs]
  /\ LoadDir(disk).ok
  /\ reg = LoadDir(disk).reg
  /\ exposed = <<>>
  /\ pins = {}
  /\ universe = "valid"
  /\ outcome = "none"
  /\ counts = [edits |-> 0, reloads |-> 0, refreshes |-> 0]

\* The operator rewrites a file.
EditFile(p, d) ==
  /\ counts.edits < MaxEdits
  /\ d # disk[p]
  /\ disk' = [disk EXCEPT ![p] = d]
  /\ counts' = [counts EXCEPT !.edits = @ + 1]
  /\ UNCHANGED <<reg, exposed, pins, universe, outcome>>

\* ControlCommand::ReloadStrategies: the files one after another, stopping at
\* the first that is rejected.
ReloadStrategies ==
  LET result == OverFiles([what |-> "reload", files |-> disk], reg)
  IN /\ counts.reloads < MaxReloads
     /\ reg' = result.reg
     /\ outcome' = IF result.ok THEN "reloaded" ELSE "rejected"
     /\ counts' = [counts EXCEPT !.reloads = @ + 1]
     /\ UNCHANGED <<disk, exposed, pins, universe>>

\* refresh_dynamic_universe: every template in turn; the first failure leaves
\* the topology frozen.  `found` is what the filter kept of the discovery.
RefreshUniverse(found) ==
  LET result == OverFiles([what |-> "refresh", found |-> found], reg)
  IN /\ counts.refreshes < MaxRefreshes
     /\ DOMAIN reg.templates # {}
     /\ Cardinality(found) <= TopN
     /\ reg' = result.reg
     /\ universe' = IF result.ok THEN "valid" ELSE "frozen"
     /\ counts' = [counts EXCEPT !.refreshes = @ + 1]
     /\ UNCHANGED <<disk, exposed, pins, outcome>>

\* Discovery at a venue fails before any template is touched.
RefreshFails ==
  /\ counts.refreshes < MaxRefreshes
  /\ DOMAIN reg.templates # {}
  /\ universe' = "frozen"
  /\ counts' = [counts EXCEPT !.refreshes = @ + 1]
  /\ UNCHANGED <<disk, reg, exposed, pins, outcome>>

RoutedTo(i) == {id \in DOMAIN reg.strategies : reg.strategies[id].inst = i}

\* route_event: every score machine of the instrument sees the signal.  An
\* order of a policy-driven instance is suppressed, another one is dispatched
\* when the risk gate lets it through; the machine hears of neither.
RouteEvent(i, score, admitted) ==
  LET decide == [id \in RoutedTo(i) |-> OnSignal(reg.strategies[id].machine, score, "intent")]
      asking == {id \in RoutedTo(i) : decide[id].side # "none"}
      sent == IF admitted THEN {id \in asking : ~reg.strategies[id].driven} ELSE {}
  IN /\ asking # {}
     /\ reg' = [reg EXCEPT !.strategies =
                  [id \in DOMAIN @ |-> IF id \in RoutedTo(i)
                     THEN [@[id] EXCEPT !.machine = decide[id].machine] ELSE @[id]]]
     /\ exposed' = Overlay(exposed, [id \in sent |-> [inst |-> i, by |-> "score"]])
     /\ UNCHANGED <<disk, pins, universe, outcome, counts>>

\* route_live_policy_event: a matched rule of a policy-driven instance with
\* no exposure is dispatched.
RoutePolicy(id) ==
  /\ id \in DOMAIN reg.strategies \ DOMAIN exposed
  /\ reg.strategies[id].driven
  /\ exposed' = Put(exposed, id, [inst |-> reg.strategies[id].inst, by |-> "policy"])
  /\ UNCHANGED <<disk, reg, pins, universe, outcome, counts>>

\* The venue closes what an instance holds.
Flattened(id) ==
  /\ id \in DOMAIN exposed
  /\ exposed' = Without(exposed, {id})
  /\ UNCHANGED <<disk, reg, pins, universe, outcome, counts>>

\* A clean reconcile pins the instruments of strategy-owned exposure.
PinExposure ==
  /\ pins' = {exposed[id].inst : id \in DOMAIN exposed}
  /\ pins' # pins
  /\ UNCHANGED <<disk, reg, exposed, universe, outcome, counts>>

SRNext ==
  \/ \E p \in Paths, d \in Defs : EditFile(p, d)
  \/ ReloadStrategies
  \/ \E found \in SUBSET Instruments : RefreshUniverse(found)
  \/ RefreshFails
  \/ \E i \in Instruments, a \in BOOLEAN : RouteEvent(i, EntryScore, a)
  \/ \E id \in DOMAIN reg.strategies : RoutePolicy(id)
  \/ \E id \in DOMAIN exposed : Flattened(id)
  \/ PinExposure

SRSpec == SRInit /\ [][SRNext]_srVars

-----------------------------------------------------------------------------
\* The registry is made of its three maps.
SRTypeOK ==
  /\ disk \in [Paths -> Defs]
  /\ DOMAIN reg.sources = Paths
  /\ DOMAIN reg.templates \subseteq Paths
  /\ \A id \in DOMAIN reg.strategies : reg.strategies[id].machine.phase \in Phases
  /\ pins \subseteq Instruments
  /\ universe \in {"valid", "frozen"}
  /\ outcome \in {"none", "reloaded", "rejected"}

\* Every instance belongs to exactly one file, whatever reloads and refreshes
\* failed half way: the `sources` lists partition the running instances.
SourcesPartition ==
  /\ DOMAIN reg.strategies = UNION {reg.sources[p] : p \in Paths}
  /\ \A p, q \in Paths : p # q => reg.sources[p] \cap reg.sources[q] = {}

\* No reload and no refresh drops or resets an instance whose machine is
\* working (ensure_ids_removable, and the survivors of a refresh).
WorkingInstanceSurvives ==
  [][\A id \in DOMAIN reg.strategies :
       ~Removable(reg.strategies[id].machine) =>
         id \in DOMAIN reg'.strategies /\ ~Removable(reg'.strategies[id].machine)]_srVars

\* Exposure a score machine opened always has its instance: nothing but the
\* instance itself could close it.
ScoredExposureIsOwned ==
  \A id \in DOMAIN exposed : exposed[id].by = "score" => id \in DOMAIN reg.strategies

\* Every instance has its file and every scored exposure its instance, after any sequence
\* of reloads and refreshes, failed ones included.
RegistrySafety == SRTypeOK /\ SourcesPartition /\ ScoredExposureIsOwned

\* A refresh keeps every instance of a template on a pinned instrument.
PinnedSurvivesRefresh ==
  [][counts'.refreshes # counts.refreshes =>
       \A p \in DOMAIN reg.templates : reg.templates[p].enabled =>
         \A id \in reg.sources[p] :
           reg.strategies[id].inst \in pins => id \in DOMAIN reg'.strategies]_srVars

\* A rejected reload leaves the running set as it was
\* ("Validate everything before swapping anything").
ReloadIsAllOrNothing ==
  [][counts'.reloads # counts.reloads /\ outcome' = "rejected" => reg' = reg]_srVars

\* An instance nothing was ever dispatched for can be removed.
IdleIsRemovable ==
  \A id \in DOMAIN reg.strategies :
    reg.strategies[id].inst \notin {exposed[e].inst : e \in DOMAIN exposed}
      /\ reg.strategies[id].driven
      => Removable(reg.strategies[id].machine)
=============================================================================
