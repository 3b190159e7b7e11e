-------------------------- MODULE IbkrInstruments --------------------------
(***************************************************************************)
(* One IBKR account behind many connections: DynamicIbkrExecution gives    *)
(* every instrument its own adapter and client id, CompositeExecution-     *)
(* Adapter routes and merges their answers, and a universe tick changes    *)
(* the instruments while orders are open.  The gateway (external) lists an *)
(* open order to the client that placed it; accountWide is a gateway that  *)
(* lists it to every client.  Instruments are numbers in key order.        *)
(***************************************************************************)
EXTENDS Integers, FiniteSets, FiniteSetsExt

CONSTANTS
  NumInstruments,  \* instruments the universe may select
  NumOrders,       \* bound: orders ever placed
  Size,            \* quantity of an order
  MaxClient,       \* bound: client ids used in one life of the process
  MaxBoots         \* bound: starts of the process

Symbols == 1 .. NumInstruments
OrderIds == 1 .. NumOrders
NoClient == -1
NotListed == -1

ASSUME InstrumentAssumption ==
  /\ {NumInstruments, NumOrders, Size, MaxBoots} \subseteq Nat \ {0}
  /\ MaxClient \in Nat

VARIABLES
  dynamicMode,   \* the registry has dynamic templates
  accountWide,   \* the gateway lists every order to every client
  boots,
  universe,      \* instruments the strategies trade
  child,         \* composite.per_asset: instrument -> client id
  nextClient,    \* next_client_id, above the base
  placed,        \* order -> its instrument and the client that placed it
  quantity,      \* order -> filled quantity at the venue
  open,          \* orders open at the venue
  pinned,        \* instruments of runtime_pins.operational
  trusted,       \* open orders a clean read has listed
  unread,        \* children a running open_orders call has still to ask
  listing,       \* order -> filled quantity in the answer so far
  began,         \* orders open when the call began and untouched since
  reading,       \* "idle" or "asking"
  churned        \* some instrument was added or dropped after startup

iiFixed == <<dynamicMode, accountWide>>
iiVenue == <<placed, quantity, open>>
iiRead == <<unread, listing, began, reading>>
iiVars == <<iiFixed, boots, universe, child, nextClient, pinned, trusted, churned, iiVenue,
            iiRead>>

Children(c) == {a \in Symbols : c[a] # NoClient}
NoOrderYet == [symbol |-> 0, client |-> NoClient]

-----------------------------------------------------------------------------
(* sync_assets *)

\* Mutant: the pins are not kept.
DesiredUniverse(u, ps) == u

\* desired_ibkr_assets: what the feeds name and what is pinned.
DesiredSymbols(u, ps) == u \cup ps

\* Client ids start at the configured base in every life of the process.
BootBase == 0

\* Connect the instruments of a set in key order, from client id n on.
Connected(c, new, n) ==
  [a \in Symbols |-> IF a \in new THEN n + Cardinality({b \in new : b < a}) ELSE c[a]]

\* The instruments that stay: the desired ones, or the last of all.
Retained(cs, desired) ==
  IF cs \cap desired = {} /\ cs # {} THEN {Max(cs)} ELSE cs \cap desired

Dropped(c, desired) ==
  [a \in Symbols |-> IF a \in Retained(Children(c), desired) THEN c[a] ELSE NoClient]

IIInit ==
  /\ dynamicMode \in BOOLEAN /\ accountWide \in BOOLEAN /\ boots = 1
  /\ universe \in (SUBSET Symbols) \ {{}}
  /\ child = Connected([a \in Symbols |-> NoClient], universe, 0)
  /\ nextClient = Cardinality(universe)
  /\ placed = [o \in OrderIds |-> NoOrderYet] /\ quantity = [o \in OrderIds |-> 0] /\ open = {}
  /\ pinned = {} /\ trusted = {} /\ churned = FALSE
  /\ unread = {} /\ listing = [o \in OrderIds |-> NotListed] /\ began = {} /\ reading = "idle"

\* A universe tick whose adapters all connect.
UniverseApplied(u) ==
  /\ dynamicMode /\ reading = "idle" /\ u # {}
  /\ LET desired == DesiredSymbols(u, pinned)
         new == desired \ Children(child)
     IN  /\ nextClient + Cardinality(new) <= MaxClient
         /\ child' = Dropped(Connected(child, new, nextClient), desired)
         /\ nextClient' = nextClient + Cardinality(new)
         /\ churned' = (churned \/ u # universe)
  /\ universe' = u
  /\ UNCHANGED <<iiFixed, boots, pinned, trusted, iiVenue, iiRead>>

\* The adapter of instrument a does not connect: its id is spent, the ones before
\* it stay.
UniverseBreaks(u, a) ==
  /\ dynamicMode /\ reading = "idle" /\ u # {}
  /\ LET new == DesiredSymbols(u, pinned) \ Children(child)
         before == {b \in new : b < a}
     IN  /\ a \in new
         /\ nextClient + Cardinality(before) + 1 <= MaxClient
         /\ child' = Connected(child, before, nextClient)
         /\ nextClient' = nextClient + Cardinality(before) + 1
  /\ churned' = TRUE
  /\ UNCHANGED <<iiFixed, boots, universe, pinned, trusted, iiVenue, iiRead>>

\* A reload of static strategies changes what is traded and no adapter.
StaticReload(u) ==
  /\ ~dynamicMode /\ reading = "idle" /\ u # {}
  /\ universe' = u
  /\ churned' = (churned \/ u # universe)
  /\ UNCHANGED <<iiFixed, boots, child, nextClient, pinned, trusted, iiVenue, iiRead>>

-----------------------------------------------------------------------------
(* Orders *)

\* CompositeExecutionAdapter::submit routes by the asset of the intent.
RouteOrder(o, a) ==
  /\ reading = "idle"
  /\ a \in universe /\ child[a] # NoClient
  /\ placed[o] = NoOrderYet /\ \A p \in OrderIds : p < o => placed[p] # NoOrderYet
  /\ placed' = [placed EXCEPT ![o] = [symbol |-> a, client |-> child[a]]]
  /\ open' = open \cup {o}
  /\ UNCHANGED <<iiFixed, boots, universe, child, nextClient, quantity, pinned, trusted,
                 churned, iiRead>>

\* The venue fills an order.
VenueFills(o) ==
  /\ o \in open
  /\ quantity' = [quantity EXCEPT ![o] = @ + 1]
  /\ open' = IF quantity[o] + 1 = Size THEN open \ {o} ELSE open
  /\ trusted' = trusted \cap open' /\ began' = began \ {o}
  /\ UNCHANGED <<iiFixed, boots, universe, child, nextClient, placed, pinned, churned, unread,
                 listing, reading>>

\* cancel through the adapter of the order's asset, which only its client may do.
CancelOrder(o) ==
  /\ reading = "idle"
  /\ o \in open /\ child[placed[o].symbol] = placed[o].client
  /\ open' = open \ {o} /\ trusted' = trusted \ {o} /\ began' = began \ {o}
  /\ UNCHANGED <<iiFixed, boots, universe, child, nextClient, placed, quantity, pinned,
                 churned, unread, listing, reading>>

-----------------------------------------------------------------------------
(* open_orders over the children, one after the other *)

\* open_orders asks every child.
Asked(c) == Children(c)

BeginRead ==
  /\ reading = "idle"
  /\ unread' = Asked(child) /\ listing' = [o \in OrderIds |-> NotListed]
  /\ began' = open /\ reading' = "asking"
  /\ UNCHANGED <<iiFixed, boots, universe, child, nextClient, pinned, trusted, churned,
                 iiVenue>>

ListedTo(a) == {o \in open : accountWide \/ placed[o].client = child[a]}

\* The next child answers; two children that disagree on an order end the call.
ReadChild ==
  /\ reading = "asking" /\ unread # {}
  /\ LET a == Min(unread)
         disagree == \E o \in ListedTo(a) : listing[o] \notin {NotListed, quantity[o]}
     IN  /\ unread' = unread \ {a}
         /\ listing' = [o \in OrderIds |->
                          IF disagree THEN NotListed
                          ELSE IF o \in ListedTo(a) THEN quantity[o] ELSE listing[o]]
         /\ began' = IF disagree THEN {} ELSE began
         /\ reading' = IF disagree THEN "idle" ELSE "asking"
  /\ UNCHANGED <<iiFixed, boots, universe, child, nextClient, pinned, trusted, churned,
                 iiVenue>>

Listed == {o \in OrderIds : listing[o] # NotListed}

\* The call returns; a clean reconcile pins what it lists.
FinishRead ==
  /\ reading = "asking" /\ unread = {}
  /\ reading' = "idle"
  /\ pinned' = {placed[o].symbol : o \in Listed}
  /\ trusted' = {o \in Listed \cap open : child[placed[o].symbol] = placed[o].client}
  /\ listing' = [o \in OrderIds |-> NotListed] /\ began' = {}
  /\ UNCHANGED <<iiFixed, boots, universe, child, nextClient, churned, iiVenue, unread>>

\* The process restarts: a new registry, with nothing pinned yet.
Restart(u) ==
  /\ boots < MaxBoots /\ u # {}
  /\ boots' = boots + 1
  /\ universe' = u
  /\ child' = Connected([a \in Symbols |-> NoClient], u, BootBase)
  /\ nextClient' = BootBase + Cardinality(u)
  /\ pinned' = {} /\ trusted' = {}
  /\ churned' = (churned \/ u # universe)
  /\ unread' = {} /\ listing' = [o \in OrderIds |-> NotListed] /\ began' = {} /\ reading' = "idle"
  /\ UNCHANGED <<iiFixed, iiVenue>>

IINext ==
  \/ \E u \in SUBSET Symbols : UniverseApplied(u) \/ StaticReload(u) \/ Restart(u)
  \/ \E u \in SUBSET Symbols, a \in Symbols : UniverseBreaks(u, a)
  \/ \E o \in OrderIds, a \in Symbols : RouteOrder(o, a)
  \/ \E o \in OrderIds : VenueFills(o) \/ CancelOrder(o)
  \/ BeginRead \/ ReadChild \/ FinishRead

IISpec == IIInit /\ [][IINext]_iiVars

-----------------------------------------------------------------------------
(* Properties *)

\* Type, and no two connections of one process share a client id.
IITypeOK ==
  /\ child \in [Symbols -> {NoClient} \cup 0 .. nextClient - 1]
  /\ nextClient <= MaxClient + NumInstruments
  /\ \A a, b \in Children(child) : child[a] = child[b] => a = b
  /\ universe \subseteq Symbols /\ pinned \subseteq Symbols /\ unread \subseteq Symbols
  /\ quantity \in [OrderIds -> 0 .. Size] /\ open \subseteq OrderIds
  /\ listing \in [OrderIds -> {NotListed} \cup 0 .. Size]
  /\ reading \in {"idle", "asking"}

\* An order that a clean reconcile has listed, and that is still open, keeps the
\* connection that placed it through every universe tick: it can be canceled.
ListedOrderKeepsItsClient ==
  \A o \in trusted : child[placed[o].symbol] = placed[o].client

\* With dynamic templates, what the strategies trade can be executed; a static reload
\* gives a new instrument no adapter, and its orders are refused until a restart.
UniverseHasAdapters == dynamicMode => universe \subseteq Children(child)

Reachable(o) == accountWide \/ \E a \in Children(child) : child[a] = placed[o].client

\* A merged answer without a conflict lists every order that was open throughout
\* the call and whose placing connection is up.
ReadIsComplete ==
  reading = "asking" /\ unread = {} => {o \in began : Reachable(o)} \subseteq Listed

\* With an unchanged set of instruments a restarted process sees every open order of
\* its predecessors: the client ids come out the same.
SteadyRestartSeesAll == ~churned => \A o \in open : Reachable(o)

\* The IBKR connections cover the orders: a listed order keeps the client that can cancel
\* it, what is traded has a connection, and a read of them all is complete.
ConnectionSafety ==
  /\ IITypeOK /\ ListedOrderKeepsItsClient /\ UniverseHasAdapters /\ ReadIsComplete
  /\ SteadyRestartSeesAll

=============================================================================
