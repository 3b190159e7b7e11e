--------------------------- MODULE OperatorControl ---------------------------
(***************************************************************************)
(* The operator's path into the live daemon: a handler per chat with a     *)
(* rate limiter they share, the bot's channel, a bridge that forwards one  *)
(* request at a time and waits for its answer, the runtime's channel and   *)
(* the daemon's operator branch with the emergency exit.  A request is the *)
(* number of its message.  Telegram, the venue and the clock are external; *)
(* a response timeout may fire whenever a handler waits.                   *)
(***************************************************************************)
EXTENDS Integers, Sequences, FiniteSets, SequencesExt

CONSTANTS
  Chats, OperatorUsers,       \* chats and users that write to the bot
  AllowedChats, AllowedUsers, \* TelegramAuthorizer
  PerWindow, RateWindow,      \* normal_per_minute and the minute
  Cooldown,                   \* refresh_cooldown and emergency_cooldown
  ChannelSize,                \* capacity of the two channels (32)
  MaxRequests, MaxClock       \* bounds: requests ever admitted, time

ASSUME OperatorAssumption ==
  /\ AllowedChats \subseteq Chats /\ AllowedUsers \subseteq OperatorUsers
  /\ {PerWindow, RateWindow, Cooldown, ChannelSize} \subseteq Nat \ {0}
  /\ {MaxRequests, MaxClock} \subseteq Nat

Commands == {"start", "stop", "refresh", "emergency"}
Cooling == {"refresh", "emergency"}
Ids == 1 .. MaxRequests
Nobody == 0
Never == -Cooldown

VARIABLES
  clock,
  normal,         \* RateState.normal: user -> instants of its admitted requests
  lastUse,        \* RateState.last_refresh and last_emergency
  handler,        \* chat -> what its handler does, and with which request
  inbox,          \* the bot's channel
  bridge,         \* the bridge task
  runtimeBox,     \* the runtime's channel
  requests,       \* admitted requests: user, chat, command and time
  answers,        \* request -> the runtime's answer
  shown,          \* request -> what its operator was told
  done,           \* requests the daemon carried out, in order
  trading,        \* operator_halt, trading_started and the emergency under way
  exitOrder,      \* the order the last emergency exit sent, and the fills on record
  up              \* the daemon's loop runs

ocLimit == <<normal, lastUse>>
ocPath == <<handler, inbox, bridge, runtimeBox, requests, shown>>
ocEffects == <<answers, done, trading, exitOrder>>
ocVars == <<clock, ocLimit, ocPath, ocEffects, up>>

Quiet == [st |-> "idle", id |-> Nobody]
NoExitOrder == [size |-> 0, recorded |-> 0]

OCInit ==
  /\ clock = 0
  /\ normal = [u \in OperatorUsers |-> <<>>] /\ lastUse = [u \in OperatorUsers |-> [k \in Cooling |-> Never]]
  /\ handler = [c \in Chats |-> Quiet] /\ bridge = Quiet
  /\ inbox = <<>> /\ runtimeBox = <<>> /\ requests = <<>>
  /\ answers = [i \in Ids |-> "none"] /\ shown = [i \in Ids |-> "none"] /\ done = <<>>
  /\ trading = [halt |-> FALSE, started |-> FALSE, exit |-> Nobody]
  /\ exitOrder = NoExitOrder /\ up = TRUE

ClockTicks ==
  /\ up /\ clock < MaxClock
  /\ clock' = clock + 1
  /\ UNCHANGED <<ocLimit, ocPath, ocEffects, up>>

-----------------------------------------------------------------------------
(* The bot *)

\* TelegramAuthorizer::authorized
Authorized(u, c) == u \in AllowedUsers /\ c \in AllowedChats

\* allow: instants that are a whole window old leave the front of the queue.
Fresh(u) == {k \in DOMAIN normal[u] : clock - normal[u][k] < RateWindow}
Recent(u) == IF Fresh(u) = {} THEN <<>> ELSE SubSeq(normal[u], Min(Fresh(u)), Len(normal[u]))

Cooled(u, cmd) == cmd \in Cooling => clock - lastUse[u][cmd] >= Cooldown

Admits(u, cmd) == Len(Recent(u)) < PerWindow /\ Cooled(u, cmd)

\* A message of an authorised operator passes the limiter and becomes a request.  Any
\* other message is answered and changes nothing that a later decision can see.
Admit(c, u, cmd) ==
  /\ up /\ handler[c].st = "idle" /\ Len(requests) < MaxRequests
  /\ Authorized(u, c) /\ Admits(u, cmd)
  /\ normal' = [normal EXCEPT ![u] = Append(Recent(u), clock)]
  /\ lastUse' = [lastUse EXCEPT ![u] = [k \in Cooling |-> IF k = cmd THEN clock ELSE @[k]]]
  /\ requests' = Append(requests, [chat |-> c, user |-> u, cmd |-> cmd, at |-> clock])
  /\ handler' = [handler EXCEPT ![c] = [st |-> "sending", id |-> Len(requests) + 1]]
  /\ UNCHANGED <<clock, inbox, bridge, runtimeBox, shown, ocEffects, up>>

\* The request waits for room in the channel, without a timeout.
Send(c) ==
  /\ up /\ handler[c].st = "sending" /\ Len(inbox) < ChannelSize
  /\ inbox' = Append(inbox, handler[c].id)
  /\ handler' = [handler EXCEPT ![c].st = "waiting"]
  /\ UNCHANGED <<clock, ocLimit, bridge, runtimeBox, requests, shown, ocEffects, up>>

\* The answer arrives, or the handler stops waiting and says "rejected".
Told(c, what) ==
  /\ up /\ handler[c].st = "waiting"
  /\ shown' = [shown EXCEPT ![handler[c].id] = what]
  /\ handler' = [handler EXCEPT ![c] = Quiet]
  /\ UNCHANGED <<clock, ocLimit, inbox, bridge, runtimeBox, requests, ocEffects, up>>

\* Mutant: a handler that stops waiting sends its request again.
ResponseTimeoutRetries(c) ==
  /\ up /\ handler[c].st = "waiting"
  /\ handler' = [handler EXCEPT ![c].st = "sending"]
  /\ UNCHANGED <<clock, ocLimit, inbox, bridge, runtimeBox, requests, shown, ocEffects, up>>
ResponseTimeout(c) == Told(c, "timeout")

-----------------------------------------------------------------------------
(* The bridge *)

\* Mutant: a request nobody waits for any more is dropped.
BridgeDropsAbandoned ==
  /\ up /\ bridge.st = "idle" /\ inbox # <<>>
  /\ inbox' = Tail(inbox)
  /\ IF \E c \in Chats : handler[c].id = Head(inbox)
     THEN /\ bridge' = [st |-> "waiting", id |-> Head(inbox)]
          /\ runtimeBox' = Append(runtimeBox, Head(inbox))
     ELSE UNCHANGED <<bridge, runtimeBox>>
  /\ UNCHANGED <<clock, ocLimit, handler, requests, shown, ocEffects, up>>

\* It has one request outstanding, so the runtime's channel always has room.
BridgeForwards ==
  /\ up /\ bridge.st = "idle" /\ inbox # <<>>
  /\ bridge' = [st |-> "waiting", id |-> Head(inbox)]
  /\ inbox' = Tail(inbox)
  /\ runtimeBox' = Append(runtimeBox, Head(inbox))
  /\ UNCHANGED <<clock, ocLimit, handler, requests, shown, ocEffects, up>>

Listens(c) == handler[c] = [st |-> "waiting", id |-> bridge.id]

\* The answer goes to the handler that still waits for it, if any.
BridgeReplies ==
  /\ up /\ bridge.st = "waiting" /\ answers[bridge.id] # "none"
  /\ bridge' = Quiet
  /\ \/ /\ \A c \in Chats : ~Listens(c)
        /\ UNCHANGED <<handler, shown>>
     \/ \E c \in Chats :
          /\ Listens(c)
          /\ shown' = [shown EXCEPT ![handler[c].id] = answers[bridge.id]]
          /\ handler' = [handler EXCEPT ![c] = Quiet]
  /\ UNCHANGED <<clock, ocLimit, inbox, runtimeBox, requests, ocEffects, up>>

-----------------------------------------------------------------------------
(* The daemon *)

NextRequest == Head(runtimeBox)
NextCommand == requests[NextRequest].cmd

Starts(ready) == ready /\ ~trading.halt

\* The operator branch for all but an emergency.  `ready`: the gates of the entry.
DaemonRuns(ready) ==
  /\ up /\ trading.exit = Nobody /\ runtimeBox # <<>> /\ NextCommand # "emergency"
  /\ trading' = CASE NextCommand = "start" /\ Starts(ready) -> [trading EXCEPT !.started = TRUE]
                  [] NextCommand = "stop" -> [trading EXCEPT !.started = FALSE]
                  [] OTHER -> trading
  /\ answers' = [answers EXCEPT ![NextRequest] =
       IF NextCommand = "refresh" \/ (NextCommand = "start" /\ ~Starts(ready))
       THEN "rejected" ELSE "accepted"]
  /\ done' = Append(done, NextRequest)
  /\ runtimeBox' = Tail(runtimeBox)
  /\ UNCHANGED <<clock, ocLimit, handler, inbox, bridge, requests, shown, exitOrder, up>>

\* An emergency exit halts first ...
EmergencyHalts ==
  /\ up /\ trading.exit = Nobody /\ runtimeBox # <<>> /\ NextCommand = "emergency"
  /\ trading' = [halt |-> TRUE, started |-> FALSE, exit |-> NextRequest]
  /\ done' = Append(done, NextRequest)
  /\ runtimeBox' = Tail(runtimeBox)
  /\ UNCHANGED <<clock, ocLimit, handler, inbox, bridge, requests, shown, answers, exitOrder, up>>

\* What the exit finds once it cancelled the open orders on record (DurableExecution):
\* fills on record, fills that nothing recorded, and a manual holding.
Accounts == [recorded : 0 .. 1, unrecorded : 0 .. 1, manual : 0 .. 1]
Position(acc) == acc.recorded + acc.unrecorded + acc.manual

\* ownership_from_order_evidence: the fills on record are the whole position.
Owns(acc) == acc.recorded # 0 /\ acc.recorded = Position(acc)

\* ... then it reads the positions and sends a reduce-only order for what it owns.
\* `read`: reconcile_once and the dispatch came through.
EmergencyFlattens(acc, read) ==
  /\ up /\ trading.exit # Nobody
  /\ exitOrder' = IF read /\ Owns(acc) THEN [size |-> Position(acc), recorded |-> acc.recorded]
                  ELSE NoExitOrder
  /\ answers' = [answers EXCEPT ![trading.exit] = "accepted"]
  /\ trading' = [trading EXCEPT !.exit = Nobody]
  /\ UNCHANGED <<clock, ocLimit, ocPath, done, up>>

\* The loop ends: stop aborts the bot and the bridge.
LoopEnds ==
  /\ up /\ trading.exit = Nobody
  /\ up' = FALSE
  /\ trading' = [trading EXCEPT !.started = FALSE]
  /\ handler' = [c \in Chats |-> Quiet] /\ bridge' = Quiet
  /\ inbox' = <<>> /\ runtimeBox' = <<>>
  /\ UNCHANGED <<clock, ocLimit, requests, shown, answers, done, exitOrder>>

OCNext ==
  \/ ClockTicks
  \/ \E c \in Chats :
       \/ Send(c) \/ ResponseTimeout(c)
       \/ \E u \in OperatorUsers, cmd \in Commands : Admit(c, u, cmd)
  \/ BridgeForwards \/ BridgeReplies
  \/ \E b \in BOOLEAN : DaemonRuns(b) \/ \E acc \in Accounts : EmergencyFlattens(acc, b)
  \/ EmergencyHalts \/ LoopEnds

\* The select of the loop is unbiased and the tasks are polled; the venue's calls
\* return, with an answer or an error.
OCSpec ==
  /\ OCInit /\ [][OCNext]_ocVars
  /\ WF_ocVars(BridgeForwards) /\ WF_ocVars(BridgeReplies)
  /\ WF_ocVars(\E b \in BOOLEAN : DaemonRuns(b)) /\ WF_ocVars(EmergencyHalts)
  /\ WF_ocVars(\E acc \in Accounts : EmergencyFlattens(acc, TRUE))
  /\ \A c \in Chats : WF_ocVars(Send(c))

-----------------------------------------------------------------------------
(* Properties *)

\* Type: channels within their capacity, requests that exist.
OCTypeOK ==
  /\ Len(inbox) <= ChannelSize /\ Len(runtimeBox) <= ChannelSize
  /\ \A c \in Chats : handler[c].id \in 0 .. Len(requests)
  /\ bridge.id \in 0 .. Len(requests) /\ trading.exit \in 0 .. Len(requests)
  /\ \A u \in OperatorUsers : Len(normal[u]) <= PerWindow
  /\ Range(done) \subseteq 1 .. Len(requests)

\* RateLimiter: however many chats an operator writes in, no window holds more of its
\* requests than the limit, and two emergencies or refreshes are a cooldown apart.
RateIsRespected ==
  \A u \in OperatorUsers :
    LET of == {i \in 1 .. Len(requests) : requests[i].user = u}
    IN  /\ \A t \in 0 .. MaxClock :
             Cardinality({i \in of : requests[i].at \in t .. (t + RateWindow - 1)}) <= PerWindow
        /\ \A i, j \in of :
             i < j /\ requests[i].cmd = requests[j].cmd /\ requests[i].cmd \in Cooling =>
               requests[j].at - requests[i].at >= Cooldown

\* Bridge and channels: the requests of a chat are carried out once each and in the
\* order they were sent, although its handler may stop waiting for one of them.
CarriedOutInOrder ==
  \A x, y \in DOMAIN done :
    x < y /\ requests[done[x]].chat = requests[done[y]].chat => done[x] < done[y]

\* What an operator reads, other than a timeout, is the runtime's answer to its own
\* request, and "accepted" was carried out.
AnswersAreTheirOwn ==
  \A i \in Ids : shown[i] \notin {"none", "timeout"} => shown[i] = answers[i] /\ i \in Range(done)

\* operator_halt: whatever was queued or sent by others before the exit, trading does
\* not start again once an emergency was carried out.
HaltOutlivesTheQueue ==
  (\E i \in Range(done) : requests[i].cmd = "emergency") => ~trading.started

\* emergency_flatten_owned: an emergency order is exactly what the fills on record
\* explain, so a manual holding is never sold and an overlooked fill blocks the order.
FlattensOnlyOwned == exitOrder.size = exitOrder.recorded

\* The operator's path as a whole: limits, order, answers, the halt and what the exit
\* sells, whatever the handlers, the bridge and the daemon interleave.
OperatorSafety ==
  /\ OCTypeOK /\ RateIsRespected /\ CarriedOutInOrder /\ AnswersAreTheirOwn
  /\ HaltOutlivesTheQueue /\ FlattensOnlyOwned

Entered == {i \in 1 .. Len(requests) : \A c \in Chats : handler[c] # [st |-> "sending", id |-> i]}

\* Every request that entered the channel is carried out unless the daemon ends, whether
\* or not its operator still waits: requests come to an end (MaxRequests), so the loop
\* catches up with them again and again.
SentIsCarriedOut == []<>(~up \/ Entered \subseteq Range(done))

=============================================================================
