----------------------------- MODULE LiveSignals -----------------------------
(***************************************************************************)
(* From market events to decisions: the rolling factor engine, the entry   *)
(* filter and throttle of a score strategy, and the feature plan and rules *)
(* of a policy.  The events are those of one instrument.  A trade has      *)
(* quantity one, a close is the logarithm of its price, so that a return   *)
(* is a difference, and a ratio is a pair <<numerator, denominator>>.      *)
(* What a factor's value says of the market is left open: the score, and   *)
(* the truth of a predicate whose feature has a value, are any.            *)
(***************************************************************************)
EXTENDS Integers, Sequences, FiniteSets, FiniteSetsExt, SequencesExt

CONSTANTS
  TradeWindow, MinTrades,      \* FactorConfig.trade_window, min_trade_samples
  CandleWindow, MinCandles,    \* FactorConfig.candle_window, min_candle_samples
  VolumeWindow, MinVolumes,    \* volume_window, min_volume_samples
  MaxSpread, VolatilityCap,    \* max_spread_bps, volatility_soft_cap_bps
  Weight,                      \* the weights of the four directional factors
  MinConfidence,               \* min_confidence, a pair
  Filter,                      \* EntryFilterConfig: the limit of each factor, none when disabled
  MinEmitInterval,             \* min_emit_interval_ns
  Rules,                       \* the rule graphs a policy may have
  Closes, Volumes, MaxRecv,    \* bounds: values of a candle, receive times
  NoValue                      \* a factor, quote, book, limit or time that is None

Directional == {"vwap_deviation_bps", "trade_imbalance", "book_imbalance", "momentum_bps"}
Warmup == {"warmup_ratio", "score", "confidence"}
Feeds == {"Trades", "BestBidAsk", "L2Book", "Candle"}

\* What FactorConfig, EntryFilterConfig and LiveFeatureEngine::new accept.
ValidWindows ==
  /\ MinTrades \in 1..TradeWindow /\ MinCandles \in 1..CandleWindow
  /\ MinVolumes \in 2..VolumeWindow
  /\ MaxSpread \in Nat \ {0} /\ VolatilityCap \in Nat \ {0}
  /\ MinConfidence \in Nat \X (Nat \ {0})
  /\ Weight \in [Directional -> Nat] /\ \E d \in Directional : Weight[d] > 0

ASSUME WindowAssumption == ValidWindows

\* What a candle holds, and a ratio is never None.
ASSUME ValueAssumption == Closes \subseteq Int /\ Volumes \subseteq Nat /\ NoValue \notin Int \X Int

VARIABLES
  setup,     \* the engine and a policy's rules
  factors,   \* RollingFactorEngine with the volumes of its owner
  lastEmit,  \* AutomatedStrategy.last_emit_ns
  spacing,   \* history: the least time from one signal to the next
  mixed,     \* a candle of another interval has entered the windows
  output     \* what the last event asked for

lsVars == <<setup, factors, lastEmit, spacing, mixed, output>>

LSInit ==
  /\ setup \in [engine : {"score"}, rules : {NoValue}] \cup [engine : {"policy"}, rules : Rules]
  /\ factors = [trades |-> <<>>, closes |-> <<>>, volumes |-> <<>>,
                quote |-> NoValue, book |-> NoValue]
  /\ lastEmit = NoValue /\ spacing = NoValue
  /\ mixed = FALSE
  /\ output = {}

-----------------------------------------------------------------------------
(* Events and the windows they enter.                                       *)

Event(feed, value, volume, own, good) ==
  [feed |-> feed, value |-> value, volume |-> volume, own |-> own, good |-> good]

\* A bad trade or candle has no positive price, a bad quote is crossed.
Events ==
  {Event("Trades", sign, 0, TRUE, TRUE) : sign \in {-1, 1}}
  \cup {Event("BestBidAsk", spread, 0, TRUE, TRUE) : spread \in {0, MaxSpread}}
  \cup {Event("L2Book", totals, 0, TRUE, TRUE) : totals \in {<<0, 0>>, <<1, 0>>}}
  \cup [feed : {"Candle"}, value : Closes, volume : Volumes, own : BOOLEAN, good : {TRUE}]
  \cup {Event("Candle", 0, volume, TRUE, FALSE) : volume \in Volumes}
  \cup {Event(feed, 0, 0, TRUE, FALSE) : feed \in {"Trades", "BestBidAsk"}}

Pushed(window, value, size) ==
  LET longer == Append(window, value)
  IN IF Len(longer) > size THEN Tail(longer) ELSE longer

\* RollingFactorEngine::on_event.
Observed(f, e) ==
  CASE ~e.good -> f
    [] e.good /\ e.feed = "Trades"     -> [f EXCEPT !.trades = Pushed(@, e.value, TradeWindow)]
    [] e.good /\ e.feed = "BestBidAsk" -> [f EXCEPT !.quote = e.value]
    [] e.good /\ e.feed = "L2Book"     -> [f EXCEPT !.book = e.value]
    [] e.good /\ e.feed = "Candle"     -> [f EXCEPT !.closes = Pushed(@, e.value, CandleWindow)]

\* A bad trade or candle ends the handling of the event; a bad quote is skipped.
HasSnapshot(e) == e.good \/ e.feed = "BestBidAsk"

\* The volume of a candle is taken before its close is looked at.
WithVolume(f, e) ==
  IF e.feed = "Candle" THEN [f EXCEPT !.volumes = Pushed(@, e.volume, VolumeWindow)] ELSE f

-----------------------------------------------------------------------------
(* The factors of a snapshot, and the confidence in them.                   *)

SumSeq(s) == MapThenSumSet(LAMBDA i : s[i], DOMAIN s)

TradeImbalance(f) == IF f.trades = <<>> THEN NoValue ELSE <<SumSeq(f.trades), Len(f.trades)>>
SpreadBps(f) == IF f.quote = NoValue THEN NoValue ELSE <<f.quote, 1>>
BookImbalance(f) ==
  IF f.book = NoValue \/ f.book = <<0, 0>> THEN NoValue
  ELSE <<f.book[1] - f.book[2], f.book[1] + f.book[2]>>
MomentumBps(f) ==
  IF f.closes = <<>> THEN NoValue ELSE <<Last(f.closes) - Head(f.closes), 1>>

\* The square of the realized volatility: the variance of the returns.
VarianceBps(f) ==
  LET n == Len(f.closes) - 1
      returns == [i \in 1..n |-> f.closes[i + 1] - f.closes[i]]
      squares == [i \in 1..n |-> returns[i] * returns[i]]
  IN IF n < 1 THEN NoValue
     ELSE <<n * SumSeq(squares) - SumSeq(returns) * SumSeq(returns), n * n>>

VolumeRatio(f) ==
  LET baseline == SumSeq(Front(f.volumes))
  IN IF Len(f.volumes) < MinVolumes \/ baseline = 0 THEN NoValue
     ELSE <<Last(f.volumes) * (Len(f.volumes) - 1), baseline>>

\* The names that have a value; the deviation from the VWAP needs the trades it is of.
Available(f) ==
  Warmup
  \cup (IF f.trades # <<>> THEN {"vwap_deviation_bps", "trade_imbalance"} ELSE {})
  \cup (IF SpreadBps(f) # NoValue THEN {"spread_bps"} ELSE {})
  \cup (IF BookImbalance(f) # NoValue THEN {"book_imbalance"} ELSE {})
  \cup (IF MomentumBps(f) # NoValue THEN {"momentum_bps"} ELSE {})
  \cup (IF VarianceBps(f) # NoValue THEN {"realized_volatility_bps"} ELSE {})
  \cup (IF VolumeRatio(f) # NoValue THEN {"volume_ratio"} ELSE {})

TotalWeight(names) == MapThenSumSet(LAMBDA d : Weight[d], names)

Least(a, b) == IF a < b THEN a ELSE b
Present(x) == IF x = NoValue THEN 0 ELSE 1

WarmupRatio(f) ==
  <<Least(Len(f.trades), MinTrades) * MinCandles + Least(Len(f.closes), MinCandles) * MinTrades
      + (Present(f.quote) + Present(f.book)) * MinTrades * MinCandles,
    4 * MinTrades * MinCandles>>

Coverage(f) == <<TotalWeight(Available(f) \cap Directional), TotalWeight(Directional)>>

SpreadQuality(f) ==
  IF f.quote = NoValue THEN <<1, 2>> ELSE <<MaxSpread - Least(f.quote, MaxSpread), MaxSpread>>

\* The square of the volatility's quality: 3/4 unknown, one up to the cap, then cap / volatility.
VolatilityQuality(f) ==
  LET v == VarianceBps(f)
      cap == VolatilityCap * VolatilityCap
  IN IF v = NoValue THEN <<9, 16>>
     ELSE IF v[1] <= cap * v[2] THEN <<1, 1>>
     ELSE <<cap * v[2], v[1]>>

\* confidence >= min_confidence, as squares: the volatility is a square root.
Confident(f) ==
  LET w == WarmupRatio(f)
      c == Coverage(f)
      s == SpreadQuality(f)
      q == VolatilityQuality(f)
      num == w[1] * c[1] * s[1] * MinConfidence[2]
      den == w[2] * c[2] * s[2] * MinConfidence[1]
  IN num * num * q[1] >= den * den * q[2]

-----------------------------------------------------------------------------
(* A score strategy: filter, throttle, signal.                              *)

AtLeast(v, limit) == limit # NoValue => v # NoValue /\ v[1] >= limit * v[2]
AtMost(v, limit) == limit # NoValue => v # NoValue /\ v[1] <= limit * v[2]

EntryAllowed(f) ==
  /\ AtLeast(MomentumBps(f), Filter.momentum)
  /\ AtLeast(VolumeRatio(f), Filter.volume)
  /\ AtLeast(TradeImbalance(f), Filter.trade)
  /\ AtLeast(BookImbalance(f), Filter.book)
  /\ AtMost(SpreadBps(f), Filter.spread)
  /\ AtMost(VarianceBps(f), Filter.variance)

\* saturating_sub: an event received before the last emission is no time after it.
Since(recv) == IF recv > lastEmit THEN recv - lastEmit ELSE 0
Throttled(recv) == lastEmit # NoValue /\ Since(recv) < MinEmitInterval

\* on_market_event; the machine is flat or not when the event comes.
ScoreEvent(e) ==
  LET f == Observed(WithVolume(factors, e), e)
      confident == HasSnapshot(e) /\ Confident(f)
      allowed == EntryAllowed(f)
  IN /\ factors' = f
     /\ mixed' = (mixed \/ (e.good /\ ~e.own))
     /\ \/ /\ confident
           /\ \E recv \in 0..MaxRecv, flat \in BOOLEAN :
                /\ flat => allowed
                /\ ~Throttled(recv)
                /\ lastEmit' = recv
                /\ spacing' = IF lastEmit = NoValue THEN spacing
                              ELSE IF spacing = NoValue THEN recv - lastEmit
                              ELSE Least(spacing, recv - lastEmit)
           /\ output' = {"signal"}
        \/ /\ \/ ~confident
              \/ ~allowed
              \/ \E recv \in 0..MaxRecv : Throttled(recv)
           /\ output' = {}
           /\ UNCHANGED <<lastEmit, spacing>>
     /\ UNCHANGED setup

-----------------------------------------------------------------------------
(* A policy: the feeds its features need, the frame, and the rules.         *)

PositionFeatures == {"net_quantity", "average_entry_price"}

\* The registered features: two stand for those of the position, and last_price and vwap
\* go with the other two that need trades.
Features ==
  PositionFeatures \cup Warmup \cup Directional
    \cup {"spread_bps", "realized_volatility_bps", "volume_ratio"}

Providers(name) ==
  CASE name \in {"vwap_deviation_bps", "trade_imbalance"} -> {"Trades"}
    [] name = "spread_bps" -> {"BestBidAsk"}
    [] name = "book_imbalance" -> {"L2Book"}
    [] name \in {"momentum_bps", "realized_volatility_bps", "volume_ratio"} -> {"Candle"}
    [] name \in Warmup -> Feeds
    [] name \in PositionFeatures -> {}

Required(r) == r.filter \cup r.entry \cup r.exit
FeedsFor(names) == UNION {Providers(n) : n \in names}

\* A rule names registered features only (FeatureProviderRegistry::plan).
ASSUME RuleAssumption == \A r \in Rules : Required(r) \subseteq Features

\* The frame holds the required features that have a value; those of the position
\* are there too, the entry price only for a position that is held.
Frame(f, held) ==
  (Available(f) \cap Required(setup.rules))
  \cup {"net_quantity"} \cup (IF held THEN {"average_entry_price"} ELSE {})

\* Mutant: one known feature is enough.
MayMatchPartly(names, frame) == names \cap frame # {}

\* evaluate_predicates: a missing feature settles it, whatever the mode; the truth of
\* the predicates of a complete rule is any, so in both modes it may match or not.
MayMatch(names, frame) == names # {} /\ names \subseteq frame

\* Entries pass the filters first; exits ignore them.
MayDecide(frame) ==
  LET r == setup.rules
  IN {d \in {"entry", "exit"} :
        IF d = "exit" THEN MayMatch(r.exit, frame)
        ELSE (r.filter # {} => MayMatch(r.filter, frame)) /\ MayMatch(r.entry, frame)}

\* The events the plan asks for, candles of the policy's own interval only.
Wanted(e) == e.feed \in FeedsFor(Required(setup.rules)) /\ e.own

\* LiveFeatureEngine::on_event and the evaluation of the rules.
PolicyEvent(e) ==
  LET counted == IF "volume_ratio" \in Required(setup.rules) THEN WithVolume(factors, e)
                 ELSE factors
      f == IF Wanted(e) THEN Observed(counted, e) ELSE factors
  IN /\ factors' = f
     /\ mixed' = (mixed \/ (Wanted(e) /\ e.good /\ ~e.own))
     /\ \E held \in BOOLEAN :
          output' \in SUBSET (IF Wanted(e) /\ HasSnapshot(e) THEN MayDecide(Frame(f, held)) ELSE {})
     /\ UNCHANGED <<setup, lastEmit, spacing>>

LSNext ==
  \E e \in Events :
    \/ /\ setup.engine = "score"
       /\ ScoreEvent(e)
    \/ /\ setup.engine = "policy"
       /\ PolicyEvent(e)

LSSpec == LSInit /\ [][LSNext]_lsVars

-----------------------------------------------------------------------------
\* With the default weights and min_confidence no signal comes before a trade and a quote
\* were seen, nor while the last quote is at the spread limit (snapshot, on_market_event).
SignalsRestOnData ==
  "signal" \in output =>
    factors.trades # <<>> /\ factors.quote # NoValue /\ factors.quote < MaxSpread

\* A policy never decides on partial features: every feed that its entry and filters
\* (or its exit) need has delivered (FeatureProviderRegistry, evaluate_predicates).
Delivered(feed) ==
  CASE feed = "Trades"     -> factors.trades # <<>>
    [] feed = "BestBidAsk" -> factors.quote # NoValue
    [] feed = "L2Book"     -> factors.book # NoValue
    [] feed = "Candle"     -> factors.closes # <<>> \/ factors.volumes # <<>>

NoBlindDecision ==
  setup.engine = "policy" =>
    /\ "entry" \in output =>
         \A feed \in FeedsFor((setup.rules.filter \cup setup.rules.entry) \ Warmup) : Delivered(feed)
    /\ "exit" \in output => \A feed \in FeedsFor(setup.rules.exit \ Warmup) : Delivered(feed)

\* The planned feeds are enough: once each has delivered what its factors need, no
\* feature that a rule names is missing for good (FeatureProviderRegistry::standard).
PlannedFeedsSuffice ==
  LET Warm(feed) ==
        CASE feed = "Trades"     -> factors.trades # <<>>
          [] feed = "BestBidAsk" -> factors.quote # NoValue
          [] feed = "L2Book"     -> BookImbalance(factors) # NoValue
          [] feed = "Candle"     -> /\ Len(factors.closes) > 1
                                    /\ "volume_ratio" \in Required(setup.rules) =>
                                         Len(factors.volumes) >= MinVolumes
  IN setup.engine = "policy" =>
       LET required == Required(setup.rules)
       IN (\A feed \in FeedsFor(required) : Warm(feed)) =>
            required \subseteq Frame(factors, TRUE)

\* A policy's windows hold candles of its own interval only (LiveFeatureEngine::on_event).
OwnCandles == setup.engine = "policy" => ~mixed

\* The same of a score strategy, which on_market_event does not see to: two strategies on
\* one asset with different intervals feed each other's windows.
OwnCandlesOnly == ~mixed

\* Two signals of a strategy are min_emit_interval apart, although the receive times of
\* its feeds are not in order (on_market_event).
EmissionsAreSpaced == spacing # NoValue => spacing >= MinEmitInterval

\* Decisions rest on the data that they are about, and come no faster than configured.
SignalSafety ==
  SignalsRestOnData /\ NoBlindDecision /\ PlannedFeedsSuffice /\ OwnCandles /\ EmissionsAreSpaced
=============================================================================
