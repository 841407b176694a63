------------------------------ MODULE SignalPlan ------------------------------
(***************************************************************************)
(* From a frame to a plan: src/signals/generator.py, its filters, weights  *)
(* and feature store, src/signals/trade_plan.py, and the price the         *)
(* executor submits (src/alpaca/smart_orders.py).                          *)
(*                                                                         *)
(* generate_signal scores a frame live, with what the sources say of the   *)
(* present, or point in time, for a bar of a backtest                      *)
(* (src/backtest/composite_signal.py).  FrameList and worlds are numbered: a  *)
(* frame is a record of readings, a world is what every source would       *)
(* answer now.  Prices are in cents, scores and their means in hundredths. *)
(***************************************************************************)
EXTENDS MarketData, SignalScores

CONSTANTS
    FrameList, WorldList,      \* sequences of frames and of worlds
    SignalWeights,       \* config.SIGNAL_WEIGHTS, in hundredths
    RegimeWeighting,     \* config.FEATURE_ENABLE_REGIME_WEIGHTING
    FeatureTTL,          \* in ticks of the clock: 0 when it is less than one
    FeatureMax,
    AccountSize,         \* in cents
    RiskPct, PositionPct,   \* RISK_PER_TRADE and MAX_POSITION_PCT, in percent
    OffsetFloor, OffsetCap  \* the smart order's, in hundredths of a percent

ASSUME SignalPlanAssumption ==
    /\ RegimeWeighting \in BOOLEAN
    /\ FeatureTTL \in Nat /\ FeatureMax \in Nat \ {0}
    /\ AccountSize \in Nat /\ RiskPct \in 0..100 /\ PositionPct \in 0..100
    /\ OffsetFloor \in Nat /\ OffsetCap \in Nat

Dimensions == {"technical", "volume", "sentiment", "fundamental", "macro"}
Live       == {"sentiment", "fundamental", "macro"}   \* known of the present only

ASSUME FramesAssumption ==
    /\ FrameList \in Seq(SignalFrame) /\ WorldList \in Seq(World)
    /\ SignalWeights \in [Dimensions -> Int]

VARIABLES
    penny,      \* config.ALLOW_PENNY_STOCKS
    features,   \* the feature store: entries, the least recently used first
    signal,     \* the last signal
    tradePlan   \* and the plan made of it

signalVars == <<penny, features, signal, tradePlan>>

---------------------------------------------------------------------------
(* run_disqualification_filters.                                           *)

\* _thresholds, in cents, thousands of shares, millions of dollars and percent; a
\* price without a ceiling and a dollar volume without a floor are 0.
Rails ==
    IF penny
    THEN [least |-> 50, most |-> 1000, volume |-> 100, dollars |-> 3, cap |-> 50, gain |-> 30]
    ELSE [least |-> 100, most |-> 0, volume |-> 100, dollars |-> 0, cap |-> 100, gain |-> 50]

PriceReasons(f, r) ==
    {x \in {"PENNY_STOCK", "ABOVE_PRICE_BAND", "ILLIQUID", "THIN_DOLLAR_VOLUME", "CHASER_TRAP"} :
        CASE x = "PENNY_STOCK"        -> f.close < r.least
          [] x = "ABOVE_PRICE_BAND"   -> r.most > 0 /\ f.close > r.most
          [] x = "ILLIQUID"           -> f.volume < r.volume
          [] x = "THIN_DOLLAR_VOLUME" -> f.close * f.volume < 100000 * r.dollars
          [] x = "CHASER_TRAP"        -> f.rows >= 6 /\ 100 * f.close > (100 + r.gain) * f.weekAgo}

\* Mutant: a ticker whose market cap no source knows passes.
CompanyReasonsOpen(fd, r) ==
    {x \in {"BANKRUPTCY_RISK", "MICRO_CAP"} :
        CASE x = "BANKRUPTCY_RISK" -> \E z \in AltmanZ(fd) : z < 1000
          [] x = "MICRO_CAP"       -> \E c \in fd.cap : c < r.cap}

\* What the balance sheet says of today: not asked for a bar of the past.
CompanyReasons(fd, r) ==
    {x \in {"BANKRUPTCY_RISK", "UNKNOWN_MARKET_CAP", "MICRO_CAP"} :
        CASE x = "BANKRUPTCY_RISK"    -> \E z \in AltmanZ(fd) : z < 1000
          [] x = "UNKNOWN_MARKET_CAP" -> fd.cap = {}
          [] x = "MICRO_CAP"          -> \E c \in fd.cap : c < r.cap}

Disqualifiers(f, w, how) ==
    LET r == Rails
    IN  PriceReasons(f, r) \cup IF how = "replay" THEN {} ELSE CompanyReasons(w.fd, r)

---------------------------------------------------------------------------
(* compute_signal_features and its store.                                  *)

\* Mutant: the key is the ticker's last bar, whatever it has become since.
KeyOfBar(i) == FrameList[i].last

\* _build_feature_cache_key: not every reading is a part of it.
FeatureKey(i) == <<FrameList[i].last, FrameList[i].rows, FrameList[i].close, FrameList[i].lastVolume>>

Entries(key) == {features[j] : j \in {j \in DOMAIN features : FeatureKey(features[j].of) = key}}

\* Mutant: an entry never expires.
CachedForever(i) == Entries(FeatureKey(i))

Cached(i) == {e \in Entries(FeatureKey(i)) : clock <= e.made + FeatureTTL}

\* The entry a frame gets: the store's, or a new one ...
Bundle(i) == IF Cached(i) # {} THEN CHOOSE e \in Cached(i) : TRUE ELSE [of |-> i, made |-> clock]

\* ... which is then the most recently used, and the oldest leaves a full store.
Kept(i) ==
    LET rest == {features[j] : j \in DOMAIN features} \ Entries(FeatureKey(i))
        all  == Append(Among(features, rest), Bundle(i))
    IN  SubSeq(all, Max({1, Len(all) - FeatureMax + 1}), Len(all))

---------------------------------------------------------------------------
(* The composite.                                                          *)

\* resolve_signal_weights, before it normalises
DefaultWeights ==
    [technical |-> 35, volume |-> 20, sentiment |-> 20, fundamental |-> 15, macro |-> 10]
Tilt(regime) ==
    [d \in Dimensions |->
        CASE regime \in {"MILD_BEAR", "BEAR_RISK_OFF"} /\ d = "macro"     -> 5
          [] regime \in {"MILD_BEAR", "BEAR_RISK_OFF"} /\ d = "sentiment" -> -3
          [] regime \in {"MILD_BEAR", "BEAR_RISK_OFF"} /\ d = "technical" -> -2
          [] regime \in {"BULL_RISK_ON", "MILD_BULL"} /\ d = "technical"   -> 3
          [] regime \in {"BULL_RISK_ON", "MILD_BULL"} /\ d = "macro"       -> -2
          [] regime \in {"BULL_RISK_ON", "MILD_BULL"} /\ d = "fundamental" -> -1
          [] OTHER -> 0]
Total(weights) == SumFunctionOnSet(weights, Dimensions)

Weights(regime) ==
    LET tilted == [d \in Dimensions |->
                      Max({0, SignalWeights[d] + IF RegimeWeighting THEN Tilt(regime)[d] ELSE 0})]
    IN  IF Total(tilted) > 0 THEN tilted ELSE DefaultWeights

Without(weights, dropped) == [d \in Dimensions |-> IF d \in dropped THEN 0 ELSE weights[d]]

\* The live sources, in the order they are heard.
News(w)    == NewsScore(w.tones)
Social(w)  == SocialScore(w.bullish, w.mentions)
Insider(w) == InsiderScore(w.trades)
Unheard(w) == News(w) \cup Social(w) \cup Insider(w) = {}

\* Mutant: the regime of today is detected for a bar of the past.
RegimeOfToday(w, how) == Detect(w.market)

\* A replay has neither a regime of its own nor the one of today.
RegimeFor(w, how) == IF how = "replay" THEN RegimeOf(0, "NEUTRAL") ELSE Detect(w.market)

\* What cannot be reconstructed is dropped, and sentiment nobody had a word of is too.
Effective(w, how) ==
    LET weights == Weights(RegimeFor(w, how).name)
    IN  CASE how = "replay" -> Without(weights, Live)
          [] how = "live" /\ Unheard(w) -> Without(weights, {"sentiment"})
          [] OTHER -> weights

\* Scores, in hundredths, of the features of frame g.
Score(g, w, how) ==
    [technical   |-> Technical(FrameList[g]),
     volume      |-> 100 * Volume(FrameList[g]),
     sentiment   |-> IF how = "replay" THEN 5000
                     ELSE 50 * Heard(News(w)) + 30 * Heard(Social(w)) + 20 * Heard(Insider(w)),
     fundamental |-> 100 * FundamentalScore(w.fd),
     macro       |-> 50 * (RegimeFor(w, how).score + 100)]

Summed(g, w, how) ==
    SumFunctionOnSet([d \in Dimensions |-> Effective(w, how)[d] * Score(g, w, how)[d]], Dimensions)

\* Mutant: the weights that are left are not brought back to one.
OverAll(w, how) == Total(Weights(RegimeFor(w, how).name))

\* What the sum is over: the weights that are left make one.
Over(w, how) == Total(Effective(w, how))

\* SIGNAL_MAP
SignalMap == <<<<80, "STRONG_BUY">>, <<65, "BUY">>, <<50, "WEAK_BUY">>, <<40, "HOLD">>,
               <<25, "WEAK_SELL">>, <<10, "SELL">>, <<0, "STRONG_SELL">>>>
LongSignals == {"STRONG_BUY", "BUY", "WEAK_BUY"}

\* The adjusted composite against a threshold, without dividing: the multiplier of the
\* regime takes up to a fifth of it.
Adjusted(g, w, how) == Summed(g, w, how) * (80 + 2 * SizeMultiplier[RegimeFor(w, how).name])
Label(g, w, how) ==
    LET scaled == [i \in DOMAIN SignalMap |-> <<SignalMap[i][1] * 10000 * Over(w, how), SignalMap[i][2]>>]
    IN  IF Over(w, how) > 0 THEN Rung(scaled, Adjusted(g, w, how), "STRONG_SELL")
        ELSE IF how = "replay" THEN "ERROR" ELSE "STRONG_SELL"

---------------------------------------------------------------------------
(* generate_signal.                                                        *)

ContextRows == 30

\* evaluate_at: a bar with too little history is not scored, and a window is a year.
Replayable(f) == f.rows \in 200..252

\* of is the frame whose features were scored, 0 for none.  History: age, how old they were.
Signal(i, w, how, label, of, age) ==
    [frame |-> i, world |-> w, how |-> how, label |-> label, of |-> of, age |-> age]
NoSignal == Signal(0, 0, "live", "NONE", 0, 0)
NoTradePlan  == [entry |-> 0, stop |-> 0, targets |-> <<>>, shares |-> 0, limit |-> 0]

GenerateSignal(i, w, how) ==
    /\ signal = NoSignal
    /\ how = "replay" => Replayable(FrameList[i])
    /\ IF FrameList[i].rows < ContextRows
       THEN /\ signal' = Signal(i, w, how, "ERROR", 0, 0)
            /\ UNCHANGED features
       ELSE IF Disqualifiers(FrameList[i], WorldList[w], how) # {}
       THEN /\ signal' = Signal(i, w, how, "FILTERED_OUT", 0, 0)
            /\ UNCHANGED features
       ELSE /\ signal' = Signal(i, w, how, Label(Bundle(i).of, WorldList[w], how), Bundle(i).of, clock - Bundle(i).made)
            /\ features' = Kept(i)
    /\ UNCHANGED <<data, penny, tradePlan>>

\* The caller is done with a ticker, or with a bar.
NextTicker ==
    /\ signal # NoSignal
    /\ signal' = NoSignal /\ tradePlan' = NoTradePlan
    /\ UNCHANGED <<data, penny, features>>

---------------------------------------------------------------------------
(* generate_trade_plan, and the price of the entry order.                  *)

EntryAt(price) == Rounded(price * 998, 1000)
EntryPrice(f)  == EntryAt(f.close)

\* Two ATRs under the entry; an ATR that is missing or zero is 2 % of the price.
Stop(f, g) ==
    LET atr == IF NonZero(Atr(g)) = {} THEN 2 * f.close ELSE 100 * OrZero(Atr(g))
    IN  Rounded(100 * EntryPrice(f) - 2 * atr, 100)

\* TARGET_RR_RATIOS, times two; the first one is moved under a resistance that is
\* on the way to the second.
Ratios == <<3, 5, 8>>
Targets(f, g) ==
    LET risk == EntryPrice(f) - Stop(f, g)
        raw  == [n \in 1..3 |-> EntryPrice(f) + (Ratios[n] * risk) \div 2]
        near == {r \in NearestResistance(f) : 100 * EntryPrice(f) < r /\ r < 100 * raw[2]}
    IN  IF near = {} THEN raw ELSE [raw EXCEPT ![1] = Rounded(995 * OrZero(near), 100000)]

\* The 1 % rule and the cap on a position.
Shares(f, g) ==
    LET risk == EntryPrice(f) - Stop(f, g)
    IN  IF risk <= 0 THEN 0
        ELSE Min({((AccountSize * RiskPct) \div 100) \div risk,
                  ((AccountSize * PositionPct) \div 100) \div EntryPrice(f)})

\* smart_entry_price: across the market by what fills have cost, at most so far over
\* the price that was planned.
Ceiling(entry) == Rounded(entry * (10000 + OffsetCap), 10000)
SmartEntry(market, entry, slippage) ==
    LET offset == Clamp(slippage, Min({OffsetFloor, OffsetCap}), Max({OffsetFloor, OffsetCap}))
    IN  Min({Rounded(market * (10000 + offset), 10000), Ceiling(entry)})

GenerateTradePlan ==
    /\ signal.how = "live" /\ signal.label \in LongSignals /\ tradePlan = NoTradePlan
    /\ LET f == FrameList[signal.frame]
           g == FrameList[signal.of]
       IN  /\ EntryPrice(f) > 0 /\ Shares(f, g) >= 1
           /\ \E slippage \in {0, OffsetFloor + 1, OffsetCap + 1} :
                 tradePlan' = [entry |-> EntryPrice(f), stop |-> Stop(f, g), targets |-> Targets(f, g),
                           shares |-> Shares(f, g),
                           limit |-> SmartEntry(f.close, EntryPrice(f), slippage)]
    /\ UNCHANGED <<data, penny, features, signal>>

SignalInit(pennies) ==
    penny \in pennies /\ features = <<>> /\ signal = NoSignal /\ tradePlan = NoTradePlan

SignalNext ==
    \/ \E i \in DOMAIN FrameList, w \in DOMAIN WorldList, how \in {"live", "replay"} :
          GenerateSignal(i, w, how)
    \/ GenerateTradePlan \/ NextTicker

---------------------------------------------------------------------------
(* What the generator and the planner promise.                             *)

Scored    == signal.of # 0
Standing(w) == <<Adjusted(signal.of, WorldList[w], signal.how), Over(WorldList[w], signal.how),
                Label(signal.of, WorldList[w], signal.how)>>

\* "Scoring them would inject look-ahead into every bar": the verdict on a bar of the
\* past, disqualification included, is the same whatever every source says today.
ReplayIsBlind ==
    signal.how = "replay" =>
        \A w \in DOMAIN WorldList :
            /\ Disqualifiers(FrameList[signal.frame], WorldList[w], "replay") = {} <=> signal.label # "FILTERED_OUT"
            /\ Scored => Standing(w) = Standing(signal.world)

\* The features a signal rests on are of the frame's own last bar, price and length, and
\* were computed at most the time to live before it; and the store keeps its size.
FeaturesAreCurrent ==
    /\ Scored => /\ FrameList[signal.of].last = FrameList[signal.frame].last
                 /\ FrameList[signal.of].close = FrameList[signal.frame].close
                 /\ FrameList[signal.of].rows = FrameList[signal.frame].rows
                 /\ signal.age <= FeatureTTL
    /\ Len(features) <= FeatureMax

\* Every score in the composite was measured, none is the neutral placeholder of a
\* frame too short, and the composite lies among the scores that have a weight: a
\* dimension that is dropped drags it nowhere.
CompositeIsAMean ==
    Scored =>
        LET world  == WorldList[signal.world]
            score  == Score(signal.of, world, signal.how)
            weighs == {score[d] : d \in {d \in Dimensions : Effective(world, signal.how)[d] > 0}}
            sum    == Summed(signal.of, world, signal.how)
        IN  /\ FrameList[signal.of].rows >= Max({TrendRows, MomentumRows, VolumeRows, VolatilityRows})
            /\ weighs # {} => /\ sum >= Min(weighs) * Over(world, signal.how)
                              /\ sum <= Max(weighs) * Over(world, signal.how)

\* "With VIX absent ... BULL_RISK_ON cannot be reached", and in a market that is
\* running from risk nothing is a strong buy, as long as the regime has a weight and the
\* sentiment is on its scale.
RegimeHoldsBack ==
    (Scored /\ signal.how = "live") =>
        LET world == WorldList[signal.world]
        IN  /\ Detect(world.market).name = "BULL_RISK_ON" => world.market.vix # {}
            /\ /\ Detect(world.market).name = "BEAR_RISK_OFF"
               /\ Effective(world, "live")["macro"] > 0
               /\ Score(signal.of, world, "live").sentiment <= 10000
               => signal.label # "STRONG_BUY"

\* A plan buys only what a live signal says to buy, of a company whose size is known;
\* it risks and holds no more than the account allows at the planned entry, its targets
\* rise, the later two above the entry, and the order's limit is within the cap over it.
\* Under a dollar the first target, rounded to a cent, may be at the second.
PlansAreSound ==
    tradePlan # NoTradePlan =>
        LET fd    == WorldList[signal.world].fd
            risk  == tradePlan.entry - tradePlan.stop
        IN  /\ signal.how = "live" /\ signal.label \in LongSignals
            /\ \E c \in fd.cap : c >= Rails.cap
            /\ risk > 0
            /\ 100 * tradePlan.shares * risk <= AccountSize * RiskPct
            /\ 100 * tradePlan.shares * tradePlan.entry <= AccountSize * PositionPct
            /\ tradePlan.entry < tradePlan.targets[2] /\ tradePlan.targets[2] < tradePlan.targets[3]
            /\ tradePlan.targets[1] <= tradePlan.targets[2]
            /\ tradePlan.targets[2] >= 100 => tradePlan.targets[1] < tradePlan.targets[2]
            /\ tradePlan.limit <= Ceiling(tradePlan.entry)

\* What a signal says rests on what was known of its bar, and the regime holds it back.
SignalsAreHonest == ReplayIsBlind /\ FeaturesAreCurrent /\ CompositeIsAMean /\ RegimeHoldsBack

===========================================================================
