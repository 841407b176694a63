----------------------------- MODULE SignalScores -----------------------------
(***************************************************************************)
(* What the signal generator scores: src/technical, src/fundamental/       *)
(* scorer.py, src/sentiment and src/macro/regime.py.                       *)
(*                                                                         *)
(* A reading is a set of at most one number: none when its data is missing *)
(* (a None, a NaN, a frame too short for the window).  A frame is a record *)
(* of the readings its indicators end on.  Scores are integers; where a    *)
(* score is a fraction its operator says in what.                          *)
(***************************************************************************)
EXTENDS Integers, Sequences, FiniteSets, FiniteSetsExt, Functions

When(holds, points) == IF holds THEN points ELSE 0
Clamp(n, least, most) == IF n < least THEN least ELSE IF n > most THEN most ELSE n

\* The value of the first rung, from the top, that v reaches.  A rung is <<least, value>>.
Rung(ladder, v, below) ==
    LET reached == {i \in DOMAIN ladder : v >= ladder[i][1]}
    IN  IF reached = {} THEN below ELSE ladder[Min(reached)][2]

IsReading(reading) == reading \subseteq Int /\ Cardinality(reading) <= 1

\* What a reading reads, if anything.
The(reading) == CHOOSE v \in reading : TRUE

\* The points of a reading: none for none.
Points(ladder, reading, below) ==
    IF reading = {} THEN 0 ELSE Rung(ladder, The(reading), below)

\* What a frame ends on: its length and last bar, its prices and volumes, and the
\* indicators that may be missing.
SignalFrame ==
    [rows : Nat, last : Nat, lastVolume : Nat, close : Nat, prevHigh : Nat, prevLow : Nat,
     prevClose : Nat, high : Nat, low : Nat, weekAgo : Nat, tenAgo : Nat, volume : Nat,
     volume5 : Nat, obv : Int, cmf : SUBSET Int, atr : SUBSET Nat,
     average : [{20, 50, 200} -> Nat], macd : Int, vwap : SUBSET Nat, psar : SUBSET Nat,
     gain : Nat, loss : Nat, highest : Nat, lowest : Nat, rsiHighest : Nat, rsiLowest : Nat,
     high14 : Nat, low14 : Nat, stochD : Int, cci : SUBSET Int]

\* What the sources answer: headlines and posts, insiders, the company, the market.
Items == {"income", "assets", "cashFlow", "debt", "currentAssets", "currentLiabilities",
          "grossProfit", "revenue", "liabilities", "retained", "ebit", "cap", "peg", "growth"}
World ==
    [tones : Seq(Int), bullish : Nat, mentions : Nat,
     trades : [buys : Nat, sales : Nat, large : Nat, middling : Nat],
     fd     : [Items -> SUBSET Int],
     market : [index : BOOLEAN, above200 : BOOLEAN, above50 : BOOLEAN, vix : SUBSET Int,
               havens : BOOLEAN, yield : SUBSET Int]]

---------------------------------------------------------------------------
(* Technical scores.                                                       *)

Above(price, average) == \E v \in average : price > v

\* calculate_trend_indicators: an average is there when the frame is as long as its window.
TrendRows == 26
Average(f, n) == IF f.rows < Max({n, TrendRows}) THEN {} ELSE {f.average[n]}
Vwap(f)       == IF f.volume = 0 THEN {} ELSE f.vwap

\* score_trend
Trend(f) ==
    IF f.rows < TrendRows THEN 50
    ELSE When(Above(f.close, Average(f, 200)), 20)
       + When(Above(f.close, Average(f, 50)), 15)
       + When(Above(f.close, Average(f, 20)), 10)
       + When(\E v \in Average(f, 50), w \in Average(f, 200) : v > w, 15)
       + When(f.macd > 0, 15 + 10)   \* the histogram is the line less the signal
       + When(Above(f.close, Vwap(f)), 10)
       + When(Above(f.close, f.psar), 5)

\* calculate_momentum_indicators, in whole percents: nothing fell, no RSI; no range,
\* no oscillator.
MomentumRows == 21
MomentumIndicators(f) ==
    [rsi        |-> IF f.loss = 0 THEN {} ELSE {(100 * f.gain) \div (f.gain + f.loss)},
     stochastic |-> IF f.high14 = f.low14 THEN {}
                    ELSE {<<(100 * (f.close - f.low14)) \div (f.high14 - f.low14), f.stochD>>},
     roc        |-> f.close - f.tenAgo,
     cci        |-> IF f.high14 = f.low14 THEN {} ELSE f.cci]

\* detect_rsi_divergence at the last bar: a new extreme of the price that the RSI does
\* not confirm.
Divergence(f) ==
    IF \E r \in MomentumIndicators(f).rsi : f.close > f.highest /\ r < f.rsiHighest THEN -15
    ELSE When(\E r \in MomentumIndicators(f).rsi : f.close < f.lowest /\ r > f.rsiLowest, 15)

\* score_momentum: oversold, between, healthy, strong, overbought
RsiLadder == <<<<71, -10>>, <<61, 30>>, <<40, 20>>, <<30, 0>>>>
CciLadder == <<<<100, 5>>, <<1, 15>>>>
Stochastic(k, d) == IF k < 80 /\ k > d THEN 20 ELSE When(k < 20, 15)

Momentum(f) ==
    LET m == MomentumIndicators(f)
    IN  IF f.rows < MomentumRows THEN 50
        ELSE Clamp(Points(RsiLadder, m.rsi, 20)
                   + When(m.stochastic # {},
                          Stochastic(The(m.stochastic)[1], The(m.stochastic)[2]))
                   + When(m.roc > 0, 15) + Points(CciLadder, m.cci, 0) + Divergence(f), 0, 100)

\* calculate_volume_indicators: the relative volume in tenths, the money flow in
\* hundredths.
VolumeRows == 20
VolumeIndicators(f) ==
    [rvol   |-> IF f.volume = 0 THEN {} ELSE {(10 * f.lastVolume) \div f.volume},
     cmf    |-> IF f.volume = 0 THEN {} ELSE f.cmf,
     rising |-> f.volume5 > f.volume]

\* score_volume
RvolLadder == <<<<51, 30>>, <<21, 20>>, <<16, 10>>>>
CmfLadder  == <<<<11, 25>>, <<1, 10>>, <<-10, 0>>>>

Volume(f) ==
    LET v == VolumeIndicators(f)
    IN  IF f.rows < VolumeRows THEN 50
        ELSE Points(RvolLadder, v.rvol, 0) + When(f.obv > 0, 25)
             + Points(CmfLadder, v.cmf, -15) + When(v.rising, 20)

\* technical_combined, in hundredths
Technical(f) == 65 * Trend(f) + 35 * Momentum(f)

\* ATR_14 of calculate_volatility_indicators
VolatilityRows == 21
Atr(f) == IF f.rows < VolatilityRows THEN {} ELSE f.atr

---------------------------------------------------------------------------
(* Support and resistance: the levels are in 3000ths of a cent, and what   *)
(* is reported of them in hundredths.                                      *)

Rounded(n, unit) == (2 * n + unit) \div (2 * unit)

Levels(f) ==
    LET pp    == f.prevHigh + f.prevLow + f.prevClose   \* times three
        range == f.prevHigh - f.prevLow
        thirds == {pp, 2 * pp - 3 * f.prevLow, pp + 3 * range, 3 * f.prevHigh + 2 * (pp - 3 * f.prevLow),
                   2 * pp - 3 * f.prevHigh, pp - 3 * range, 3 * f.prevLow - 2 * (3 * f.prevHigh - pp)}
        fibs  == IF f.high > f.low
                 THEN {1000 * f.high - r * (f.high - f.low) : r \in {786, 618, 500, 382, 236}}
                 ELSE {}
    IN  {1000 * x : x \in thirds} \cup {3 * x : x \in fibs}

NearestResistance(f) ==
    LET over == {x \in Levels(f) : x > 3000 * f.close}
    IN  IF f.rows < 2 \/ over = {} THEN {} ELSE {Rounded(Min(over), 30)}

---------------------------------------------------------------------------
(* Fundamentals: fd has a reading for each item of a statement.            *)

OrZero(reading) == IF reading = {} THEN 0 ELSE The(reading)
NonZero(reading)  == reading \ {0}
Positive(reading) == {v \in reading : v > 0}

\* _piotroski: what each criterion found, {} where it could not be evaluated.  No
\* prior period is fetched, so nothing is ever known of the third and the seventh.
Piotroski(fd) ==
    [criterion \in 1..9 |->
        CASE criterion = 1 -> {i * a > 0 : i \in fd.income, a \in NonZero(fd.assets)}
          [] criterion = 2 -> {c > 0 : c \in fd.cashFlow}
          [] criterion = 4 -> {(i - c) * a < 0 : i \in fd.income, c \in fd.cashFlow,
                                                 a \in NonZero(fd.assets)}
          [] criterion = 5 -> {2 * d < a : d \in fd.debt, a \in Positive(fd.assets)}
          [] criterion = 6 -> {c > l : c \in fd.currentAssets, l \in Positive(fd.currentLiabilities)}
          [] criterion = 8 -> {g * r > 0 : g \in fd.grossProfit, r \in NonZero(fd.revenue)}
          [] criterion = 9 -> {r * a > 0 : r \in fd.revenue, a \in NonZero(fd.assets)}
          [] OTHER         -> {}]

Measurable(fd) == {c \in 1..9 : Piotroski(fd)[c] # {}}
Passed(fd)     == {c \in 1..9 : TRUE \in Piotroski(fd)[c]}

\* _altman_z, in thousandths: undefined without assets or without liabilities.
AltmanZ(fd) ==
    LET owed == IF NonZero(fd.liabilities) # {} THEN fd.liabilities ELSE fd.debt
        flows == 1200 * (OrZero(fd.currentAssets) - OrZero(fd.currentLiabilities))
                 + 1400 * OrZero(fd.retained) + 3300 * OrZero(fd.ebit) + 1000 * OrZero(fd.revenue)
    IN  {Rounded(flows * l + 600 * OrZero(fd.cap) * a, a * l) :
            a \in NonZero(fd.assets), l \in Positive(owed)}

\* _composite; the PEG, in tenths, is better the lower it is, and the growth of the
\* revenue is in percent.
ZLadder      == <<<<2991, 20>>, <<1811, 10>>>>
PegLadder    == <<<<-9, 25>>, <<-14, 15>>, <<-19, 8>>>>
GrowthLadder == <<<<31, 30>>, <<16, 20>>, <<6, 10>>>>

FundamentalScore(fd) ==
    LET criteria == Max({Cardinality(Measurable(fd)), 1})
    IN  Clamp((25 * Cardinality(Passed(fd))) \div criteria
              + Points(ZLadder, AltmanZ(fd), 0)
              + Points(PegLadder, {-p : p \in Positive(fd.peg)}, 0)
              + Points(GrowthLadder, fd.growth, 0), 0, 100)

---------------------------------------------------------------------------
(* Sentiment: each source's score, none when the source was not heard.     *)

Heard(reading) == IF reading = {} THEN 50 ELSE OrZero(reading)

\* analyze_news_sentiment: the mean of the weighted tones, in hundredths.
NewsScore(tones) ==
    IF tones = <<>> THEN {}
    ELSE {SumFunctionOnSet([i \in DOMAIN tones |-> tones[i] + 100], DOMAIN tones) \div (2 * Len(tones))}

\* analyze_social_sentiment: the bullish share of the weight, in percent.
SocialScore(bullish, weight) == IF weight = 0 THEN {} ELSE {(100 * bullish) \div weight}

\* _score_transactions
InsiderScore(trades) ==
    IF trades.buys + trades.sales = 0 THEN {}
    ELSE {Clamp(50 + 30 * trades.large + 15 * trades.middling
                + Rung(<<<<3, 20>>, <<1, 10>>>>, trades.buys, 0)
                - When(trades.sales >= 5, 10), 0, 100)}

---------------------------------------------------------------------------
(* The market's regime.                                                    *)

VixLadder    == <<<<30, -30>>, <<20, -10>>, <<15, 15>>>>
YieldLadder  == <<<<51, -10>>, <<35, 0>>>>   \* in tenths of a percent
RegimeLadder == <<<<50, "BULL_RISK_ON">>, <<20, "MILD_BULL">>, <<-20, "NEUTRAL_CHOPPY">>,
                  <<-50, "MILD_BEAR">>>>

\* REGIME_STRATEGY's multipliers, in tenths
SizeMultiplier == [BULL_RISK_ON |-> 10, MILD_BULL |-> 8, NEUTRAL_CHOPPY |-> 5, MILD_BEAR |-> 3,
                   BEAR_RISK_OFF |-> 0, NEUTRAL |-> 10]

RegimeOf(score, name) == [score |-> score, name |-> name]

\* Mutant: a VIX that is missing is taken for a calm one.
DetectCalm(m) ==
    LET vix   == IF m.vix = {} THEN {10} ELSE m.vix
        score == When(m.above200, 60) - 30 + Points(VixLadder, vix, 30)
                 + When(m.above50, 20) - 10 - When(m.havens, 15) + Points(YieldLadder, m.yield, 5)
    IN  IF ~m.index THEN RegimeOf(0, "NEUTRAL_CHOPPY")
        ELSE RegimeOf(score, Rung(RegimeLadder, score, "BEAR_RISK_OFF"))

\* detect_market_regime: a component without data is left out, and without the
\* index itself nothing can be said.
Detect(m) ==
    LET score == When(m.above200, 60) - 30
                 + Points(VixLadder, m.vix, 30)
                 + When(m.above50, 20) - 10
                 - When(m.havens, 15)
                 + Points(YieldLadder, m.yield, 5)
    IN  IF ~m.index THEN RegimeOf(0, "NEUTRAL_CHOPPY")
        ELSE RegimeOf(score, Rung(RegimeLadder, score, "BEAR_RISK_OFF"))

===========================================================================
