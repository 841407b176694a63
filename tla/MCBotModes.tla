------------------------------ MODULE MCBotModes ------------------------------
(* Values for TLC.                                                          *)
EXTENDS BotModes, TLC
WatchlistValue == <<"a", "b">>
KindOrderValue == <<"volume">>

\* Frames: strong; weak, and flat; one whose last bar moved on; one that never fell;
\* too short; two at 60 cents, the first after a surge.
Strong == [rows |-> 252, last |-> 1, lastVolume |-> 3000, close |-> 1000, prevHigh |-> 1012, prevLow |-> 981,
           prevClose |-> 1000, high |-> 1200, low |-> 800, weekAgo |-> 950, tenAgo |-> 930,
           volume |-> 500, volume5 |-> 600, obv |-> 1, cmf |-> {20}, atr |-> {20},
           average |-> (20 :> 980 @@ 50 :> 950 @@ 200 :> 900), macd |-> 1, vwap |-> {990}, psar |-> {970},
           gain |-> 13, loss |-> 7, highest |-> 1010, lowest |-> 900, rsiHighest |-> 70, rsiLowest |-> 40,
           high14 |-> 1100, low14 |-> 900, stochD |-> 40, cci |-> {50}]
Weak == [Strong EXCEPT !.average = (20 :> 1020 @@ 50 :> 1050 @@ 200 :> 1100), !.macd = -1, !.vwap = {1010},
           !.psar = {1020}, !.gain = 7, !.loss = 13, !.highest = 990, !.tenAgo = 1010, !.high14 = 900,
           !.obv = -1, !.cmf = {-20}, !.volume5 = 400, !.atr = {}]
FramesValue == <<Strong, Weak,
    [Strong EXCEPT !.close = 1100, !.lastVolume = 9000, !.gain = 3, !.loss = 1, !.atr = {0}],
    [Strong EXCEPT !.rows = 100, !.last = 2, !.prevHigh = 1004, !.prevLow = 998, !.loss = 0],
    [Strong EXCEPT !.rows = 29, !.last = 3],
    [Strong EXCEPT !.close = 60, !.last = 4, !.weekAgo = 40],
    [Strong EXCEPT !.close = 60, !.last = 4, !.weekAgo = 60, !.volume = 9000]>>

\* Worlds: all is well; a bear's market, and quiet; no VIX; quiet, and no index; no
\* fundamentals; small; nearly bankrupt; all is bad.
Good == [income |-> {5}, assets |-> {100}, cashFlow |-> {7}, debt |-> {10}, currentAssets |-> {30},
         currentLiabilities |-> {10}, grossProfit |-> {20}, revenue |-> {60}, liabilities |-> {40},
         retained |-> {20}, ebit |-> {9}, cap |-> {200}, peg |-> {9}, growth |-> {40}]
Nothing == [x \in DOMAIN Good |-> {}]
Bull == [index |-> TRUE, above200 |-> TRUE, above50 |-> TRUE, vix |-> {12}, havens |-> FALSE, yield |-> {30}]
Best == [tones |-> <<120, 80>>, bullish |-> 9, mentions |-> 10, trades |-> [buys |-> 3, sales |-> 0, large |-> 1, middling |-> 0],
         fd |-> Good, market |-> Bull]
Quiet == [Best EXCEPT !.tones = <<>>, !.mentions = 0, !.trades = [buys |-> 0, sales |-> 0, large |-> 0, middling |-> 0]]
Bear == [Bull EXCEPT !.above200 = FALSE, !.above50 = FALSE, !.vix = {35}, !.havens = TRUE]
WorldsValue == <<Best,
   [Best EXCEPT !.market = Bear], [Quiet EXCEPT !.market = Bear],
   [Best EXCEPT !.market = [Bull EXCEPT !.vix = {}]], [Quiet EXCEPT !.market = [Bull EXCEPT !.index = FALSE]],
   [Best EXCEPT !.fd = Nothing], [Best EXCEPT !.fd = [Good EXCEPT !.cap = {60}, !.assets = {}]],
   [Best EXCEPT !.fd = [Good EXCEPT !.retained = {-90}, !.ebit = {-30}]],
   [Best EXCEPT !.tones = <<-90>>, !.bullish = 1, !.trades = [buys |-> 0, sales |-> 5, large |-> 0, middling |-> 0],
      !.market = [Bull EXCEPT !.above50 = FALSE, !.vix = {25}, !.yield = {60}]]>>
WeightsValue == DefaultWeights

\* A tape of two sessions.  The last bars of the first are in the evening, when the date
\* of the index has changed.
Slot(session, day, at) == [session |-> session, day |-> day, at |-> at]
SlotsValue ==
    [j \in 1..7 |-> Slot(1, 1, 560 + 5 * j)]
        \o <<Slot(1, 2, 1165), Slot(1, 2, 1170), Slot(2, 2, 565), Slot(2, 2, 570), Slot(2, 2, 575), Slot(2, 2, 580)>>

\* Bars: wide, still, out of the coil, under the lows and back, just so, upwards, under every
\* stop, and everything at once.
OHLCV(o, h, l, c, v) == [open |-> o, high |-> h, low |-> l, close |-> c, volume |-> v]
Wide  == OHLCV(1000, 1020, 980, 1000, 10)
Still == OHLCV(1000, 1005, 996, 1000, 5)
Pop   == OHLCV(1000, 1040, 998, 1035, 30)
Dip   == OHLCV(1000, 1002, 970, 990, 20)
Nip   == OHLCV(1000, 1002, 979, 981, 20)
Run   == OHLCV(1036, 1200, 1030, 1100, 20)
Gap   == OHLCV(900, 910, 890, 900, 20)
Both  == OHLCV(1036, 1300, 900, 1000, 20)
BarsAtValue ==
    <<{Wide}, {Wide}, {Wide}, {Wide, Nip}, {Still, Dip, Run}, {Still, Pop, Gap}, {Pop, Still, Both},
      {Run, Gap, Both}, {Pop, Dip, Still}, {Wide, Still, Dip}, {Still, Dip, Pop}, {Run, Both, Dip}, {Still}>>

\* A morning before the bell: the day's bars are before the session, in it, and after the
\* open; the days before had the same hours.
PmBar(day, at, close, volume) ==
    [day |-> day, at |-> at, close |-> {close}, high |-> close + 5, low |-> close - 5, volume |-> volume]
PmDay(day, close, volume) ==
    {PmBar(day, 200, close, 50), PmBar(day, 475, close, volume), PmBar(day, 485, close, 2 * volume),
     PmBar(day, 565, close, volume), PmBar(day, 572, close, 9 * volume)}
PmDays(days, close, volume) == UNION {PmDay(d, close, volume) : d \in days}
PmRows(n) == [i \in 1..n |-> [day |-> i - n + 3, close |-> {1000}, high |-> {1010}, low |-> {990}, volume |-> 2000]]

\* Stocks: in play; as every day; its bars run away after eight; a micro float; a low price, with
\* its cap, without it, without enough days, too small, with news of an offering; on a thin
\* baseline; without history; without a price; without rows; without a bar today; hardly moved;
\* too dear.
InPlay == [bars |-> PmDays(1..3, 1000, 40) \cup PmDay(4, 1100, 200), daily |-> PmRows(6),
           cap |-> {900}, float |-> {50000}, outstanding |-> {60000}, earnings |-> {0}, news |-> "strong"]
Usual  == [InPlay EXCEPT !.bars = PmDays(1..3, 1000, 100) \cup PmDay(4, 1070, 100), !.earnings = {9}, !.news = "weak"]
Away   == [Usual EXCEPT !.bars = PmDays(1..3, 1000, 100) \cup PmDay(4, 1050, 100) \cup {PmBar(4, 481, 1500, 900)},
                        !.news = "moderate"]
Micro  == [InPlay EXCEPT !.bars = PmDays(1..2, 1000, 100) \cup PmDay(4, 1400, 3000), !.float = {0},
                         !.outstanding = {4000}, !.earnings = {}, !.news = "none"]
Low    == [InPlay EXCEPT !.bars = PmDays(1..3, 280, 40) \cup PmDay(4, 330, 600),
                         !.daily = [i \in 1..7 |-> [PmRows(7)[i] EXCEPT !.close = {300}, !.day = i - 3]], !.cap = {60}]
StocksValue == <<InPlay, Usual, Away, Micro, Low, [Low EXCEPT !.cap = {}], [Low EXCEPT !.daily = PmRows(3)],
    [Low EXCEPT !.cap = {40}], [Low EXCEPT !.news = "dilution", !.earnings = {}],
    [Usual EXCEPT !.bars = PmDays(1..3, 1000, 1) \cup PmDay(4, 1070, 200)],
    [Usual EXCEPT !.bars = PmDay(4, 1070, 200), !.float = {}, !.outstanding = {}],
    [Usual EXCEPT !.bars = {[b EXCEPT !.close = {}] : b \in PmDay(4, 1070, 200)}],
    [InPlay EXCEPT !.daily = <<>>], [InPlay EXCEPT !.bars = PmDays(1..3, 1000, 40)],
    [InPlay EXCEPT !.bars = PmDays(1..3, 1000, 40) \cup PmDay(4, 1020, 200)],
    [InPlay EXCEPT !.bars = PmDays(1..3, 1000, 40) \cup PmDay(4, 20000, 200)]>>
ScreenNamesValue == <<"a", "b", "c">>
MorningsValue ==
    [i \in DOMAIN StocksValue |->
        [k \in 1..3 |-> StocksValue[1 + ((i + 5 * k) % Len(StocksValue))]]]
StandardGatesValue == [gap |-> 400, least |-> 200, most |-> 10000, shares |-> 100, dollars |-> 100000,
                       adv |-> 500, cap |-> 0, penny |-> FALSE]
PennyRailsValue == [least |-> 50, most |-> 1000, cap |-> 50, adv |-> 100]
===========================================================================
