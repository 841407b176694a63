---------------------------- MODULE PremarketScan ----------------------------
(***************************************************************************)
(* The pre-market screen of src/scanner/premarket_scan.py: threads of a    *)
(* pool build a snapshot per name while the morning goes on, on frames the *)
(* cache may have kept; the gates, the score and the labels then rank the  *)
(* names as of the one instant the scan declares.                          *)
(*                                                                         *)
(* Minutes are of the day in New York, prices in cents, shares in          *)
(* thousands, dollar volumes in tens of dollars, market caps in millions,  *)
(* gaps and scores in hundredths, and a relative volume is in percent.     *)
(***************************************************************************)
EXTENDS SignalScores, Functions

CONSTANTS
    ScreenNames,     \* the universe, in alphabetical order
    Mornings,        \* per morning and name: its bars, its daily rows and what is known of it
    Minutes,         \* the minutes at which somebody looks at a clock
    Today,           \* the session, after the days 1..Today - 1
    FrameTTL,        \* for how long the cache answers
    ScreenCap,       \* premarket.universe_cap
    MaxResults,
    StandardGates,   \* the gates of the settings: gap, least, most, shares, dollars, adv and cap
    PennyRails,      \* config's penny block: least, most, cap and adv
    MinHistory, MinBaseline   \* of the relative volume

\* What is known of a name: one bar per time, its daily rows, and readings.
IsListing(x) ==
    /\ IsFiniteSet(x.bars) /\ x.daily \in Seq(Range(x.daily))
    /\ \A b \in x.bars : b.day \in 1..Today /\ b.at \in Nat /\ b.volume \in Nat /\ IsReading(b.close)
    /\ \A b, c \in x.bars : b.day = c.day /\ b.at = c.at => b = c
    /\ \A i \in DOMAIN x.daily : x.daily[i].volume \in Nat /\ IsReading(x.daily[i].close)
    /\ IsReading(x.cap)

ASSUME PremarketAssumption ==
    /\ Minutes \subseteq Nat /\ IsFiniteSet(Minutes) /\ Minutes # {}
    /\ Today \in Nat /\ FrameTTL \in Nat
    /\ ScreenNames \in Seq(STRING) /\ 1 \in DOMAIN Mornings
    /\ \A m \in DOMAIN Mornings : \A i \in DOMAIN ScreenNames : IsListing(Mornings[m][i])
    /\ StandardGates \in [gap : Nat, least : Nat, most : Nat, shares : Nat, dollars : Nat, adv : Nat,
                           cap : Nat, penny : {FALSE}]
    /\ PennyRails \in [least : Nat, most : Nat, cap : Nat, adv : Nat]
    /\ ScreenCap \in Nat /\ MaxResults \in Nat
    /\ MinHistory \in Nat /\ MinBaseline \in Nat

VARIABLES
    minute,    \* now
    morning,   \* which of Mornings
    screen     \* the scan

screenVars == <<minute, morning, screen>>

PmStart == 240
RthOpen == 570

---------------------------------------------------------------------------
(* The bars of a frame.                                                    *)

\* A frame fetched at a minute holds the bars that have begun.
FrameAt(bars, at) == {b \in bars : b.day < Today \/ b.at <= at}

\* premarket_bars
PremarketBars(bars, day) == {b \in bars : b.day = day /\ b.at >= PmStart /\ b.at < RthOpen}

\* The shares some bars traded.
VolumeOf(bars) == SumFunctionOnSet([b \in bars |-> b.volume], bars)

\* cumulative_volume_through
CumulativeVolume(bars, cutoff) == VolumeOf({b \in bars : b.at <= cutoff})

\* time_of_day_rvol: the same window of the clock on the sessions before.
TimeOfDayRvol(bars, cutoff) ==
    LET through(day) == CumulativeVolume(PremarketBars(bars, day), cutoff)
        prior == {d \in {b.day : b \in bars} : d < Today /\ through(d) > 0}
        sum   == SumFunctionOnSet([d \in prior |-> through(d)], prior)
        n     == Cardinality(prior)
    IN  IF n < Max({1, MinHistory}) THEN [rvol |-> {}, basis |-> "insufficient_history"]
        ELSE IF sum < MinBaseline * n THEN [rvol |-> {}, basis |-> "thin_baseline"]
        ELSE [rvol |-> {(100 * n * through(Today)) \div sum}, basis |-> "time_of_day"]

\* _prev_regular_close and _prev_day_levels: the last row before today, if any.
Completed(daily) == {i \in DOMAIN daily : daily[i].day < Today}
PrevRow(daily) ==
    LET rows == Completed(daily)
    IN  IF rows = {} THEN [close |-> {}, high |-> {}, low |-> {}] ELSE daily[Max(rows)]

\* The mean volume of the last completed days, by their dates.
AdvRows == 20
AdvLeast == 5
Adv(daily) ==
    LET rows == Completed(daily)
        last == {i \in rows : Cardinality({j \in rows : j >= i}) <= AdvRows}
    IN  IF Cardinality(rows) < AdvLeast THEN {}
        ELSE {SumFunctionOnSet([i \in last |-> daily[i].volume], last) \div Cardinality(last)}

---------------------------------------------------------------------------
(* build_snapshot.                                                         *)

\* Mutant: a frame is taken as it was fetched.
AsFetched(pm, cutoff) == pm

\* "Clamp the session frame to the scan's declared cutoff BEFORE deriving any field."
Clamped(pm, cutoff) == {b \in pm : b.at <= cutoff}

NewsCatalyst(tier) ==
    CASE tier = "strong"   -> "news_strong"
      [] tier = "moderate" -> "news_moderate"
      [] tier = "weak"     -> "news_weak"
      [] OTHER             -> "unknown"

Near(reading) == \E d \in reading : d \in -1..1

NoSnapshot == [kind |-> "no snapshot"]

\* The fields, from the session's bars, the relative volume and the news.
Fields(x, pm, ratio, heard) ==
    LET last   == CHOOSE b \in pm : \A c \in pm : c.at <= b.at
        prev   == PrevRow(x.daily)
        volume == VolumeOf(pm)
        real   == NonZero(x.float)
        float  == IF real # {} THEN real ELSE NonZero(x.outstanding)
    IN  [price    |-> last.close,
         gap      |-> {(10000 * (p - c)) \div c : p \in NonZero(last.close), c \in Positive(prev.close)},
         shares   |-> volume,
         dollars  |-> SumFunctionOnSet([b \in pm |-> OrZero(b.close) * b.volume], pm),
         high     |-> Max({b.high : b \in pm}), low |-> Min({b.low : b \in pm}),
         prevHigh |-> prev.high, prevLow |-> prev.low,
         rvol     |-> ratio.rvol,
         adv      |-> Adv(x.daily),
         cap      |-> NonZero(x.cap),
         float    |-> float,
         rotation |-> {(100 * volume) \div f : f \in Positive(float)},   \* in percent
         catalyst |-> IF Near(x.earnings) THEN "earnings" ELSE NewsCatalyst(heard),
         dilution |-> heard = "dilution",
         notes    |-> ({ratio.basis} \ {"time_of_day"})
                      \cup (IF real = {} /\ float # {} THEN {"shares outstanding"} ELSE {})]

Snapshot(x, bars, heard, asOf) ==
    LET cutoff == Min({asOf, RthOpen})
        pm     == Clamped(PremarketBars(bars, Today), cutoff)
    IN  IF pm = {} THEN NoSnapshot ELSE Fields(x, pm, TimeOfDayRvol(bars, cutoff), heard)

---------------------------------------------------------------------------
(* Gates, scores and labels.                                               *)

\* apply_penny_profile: the gates change and nothing else.
PennyProfile(g) ==
    [g EXCEPT !.least = PennyRails.least, !.most = PennyRails.most, !.cap = PennyRails.cap,
              !.adv = PennyRails.adv, !.shares = 150, !.dollars = 30000, !.penny = TRUE]
Gates(penny) == IF penny THEN PennyProfile(StandardGates) ELSE StandardGates

Size(gap) == IF gap < 0 THEN -gap ELSE gap
GapSize(s) == Size(OrZero(s.gap))

\* passes_gates: the reasons, none for a pass.
Failures(s, g) ==
    LET price == OrZero(s.price)
        failed == [gap_below_min       |-> GapSize(s) < g.gap,
                   price_below_min     |-> price < g.least,
                   price_above_max     |-> price > g.most,
                   pm_volume_below_min |-> s.shares < g.shares,
                   pm_dollar_volume_below_min |-> s.dollars < g.dollars,
                   adv_unavailable     |-> s.adv = {} /\ g.penny,
                   adv_below_min       |-> \E v \in s.adv : v < g.adv,
                   market_cap_unavailable |-> g.cap > 0 /\ s.cap = {},
                   market_cap_below_min   |-> \E c \in s.cap : c < g.cap]
    IN  IF s.price = {} \/ s.gap = {} THEN {"no_price_or_gap"}
        ELSE {reason \in DOMAIN failed : failed[reason]}

\* _gap_band_score, in thousandths: up to a plateau, and down again to a floor.
GapBand(size) ==
    IF size <= 400 THEN 0
    ELSE IF size < 600 THEN (1000 * (size - 400)) \div 200
    ELSE IF size <= 1500 THEN 1000
    ELSE IF size >= 3000 THEN 200
    ELSE 1000 - (800 * (size - 1500)) \div 1500

\* _saturating, in thousandths, of tenths of its scale: the exponential at a few points.
SaturatingLadder == <<<<30, 950>>, <<20, 865>>, <<10, 632>>, <<5, 393>>, <<2, 181>>, <<1, 95>>>>
Saturating(values, scale) == Points(SaturatingLadder, {(10 * v) \div scale : v \in values}, 0)

MicroFloat(s) == \E f \in s.float : f < 10000

\* liquidity_floor_passed
Liquid(s) == OrZero(s.price) >= 1000 /\ OrZero(s.adv) >= 1000 /\ ~MicroFloat(s)

CatalystScore(catalyst) ==
    When(catalyst \in {"earnings", "news_strong"}, 1000) + When(catalyst = "news_moderate", 500)

\* score_snapshot
ScreenScore(s) ==
    (35 * When(Liquid(s), Saturating(s.rvol, 500)) + 20 * GapBand(GapSize(s))
     + 15 * Saturating({s.dollars}, 500000) + 15 * Saturating(s.rotation, 25)
     + 15 * CatalystScore(s.catalyst)) \div 10

\* classify_profile
Extreme(s) == GapSize(s) >= 2000
HasCatalyst(s) == s.catalyst \in {"earnings", "news_strong"}
Profile(s) ==
    IF ~Liquid(s) /\ Extreme(s) /\ ~HasCatalyst(s) THEN "fade_risk"
    ELSE IF Liquid(s) /\ HasCatalyst(s) /\ (\E v \in s.rvol : v >= 200) /\ GapSize(s) <= 3000
         THEN "continuation"
    ELSE "neutral"

\* annotate_flags
Flags(s) ==
    LET raised == [extreme_gap           |-> Extreme(s),
                   below_liquidity_floor |-> ~Liquid(s),
                   micro_float           |-> MicroFloat(s),
                   crowded_micro_float   |-> MicroFloat(s) /\ s.shares >= 5000,
                   rvol_unavailable      |-> s.rvol = {},
                   dilution_news         |-> s.dilution]
    IN  {f \in DOMAIN raised : raised[f]}

---------------------------------------------------------------------------
(* scan_premarket.                                                         *)

\* The universe is cut at its cap, and the cut is told.
Screened == 1..(IF ScreenCap = 0 THEN Len(ScreenNames) ELSE Min({ScreenCap, Len(ScreenNames)}))

NotBuilt == [kind |-> "not built"]
NoScreen == [stage |-> "none", asOf |-> 0, penny |-> FALSE, snaps |-> <<>>,
             candidates |-> <<>>, nearMisses |-> <<>>]

StartScreen ==
    /\ screen = NoScreen
    /\ \E penny \in BOOLEAN :
          screen' = [NoScreen EXCEPT !.stage = "build", !.asOf = minute, !.penny = penny,
                                     !.snaps = [i \in Screened |-> NotBuilt]]
    /\ UNCHANGED <<minute, morning>>

\* A thread builds a snapshot, from the provider or from what the cache still has, with
\* the news or without; a name that raises has none.
Stock(i) == Mornings[morning][i]
Built(i) ==
    {NoSnapshot} \cup
    {Snapshot(Stock(i), FrameAt(Stock(i).bars, at), heard, screen.asOf) :
        at \in {m \in Minutes : m <= minute /\ minute - m <= FrameTTL},
        heard \in {Stock(i).news, "none"}}

BuildSnapshot(i) ==
    /\ screen.stage = "build" /\ screen.snaps[i] = NotBuilt
    /\ \E s \in Built(i) : screen' = [screen EXCEPT !.snaps[i] = s]
    /\ UNCHANGED <<minute, morning>>

\* A row of the result, and rows in their order, the best first and then by name.
Row(i) ==
    LET s == screen.snaps[i]
    IN  [name |-> i, score |-> ScreenScore(s), profile |-> Profile(s), flags |-> Flags(s)]
Outranks(r, q) == r.score > q.score \/ (r.score = q.score /\ r.name < q.name)
Ranked(rows) ==
    LET place(r) == Cardinality({q \in rows : Outranks(q, r)}) + 1
    IN  [k \in 1..Cardinality(rows) |-> CHOOSE r \in rows : place(r) = k]
Capped(rows, cap) == SubSeq(rows, 1, Min({cap, Len(rows)}))

SnapshotsOf == {i \in DOMAIN screen.snaps : screen.snaps[i] \notin {NotBuilt, NoSnapshot}}
FailuresOf(i) == Failures(screen.snaps[i], Gates(screen.penny))

Passing == {i \in SnapshotsOf : FailuresOf(i) = {}}
NearlyPassing == {i \in SnapshotsOf : Cardinality(FailuresOf(i)) = 1}

RankScreen ==
    /\ screen.stage = "build" /\ \A i \in Screened : screen.snaps[i] # NotBuilt
    /\ screen' = [screen EXCEPT
          !.stage = "done",
          !.candidates = Capped(Ranked({Row(i) : i \in Passing}), MaxResults),
          !.nearMisses = Capped(Ranked({Row(i) : i \in NearlyPassing}), Max({5, MaxResults \div 2}))]
    /\ UNCHANGED <<minute, morning>>

\* The morning goes on.
ScreenMinute ==
    /\ screen.stage # "done" /\ \E m \in Minutes : m > minute
    /\ minute' = Min({m \in Minutes : m > minute})
    /\ UNCHANGED <<morning, screen>>

ScreenInit(mornings) ==
    /\ minute = Min(Minutes) /\ morning \in mornings /\ screen = NoScreen

ScreenNext == StartScreen \/ (\E i \in DOMAIN screen.snaps : BuildSnapshot(i)) \/ RankScreen \/ ScreenMinute

---------------------------------------------------------------------------
(* What the screen promises.                                               *)

\* "Gates and scores would [otherwise] mix as-of times across tickers": every snapshot is
\* one that could have been built at the scan's own instant, from a frame no newer,
\* however long the pool took.
AsOfIsOne ==
    \A i \in SnapshotsOf :
        \E at \in {m \in Minutes : m <= screen.asOf}, heard \in {Stock(i).news, "none"} :
            screen.snaps[i] = Snapshot(Stock(i), FrameAt(Stock(i).bars, at), heard, screen.asOf)

\* "Cumulative pre-market volume through cutoff, over prior sessions' through the same
\* cutoff": a morning like every morning before it never reads as unusual volume.
Shape(bars, day) == {<<b.at, b.volume>> : b \in PremarketBars(bars, day)}
UsualIsNotUnusual ==
    \A i \in SnapshotsOf :
        (\A day \in 1..(Today - 1) : Shape(Stock(i).bars, day) \in {{}, Shape(Stock(i).bars, Today)})
            => \A v \in screen.snaps[i].rvol : v <= 100

\* "An unverifiable value must not pass": a penny candidate's cap and daily volume are
\* known and above the rails, by the data themselves.
RailsFailClosed ==
    screen.penny => \A j \in DOMAIN screen.candidates :
        LET x == Stock(screen.candidates[j].name)
        IN  /\ PennyRails.cap > 0 => \E c \in x.cap : c >= PennyRails.cap
            /\ \E v \in Adv(x.daily) : v >= PennyRails.adv

\* A name that passes every gate is among the candidates, or as many are that score no
\* less; one that is labelled as continuing has no share of those that fade.
RanksHold ==
    /\ screen.stage = "done" =>
         \A i \in Passing :
            \/ \E j \in DOMAIN screen.candidates : screen.candidates[j].name = i
            \/ /\ Len(screen.candidates) = MaxResults
               /\ \A j \in DOMAIN screen.candidates : screen.candidates[j].score >= Row(i).score
    /\ \A j \in DOMAIN screen.candidates :
          screen.candidates[j].profile = "continuation" =>
              screen.candidates[j].flags \cap {"micro_float", "below_liquidity_floor", "rvol_unavailable"} = {}

\* What the pre-market screen promises: one instant, like compared with like, rails that
\* fail closed and ranks that hold.
ScreenIsHonest == AsOfIsOne /\ UsualIsNotUnusual /\ RailsFailClosed /\ RanksHold
==============================================================================
