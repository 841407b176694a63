--------------------------- MODULE IntradayBacktest ---------------------------
(***************************************************************************)
(* The replay of day trades: src/backtest/intraday_engine.py with the      *)
(* three entries it replays (src/signals/intraday_signal.py,               *)
(* sweep_reclaim.py and precursor.py, on src/technical/                    *)
(* intraday_features.py), which the intraday consumer decides live.        *)
(*                                                                         *)
(* The tape is revealed bar by bar.  A bar fills at its open what the bar  *)
(* before decided, then the position, if there is one, is managed on it,   *)
(* and otherwise the entry is decided on the tape so far.  The program has *)
(* the whole frame and walks it with an index; the bars it looks at are    *)
(* these.  Prices are in cents, exits in halves of one, and weights in     *)
(* tenths of the position.                                                 *)
(***************************************************************************)
EXTENDS DailyBacktest, SignalPlan, SequencesExt


CONSTANTS
    Slots,           \* per bar: its session (the date in New York), its day (the date
                     \* of its index, UTC) and its minute of the day in New York
    BarsAt,          \* per slot: the bars it may have
    Rules,           \* the entries to replay
    MaxLookback,     \* config.INTRADAY_BACKTEST_MAX_LOOKBACK_BARS
    SessionBars, OpeningMinutes, AtrPeriod, RequireAboveVwap,   \* of the breakout
    MinRelVolume,    \* in percent, of the breakout
    SweepLookback, SweepWindow, SweepBars,
    Anchors,         \* config.SWEEP_LEVEL_ANCHORS
    MaxExtension, StopBuffer,   \* in hundredths of a percent
    CoilBars, BaselineBars,
    MaxCompression, MinExpansionVolume, MinExpansionRange, MinRangePosition   \* in percent

\* A bar: nothing in it was traded under its low, nor over its high.
Prices ==
    {b \in [open : Nat, high : Nat, low : Nat, close : Nat, volume : Nat] :
        b.low <= b.open /\ b.open <= b.high /\ b.low <= b.close /\ b.close <= b.high}

ASSUME IntradayBacktestAssumption ==
    /\ Len(BarsAt) = Len(Slots)
    /\ \A i, j \in DOMAIN Slots : i <= j => Slots[i].session <= Slots[j].session
                                            /\ Slots[i].day <= Slots[j].day
    /\ MaxLookback \in Nat \ {0, 1} /\ AtrPeriod \in Nat \ {0} /\ RequireAboveVwap \in BOOLEAN
    /\ SweepLookback \in Nat \ {0} /\ SweepWindow \in Nat \ {0}
    /\ Anchors \subseteq {"pdl", "pml"}
    /\ CoilBars \in Nat \ {0, 1} /\ BaselineBars \in Nat /\ BaselineBars > CoilBars
    /\ SweepBars \in Nat
    /\ StopBuffer \in 0..10000
    /\ BarsAt \in Seq(SUBSET Prices) /\ Slots \in Seq([session : Nat, day : Nat, at : Nat])
    /\ Rules \subseteq {"breakout", "sweep_reclaim", "precursor"}

VARIABLES
    rule,       \* the entry that is replayed
    tape,       \* the bars so far
    decision,   \* what the last bar decided
    dayTrade,   \* the position
    lastTrade   \* the trade that closed last

dayVars == <<rule, tape, decision, dayTrade, lastTrade>>

---------------------------------------------------------------------------
(* The features of a tape: t is a tape, S a set of its slots.               *)

\* What a strategy is shown, and of that the current session: the bars that have the
\* date of the last one.
Shown(t)   == Maximum(1, Len(t) + 1 - MaxLookback)..Len(t)
Session(t) == {j \in Shown(t) : Slots[j].day = Slots[Len(t)].day}
Newest(t)  == t[Len(t)]

Lowest(t, S)  == Min({t[j].low : j \in S})
Highest(t, S) == Max({t[j].high : j \in S})
Traded(t, S)  == MapThenSumSet(LAMBDA j : t[j].volume, S)

\* A close over the session's volume-weighted price, and whether there is one
HasVwap(t)   == Traded(t, Session(t)) > 0
AboveVwap(t) ==
    3 * Newest(t).close * Traded(t, Session(t))
        > MapThenSumSet(LAMBDA j : (t[j].high + t[j].low + t[j].close) * t[j].volume, Session(t))

OpeningRange(t) ==
    LET first == Slots[Min(Session(t))].at
    IN  {j \in Session(t) : Slots[j].at < first + OpeningMinutes}

\* The last bar's volume against the mean of the session's bars before it
Before(t)       == Session(t) \ {Len(t)}
HasRelVolume(t) == Traded(t, Before(t)) > 0
Participates(t) ==
    /\ HasRelVolume(t)
    /\ 100 * Newest(t).volume * Cardinality(Before(t)) >= MinRelVolume * Traded(t, Before(t))

\* The true range of bar j in a frame that begins with bar first
TrueRange(t, j, first) ==
    LET b == t[j]
    IN  IF j = first THEN b.high - b.low
        ELSE Maximum(b.high, t[j - 1].close) - Minimum(b.low, t[j - 1].close)

\* intraday_atr, in whole cents: none for a frame no longer than the period.
IntradayAtr(t) ==
    LET first  == Min(Shown(t))
        ranges == [k \in 1..Cardinality(Shown(t)) |-> TrueRange(t, first + k - 1, first)]
        atr[k \in 1..Len(ranges)] ==
            IF k = 1 THEN ranges[1] ELSE ((AtrPeriod - 1) * atr[k - 1] + ranges[k]) \div AtrPeriod
        last   == atr[Len(ranges)]
    IN  IF Len(ranges) < AtrPeriod + 1 \/ last = 0 THEN {} ELSE {last}

---------------------------------------------------------------------------
(* The entries.  A decision is none, a stop at a level, or a stop at a     *)
(* distance under the fill.                                                *)

None             == [stop |-> "none", by |-> 0]
AtLevel(price)   == [stop |-> "level", by |-> price]
AtDistance(cents) == [stop |-> "distance", by |-> cents]

\* evaluate_intraday_entry and _breakout_decision
Breakout(t) ==
    IF /\ Cardinality(Session(t)) >= Maximum(2, SessionBars)
       /\ HasVwap(t) /\ Participates(t) /\ IntradayAtr(t) # {}
       /\ AboveVwap(t) \/ (Newest(t).close > Highest(t, OpeningRange(t)) /\ ~RequireAboveVwap)
    THEN AtDistance(AtrStopMult * OrZero(IntradayAtr(t)))
    ELSE None

\* _anchored_levels: lows that were there before the recent bars.
AnchoredLevels(t) ==
    LET settled  == {j \in Shown(t) : j <= Len(t) - SweepWindow}
        today    == Slots[Len(t)].session
        before   == {Slots[j].session : j \in settled} \ {today}
        regular  == {j \in settled : Slots[j].session \in before /\ Slots[j].session = Max(before)
                                     /\ Slots[j].at \in 570..959}
        earlier  == {j \in settled : Slots[j].session = today /\ Slots[j].at \in 240..569}
        anchored == [pdl |-> regular, pml |-> earlier]
    IN  {Lowest(t, anchored[a]) : a \in {a \in Anchors : anchored[a] # {}}}

\* _detect: the level that was swept and reclaimed, the highest of them, and the wick.
Recent(t)     == Len(t) - SweepWindow + 1..Len(t)
Reference(t)  == Len(t) - SweepWindow - SweepLookback + 1..Len(t) - SweepWindow
Measured(t)   == Cardinality(Session(t)) >= Maximum(SweepLookback + SweepWindow, SweepBars)
Reclaimed(t)  == {level \in {Lowest(t, Reference(t))} \cup AnchoredLevels(t) :
                     Lowest(t, Recent(t)) < level /\ Newest(t).close > level}

\* sweep_reclaim_present: what the scan puts in the queue for the graded evaluation
SweepPresent(t) == Measured(t) /\ Reclaimed(t) # {}

\* evaluate_sweep_reclaim and _sweep_decision, with volume not required
WickStop(t) == Rounded(Lowest(t, Recent(t)) * (10000 - StopBuffer), 10000)
SweepReclaim(t) ==
    IF /\ SweepPresent(t)
       /\ LET level == Max(Reclaimed(t))
          IN  10000 * (Newest(t).close - level) <= MaxExtension * level
    THEN AtLevel(WickStop(t))
    ELSE None

\* detect_precursor: the coil before the last bar, and the baseline before the coil.
Coil(t)       == Len(t) - CoilBars..Len(t) - 1
Baseline(t)   == Len(t) - CoilBars - BaselineBars..Len(t) - CoilBars - 1
Ranges(t, S)  == MapThenSumSet(LAMBDA j : TrueRange(t, j, Min(Session(t))), S)
Warm(t)       == /\ Cardinality(Session(t)) >= BaselineBars + CoilBars + 2
                 /\ Ranges(t, Coil(t)) > 0 /\ Ranges(t, Baseline(t)) > 0

\* coil_present
CoilPresent(t) ==
    Warm(t) /\ 100 * Ranges(t, Coil(t)) * BaselineBars <= MaxCompression * Ranges(t, Baseline(t)) * CoilBars

\* evaluate_precursor and _precursor_decision, without a floor on risk against costs
Precursor(t) ==
    LET last == Newest(t)
        day  == Session(t)
    IN  IF /\ CoilPresent(t)
           /\ last.close > Highest(t, Coil(t))
           /\ Traded(t, Coil(t)) > 0
           /\ 100 * last.volume * CoilBars >= MinExpansionVolume * Traded(t, Coil(t))
           /\ 100 * TrueRange(t, Len(t), Min(day)) * CoilBars >= MinExpansionRange * Ranges(t, Coil(t))
           /\ 100 * (last.close - Lowest(t, day)) >= MinRangePosition * (Highest(t, day) - Lowest(t, day))
           /\ HasVwap(t) /\ AboveVwap(t)
        THEN AtLevel(Lowest(t, Coil(t)))
        ELSE None

Decision(t) ==
    CASE rule = "breakout"      -> Breakout(t)
      [] rule = "sweep_reclaim" -> SweepReclaim(t)
      [] rule = "precursor"     -> Precursor(t)

---------------------------------------------------------------------------
(* simulate_intraday_ticker.                                               *)

\* The last bar of a session, and of the frame
LastOfSession(n) == n = Len(Slots) \/ Slots[n + 1].session # Slots[n].session

NoTrade == [entered |-> 0, ref |-> 0, stop |-> 0, left |-> 0, hit |-> {}, exits |-> {}]

\* The stop a fill at that price gets
StopUnder(d, open) == IF d.stop = "level" THEN d.by ELSE open - d.by

\* A fill at the next open, in the same session and above its stop, or none
Filled(n, bar) ==
    IF dayTrade # NoTrade THEN dayTrade
    ELSE IF /\ decision # None
            /\ Slots[n].session = Slots[n - 1].session
            /\ bar.open > 0 /\ StopUnder(decision, bar.open) < bar.open
    THEN [NoTrade EXCEPT !.entered = n, !.ref = bar.open, !.left = 10,
                         !.stop = StopUnder(decision, bar.open)]
    ELSE NoTrade

\* _target_levels, in halves, and what a target sells: the last one all that is left
Level(trade, k) == 2 * trade.ref + TargetRR[k] * (trade.ref - trade.stop)
Tenths(trade, k) ==
    IF k = 3 THEN trade.left ELSE Minimum(TargetExitPcts[k], trade.left)

ExitOf(trade, n, price, weight, why) ==
    [trade EXCEPT !.left = @ - weight,
                  !.exits = @ \cup {[at |-> n, price |-> price, weight |-> weight, why |-> why]}]

AtTarget(trade, n, bar, k) ==
    IF k \notin trade.hit /\ 2 * bar.high >= Level(trade, k) /\ trade.left > 0
    THEN [ExitOf(trade, n, Level(trade, k), Tenths(trade, k), "target") EXCEPT !.hit = @ \cup {k}]
    ELSE trade

AtTargets(trade, n, bar) == AtTarget(AtTarget(AtTarget(trade, n, bar, 1), n, bar, 2), n, bar, 3)
AtStop(trade, n, bar) ==
    IF bar.low <= trade.stop /\ trade.left > 0
    THEN ExitOf(trade, n, 2 * Minimum(bar.open, trade.stop), trade.left, "stop")
    ELSE trade
AtClose(trade, n, bar) ==
    IF LastOfSession(n) /\ trade.left > 0
    THEN ExitOf(trade, n, 2 * bar.close, trade.left, "session close")
    ELSE trade

\* Mutant: within a bar the targets come before the stop.
ManagedTargetsFirst(trade, n, bar) == AtClose(AtStop(AtTargets(trade, n, bar), n, bar), n, bar)

\* _simulate_trade on one bar: a stop that is touched comes before any target.
Managed(trade, n, bar) ==
    LET stopped == AtStop(trade, n, bar)
    IN  IF stopped.left = 0 THEN stopped ELSE AtClose(AtTargets(trade, n, bar), n, bar)

Bar ==
    /\ Len(tape) < Len(Slots)
    /\ \E bar \in BarsAt[Len(tape) + 1] :
          LET n      == Len(tape) + 1
              filled == Filled(n, bar)
              after  == Managed(filled, n, bar)
          IN  /\ tape' = Append(tape, bar)
              /\ decision' = IF filled = NoTrade /\ n < Len(Slots) THEN Decision(tape') ELSE None
              /\ dayTrade' = IF after.left = 0 THEN NoTrade ELSE after
              /\ lastTrade' = IF filled # NoTrade /\ after.left = 0 THEN after ELSE lastTrade
    /\ UNCHANGED rule

\* What the exits sold, and what they brought in, in tenths and halves.
Sold(exits)    == SumFunctionOnSet([x \in exits |-> x.weight], exits)
Brought(exits) == SumFunctionOnSet([x \in exits |-> x.weight * x.price], exits)

\* A trade's result net of slippage and commission on both sides, in units so small
\* that nothing is rounded.
Profit(trade) ==
    Brought(trade.exits) * (100 - SlippagePct) * (100 - CommissionPct)
        - 20 * trade.ref * (100 + SlippagePct) * (100 + CommissionPct)

\* build_intraday_plan and build_sweep_reclaim_plan: what the live consumer plans on the
\* same decision.  A level that is not under the entry is skipped.
LiveEntry(t) == EntryAt(Newest(t).close)
LiveStop(t, d) ==
    IF d.stop = "level" THEN {d.by} \ {s \in {d.by} : s >= LiveEntry(t)}
    ELSE {LiveEntry(t) - d.by}

DayInit(rules) ==
    rule \in rules /\ tape = <<>> /\ decision = None /\ dayTrade = NoTrade /\ lastTrade = NoTrade

---------------------------------------------------------------------------
(* What the replay promises.                                               *)

\* "Flat by session end — no overnight holds": a position is in the session it was
\* entered in, and that goes on.
FlatBySessionEnd ==
    dayTrade # NoTrade =>
        /\ Slots[dayTrade.entered].session = Slots[Len(tape)].session
        /\ ~LastOfSession(Len(tape))
        /\ decision = None

\* "Weights sum to 1.0", no exit is at a price better than its bar had, a bar that
\* touched the stop fills no target, and what is lost is more than the risk only where
\* a bar opened under the stop.
ExitsAreHonest ==
    lastTrade # NoTrade =>
        LET exits == lastTrade.exits
            lost  == 20 * lastTrade.ref - Brought(exits)
        IN  /\ lastTrade.stop < lastTrade.ref
            /\ Sold(exits) = 10
            /\ \A x \in exits :
                  /\ x.at >= lastTrade.entered /\ x.price <= 2 * tape[x.at].high
                  /\ x.why = "target" => tape[x.at].low > lastTrade.stop
                  /\ x.why = "stop" => x.price >= 2 * tape[x.at].low
            /\ lost > 20 * (lastTrade.ref - lastTrade.stop) =>
                  \E x \in exits : x.why = "stop" /\ tape[x.at].open < lastTrade.stop
            /\ lost >= 0 /\ SlippagePct + CommissionPct > 0 => Profit(lastTrade) < 0

\* "A strict SUPERSET of every graded entry": the scan's tests let every entry through;
\* and the live plan of an entry has its stop under its entry, and for a sweep under
\* every low of the bars that reclaimed the level.
EntriesAreSeen ==
    decision # None =>
        /\ rule = "sweep_reclaim" => SweepPresent(tape) /\ decision.by <= Lowest(tape, Recent(tape))
        /\ rule = "precursor" => CoilPresent(tape)
        /\ \A s \in LiveStop(tape, decision) : s < LiveEntry(tape)

\* A day trade is replayed as it could have been traded.
DayTradesAreHonest == FlatBySessionEnd /\ ExitsAreHonest /\ EntriesAreSeen

===========================================================================
