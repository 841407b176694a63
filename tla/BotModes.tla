------------------------------- MODULE BotModes -------------------------------
(***************************************************************************)
(* A process of bot.py on the shared price cache.  A process runs in one   *)
(* mode: daily scans one after another (the scheduler's, in the process    *)
(* whose floor they raise), the intraday loop, a backtest, which reads all *)
(* its histories before the first date, a replay of day trades, signals    *)
(* and plans for one frame after another, or a pre-market screen.          *)
(***************************************************************************)
EXTENDS DailyScan, IntradayPipeline, IntradayBacktest, PremarketScan

CONSTANT Modes   \* the modes a process is started in

ASSUME ModesAssumption ==
    Modes \subseteq {"daily", "intraday", "backtest", "signals", "day trades", "premarket"}

VARIABLE mode

\* The frames the mode reads.  Others would only take room in the directory, and are
\* left out.
Reads == CASE mode = "daily"    -> {Daily(t) : t \in Tickers}
           [] mode = "intraday" -> {Intraday(Watchlist[i]) : i \in DOMAIN Watchlist}
           [] mode \in {"backtest", "signals", "day trades", "premarket"} -> {}

vars == <<mode, data, scan, loop, backtestVars, signalVars, dayVars, screenVars>>

Init ==
    /\ mode \in Modes
    /\ DataInit(Reads) /\ ScanInit /\ PipelineInit /\ BacktestInit
    /\ SignalInit(IF mode = "signals" THEN BOOLEAN ELSE {FALSE})
    /\ DayInit(IF mode = "day trades" THEN Rules ELSE {"none"})
    /\ ScreenInit(IF mode = "premarket" THEN DOMAIN Mornings ELSE {1})

DailyMode    == /\ mode = "daily" /\ ScanNext
                /\ UNCHANGED <<mode, loop, backtestVars, signalVars, dayVars, screenVars>>
IntradayMode == /\ mode = "intraday" /\ PipelineNext
                /\ UNCHANGED <<mode, scan, backtestVars, signalVars, dayVars, screenVars>>
BacktestMode == /\ mode = "backtest" /\ BacktestNext
                /\ UNCHANGED <<mode, data, scan, loop, signalVars, dayVars, screenVars>>
SignalsMode  == /\ mode = "signals" /\ SignalNext
                /\ UNCHANGED <<mode, scan, loop, backtestVars, dayVars, screenVars>>
DayMode      == /\ mode = "day trades" /\ Bar
                /\ UNCHANGED <<mode, data, scan, loop, backtestVars, signalVars, screenVars>>
ScreenMode   == /\ mode = "premarket" /\ ScreenNext
                /\ UNCHANGED <<mode, data, scan, loop, backtestVars, signalVars, dayVars>>

\* The cache and the clock go on around a process that reads them.
Around ==
    /\ mode \notin {"backtest", "day trades", "premarket"}
    /\ OtherProcess(Reads) \/ Tick
    /\ UNCHANGED <<mode, scan, loop, backtestVars, signalVars, dayVars, screenVars>>

Next == DailyMode \/ IntradayMode \/ BacktestMode \/ SignalsMode \/ DayMode \/ ScreenMode \/ Around

Spec == Init /\ [][Next]_vars

\* The intraday loop goes on.
FairSpec == Spec /\ WF_vars(IntradayMode)

---------------------------------------------------------------------------
(* What the scans promise of the frames they read and the candidates they  *)
(* find.                                                                   *)

\* Every variable holds a value of its kind.
TypeOK ==
    /\ mode \in Modes
    /\ clock \in Times /\ floor \in Times /\ others \in 0..MaxOthers
    /\ disk \in [Key -> Entry]
    /\ stage \in {"idle", "regime", "batch", "request", "pool", "analyze"}
    /\ start \in Times
    /\ fetching \in [Tickers -> {"none", "queued", "downloading"}]
    /\ read \in [Tickers -> Read]
    /\ left \subseteq Universe /\ plans \subseteq Read
    /\ step \in {"wait", "scan", "push", "eligible", "evaluate"}
    /\ now \in Times
    /\ offset \in 0..Len(Watchlist)
    /\ batch \in Seq(Tickers) /\ scanned \in 0..Len(batch) /\ coalesced \subseteq Tickers
    /\ found \in Seq(Candidate) /\ queue \in Seq(Candidate) /\ drained \in Seq(Candidate)
    /\ Len(queue) <= QueueMax
    /\ lastSeen \in [Candidate -> Times] /\ accepted \in [Candidate -> Times]
    /\ verdicts \in [Tickers -> Verdict]
    /\ plan \in Plan \cup {NoPlan}
    /\ BacktestTypeOK

\* "A scan reads bars fetched during that scan": a frame it took from the cache or
\* from a provider was fetched after the scan began and has consolidated volume,
\* whatever other processes do to the shared cache meanwhile.  Frames it fell back
\* to are the exception: see ScanReadsItsOwnBars.
ScanBarsAreFresh ==
    \A t \in Tickers :
        read[t].via \in {"cache", "provider"} =>
            read[t].frame.trusted /\ (RefreshDailyBars => read[t].frame.fetched >= start)

\* "Refuse cached daily frames fetched before `ts`": no plan of a scan is computed
\* from a frame fetched before the scan began.
ScanReadsItsOwnBars == \A r \in plans : r.frame.fetched >= start

\* "Plan on bars that are recent": a frame the cache falls back to can be from any
\* time; no plan the sink gets rests on a bar older than the limit at the drain.
PlansAreRecent == plan # NoPlan => plan.at - plan.bar <= MaxStale

\* Every decision rests on bars as recent as its mode asks: a daily scan's on its own,
\* or on ones it fell back to, the intraday consumer's on ones within its limit.
BarsAreRecent == TypeOK /\ ScanBarsAreFresh /\ PlansAreRecent

\* "De-duplicating": a candidate enters the queue again only after the dedup window,
\* although its mark is pruned by pushes of others and it may have left the queue.
QueuedOncePerWindow ==
    [][\A c \in Candidate :
          (lastSeen'[c] # lastSeen[c] /\ lastSeen'[c] # Never) =>
             accepted[c] = Never \/ lastSeen'[c] - accepted[c] >= DedupTTL]_vars

\* "A universe larger than the per-cycle cap is fully covered over successive cycles
\* rather than the first N being scanned forever", whatever the cap and the queue.
UniverseIsCovered ==
    \A t \in Tickers :
        (mode = "intraday" /\ \E i \in DOMAIN Watchlist : Watchlist[i] = t) =>
            []<>(\E i \in DOMAIN batch : batch[i] = t)

===========================================================================
