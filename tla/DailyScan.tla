------------------------------ MODULE DailyScan ------------------------------
(***************************************************************************)
(* One process that runs daily scans, src/scanner/daily_scan.py, on the    *)
(* cache it shares with other processes.                                   *)
(*                                                                         *)
(* run_daily_scan raises the floor on daily frames to its own start, reads *)
(* the market's regime, fetches the universe in a batch (cache, then one   *)
(* multi-symbol request, then a pool of single fetches), pre-filters it,   *)
(* and turns the frames of the best candidates into plans.  The frames of  *)
(* the pre-filter are the ones the plans are computed from.                *)
(***************************************************************************)
EXTENDS MarketData

CONSTANTS
    Index,        \* the ticker whose bars the regime is read from
    MaxSignals,   \* max_signals
    RefreshDailyBars   \* config.SCAN_REFRESH_DAILY_BARS

ASSUME DailyScanAssumption ==
    Index \in Tickers /\ MaxSignals \in Nat /\ RefreshDailyBars \in BOOLEAN

Universe == Tickers \ {Index}

VARIABLES
    stage,     \* where the scan is
    start,     \* scan_start
    fetching,  \* the single fetches: "none", "queued" or "downloading"
    read,      \* what each ticker's fetch returned in this scan
    left,      \* candidates that passed and are still to be analysed
    plans      \* the frames its plans were computed from

scan == <<stage, start, fetching, read, left, plans>>

\* What a fetch returned, and where it took it from.
Sources   == {"none", "cache", "provider", "stale"}
Read      == [frame : Frame, via : Sources]
Unread    == [frame |-> Empty, via |-> "none"]

From(frame, via) == [frame |-> frame, via |-> via]

ScanStart ==
    /\ stage = "idle"
    /\ start' = clock
    /\ IF RefreshDailyBars THEN RequireDailyBarsFetchedSince(clock) ELSE UNCHANGED floor
    /\ fetching' = [t \in Tickers |-> IF t = Index THEN "queued" ELSE "none"]
    /\ read' = [t \in Tickers |-> Unread]
    /\ plans' = {}
    /\ stage' = "regime"
    /\ UNCHANGED <<clock, disk, others, left>>

---------------------------------------------------------------------------
(* fetch_ohlcv, by the scan's thread or one of its pool.                   *)

LookUp(t) ==
    /\ fetching[t] = "queued"
    /\ IF Hit(Daily(t))
       THEN /\ read' = [read EXCEPT ![t] = From(Get(Daily(t)), "cache")]
            /\ fetching' = [fetching EXCEPT ![t] = "none"]
       ELSE /\ fetching' = [fetching EXCEPT ![t] = "downloading"]
            /\ UNCHANGED read
    /\ UNCHANGED <<data, stage, start, left, plans>>

Download(t) ==
    /\ fetching[t] = "downloading"
    /\ \E frame \in Answers(Daily(t)) \cup {GetStale(Daily(t))} :
          \/ /\ Downloaded(Daily(t), frame)
             /\ read' = [read EXCEPT ![t] = From(frame, "provider")]
          \/ /\ FellBack(Daily(t), frame)
             /\ read' = [read EXCEPT ![t] = From(frame, "stale")]
    /\ fetching' = [fetching EXCEPT ![t] = "none"]
    /\ UNCHANGED <<clock, floor, others, stage, start, left, plans>>

Fetched == \A t \in Tickers : fetching[t] = "none"

---------------------------------------------------------------------------
(* The scan.                                                               *)

\* In a bear market the scan ends here.
Regime ==
    /\ stage = "regime" /\ Fetched
    /\ stage' \in {"batch", "idle"}
    /\ UNCHANGED <<data, start, fetching, read, left, plans>>

\* Mutant: the batch takes what the cache has.
BatchHitsAny ==
    /\ stage = "batch"
    /\ read' = [t \in Tickers |-> IF t \in Universe /\ ~IsEmpty(Get(Daily(t)))
                                  THEN From(Get(Daily(t)), "cache") ELSE Unread]
    /\ stage' = "request"
    /\ UNCHANGED <<data, start, fetching, left, plans>>

\* fetch_ohlcv_batch: the cache ...
BatchHits ==
    /\ stage = "batch"
    /\ read' = [t \in Tickers |-> IF t \in Universe /\ Hit(Daily(t))
                                  THEN From(Get(Daily(t)), "cache") ELSE Unread]
    /\ stage' = "request"
    /\ UNCHANGED <<data, start, fetching, left, plans>>

Missing == {t \in Universe : read[t] = Unread}

\* ... then one request for the rest, which may answer for some ...
BatchAnswer(t) ==
    /\ stage = "request" /\ t \in Missing
    /\ \E frame \in Answers(Daily(t)) :
          /\ Downloaded(Daily(t), frame)
          /\ read' = [read EXCEPT ![t] = From(frame, "provider")]
    /\ UNCHANGED <<clock, floor, others, stage, start, fetching, left, plans>>

\* ... and the pool for those it does not.
BatchEnd ==
    /\ stage = "request"
    /\ fetching' = [t \in Tickers |-> IF t \in Missing THEN "queued" ELSE "none"]
    /\ stage' = "pool"
    /\ UNCHANGED <<data, start, read, left, plans>>

\* technical_pre_filter, and the cut to max_signals
PreFilter ==
    /\ stage = "pool" /\ Fetched
    /\ left' \in {s \in SUBSET {t \in Universe : ~IsEmpty(read[t].frame)} :
                     Cardinality(s) <= MaxSignals}
    /\ stage' = "analyze"
    /\ UNCHANGED <<data, start, fetching, read, plans>>

\* _analyze_ticker: a plan, no buy signal, or an error that is logged
Analyze(t) ==
    /\ stage = "analyze" /\ t \in left
    /\ left' = left \ {t}
    /\ plans' \in {plans, plans \cup {read[t]}}
    /\ UNCHANGED <<data, stage, start, fetching, read>>

ScanEnd ==
    /\ stage = "analyze" /\ left = {}
    /\ stage' = "idle"
    /\ UNCHANGED <<data, start, fetching, read, left, plans>>

---------------------------------------------------------------------------

ScanInit ==
    /\ stage = "idle" /\ start = 0
    /\ fetching = [t \in Tickers |-> "none"]
    /\ read = [t \in Tickers |-> Unread]
    /\ left = {} /\ plans = {}

ScanNext ==
    \/ ScanStart \/ Regime \/ BatchHits \/ BatchEnd \/ PreFilter \/ ScanEnd
    \/ \E t \in Tickers : LookUp(t) \/ Download(t) \/ BatchAnswer(t) \/ Analyze(t)

===========================================================================
