------------------------------ MODULE MarketData ------------------------------
(***************************************************************************)
(* Price frames: the disk cache of src/data/cache.py and the fetch path of *)
(* src/data/fetcher.py that every scan reads through.                      *)
(*                                                                         *)
(* The cache directory is shared by the processes of an installation; the  *)
(* floor on daily frames belongs to one process.  A frame is what the      *)
(* decisions read of it: when it was fetched, how old its newest bar is,   *)
(* and whether its volume can be trusted.  The providers are whatever      *)
(* answers, late or not at all.                                            *)
(***************************************************************************)
EXTENDS Integers, FiniteSets, Sequences

CONSTANTS
    Tickers,
    DailyTTL, IntradayTTL,   \* _ttl_for_interval
    MaxEntries,              \* what MAX_CACHE_SIZE_MB holds
    TargetEntries,           \* and what the sweep leaves of it
    MaxLag,                  \* bound: how late a provider's newest bar is
    MaxOthers,               \* bound: frames other processes write
    MaxTime                  \* bound: the clock stops here

ASSUME MarketDataAssumption ==
    /\ IsFiniteSet(Tickers)
    /\ DailyTTL \in Nat /\ IntradayTTL \in Nat
    /\ MaxEntries \in Nat \ {0} /\ TargetEntries \in 0..MaxEntries
    /\ MaxLag \in {0, 1} /\ MaxOthers \in Nat /\ MaxTime \in Nat \ {0}

Times     == 0..MaxTime
Intervals == {"1d", "intraday"}
Key       == Tickers \X Intervals
Daily(t)    == <<t, "1d">>
Intraday(t) == <<t, "intraday">>

VARIABLES
    clock,   \* starts at 1: a fetched_at of 0 is none
    disk,    \* the cache directory
    floor,   \* _daily_fetched_floor of this process; 0 is no floor
    others   \* frames other processes may still write

data == <<clock, disk, floor, others>>

\* fetched_at, the time of the newest bar, and volume_feed in _TRUSTED_DAILY_VOLUME
Frame   == [fetched : Times, bar : Int, trusted : BOOLEAN]
Empty   == [fetched |-> 0, bar |-> -1, trusted |-> FALSE]
IsEmpty(frame) == frame.bar = -1

Entry   == [frame : Frame, expires : Nat]
NoEntry == [frame |-> Empty, expires |-> 0]
Stored(d) == {k \in Key : d[k] # NoEntry}

TTL(k) == IF k[2] = "1d" THEN DailyTTL ELSE IntradayTTL

\* The items of a sequence that are in a set, in their order
Among(items, S) ==
    LET taken[n \in 0..Len(items)] ==
            IF n = 0 THEN <<>>
            ELSE IF items[n] \in S THEN Append(taken[n - 1], items[n]) ELSE taken[n - 1]
    IN  taken[Len(items)]

---------------------------------------------------------------------------
(* The cache.                                                              *)

\* get: an expired entry is a miss, and stays.
Get(k) == IF clock > disk[k].expires THEN Empty ELSE disk[k].frame

\* get_stale: whatever is there
GetStale(k) == disk[k].frame

Removed(d, gone) == [k \in Key |-> IF k \in gone THEN NoEntry ELSE d[k]]

\* evict_expired
Unexpired(d) == Removed(d, {k \in Stored(d) : clock > d[k].expires})

\* _enforce_size_limit: expired entries first, then the oldest files until the
\* target is met.  Files of the same age go in any order.
Sweeps(d) ==
    LET kept   == Unexpired(d)
        older(j, k) == kept[j].frame.fetched < kept[k].frame.fetched
    IN  IF Cardinality(Stored(d)) <= MaxEntries THEN {d}
        ELSE IF Cardinality(Stored(kept)) <= MaxEntries THEN {kept}
        ELSE {Removed(kept, gone) : gone \in
                {g \in SUBSET Stored(kept) :
                    /\ Cardinality(g) = Cardinality(Stored(kept)) - TargetEntries
                    /\ \A j \in g, k \in Stored(kept) \ g : ~older(k, j)}}

\* set: the last writer wins, and every write sweeps.
Set(k, frame) ==
    disk' \in Sweeps([disk EXCEPT ![k] = [frame |-> frame, expires |-> clock + TTL(k)]])

---------------------------------------------------------------------------
(* The fetch.                                                              *)

\* _cached_frame_usable
Usable(k, frame) ==
    k[2] = "1d" => /\ floor # 0 => frame.fetched >= floor
                   /\ frame.trusted

\* The first look of fetch_ohlcv, and of fetch_ohlcv_batch.
Hit(k) == ~IsEmpty(Get(k)) /\ Usable(k, Get(k))

\* What a provider answers now.  The frame is stamped when it arrives; the age of its
\* newest bar is read of intraday frames only.
Answers(k) ==
    LET lags == IF k[2] = "1d" THEN {0} ELSE 0..MaxLag
    IN  {[fetched |-> clock, bar |-> clock - lag, trusted |-> TRUE] : lag \in lags}

\* The providers answer with a valid frame, which is cached.
Downloaded(k, frame) == frame \in Answers(k) /\ Set(k, frame)

\* They time out, fail or send nothing that validates: the cached frame, however
\* old, or an empty one.
FellBack(k, frame) == frame = GetStale(k) /\ UNCHANGED disk

\* require_daily_bars_fetched_since, which only ever rises
RequireDailyBarsFetchedSince(ts) == floor' = IF ts > floor THEN ts ELSE floor

---------------------------------------------------------------------------
(* The rest of the installation, and time.                                 *)

\* Another process downloads a frame, and sweeps the shared directory.
OtherProcess(keys) ==
    /\ others > 0 /\ others' = others - 1
    /\ \E k \in keys : \E frame \in Answers(k) : Set(k, frame)
    /\ UNCHANGED <<clock, floor>>

Tick ==
    /\ clock < MaxTime
    /\ clock' = clock + 1
    /\ UNCHANGED <<disk, floor, others>>

\* The cache holds what earlier days left under some keys: nothing, a frame whose
\* volume is not consolidated, or one from before fetch times were recorded.
Old(k) ==
    [frame : [fetched : {0}, bar : {0}, trusted : IF k[2] = "1d" THEN BOOLEAN ELSE {FALSE}],
     expires : {1}]

DataInit(keys) ==
    /\ clock = 1
    /\ floor = 0 /\ others = MaxOthers
    /\ disk \in [Key -> {NoEntry} \cup UNION {Old(k) : k \in keys}]
    /\ \A k \in Key : disk[k] = NoEntry \/ (k \in keys /\ disk[k] \in Old(k))

===========================================================================
