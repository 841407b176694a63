# Verification of the trading system

TLA+ models of the parts of this repository where something can go wrong between
two steps: the live-position life-cycle, the limits on new entries, the circuit
breaker shared by several processes, the background scan registry, the scans on
their shared price cache, the movers worker with its alerts, movers discovery and the
providers whose answers are remembered (halts, market caps, earnings dates, price
frames, ticker information, headlines), the
portfolio gate with its persisted peak, the portfolio simulation of the backtest, and the
chain from a price frame to an order: scores, signals, plans, the replay of day trades and
the pre-market screen.
TLC checks the models on small instances; TLAPS proves the core theorems for every
value of the constants.

## 1. The system

The program scans US stocks, scores them, builds trade plans and, when asked,
executes them at Alpaca. Most of it is a sequential pipeline over market data.
What keeps state, runs concurrently or must survive a failure is listed first.

| Component | State | Operations | Interacts with |
| --- | --- | --- | --- |
| Executor and monitor, `src/alpaca/executor.py` | local variables of two threads | `execute_trade_plan`, `monitor_positions` every few minutes | tracker (shared object), broker (REST), breaker (file), portfolio |
| Position tracker, `src/alpaca/position_tracker.py` | records per ticker, realized-P&L ledger, entries per day; a JSON store | one mutator per event, each ends in `save()`; `load()` at start | called by both threads under one `RLock`; the dashboard reads the store |
| Order calls, `src/alpaca/orders.py` | none (a cached client) | place, cancel, fetch | Alpaca |
| Circuit breaker, `src/alpaca/circuit_breaker.py` | halt flag and recent broker errors in a JSON file with a lock file | `halt`, `resume`, `record_*`, `load`, `blocks_entry` | executors, dashboard workers |
| Scan registry, `src/scanner/scan_jobs.py` | dictionary of jobs under a lock | `start_scan`, `get_job`, `latest_job`, thread body | dashboard request threads, scan threads |
| Daily scans, `src/scanner/daily_scan.py` | the frames of the scan | `run_daily_scan` | cache, providers, a pool of threads |
| Intraday pipeline, `src/scanner/intraday_scan.py`, `candidate_queue.py`, `intraday_consumer.py` | cursor, bounded deque, last-seen times, eligibility verdicts | scan a batch, push, drain, evaluate | one loop in `cmd_intraday_scan`; cache, providers |
| Price frames, `src/data/cache.py`, `fetcher.py` | files with an expiry; the floor on daily frames | get, put, sweep; fetch with fall-back | every fetch, several processes |
| Movers worker, `src/scanner/movers_worker.py` | ring of recent alerts, published snapshot | a cycle: wire, discovery, monitor, outcomes, snapshot, sleep | the five components below, the dashboard |
| Alerters, `src/scanner/movers_alerts.py`, `src/catalysts/catalyst_alerts.py` | marks per subject | process, poll | Telegram |
| Monitor, `src/scanner/movers_monitor.py` | watch set, trading day | watch, evaluate | the stream follows its watch set |
| Alert outcomes, `src/observability/alert_outcomes.py` | outcome file under a file lock | record, resolve | price fetcher, workers of other processes |
| Price stream, `src/streaming/price_stream.py` | subscriptions, last prices, a websocket | start, reconnect, set_symbols, on_trade | Alpaca, a thread of its own |
| Backtest, `src/backtest/engine.py` | cash, open positions, closed trades, curve | one date after another | price histories |
| Portfolio gate, `src/risk/*` | equity high-water mark in a JSON file with a lock file | observe the equity, evaluate a candidate | executor, dashboard workers |
| Movers discovery, `src/scanner/movers.py`, `movers_providers.py`, `premarket_movers.py` | health per thread | ask the providers of a list, merge, guard, filter, rank | worker, dashboard, asset list |
| Asset list, `src/data/security_type.py` | cached list, back-off, flag of the last lookup | is_derivative | every discovery thread |
| Halts, `src/data/halts.py` | cached feed, back-off, flag of the last fetch | active_halts | discovery, catalyst alerts |
| Market caps, `src/fundamental/market_cap.py`, `fetcher.py` | last known caps, share counts, SEC ids, back-off | fill a missing cap | scan threads |
| Earnings dates, `src/catalysts/earnings_calendar.py` | dates in memory and in a JSON file | refresh (a command), look up | RiskGuard, the scheduler's command |
| Signals and plans, `src/signals/*`, `src/features/*`, `src/technical/*`, `src/macro/regime.py` | the feature store | score a frame, live or for a past bar; size a plan | daily scans, consumer, backtests |
| Day trades, `src/backtest/intraday_engine.py` | one position on a walk over a tape | decide at a close, fill at the next open, manage | the three intraday entries |
| Pre-market screen, `src/scanner/premarket_scan.py` | the snapshots of a scan | a pool builds snapshots, gates and ranks | cache, providers, news, earnings dates |
| Screening, research, notifications, configuration | none that outlives a call | pure or I/O | |

`PROJECT.json` lists every component with its status. The hard behaviours, each at
its line, are its "hazards". What makes each stateful component correct:

* **Position life-cycle**: no share is lost, sold twice or left without an exit; the
  ledger behind the loss limits books each fill once; a record closes only when its
  shares are gone; a restart continues from the store.
* **Entry limits**: never more positions, entries a day or orders per ticker than
  configured, although account and tracker are read at different times.
* **Circuit breaker**: a halt is not overwritten, no error is lost, a trip is
  reported once, at most the entry already in flight passes a halt, of processes that can
  read the file.
* **Scan registry**: one scan at a time, a bounded registry, no lost result, no job
  that never ends.
* **Scans**: a scan decides on bars fetched during that scan; a plan rests on recent
  bars; a candidate is queued once per window; every ticker gets its turn.
* **Movers worker**: no subject is told twice within its time to live, across pruning,
  caps and failed cycles; the published history and the outcomes of alerts survive
  deaths and other processes; every outcome settles; a stand-down concerns today's
  names; one socket.
* **Portfolio gate**: the file's peak falls only to who cannot read it; a drawdown from a saved
  peak halts entries although the lock or a save failed; what is let through fits the cap on its
  whole cluster.
* **Discovery**: an outage is named and a quiet market is not called one; price, move
  and direction of a name are one provider's row; nothing found disappears unaccounted.
* **Frames, information, headlines**: a frame is the whole history of one symbol on one
  tape; information is from where it says and tells which providers failed; a headline
  counts for a symbol it names, inside its window, however long it was cached.
* **Providers' memory**: halts and caps are no older than their windows; no plan passes
  the earnings-week rule against the calendar's date; an interrupted refresh loses
  nothing it had saved.
* **Backtest**: the curve is the initial capital plus the reported trades; a slot that
  a close frees is not used before it.

* **Signals and plans**: a replayed bar sees nothing of today; features are of the frame
  they score; the composite lies among the scores that count; a plan keeps its order of
  prices and its limits.
* **Day trades**: flat by the end of the session, no exit better than its bar, stop before
  target within a bar.
* **Pre-market screen**: every snapshot is as of the scan's one instant, like is compared
  with like, and rails fail closed on what nobody knows.

## 2. Modules

| Module | What it is |
| --- | --- |
| `PositionTracker` | a `LivePosition` with its part of the ledger, and each mutator as an operator from record to record |
| `PositionLifecycle` | extends it: broker, executor, monitor thread, save, crash for one position |
| `PositionBook` | the abstract specification of one record: entered, filled once, sold down, closed |
| `PositionProperties` | invariants, the refinement of `PositionBook`, liveness |
| `SumLemmas` | loops that end, sums over finite sets, least and greatest members, for the proofs |
| `PositionProofs` | the inductive invariants of the record and of the ledger, and the theorems |
| `MCPositionLifecycle` | fault budgets for TLC |
| `EntryGate` | many tickers, no shares: `execute_trade_plan` with RiskGuard's limits against account, tracker, monitor, midnight and restart |
| `EntryGateProofs` | the invariant of records and counts, and the theorems of the limits |
| `CircuitBreaker` | executors and operators sharing the breaker's file |
| `PortfolioRisk` | the hard limits of the risk engine, the cluster by union-find and the scaled size, as operators |
| `PortfolioGate` | extends it: gates and dashboard requests raising the peak under its file lock |
| `SharedState`, `MCSharedState` | the two shared files, breaker and peak, side by side |
| `SharedStateProofs` | the invariants of the breaker's transactions and reports, of the peak, of the halt and of what the union-find of the gate computes, and the theorems of each file and of both |
| `ScanJobs` | request threads and scan threads on the registry |
| `ScanJobsProofs` | the invariant of the registry and the theorems |
| `MarketData` | the price cache, the floor on daily frames, and a fetch: hit, download, fall-back |
| `DailyScan`, `IntradayPipeline` | extend it: one daily scan after another; the loop of scanner, queue and consumer |
| `SignalScores` | technical, fundamental, sentiment and regime scores, as operators on readings that may be missing |
| `SignalPlan` | extends it and `MarketData`: signals live and replayed on the feature store, and the plan made of one |
| `IntradayBacktest` | extends it and `DailyBacktest`: three intraday entries decided, filled and managed on a tape |
| `PremarketScan` | extends `SignalScores`: the pre-market screen and its pool |
| `BotModes`, `MCBotModes` | a process in one of six modes: daily scans, the intraday loop, a backtest, signals and plans, a replay of day trades, a pre-market screen |
| `OncePerTtl` | the abstract specification of an alerter: a subject at most once per time to live, a cap per run |
| `MoversAlerts`, `MoversMonitor`, `AlertOutcomes`, `PriceStream` | the parts of the movers worker: state and operations, without control |
| `MoversWorker` | composes them into the worker's cycle, with deaths, restarts and another worker; its properties |
| `DailyBacktest` | the portfolio simulation, in integers |
| `BotModesProofs` | the invariants of a process in each of its modes (slots and books of the simulation, cache, scans and loop, screen, signals and plans, day trades), and the theorems |
| `AssetList` | the list of assets with its cache, lock and back-off |
| `MoversDiscovery` | extends it: one discovery after another by several threads, from the provider chain to the ranked list and its health |
| `HaltFeed`, `MarketCap`, `EarningsCalendar` | halts, market caps and earnings dates as they are remembered, with what they promise |
| `BarsFeed` | price frames from paged requests for many symbols, and the provider cascade of each symbol left over |
| `TickerInfo` | extends it: ticker information under its two cache keys, and the report on the providers |
| `NewsFeed` | headlines from three providers, their cache and their classification, per symbol and for the whole wire |
| `MarketSources`, `MCMarketSources` | the seven of them side by side |
| `MarketSourcesProofs` | the invariants of halts, caps, earnings dates, price frames, ticker information and headlines, and the theorems |

### PositionLifecycle

Variables and what they stand for:

* `entry`, `exits`: the entry order and the OCO exit groups at the broker. An exit
  group is one record; `tp` and `leg` are what its take-profit parent and its stop
  leg sold. `Accepts` is Alpaca's reservation of the shares of open sell orders,
  which `orders.place_oco_exit` describes.
* `mem`, `disk`: the record in `PositionTracker._positions` and in the JSON store.
  `Commit` is `save()`: an atomic replace, or an error that is logged and leaves
  memory ahead.
* `main`: where `execute_trade_plan` is after its checks. `mon`: where the monitor
  thread is: its next step, the tranche, the loop it is in and its local variables.
* `left`: the fault budget. `torn`: a history variable, see the first finding.

Each broker call and each save is an action, so the broker may move and the process
may die between any two. Two reads are merged with what follows them (`FetchEntry`
closing, `CheckExit`): they only act on orders that have ended, whose answer cannot
become stale. A failed call (`api`) has no effect; a lost reply (`lost`) has its
effect and fails. For fetches the two are the same.

Prices are left out. What the ledger must get right is which shares it has booked,
so `booked` counts shares per exit order. `_allocate_exit_tranches` is modelled with
Python's rounding of ties to even, in integers; it agrees with the float code for
every share count up to 200 000.

Not modelled here: records in the legacy exit mode; `load()` of a corrupt store; an
exception raised by `save()` itself (its directory cannot be made) after memory has
changed; an OCO that the broker refuses for ever because its target is not above its
stop, which a trade plan does not contain.

### EntryGate

For every ticker, what the broker has (`account`) and what the tracker believes
(`mem`, `disk`), without shares. `ReadPortfolio` takes the holdings, `Approve` reads
the tracker later. `Approve` is one step although it reads the tracker three times:
only the executor opens records, and one that the monitor closes in between only
lowers the counts. `Refuse` stands for every other check of RiskGuard, the portfolio
risk engine and a dry run. `NoticeFill`, `NoticeDead` and `NoticeSold` are the
monitor's cycle seen from outside, one save each; `Loaded` is `load()` with its
pruning of closed records and of other days' counts.

`stray` marks what no record covers. The code says of these itself that they need
manual intervention; the position limit counts them from the moment the account shows
their shares. `behind` marks a restart that read a store which a failed save had left behind.

### CircuitBreaker

A call is a transaction: `Acquire` (lock file, reload), a `Commit...` (change, write,
release), or `Raise`. `load_default` reads without the lock. `stamp` is the time
`record_broker_error_and_check_trip` reads before it has the lock; `Stamped` is the
plain call, which reads it under the lock. `Die` ends a process anywhere; the kernel
releases its lock. The error list is a bag of timestamps. Time is a clock that ticks
at any moment.

`LoadFile` is `load()`, and it never raises: an instance that cannot read the file, or finds
it malformed or missing, stays what it was, which is healthy when it is new. That holds for
the load before a check and for the reload inside a transaction, whose save then replaces
what is in the file. `blind` marks an instance whose last load ended like this. The docstring
and `tests/test_circuit_breaker.py:52-62` document the fall-back ("malformed -> healthy"), so the
properties name it and hold of everything else: a halt ends in a resume or in the save of a
blind executor, an entry after a halt is counted when its check had read the file, and what
a blind save loses starts the count of saved errors anew. Each of the three other files has
the same branch, in `PortfolioGate`, `MoversWorker` and `AlertOutcomes`; section 4 says what
follows from it. The file exists from the start; what a process reads of a missing one is
what it reads of a malformed one.

### ScanJobs

One action per `with _lock` block. Between the blocks of one call lies what the lock
does not cover: `Register` then `Spawn` (the thread is started after the lock is
released, and starting it may fail), `LatestRunning` then `LatestFinished`. Job ids
are numbered in the order of `started_at`.

### MarketData, DailyScan, IntradayPipeline, BotModes

A frame is the time of its fetch, the time of its newest bar and whether its volume is
consolidated. `disk` is the cache directory: `Set` writes an entry and sweeps, `Get`
and `GetStale` read it, and `Sweeps` gives every order in which files of the same age
can go. A file is replaced atomically, so no read sees half of one. A provider answers
now, with a newest bar up to `MaxLag` old, or not at all; every failed, late or invalid
answer is `FellBack`. Time passes between any two steps; the boundary-aligned expiry of
intraday frames is one time to live per interval.

A daily fetch is two steps, `LookUp` and `Download`, of the scan's thread or of one of
its pool, and another process may write between them. `PreFilter` and `Analyze` choose
freely what passes and what becomes a plan. The intraday loop is one thread: a fetch
there is one step. `now` is the instant that `run_once` and `drain_once` read once and
pass on, so it lags behind `clock`. Sweep candidates and plans are left out: they take
the path of the others. Eligibility is modelled switched on. Each mode runs in a process of
its own, so a behaviour has one of them.

### MoversWorker

`pc` follows the loop of `run_worker`; every call into a collaborator that the outside
can interleave with is a step. `Poll` and `Discover` are the alerters' runs with
`record_alerts`; `RecordFired` and `Resolve` are the ledger's transactions; `Publish`
writes the snapshot. An exception goes to `publish`, as in the code. `Die` ends the
process anywhere: its memory and its thread go, a lock it held is released, and
`Start` loads the snapshot. The snapshot and the ledger are replaced atomically, so a
death leaves the old or the new content. Either may be unreadable: `Seeded` then gives a new
worker empty rings, and `Loaded` gives an update of the ledger no records; `seeded` and
`unread` mark the publication and the save that follow, which replace what was there.

A `Resolve` is a `BeginResolve` that takes the lock and the sweep, one `Fetch` per
record and an `EndResolve`; the peer's runs interleave with it. A name stands for one
subject of each alerter. A tick is an interval of the worker, no shorter than the
minute within which the ledger takes a repeated alert for the same (the default
interval is 60 s). `told` is a history variable. The values of prices, scores and moves
are left out: a horizon is pending, measured or unresolved. Two baselines of one alert
cannot differ, so `baseline` only says whether there is one.

### DailyBacktest

Prices are integers, fractions are percentages and a half is rounded to even as Python
does; a slipped price carries two more decimals, so cash and pnl are exact. Bars are
revealed as the simulation meets them: `Enter` and `Exit` choose the open, the close
and the ATR, `NoBar` is a date on which the ticker did not trade. Ranking is any order.
`Following` is the order of a date's steps. `trades` keeps the number, the sum and the
exits of the current date instead of the list.

### SignalScores and SignalPlan

A frame is a record of what its indicators end on: the closes, volumes and averages that the
scores read. A reading is a set of at most one number, so that NaN, None and a frame too short
are the empty set and every score says what it makes of it. Scores keep the code's ladders of
thresholds, in integers; a score that is a fraction says in what unit. A world is what every
source would answer now: news, social weight, insider trades, fundamentals, the index and the
VIX. `GenerateSignal` chooses a frame, a world and whether it is live or replayed;
`Disqualifiers` are the filters in their order; `Bundle` is the feature bundle from the store or
computed, under the key of the code (length, last bar, regime), and `age` is how long before the
signal it was computed. A tick is longer than the store's five minutes, so `FeatureTTL` is 0
ticks: a bundle serves at the instant it was made. `GenerateTradePlan` is `generate_trade_plan`
with the ATR stop, the rounded targets, the snap to a resistance and the size, and the
executor's smart price. The score of social posts is their bullish share; the headline's tone is
any number.

### IntradayBacktest

The tape is revealed bar by bar, each out of a set of shapes per slot. `Bar` is one turn of
the walk: fill at the open what the last bar decided, manage (`AtStop`, then `AtTargets`,
then `AtClose`), decide. The program has the whole frame and could look ahead; that every
operator takes the tape so far is how the model says it does not. The three rules are
`Breakout`, `SweepReclaim` and `Precursor`, with the engine's session by date in New York
and the features' by date of the index. `SweepPresent` and `CoilPresent` are the looser
tests of the scanner, `LiveStop` and `LiveEntry` what the consumer plans on the same
decision. A volume-weighted average is compared without dividing. A bar has its open and
its close between its low and its high (`Prices`): that is what a bar is, and nothing in
the code looks whether a provider's bar is one.

### PremarketScan

`StartScreen` fixes the instant, `BuildSnapshot` is one thread of the pool with a frame
that the provider or the cache gives and news that may fail, `RankScreen` the gates, the
scores and the two capped lists. `Clamped` cuts the session at the scan's instant before
anything is read from it. The exponential of a saturating score is a ladder of a few
points. A bar counts whole from its first minute: the one in progress at the scan's instant
can still grow until it is fetched, and so the instant is one of bars, not of trades.

### PortfolioRisk and PortfolioGate

A `scene` is an account: its holdings, which of them move together and the processes that look
at it. `ReadAccount`, `LoadDefault`, `Lock` or `LockFails`, `Observe`, `Release` and `Decide`
are the steps of one evaluation; the file may be raised by another process between any two, a
lock or a save may fail, and a process may die with the lock, which the kernel releases. Both
reads of the peak may fail: the first then gives none, and the one under the lock leaves the
process `blind`, which may save its own equity over a higher peak
(`tests/test_peak_equity.py:47-51`). `since` is the peak that was saved when the process last
read the file, which is what a drawdown is held against. `Evaluate` is the engine as a function
of the candidate, the holdings and the drawdown, with its early returns in order; money is in
whole units, and correlation is any symmetric relation instead of a number above a threshold.
`saved` is a history variable, the highest equity saved, or what a blind process saved over it.
A dashboard request is the same but for its decision, which it shows.

### AssetList and MoversDiscovery

A provider's answer is one of a few payloads: broken, empty, rows that cannot be read, or
rows of which some can. `Begin` to `Return` are the stages of `fetch_market_movers` (and
of its pre-market sibling) in their order: `BeginSource`, one `Ask` per provider of the
chain, `EndSource`, `Consider` each candidate (derivative, guard, filters), `Rank`,
`AnnotateHalts`, `Claim`; a pre-market run may also raise, which it records as an outage
(`PremarketFails`). A lookup of the asset list is interruptible, since it is cached
and backed off for all threads together. Ranks use the code's score with its saturation;
enrichment replaces the scores by any of a set. What was left out, and the row each name
came from, are what the properties read: `heard` is a history variable, the answers of a
run in the order they came, and `Quote` the first row of the first of them that lists a
name. It is assumed that a list is configured once (`DiscoveryAssumption`). A sort of the
code is a stable one: `Ordered` puts each item where the number of those before it says.

### HaltFeed, MarketCap, EarningsCalendar

In the first two, threads look something up through a cache without a lock across the
request, and share a back-off; the clock ticks during a request. A feed or a document is
what the exchange or SEC had when the request was answered. In the calendar one refresh
at a time fetches ticker after ticker and saves a checkpoint now and then; the executor's
reader reloads when the file's version differs from the one it has read. `unread` marks a
reader whose last read failed. Days are counted as the code does: `DaysTo` is the provider's
whole days from the moment of the call, so that the announced day may be one day more than it
counts, and `DateOf` adds them to the day on which the refresh began (`asOf`), which midnight
may have passed since. A plan may bring a number of days of its own (`PlanDays`); `Propose`
then judges that and never asks the calendar.

### BarsFeed, TickerInfo, NewsFeed

`MarketData` is about how old a frame is; `BarsFeed` is about what is in it. A row is a day of a
symbol on a tape, and a request for a chunk of symbols is one action per page: `MorePages`,
`LastPage`, `Refused` (the consolidated tape, HTTP 403, on any page) and `ChunkFails`. What is
left over goes through `Providers`, one action per answer or failure, several symbols at a time,
beside another process on the same cache. A chunk's answer is one list of rows, by symbol and
then by time, and a page is a stretch of it; the rows that have arrived are kept per symbol.
Polygon counts as configured. The request for one symbol alone follows no page tokens; its limit
of 10,000 rows exceeds every daily history that is asked for, so it is taken as whole. A call
that timed out and still runs outside the semaphore is left out.

In `TickerInfo` a payload is where it came from and which of two fields it has. `Diagnose`
is one step. Where the ticker had no information it asks its providers once more
(`AskAgain`): the report says what the first look gave, and what a provider answers now is
cached.

A story of `NewsFeed` crosses the wire at a time of its own, is dated right, not at all or
in the future, names some symbols, is attached to some, and matches the patterns of some
tiers; `classify_headlines` is `Verdicts`, the subject test and the two windows. What the
alerter does with a story is `MoversAlerts`'.

### SharedState and MarketSources

Each puts components with no variable in common side by side, in one specification of
which a behaviour follows one: `watched` and `source` say which, and the others rest in
one state. Interleaving them would multiply the states and show nothing: no step of one
reads or writes a variable of another.

## 3. Runs

| Run | Instance | Shows |
| --- | --- | --- |
| `position_durability` | 4 shares, 6 exit groups, any four of one each of failed call, lost reply, failed save, crash, dead group | type and share accounting, ledger bounded by what was sold, exits that match tranches, a close that leaves nothing, refinement of `PositionBook` |
| `position_progress` | 4 shares, 6 groups, one each of crash, dead group, group dead after its stop part-filled, both legs filled, `add_position` failing | liveness under `FairSpec` |
| `position_torn_resize` | a dead group and a crash | finding 1 |
| `position_partial_entry` | no fault at all | finding 2 |
| `entry_gate` | 3 tickers, 2 slots, 2 trades a day, 2 days, any 2 faults | position limit, daily limit, no second order for a ticker |
| `circuit_breaker` | breaker: 2 executors, 1 operator, threshold 2, window 1, 3 instants, 2 errors each, 1 fault (a load, a save or a call), any number of deaths. Peak: a gate and 2 dashboard requests, 3 equities, 2 moves, 2 faults, unreadable files among them. Cluster: 3 holdings in 2 orders and a candidate, every relation between them | of processes that can read the files: no lost error, no lost halt, one report per trip, one entry after a halt; a peak that never falls, drawdown halts; clusters within their cap |
| `breaker_halt_lost` | 1 operator, one failed write | finding 3 |
| `scan_jobs` | 2 clients, 4 scans, registry of 2, one thread that cannot be started | single flight, bound, results kept, lookup, end of scans |
| `market_scans` | scans: 2 tickers and an index, a cache that sweeps at 1 frame, one frame of another process, a queue of 2, 2 ticks. Backtest: 3 tickers, 2 slots, 3 dates, closes below the stop, between the targets and above, costs. Signals: 7 frames, 9 worlds, a store of 2 whose entries live for less than a tick. Day trades: 13 bars in 2 sessions, up to 3 shapes each, 3 rules. Pre-market: 16 mornings of 3 names, 2 screened, 5 minutes, both profiles | fresh bars and recent plans, one entry per window, coverage of the universe; balanced books, slots free at the open; signals without look-ahead, sound plans, day trades as they could have been traded, a screen of one instant |
| `daily_bars_stale` | one process, failing providers | finding 4 |
| `movers_worker` | 2 names, 6 ticks of which 3 a trading day, one fault; three setups: movers and outcomes beside a peer, catalyst alerts and outcomes, movers with monitor and stream | alerts once per time to live, history, final and settled outcomes, today's stand-downs, one socket |
| `market_sources` | discovery: one thread, 2 runs, 2 providers of 2 lists and 2 before the open, 3 names, 3 sets of credentials. Halts: 2 threads, 1 name, 5 ticks. Caps: 2 threads, 1 company, 5 ticks, 2 failures. Calendar: 2 names, plans of the one that both refreshes ask for, 2 days, 2 refreshes, 1 fault. Bars: 3 lists of up to 3 of 5 symbols, chunks of 2, pages of 1 row, one retry. Information: 2 calls. News: 5 stories, 2 symbols, 3 times | honest health, quotes of one row, nothing vanishes, memory within its windows, the earnings-week rule, kept dates, whole frames, traced information, earned tiers |

Why the bounds are enough. Four shares make tranches of 1, 2 and 1, so one tranche can
part-fill and an entry can fill partly to any cut of the tranches, zero-share tranches
included. Six exit groups are three tranches and three replacements; no action is blocked
by `MaxExits` in `position_durability`, because at most one group dies and each of the
lost reply, failed save and crash can orphan one. Three tickers for two slots are the
smallest case in which the sum and the larger of the broker's and the tracker's counts
differ. Two errors per executor reach the threshold in every mix of processes, and three
instants let a window expire and fill again; one fault is enough for a load that fails before
a check or inside a transaction. Four scans in a registry of two exercise the
trim twice. Two slots for three tickers, and three dates, let a position open, sell parts
at two targets, close and free its slot for the third ticker. The peak moves twice, up and
down, and each of three processes may see it at any of its steps; four names have every
chain of links. Two providers of two lists give one name two rows with different moves,
one of them suspect, and a limit of one leaves names out. The clocks of halts and caps
outlast each cache and each back-off once, and two days let an earnings date enter its
window and pass. One row a page cuts a chunk between two symbols and inside one, and the
lists hold two spellings of one share class, an index and a stock the single venue does
not trade. The clock of the news lets a cached story outlive its window. A directory that
holds one frame sweeps at every second one that is written, with either the one to go, and
a queue of two with two tickers of two candidates overflows. In the worker, a time to live
of two ticks ends twice within the clock, a cap of one cuts every run with two names, two
records let a third push one out, and the day changes once, between two discoveries. The
seven frames have every length between the windows, a price under and over each rail, an
indicator missing and a last bar that changed; a store of two evicts, and a tick between two
signals of one frame expires its entry. The tape has bars
that touch the stop, a target, both or neither, open beyond them, and are the last of
their session, with a date of the index that changes in the evening. The mornings have a
name just outside of most gates, and the clock passes the scan's instant and the open
while the pool works. The switches of the worker are split over three setups because what
they change does not meet: catalyst and movers alerters share nothing but the ring and the
ledger, and the stream follows the watch set only.

Deadlock checking is off in every run: a position ends closed, the clock and the
budgets end, and the system may stop there.

Each property has a mutant in `PROJECT.json`: a definition with a plausible bug that makes
the property fail in the same run; some conjunctions have one for several parts. They
stand next to the definition they mutate, marked "Mutant".

### Fairness

`PositionLifecycle!FairSpec` assumes weak fairness of the executor and of the monitor
thread as wholes: `_monitor_loop` is an endless loop whose body catches every
exception, and `execute_trade_plan` does not wait for anything. Faults are bounded,
so a call that is retried succeeds in the end. Nothing is assumed of the broker: no
fill, no expiry. The liveness properties therefore start from what has already
happened at the broker. `ScanJobs!FairSpec` assumes that a request thread that has
registered a job goes on, and that a running scan ends: `_run` has no loop of its own
and the scan's network calls have timeouts. `BotModes!FairSpec` assumes that the
intraday loop goes on: `run_forever` catches every exception of a cycle, and nothing in
it waits for another thread. `MoversWorker!FairSpec` assumes weak fairness of the
worker as a whole, whose cycle catches every exception, whose waits have timeouts and
which is started again after a death, and of the other process while it holds the
ledger's lock, which its death releases. Nothing is assumed of the stream, the
providers or the news. The clock of the model ends, and the worker goes on cycling at
its last tick; records fired so late that their expiry lies beyond it do not exist
(`LastNews`). The other modules have safety only.

## 4. Findings

1. `position_torn_resize`: a dead exit group that had part-filled is retired by two
   saves; a crash between them books the fill twice (`executor.py:919-924`). The
   invariants `BookedOnlyWhatSold`, `ExitMatchesTranche` and `CloseSettles` hold apart
   from this one window, which `torn` marks.
2. `position_partial_entry`: an entry that ended after a partial fill closes its record
   with shares in the account (`executor.py:691-696`).
3. `breaker_halt_lost`: a halt that could not be written is acknowledged
   (`circuit_breaker.py:147-153`, `dashboard.py:5252-5280`).
4. `daily_bars_stale`: a daily scan whose providers fail plans on a cached frame from
   before it began, because the fall-back does not apply the floor
   (`fetcher.py:1203-1210`, `1219-1230`). `ScanBarsAreFresh` holds for every frame that
   does not come from the fall-back.

More weaknesses, which no run shows: a rejected entry keeps its record pending; a scan
whose thread cannot be started keeps the registry's one slot; a candidate that a full
queue drops stays suppressed until its window ends; a headline that cannot be classified
ends every cycle within its lookback before discovery and monitoring, and alerts sent
before it are in neither ring nor ledger; a late tick leaves the price of an unwatched
name in the snapshot. Of the providers' memory:

* A pre-market chain in which nobody answers is counted as a source that answered with
  nothing (`movers.py:793-799`, `premarket_movers.py:376-378`), against `movers.py:149-153`.
* A discovery run says whether it judged derivatives by name from a flag that the last
  lookup of any thread has set (`movers.py:737`, `security_type.py:155`).
* A halt feed that is not XML is parsed into no halts, cached as such and vouched for by
  `last_fetch_ok` (`halts.py:122-126`, `180`), against `halts.py:205-207`.
* "No share count" of SEC is kept for a day although one of its two concepts was skipped
  in a back-off that ended or began between them (`market_cap.py:206-212`).
* A calendar whose read failed stays empty until the file changes again
  (`earnings_calendar.py:84-94`, `112`), and a refresh that starts from a failed read
  replaces every date it was not asked for.
* A refresh stores a date a day early when it is asked for after midnight, since `as_of` is
  fixed when it begins (`earnings_calendar.py:155`, `171`), and when the announcement comes at
  an earlier time of the day than the call, since the provider's days are rounded down
  (`trade_plan.py:289`). The rule then ends a day before the announcement.
* A plan with `days_to_earnings` of its own, taken when it was made, is judged by that number
  although the file has a later word (`executor.py:302-304`).

Of files that cannot be read, none of which stops the process that meets them:

* A breaker file that cannot be read is a healthy breaker: entries go on through a halt, and
  the next record of an error saves the halt away, without a resume (`circuit_breaker.py:110-120`,
  `185-187`). A docstring and a test document the first half.
* An unreadable peak is no peak: no drawdown halts, and the next observation saves the current
  equity as the peak (`peak_equity.py:63-68`, `91-92`).
* A worker that cannot read its snapshot at its start publishes over the history
  (`movers_state.py:128-133`), and an update of the outcome ledger that cannot read it saves
  over every outcome, settled ones included (`alert_outcomes.py:128-132`).

Of signals, day trades and the screen:

* A first target moved to 99.5 % of a resistance can lie at or below the entry
  (`trade_plan.py`), and nothing rejects a stop at or below zero. Where the second target is
  under a dollar, the first one, rounded to a cent, can be at the second: the proof of
  `PlansAreSound` does not go through without that exception.
* The regime holds back a strong buy only as long as it has a weight and sentiment is on its
  scale, which a news score above 100 leaves. `RegimeHoldsBack` says so.
* `score_volume` can be -15 and a news score above 100 although both are out of 100; a VIX
  nobody could fetch scores higher than one of 20, although a regime of `BULL_RISK_ON` stays
  out of reach.
* Two histories of one length that differ before their last bar share a feature bundle
  (`signal_features.py:148`).
* On a pure rise the RSI is NaN and scores as none. `current_session_bars` cuts by the date
  of the index, so that in winter the last evening bars join the next day's session, while
  the engine cuts by the date in New York.
* A name without a price or a gap is a "near miss" of one gate although no other was looked
  at (`premarket_scan.py:388`). A frame the cache kept from before the scan's instant lowers
  the relative volume, since the sessions before are counted through the instant.

## 5. Proofs

`PositionProofs`, checked by TLAPS, for every `Shares`, `MaxExits` and `Budget` that
satisfies the named assumptions of the modules:

* `TypeCorrect`: `Spec => []TypeOK`.
* `SharesAddUpHolds`: `Spec => []SharesAddUp`.
* `Implementation`: `Spec => ImplementsBook`, the refinement of `PositionBook`.
* `AllocationAddsUp`: the three tranches are naturals that sum to the shares.
* `BookedOnlyWhatSoldHolds`, `ExitMatchesTrancheHolds`, `CloseSettlesHolds`: the ledger and
  the exits, apart from the window of the first finding (`torn`).

Neither `TypeOK` nor `SharesAddUp` is inductive. That `shares_open` stays the sum of
the tranches needs to know that a pending record has all its tranches open (or
`MarkEntryFilled` would set it to more than is unsold), and that the monitor's step
fits the status of the record it is working on (or a stale step would resolve a
tranche of a closed record). `RecordInv` adds exactly this: `RecordOK` for memory and
for the store, `MonitorFits`, `MainFits`, and from the broker only that a working
order has shares left. `RecordInvariant` proves it inductive with one lemma per
action, grouped as `Next` is; `CommitWrites` states what a save does once for all of
them. The refinement maps a record to its status, its filled size and `shares_open`;
each mutator is one abstract step (`ResolveIsSale`, `ResizeIsSale`, `OcoIsResave`,
...) and each broker step a stutter.

`LedgerInvariant` is about the shares behind the loss limits. None of its three properties is
inductive: that the ledger books only what sold needs to know that an order which is still
named by an unresolved tranche has not been booked (or the next cycle would book it again),
and this is broken for two saves, between which only the monitor's own next step may see it.
`LedgerInv` has `LedgerOK` of memory and of the store (nothing offered before the record is
active, booked and open shares make up the fill, orders belong to one tranche and fit it),
`BookedIsCleared` (a booked order is cleared before the monitor does anything else) and
`NewOrderFits` (the order it is about to record is new). Exit groups only grow (`Grow`), so a
record that fits what they sold keeps fitting. All of it is waived once `torn` is set, which
is the window of the first finding and no more. The ledger's total is a sum over all exit
orders; `SumLemmas` has what sums over a finite set obey.

`BotModesProofs` is about a process in any of its modes, for every universe, queue, window,
price, size, cost, frame and tape that satisfy the assumptions of the modules it is made of
(`ModesAssumption`, `MarketDataAssumption`, `DailyScanAssumption`, `PipelineAssumption`,
`BacktestAssumption`, `SignalPlanAssumption`, `FramesAssumption`,
`IntradayBacktestAssumption`, `PremarketAssumption`). It proves every property of the run but
`UniverseIsCovered`, which is liveness:

* `SlotsFreeAtTheOpenHolds`. The property is not inductive: an entry keeps it only if the
  open positions and `slots` together are within the limit, and an exit only if the position
  it closes was open, so that a position does nothing but move to today's trades. `SlotsInv`
  adds both, phase by phase. The argument needs nothing about prices, sizes or cash.
* `BooksBalanceHolds` is all about them: every entry moves from the cash into a position what
  the position then carries, every sale adds to what the position carries exactly what it
  adds to the cash (`BookedSettles`, for any price, gap, target and cost), and a position that
  has sold its shares moves to the trades what it carries. `BooksInv` adds the types, that a
  position without shares is none, and that an entry is of a ticker that is not open. Both
  are theorems of the simulation by itself and, by `ProcessSimulates`, of a process.
* `BarsAreRecentHolds` and `QueuedOncePerWindowHolds`, from `ProcessInv`. Its parts are
  `DataInv` (a frame in the cache has a newest bar there is, whoever wrote it), `ScanInv` (a
  scan that asks for the day's bars keeps the floor of its process over its own start, so
  that a cached frame it may use is one of its own, although another process writes and
  sweeps meanwhile) and `PipelineInv` with `MarksOK`: the mark of a candidate is gone from the
  queue only when its window has passed, for the instant of the cycle that goes on, which lags
  behind the clock, and for all later ones.
* `ScreenIsHonestHolds`, from `ScreenInv`: every snapshot is one that could have been built at
  the scan's own instant (`AsOf`), whatever the clock and the cache did meanwhile, and the
  candidates are the first of the ranked rows that pass the gates. What the screen promises of
  two mornings compared (`SnapshotsAgree`) follows from this and does not carry itself.
* `SignalsAreHonestHolds`, from `SignalInv`: a bundle in the store is of the frame its key was
  made of (`StoreKeeps`), and a signal is of a frame too short, of one filtered out, or scored
  on a bundle of the same key no older than its time to live (`SignalIsMade`). That the
  composite lies between the scores that have a weight is a fact about weighed sums
  (`SumOfWeighed`), whatever the weights; that a bear regime keeps it under a strong buy follows
  from a macro score under 10 % of full.
* `PlansAreSoundHolds`, inductive together with `SignalInv`; its arithmetic is in `SharesFit`,
  `TargetsRise` and `LimitIsCapped`.
* `DayTradesAreHonestHolds`, from `DayInv`: what the exits of a position sold and what is left
  are ten tenths, it has sold at targets only as long as something is left, no two levels are
  the same (or an exit of one would be taken for the other's in the set of exits), and every
  exit is within its bar (`ExitHolds`). Each of the stop, the three targets and the close keeps
  it (`StopKeeps`, `TargetKeeps`, `CloseKeeps`). What a trade lost is bounded by weighing the
  prices of its exits, and its costs by `CostsAreALoss`. That an entry is one the scanner's
  looser test lets through is `EntryIsSeen`.

`SharedStateProofs`, of the gate, for any executors and dashboard workers, accounts and budgets
that satisfy `GateAssumption`: `PeakIsKeptHolds`, `GateSpec => []PeakIsKept`. A file that holds
the highest equity ever saved is not inductive by itself: a save keeps it only if the tracker
that saves has reloaded the file since it took the lock, and nobody else has saved in between.
`PeakInv` adds this: who is inside the transaction holds the lock, and the peak in its memory is
the file's, unless it could not read it and is `blind`, whose save starts `saved` anew. The
other processes' copies may be of any age. `DrawdownHaltsEntriesHolds`, `GateSpec =>
[]DrawdownHaltsEntries`, is where they matter. `HaltInv` says of each process that its peak
covers `since`, what was saved when it last read the file, on every path through load, lock,
save and their failures, and `HaltsFromHigher` that a higher peak halts whatever a lower one
does. `PeakRestrainsHolds` is the run's invariant, both together. `DecisionsAreSoundHolds`, for
any book, short holdings included, any correlation, cap and gate: what is let through fits the
cap on the candidate's whole cluster. The engine's union-find is a recursive function over the
pairs; its invariant is that the parents are a forest (`Rooted`): every name leads to the root
of the class that the pairs looked at so far put it in, by way of ever lower ranks, so that
climbing ends. `MembersAreTheCluster` concludes that, whatever the order of the holdings, the
members are the least set that has the candidate and is closed under correlation, and
`EvaluateFits` that a scaled size fits what the cap leaves of it. `DecisionInv` carries this
from `Decide` on. It is assumed that a candidate's value is its shares at its price
(`GateAssumption`).

`EntryGateProofs`, for any finite set of tickers and any limits (`TickersAssumption`,
`LimitsAssumption`): `EntriesAreCountedHolds`, `NoDoubleEntryHolds` and
`PositionLimitHolds`, every property of the run. `GateInv` says what the three leave
open: whatever the account holds is in an open record, is about to be recorded, or is a
stray (`Covered`), which lets a count of records stand for the broker; the day's counter
has seen every entry of the day and later days have none (`Counted`); and what RiskGuard
approved still fits when the order is sent, because between the two only the monitor
changes the records and it only closes them (`Approved`, `Fresh`). `Covered` and `Counted`
are waived after a restart from a store that a failed save had left behind, as the
properties are.

`SharedStateProofs`, of the breaker, for any executors and operators, threshold, window and
budgets (`ProcessesAssumption`, `LimitsAssumption`): `BreakerIsExactHolds`, `OneEntryAfterHalt`
and `HaltEndsInResumeHolds`, of the specification of `CircuitBreaker`. The run checks it within
`SharedState`, each of whose behaviours is one of the breaker and one of the gate
(`EachFileIsKept`), so that `EntriesAreRestrained` has the properties of both there,
`DecisionsAreSound` among them. The core of `BreakerInv` is `Exclusive`: inside a transaction a
process has seen the file as it is, so that a save adds to it and loses nothing, or it is
`blind`, and then what it saves is all that is recorded. That an expired error is never needed
again rests on `Stamps` (no window begins before one that has begun, however late a stamp is
used), and that a halt lets one entry through on `Stopped`: an executor that has had it will
read the halt in its next check. `TripReportedOnceHolds` needs that what has been reported stays
tripped: `Reported` says that the errors of the window of now reach the threshold as long as a
report counts, and `EarlierCountsMore` that an executor with an older stamp counts at least
these, so that it finds the breaker tripped already and reports nothing.

`ScanJobsProofs`, for any request threads, scans, registry size and time to live
(`BoundsAssumption`): `RegistryHoldsAlways` and `ScansAreFoundHolds`. `RegistryInv` has one
running job at most, to which a spawning client or a scanning thread belongs, and
`Chronology`: each job in the registry had finished when the next one started. So the
order of ids is that of `finished_at`, which `_reap` trims by, and a job that is trimmed
has `_MAX_JOBS` later ones left: the argument counts the jobs before and after it in that
order.

`MoversWorkerProofs`, for any names, windows, times to live, bounds, setups and fault budgets
that satisfy the assumptions of the four modules: `WorkerIsBoundedHolds`,
`AlertsOncePerTtlHolds` (the refinement of `OncePerTtl`), `HistoryContinuesHolds`,
`OutcomesAreFinalHolds` and `StandDownsAreOfTodayHolds`, every property of the run but
`OutcomesSettle`, which is liveness. `NextMoves` says once for each of the seventeen actions
what it does to each component, so that every invariant is proved over the handful of moves
of its own component:

* `TypeInv` bounds the file as well as the ring, since a new worker takes its ring from the
  file, and ties the open sockets to the state of the link.
* `MarksInv`: a subject that was told of is marked with that time, or the time to live is
  over. A pruned or overwritten mark is then never one that still suppresses.
* `HistoryInv`: the ring of a running worker is what is left of the file after so many rows
  were added to its end (`LeftOf`), through any number of alerts that push old rows out, if
  the worker could read the file when it started (`seeded`).
* `LedgerInv`: what the holder of the lock has in memory is what it read (the file, or nothing
  when `unread` says so), record by record, with more of it settled. Since nobody else writes
  the file meanwhile, `KeptGoesOn` gives that the file goes on when it is saved and cut to size.
* `WatchInv`: every watched name was first seen in the day the set is of. It needs that no
  day is the mark for no session (`DaysAreSessions`).

`MarketSourcesProofs`, for any threads, names, windows, times to live, back-offs and budgets
that satisfy the assumptions of the modules: `MemoryIsCurrentHolds`, `WhatIsToldIsTracedHolds`,
`BarsAreWholeHolds`, `DiscoveryIsHonestHolds` and `WatchedDatesAreKept`, every property of the
run, of the sources together, from theorems and lemmas of each. The clocks
of the asset list, halts, caps and earnings dates start at 1, so these assumptions ask that
they end no earlier.

* `HaltInv`: how old the answer may be is not inductive, because a slow request stores an
  older feed over a newer one and a halt may begin or be scheduled while either is under
  way. `Reflects` says what a feed of an instant still tells of the market: a halt is as it
  was then, or has been scheduled since to end later than that, or a later one has followed.
  It goes on whatever the exchanges do (`ReflectsOn`), and every request and the cache
  reflect an instant that their windows bound (`FeedRequested`, `FeedCached`).
* `CapInv`: a cap is stamped in the step that reads its share count, so the disk's bound on
  that count (`OnDisk`) is enough; what a thread carries from one step to the next needs
  only to be a cap (`LooksFor`).
* `CalInv`: what the executor's calendar holds is what the file has, if its stamp is that of
  the file and it could be read (`ReaderOK`); so what it answers from was in the file during
  the look-up, although a refresh saves meanwhile; a plan with a number of its own is judged
  by that alone. No date a refresh makes lies after the last day, since it counts from a day
  that is past or present. Of a refresh, `RefreshOK` counts what is
  fetched and not in the file: no more than what was asked for since the last checkpoint,
  a remainder (`Remainders`).
* `BarsInv`: that a finished frame is whole is not inductive, since a frame is finished page
  by page, by symbol and then by time, and a page may end inside a symbol or be refused.
  `PagesAreKept` says that the rows kept of each symbol are exactly those of the pages that
  have arrived, and `RestIsAsked` that every symbol of the call without a frame is still to be
  asked for, of this chunk, a later one or the providers one by one.
* `InfoInv`: the failures told are those of the sources asked before, which `Asked` follows
  from one source to the next under both cache keys.
* `NewsInv`: what a verdict says is so of the headlines it was made of, whether they were
  fetched or kept, and every look replaces a name's whole verdict.
* `DiscoveryInv`: the property is about runs that are done and says nothing of one under way,
  so the invariant follows a run from the first list to the last filter. While lists are asked
  for, `OutagesOK` has the health of those that are over, `AskOK` the providers and rows of the
  one that is being asked for, and `GatheringOK` that the candidates are what was `Gathered`:
  each has the price and the move of one row that was quoted, the largest of its name, and the
  lists of all of them (`Fits`), and none is missing (`Fit`). That the lists of a provider and
  of a chain come to this, in the order they are merged in, is `UnionTells` and `AddRowIs`, one
  row after the other. Afterwards `JudgingOK` keeps `Fits` and has two facts more: a kept
  candidate of a suspect move carries our number (`Guarded`), and every name that was quoted is
  `Known`: yet to be judged, kept, on record, too weak by one of its rows, or `Outranked`. The
  last is why ranks need an argument: a name is cut by its rank, so no score that stays is below
  it, and neither enrichment nor the halts change what that comparison reads (`Kin`, `Same`).

`SumLemmas` proves what the other proofs share. `Induction` states the induction on a number
for a set of numbers, from the well-foundedness of `<`, since the induction theorems of the
library take an operator, which the provers cannot instantiate; `LoopExists` has from it that
a recursive function over the steps of a loop is one, with the value of each step. Of sums over
a finite set: no element, one more, one value changed, a larger set, the image of an injection,
values between multiples of weights. Of finite sets of numbers: the least, the greatest and
that they exist. Of a ranked set: each counts the better ones, and every place is taken by one
(`PlacesAreTaken`), which the screen's ranks and every sort of discovery rest on.

Only model-checked: liveness and `ENABLED`, which TLAPS does not reach (`UniverseIsCovered`,
`OutcomesSettle`, the progress of positions and of scans), and the four disagreements of section
4, which are counterexamples. Every invariant that a passing run checks is a theorem as well.
No module a proof uses has a `RECURSIVE` operator, and none has an argument about `SelectSeq`,
`SetToSortSeq` or a fold over a sequence, of which TLAPS knows nothing: what these modules select
or sort they take with a recursive function (`Among`, `AddRows`), by position (`Chosen`,
`Picked`) or by counting places (`Ordered`).

## 6. Plan

Done: the position life-cycle with its ledger, the entry limits, the breaker, the portfolio
gate with its clusters, the scan registry, the modes of a process (scans, the intraday loop, the
daily backtest, signals and plans, day trades, the pre-market screen), the movers worker, price
frames and the providers' memory, and discovery, each with its proofs. Next:

1. The rest of the executor: the legacy exits (`_check_exits`, `_resize_stop`,
   `_ensure_stop`), whose stop is cancelled and replaced.
2. `src/explain/narrative.py`'s call quota and the scorecard's gate, whose limits are
   shared by threads; two refreshes of the earnings dates at a time.

### Not modelled

What is left computes floats or moves text and has no state that one step leaves for
another: the indicators behind the readings of a frame; statistics, validation and
optimisation of backtests; the parsing of a dozen providers; pages and endpoints of the
dashboard; configuration; narrative and research; the gap scanner and the screener, which
are filters over a frame. A model of them would replace a formula by a choice, as these
modules do where such a function feeds a decision (`Answers`, `KindSets`, `PreFilter`,
`Offers`). The grades of intraday setups, `penny_overrides` and the texts of plans are left
out of modules that have the rest.
