----------------------------- MODULE MoversWorker -----------------------------
(***************************************************************************)
(* The loop of src/scanner/movers_worker.py with its collaborators: the    *)
(* alerters, the monitor, the outcome ledger, the price stream, and the    *)
(* snapshot of src/scanner/movers_state.py that survives it.  A cycle is   *)
(* wire, discovery, monitoring, outcomes, snapshot, sleep; an exception in *)
(* it goes to the snapshot.  The process can die anywhere and be started   *)
(* again.  Another process may run a worker on the same ledger.            *)
(***************************************************************************)
EXTENDS MoversMonitor, AlertOutcomes, PriceStream

CONSTANTS
    Setups,         \* sets of switches a worker is started with
    ScanWindow,     \* when is_scan_window holds
    WireWindow,     \* when window_open of the catalyst alerts holds
    RediscoverEvery,\* MOVERS_WORKER_REDISCOVER_EVERY_CYCLES
    MaxRecent,      \* MOVERS_WORKER_STATE_MAX_RECENT
    LastNews,       \* bound: nothing to alert about after this time
    PeerNames,      \* bound: names the other process alerts about
    MaxFaults       \* bound: exceptions, failed calls and deaths in a behaviour

ASSUME WorkerAssumption ==
    /\ ScanWindow \subseteq Times /\ WireWindow \subseteq Times
    /\ RediscoverEvery \in Nat \ {0} /\ MaxRecent \in Nat \ {0}
    /\ LastNews \in Times /\ PeerNames \subseteq Names /\ MaxFaults \in Nat
    /\ Names \subseteq Symbols /\ {"worker", "peer"} \subseteq Processes

Row == [name : Names, source : Sources, at : Times]

VARIABLES
    setup,     \* the switches of this worker
    pc,        \* where the worker is
    cycle,     \* cycles since the last rediscovery was due
    found,     \* movers discovered in this cycle that reach the minimum score
    fired,     \* alerts sent and not yet in the ledger
    ring,      \* _recent_alerts
    file,      \* recent_alerts of the published snapshot
    seeded,    \* the ring goes on from what is published
    faults,    \* faults still to happen
    peerAt     \* when the other process last looked at outcomes

loopVars == <<setup, pc, cycle, found, fired, ring, file, seeded, faults, peerAt>>
vars == <<clock, alertVars, monitorVars, outcomeVars, streamVars, loopVars>>

On(switch) == switch \in setup

\* The last MaxRecent rows.
Recent(rows) ==
    SubSeq(rows, IF Len(rows) > MaxRecent THEN Len(rows) - MaxRecent + 1 ELSE 1, Len(rows))

RowsOf(names, s) == [i \in DOMAIN names |-> [name |-> names[i], source |-> s, at |-> clock]]

\* Mutant: a new worker starts with empty rings.
SeededEmpty(reads) == <<>>

\* What load takes from the snapshot for the rings of a new worker: nothing when the file
\* cannot be read or parsed.
Seeded(reads) == IF reads THEN file ELSE <<>>

Init ==
    /\ setup \in Setups
    /\ AlertsInit /\ MonitorInit /\ OutcomesInit /\ StreamOff
    /\ pc = "start" /\ cycle = 0 /\ found = <<>> /\ fired = <<>>
    /\ ring = <<>> /\ file = <<>> /\ seeded = TRUE
    /\ faults = MaxFaults /\ peerAt = 0

Fault == faults > 0 /\ faults' = faults - 1

\* run_worker up to its loop.
Start ==
    /\ pc = "start"
    /\ \E reads \in BOOLEAN :
          ring' = Seeded(reads) /\ seeded' = (reads \/ file = <<>>)
    /\ StartStream(On("stream"))
    /\ pc' = "wire" /\ cycle' = 0
    /\ UNCHANGED <<clock, alertVars, monitorVars, outcomeVars, setup, found, fired, file, faults,
                   peerAt>>

\* To the ledger when something was sent, otherwise on.
Then(sent, ledgerStep, next) == IF On("outcomes") /\ sent # <<>> THEN ledgerStep ELSE next

\* What there is to tell of
Offered == IF clock <= LastNews THEN Offers ELSE {<<>>}

\* The stories an alerter sends, for each way they can be offered to it.
Stories == {Firing(Pruned(recent["catalyst"]), offered, {}) : offered \in Offered}

\* catalyst_alerter.poll and the ring.
Poll ==
    /\ pc = "wire" /\ On("catalyst") /\ clock \in WireWindow
    /\ \E sent \in Stories :
          /\ Send("catalyst", sent)
          /\ ring' = Recent(ring \o RowsOf(sent, "catalyst"))
          /\ fired' = IF On("outcomes") THEN sent ELSE <<>>
          /\ pc' = Then(sent, "log_wire", "scan")
    /\ UNCHANGED <<clock, monitorVars, outcomeVars, streamVars, setup, cycle, found, file,
                   seeded, faults, peerAt>>

\* No wire, outside its window, or the fetch fails.
SkipWire ==
    /\ pc = "wire"
    /\ ~On("catalyst") \/ clock \notin WireWindow \/ clock <= LastNews
    /\ pc' = "scan"
    /\ UNCHANGED <<clock, alertVars, monitorVars, outcomeVars, streamVars, setup, cycle,
                   found, fired, ring, file, seeded, faults, peerAt>>

\* A story that cannot be classified ends the cycle after the alerts before it went out.
PollRaises ==
    /\ pc = "wire" /\ On("catalyst") /\ clock \in WireWindow /\ clock <= LastNews
    /\ Fault
    /\ \E sent \in Stories : Send("catalyst", sent)
    /\ pc' = "publish"
    /\ UNCHANGED <<clock, monitorVars, outcomeVars, streamVars, setup, cycle, found, fired,
                   ring, file, seeded, peerAt>>

\* outcome_ledger.record, after each alerter
RecordFired ==
    /\ pc \in {"log_wire", "log_movers"}
    /\ LET s == IF pc = "log_wire" THEN "catalyst" ELSE "movers" IN
          \E reads \in BOOLEAN :
             \/ RecordAlerts("worker", fired, s, reads, TRUE) /\ UNCHANGED faults
             \/ RecordAlerts("worker", fired, s, reads, FALSE) /\ Fault
    /\ fired' = <<>>
    /\ pc' = IF pc = "log_wire" THEN "scan" ELSE "watch"
    /\ UNCHANGED <<clock, alertVars, monitorVars, streamVars, setup, cycle, found, ring, file,
                   seeded, peerAt>>

RediscoveryDue == clock \in ScanWindow /\ cycle % RediscoverEvery = 0

\* The movers an alerter sends, whichever are held back: halted, stale or not enriched.
\* These do not count for the cap and are watched like the others.
Alerts(movers) ==
    {Firing(Pruned(recent["movers"]), movers, held) : held \in SUBSET Range(movers)}

\* discover and alerter.process.
Discover ==
    /\ pc = "scan" /\ RediscoveryDue
    /\ \E movers \in Offered : \E sent \in IF On("movers") THEN Alerts(movers) ELSE {<<>>} :
          /\ IF On("movers") THEN Send("movers", sent) ELSE UNCHANGED alertVars
          /\ ring' = Recent(ring \o RowsOf(sent, "movers"))
          /\ fired' = IF On("outcomes") THEN sent ELSE <<>>
          /\ found' = movers
          /\ pc' = Then(sent, "log_movers", "watch")
    /\ UNCHANGED <<clock, monitorVars, outcomeVars, streamVars, setup, cycle, file, seeded,
                   faults, peerAt>>

\* No provider answers: the exception ends the cycle.
DiscoverRaises ==
    /\ pc = "scan" /\ RediscoveryDue
    /\ Fault
    /\ pc' = "publish"
    /\ UNCHANGED <<clock, alertVars, monitorVars, outcomeVars, streamVars, setup, cycle,
                   found, fired, ring, file, seeded, peerAt>>

SkipDiscovery ==
    /\ pc = "scan" /\ ~RediscoveryDue
    /\ pc' = IF clock \in ScanWindow THEN "evaluate" ELSE "resolve"
    /\ UNCHANGED <<clock, alertVars, monitorVars, outcomeVars, streamVars, setup, cycle,
                   found, fired, ring, file, seeded, faults, peerAt>>

WatchFound ==
    /\ pc = "watch"
    /\ Watch(found)
    /\ found' = <<>> /\ pc' = "evaluate"
    /\ UNCHANGED <<clock, alertVars, outcomeVars, streamVars, setup, cycle, fired, ring, file,
                   seeded, faults, peerAt>>

EvaluateWatch ==
    /\ pc = "evaluate"
    /\ Evaluate(On("monitor"))
    /\ pc' = IF link # "off" THEN "subscribe" ELSE "resolve"
    /\ UNCHANGED <<clock, alertVars, outcomeVars, streamVars, setup, cycle, found, fired,
                   ring, file, seeded, faults, peerAt>>

\* The stream follows the watch set.
SubscribeWatch ==
    /\ pc = "subscribe"
    /\ LET want == {w.name : w \in Active(watch)} IN
          \/ SetSymbols(want, TRUE, TRUE) /\ UNCHANGED faults
          \/ /\ link = "up" /\ Fault
             /\ SetSymbols(want, FALSE, TRUE) \/ SetSymbols(want, TRUE, FALSE)
    /\ pc' = "resolve"
    /\ UNCHANGED <<clock, alertVars, monitorVars, outcomeVars, setup, cycle, found, fired,
                   ring, file, seeded, peerAt>>

Resolve ==
    /\ \/ /\ pc = "resolve" /\ ~On("outcomes")
          /\ pc' = "publish" /\ UNCHANGED <<outcomeVars, faults>>
       \/ /\ pc = "resolve" /\ On("outcomes")
          /\ \E reads \in BOOLEAN : BeginResolve("worker", reads)
          /\ pc' = "resolving" /\ UNCHANGED faults
       \/ /\ pc = "resolving"
          /\ Fetch("worker") /\ UNCHANGED <<pc, faults>>
       \/ /\ pc = "resolving"
          /\ \/ EndResolve("worker", TRUE) /\ UNCHANGED faults
             \/ EndResolve("worker", FALSE) /\ Fault
          /\ pc' = "publish"
    /\ UNCHANGED <<clock, alertVars, monitorVars, streamVars, setup, cycle, found, fired,
                   ring, file, seeded, peerAt>>

\* state.publish, also after a failed cycle; its own failures are swallowed.
Publish ==
    /\ pc = "publish"
    /\ \/ file' = ring /\ seeded' = TRUE /\ UNCHANGED faults
       \/ UNCHANGED <<file, seeded>> /\ Fault
    /\ pc' = "sleep"
    /\ UNCHANGED <<clock, alertVars, monitorVars, outcomeVars, streamVars, setup, cycle, found,
                   fired, ring, peerAt>>

\* A tick of the clock is an interval of the worker.
Later == IF clock < MaxTime THEN clock + 1 ELSE clock

Sleep ==
    /\ pc = "sleep"
    /\ clock' = Later
    /\ cycle' = (cycle + 1) % RediscoverEvery
    /\ pc' = "wire"
    /\ UNCHANGED <<alertVars, monitorVars, outcomeVars, streamVars, setup, found, fired, ring,
                   file, seeded, faults, peerAt>>

WorkerStep ==
    \/ Start \/ Poll \/ SkipWire \/ PollRaises \/ RecordFired
    \/ Discover \/ DiscoverRaises \/ SkipDiscovery \/ WatchFound \/ EvaluateWatch
    \/ SubscribeWatch \/ Resolve \/ Publish \/ Sleep

\* The process dies: its memory and its thread are gone, its lock is free.  It is
\* started again at once or later.
Die ==
    /\ pc # "start" /\ Fault
    /\ ForgetAlerts /\ ForgetWatch /\ ReleaseAtDeath("worker") /\ StreamDies
    /\ found' = <<>> /\ fired' = <<>> /\ ring' = <<>>
    /\ clock' \in {clock, Later}
    /\ pc' = "start" /\ cycle' = 0 /\ seeded' = TRUE
    /\ UNCHANGED <<setup, file, peerAt>>

StreamStep ==
    /\ \/ (FirstSubscription \/ Connect \/ Retry) /\ UNCHANGED faults
       \/ (\E s \in Symbols : Trade(s) \/ OnTrade(s)) /\ UNCHANGED faults
       \/ Disconnect /\ Fault
    /\ UNCHANGED <<clock, alertVars, monitorVars, outcomeVars, setup, pc, cycle, found, fired,
                   ring, file, seeded, peerAt>>

\* Another process with a worker on the same ledger: in each interval it may record
\* alerts and then look at outcomes once.
PeerStep ==
    /\ On("peer")
    /\ \/ /\ peerAt < clock /\ clock <= LastNews
          /\ \E n \in PeerNames, reads \in BOOLEAN :
                RecordAlerts("peer", <<n>>, "movers", reads, TRUE)
          /\ UNCHANGED <<peerAt, faults>>
       \/ /\ peerAt < clock /\ peerAt' = clock /\ UNCHANGED faults
          /\ \E reads \in BOOLEAN : BeginResolve("peer", reads)
       \/ (Fetch("peer") \/ EndResolve("peer", TRUE)) /\ UNCHANGED <<peerAt, faults>>
       \/ lock = "peer" /\ ReleaseAtDeath("peer") /\ Fault /\ UNCHANGED peerAt
    /\ UNCHANGED <<clock, alertVars, monitorVars, streamVars, setup, pc, cycle, found, fired,
                   ring, file, seeded>>

Next == WorkerStep \/ Die \/ StreamStep \/ PeerStep

Spec == Init /\ [][Next]_vars

\* The worker's thread and the other process go on with what they have begun.
FairSpec ==
    /\ Spec
    /\ WF_vars(WorkerStep)
    /\ WF_vars(lock = "peer" /\ PeerStep)

---------------------------------------------------------------------------
(* What the worker promises across its cycles, its deaths and the other    *)
(* processes on its files.                                                 *)

\* Every variable holds a value of its kind; the watch set, the ledger and the ring of
\* the always-on worker stay within their bounds.
TypeOK ==
    /\ setup \in Setups /\ clock \in Times
    /\ recent \in [Sources -> [Names -> Times \cup {Never}]]
    /\ told \in [Sources -> [Names -> Times \cup {Never}]]
    /\ watch \in Seq(WatchState) /\ (MaxWatch > 0 => Len(watch) <= MaxWatch)
    /\ session \in Days \cup {NoSession}
    /\ ledger \in Seq(Record) /\ Len(ledger) <= MaxRecords
    /\ lock \in Processes \cup {NoProcess}
    /\ records \in Seq(Record) /\ due \subseteq DOMAIN records
    /\ link \in {"off", "idle", "connecting", "up", "pausing", "ended"}
    /\ sockets \in Nat
    /\ handled \subseteq Symbols /\ subscribed \subseteq handled
    /\ prices \subseteq Symbols /\ inFlight \subseteq Symbols
    /\ cycle \in 0..(RediscoverEvery - 1)
    /\ found \in Seq(Names) /\ fired \in Seq(Names)
    /\ ring \in Seq(Row) /\ file \in Seq(Row) /\ Len(ring) <= MaxRecent
    /\ seeded \in BOOLEAN /\ unread \in BOOLEAN
    /\ faults \in 0..MaxFaults /\ peerAt \in Times

\* "Deduplicated": no alerter of a process tells of a subject twice within the time to
\* live, and a run never tells of more than the cap, although marks are pruned, runs
\* are cut by the cap and cycles end in the middle of a run.
Told ==
    INSTANCE OncePerTtl WITH
        Subjects <- Sources \X Names, Ttl <- DedupTtl, Cap <- MaxPerRun, Untold <- Never,
        time <- clock, told <- [subject \in Sources \X Names |-> told[subject[1]][subject[2]]]
AlertsOncePerTtl == Told!Spec

\* "Seed the rings so a worker restart continues the recent history": what was published
\* changes only by newer alerts at its end, across deaths and failed writes.  The
\* exception is the first publication of a worker whose read of the file failed at its
\* start: it began with empty rings, and these replace the history.
HistoryContinues ==
    [][seeded => \E k \in 0..Len(file') :
          file' = Recent(file \o SubSeq(file', Len(file') - k + 1, Len(file')))]_vars

\* The same alert, with more of it settled.
SettledFrom(old, new) ==
    /\ old.name = new.name /\ old.source = new.source /\ old.at = new.at
    /\ \A h \in Horizons : old.outcomes[h] # "pending" => new.outcomes[h] = old.outcomes[h]

\* A ledger goes on as another: only the oldest may be gone, and only when it is full.
GoesOnAs(old, new) ==
    \E dropped \in 0..Len(old) :
       /\ dropped > 0 => Len(new) = MaxRecords
       /\ \A i \in (dropped + 1)..Len(old) :
             i - dropped \in DOMAIN new /\ SettledFrom(old[i], new[i - dropped])

\* A recorded alert leaves the ledger only when MaxRecords newer ones are kept, and a
\* horizon that was settled keeps its outcome, although both processes update the file
\* and a resolution lasts as long as its price fetches.  The exception is an update whose
\* own read of the file failed: what it saves began from an empty ledger.
OutcomesAreFinal == [][~unread' => GoesOnAs(ledger, ledger')]_vars

\* Outcomes are settled in the end, measured or not: fetches that keep failing and a
\* fetch cap spent on other records do not leave one pending for ever.
Unsettled == \E r \in Range(ledger), h \in Horizons : r.outcomes[h] = "pending"
OutcomesSettle == Unsettled ~> ~Unsettled

\* "A refused login is retried [...] and the refused socket is never closed" is the
\* defect the guarded stream replaces: it holds at most one socket open.
OneSocket == sockets <= 1

\* The worker keeps to its bounds: sets, rings and files, and one connection.
WorkerIsBounded == TypeOK /\ OneSocket

\* "Yesterday's names are not today's": a name that is told to stand down came on watch
\* in today's session, whichever step of the cycle sees the new day first.
StandDownsAreOfToday ==
    [][\A i \in DOMAIN watch' :
          (watch'[i].status = "invalidated" /\ watch'[i] \notin Range(watch)) =>
             Day(watch'[i].seen) = Day(clock)]_vars

===========================================================================
