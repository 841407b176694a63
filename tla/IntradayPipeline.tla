--------------------------- MODULE IntradayPipeline ---------------------------
(***************************************************************************)
(* The process of bot.py's cmd_intraday_scan: one loop that scans a batch  *)
(* of its universe into a candidate queue and then drains the queue into   *)
(* entry plans.  It models                                                 *)
(*                                                                         *)
(*   src/scanner/intraday_scan.py       ContinuousScanner, scan_intraday   *)
(*   src/scanner/candidate_queue.py     CandidateQueue                     *)
(*   src/scanner/intraday_consumer.py   IntradayConsumer                   *)
(*                                                                         *)
(* on the frames of MarketData.  What a frame scores is whatever it can    *)
(* score; that it is stale, missing or old is not.                         *)
(***************************************************************************)
EXTENDS MarketData, Sequences

CONSTANTS
    Watchlist,      \* the universe of the scanner, a sequence of tickers
    UniverseCap,    \* CONTINUOUS_SCAN_UNIVERSE_CAP
    KindOrder,      \* the kinds of candidate a frame may give, in their order
    QueueMax,       \* CONTINUOUS_SCAN_QUEUE_MAX
    DedupTTL,       \* CONTINUOUS_SCAN_DEDUP_TTL_SEC
    MaxPerCycle,    \* INTRADAY_CONSUMER_MAX_PER_CYCLE
    MaxStale,       \* INTRADAY_MAX_STALENESS_INTERVALS
    EligibilityTTL  \* _ELIGIBILITY_TTL

ASSUME PipelineAssumption ==
    /\ Watchlist \in Seq(Tickers) /\ KindOrder \in Seq(STRING)
    /\ UniverseCap \in Nat \ {0} /\ QueueMax \in Nat \ {0} /\ MaxPerCycle \in Nat \ {0}
    /\ DedupTTL \in Nat /\ MaxStale \in Nat /\ EligibilityTTL \in Nat

Kinds     == {KindOrder[i] : i \in DOMAIN KindOrder}
Candidate == Tickers \X (Kinds \cup {"gap"})
Never     == 0

VARIABLES
    step,        \* where the loop is
    now,         \* the `now` of the current scan or drain
    offset,      \* the scanner's cursor
    batch,       \* the tickers of the cycle
    scanned,     \* how many of them have been scanned
    found,       \* candidates of the cycle
    queue,       \* CandidateQueue._items
    lastSeen,    \* CandidateQueue._last_seen; Never when absent
    drained,     \* candidates of the drain still to look at
    coalesced,   \* `seen` of drain_once
    verdicts,    \* _eligibility: until when, and which
    plan,        \* what the last evaluation gave to the sink
    accepted     \* history: when each candidate was last put in the queue

loop == <<step, now, offset, batch, scanned, found, queue, lastSeen, drained, coalesced,
          verdicts, plan, accepted>>

Verdict   == [until : Nat, ok : BOOLEAN]
NoVerdict == [until |-> 0, ok |-> FALSE]
Plan      == [ticker : Tickers, bar : Times, at : Times]
NoPlan    == [ticker |-> "none", bar |-> 0, at |-> 0]

\* fetch_intraday: from the cache, from a provider, or what the cache has left
FetchIntraday(t, frame) ==
    IF Hit(Intraday(t)) THEN frame = Get(Intraday(t)) /\ UNCHANGED disk
    ELSE Downloaded(Intraday(t), frame) \/ FellBack(Intraday(t), frame)
Frames(k) == Answers(k) \cup {Get(k), GetStale(k)}

\* is_stale: no bar at all, or a newest one that is too old
IsStale(frame) == IsEmpty(frame) \/ now - frame.bar > MaxStale

---------------------------------------------------------------------------
(* The producer.                                                           *)

\* Mutant: the cursor stays where it is.
NextBatchFirst ==
    /\ batch' = SubSeq(Watchlist, 1, UniverseCap)
    /\ offset' = offset

\* next_batch: the next capped batch of the universe, and the cursor after it; none of an
\* empty one
NextBatch ==
    LET n   == Len(Watchlist)
        cap == IF UniverseCap < n THEN UniverseCap ELSE n
    IN  /\ batch' = [i \in 1..cap |-> Watchlist[((offset + i - 1) % n) + 1]]
        /\ offset' = IF n = 0 THEN offset ELSE (offset + cap) % n

\* run_forever, in the scan window
RunOnce ==
    /\ step = "wait"
    /\ NextBatch
    /\ now' = clock
    /\ scanned' = 0 /\ found' = <<>>
    /\ step' = "scan"
    /\ UNCHANGED <<data, queue, lastSeen, drained, coalesced, verdicts, plan, accepted>>

\* _candidates_from_metrics: a breakout counts only with unusual volume.
KindSets == {s \in SUBSET Kinds : "breakout" \in s => "volume" \in s}

\* scan_intraday, one ticker
ScanTicker ==
    /\ step = "scan" /\ scanned < Len(batch)
    /\ LET t == batch[scanned + 1] IN
       \E frame \in Frames(Intraday(t)) :
          /\ FetchIntraday(t, frame)
          /\ \E kinds \in IF IsStale(frame) THEN {{}} ELSE KindSets :
                LET chosen == Among(KindOrder, kinds)
                IN  found' = found \o [i \in DOMAIN chosen |-> <<t, chosen[i]>>]
    /\ scanned' = scanned + 1
    /\ UNCHANGED <<clock, floor, others, step, now, offset, batch, queue, lastSeen, drained,
                   coalesced, verdicts, plan, accepted>>

\* scan_gaps, over the daily bars of the batch: any of its tickers may gap.
ScanGaps ==
    /\ step = "scan" /\ scanned = Len(batch)
    /\ \E gaps \in SUBSET (DOMAIN batch) :
          LET gapped == Among([i \in DOMAIN batch |-> i], gaps)
          IN  found' = found \o [j \in DOMAIN gapped |-> <<batch[gapped[j]], "gap">>]
    /\ step' = "push"
    /\ UNCHANGED <<data, now, offset, batch, scanned, queue, lastSeen, drained, coalesced,
                   verdicts, plan, accepted>>

Fresh(c) == lastSeen[c] # Never /\ now - lastSeen[c] < DedupTTL

\* Mutant: the marks of candidates that have left the queue are dropped as well.
PrunedUnqueued(seen) ==
    [c \in Candidate |->
        IF c = Head(found) \/ \E i \in DOMAIN queue : queue[i] = c THEN seen[c] ELSE Never]

\* _prune_seen_locked
Pruned(seen) == [c \in Candidate |-> IF now - seen[c] >= DedupTTL THEN Never ELSE seen[c]]

\* A deque of maxlen drops its oldest item.
Bounded(items) ==
    IF Len(items) > QueueMax THEN SubSeq(items, Len(items) - QueueMax + 1, Len(items)) ELSE items

\* CandidateQueue.push, at the `now` of the cycle
Push ==
    /\ step = "push" /\ found # <<>>
    /\ LET c == Head(found)
       IN  IF Fresh(c) THEN UNCHANGED <<queue, lastSeen, accepted>>
           ELSE /\ lastSeen' = Pruned([lastSeen EXCEPT ![c] = now])
                /\ queue' = Bounded(Append(queue, c))
                /\ accepted' = [accepted EXCEPT ![c] = now]
    /\ found' = Tail(found)
    /\ UNCHANGED <<data, step, now, offset, batch, scanned, drained, coalesced, verdicts, plan>>

---------------------------------------------------------------------------
(* The consumer.                                                           *)

\* drain_once begins: the oldest candidates leave the queue.
Drain ==
    /\ step = "push" /\ found = <<>>
    /\ LET n == IF Len(queue) < MaxPerCycle THEN Len(queue) ELSE MaxPerCycle
       IN  /\ drained' = SubSeq(queue, 1, n)
           /\ queue' = SubSeq(queue, n + 1, Len(queue))
    /\ now' = clock
    /\ coalesced' = {}
    /\ step' = "eligible"
    /\ UNCHANGED <<data, offset, batch, scanned, found, lastSeen, verdicts, plan, accepted>>

Current == Head(drained)[1]

\* A ticker this drain has already looked at.
Coalesce ==
    /\ step = "eligible" /\ drained # <<>> /\ Current \in coalesced
    /\ drained' = Tail(drained)
    /\ UNCHANGED <<data, step, now, offset, batch, scanned, found, queue, lastSeen, coalesced,
                   verdicts, plan, accepted>>

\* _penny_eligible: a verdict that has not expired stands; otherwise the rails judge
\* the daily frame and the fundamentals.  No daily data, or an error, is a refusal,
\* and it is kept like any other.
Judged(t) ==
    IF verdicts[t].until > now THEN {verdicts[t]}
    ELSE [until : {now + EligibilityTTL}, ok : BOOLEAN]

Eligible ==
    /\ step = "eligible" /\ drained # <<>> /\ Current \notin coalesced
    /\ \E verdict \in Judged(Current) :
          /\ verdicts' = [verdicts EXCEPT ![Current] = verdict]
          /\ IF verdict.ok THEN step' = "evaluate" /\ UNCHANGED drained
             ELSE step' = step /\ drained' = Tail(drained)
    /\ coalesced' = coalesced \cup {Current}
    /\ UNCHANGED <<data, now, offset, batch, scanned, found, queue, lastSeen, plan, accepted>>

Plannable(frame) == ~IsStale(frame)

\* The frame is fetched again, and a plan is built from it, or not: stale, no entry,
\* a plan that skips or fails.
Evaluate ==
    /\ step = "evaluate"
    /\ \E frame \in Frames(Intraday(Current)) :
          /\ FetchIntraday(Current, frame)
          /\ \/ plan' = NoPlan
             \/ /\ Plannable(frame)
                /\ plan' = [ticker |-> Current, bar |-> frame.bar, at |-> now]
    /\ drained' = Tail(drained)
    /\ step' = "eligible"
    /\ UNCHANGED <<clock, floor, others, now, offset, batch, scanned, found, queue, lastSeen, coalesced,
                   verdicts, accepted>>

DrainEnd ==
    /\ step = "eligible" /\ drained = <<>>
    /\ step' = "wait"
    /\ now' = 0 /\ batch' = <<>> /\ scanned' = 0 /\ coalesced' = {} /\ plan' = NoPlan
    /\ UNCHANGED <<data, offset, found, queue, lastSeen, drained, verdicts, accepted>>

---------------------------------------------------------------------------

PipelineInit ==
    /\ step = "wait" /\ now = 0 /\ offset = 0
    /\ batch = <<>> /\ scanned = 0 /\ found = <<>> /\ queue = <<>> /\ drained = <<>> /\ coalesced = {}
    /\ lastSeen = [c \in Candidate |-> Never]
    /\ verdicts = [t \in Tickers |-> NoVerdict]
    /\ plan = NoPlan
    /\ accepted = [c \in Candidate |-> Never]

PipelineNext ==
    \/ RunOnce \/ ScanTicker \/ ScanGaps \/ Push
    \/ Drain \/ Coalesce \/ Eligible \/ Evaluate \/ DrainEnd

===========================================================================
