------------------------------- MODULE HaltFeed -------------------------------
(***************************************************************************)
(* src/data/halts.py: which symbols are halted now.  The feed is fetched   *)
(* by whoever asks after the cached copy has expired, without a lock, and  *)
(* left alone for a while after a failure.  The cached records are judged  *)
(* by the clock each time they are read.                                   *)
(***************************************************************************)
EXTENDS Naturals, FiniteSets

CONSTANTS
    HaltNames, Readers,
    HaltTTL,       \* MOVERS_HALT_CACHE_TTL_SEC
    HaltBackoff,   \* _FAILURE_BACKOFF_SEC
    FetchTime,     \* bound: how long a request takes (its timeouts)
    FeedTime        \* bound: the clock stops here

ASSUME HaltAssumption ==
    /\ HaltTTL \in Nat /\ HaltBackoff \in Nat \ {0} /\ FetchTime \in Nat
    /\ FeedTime \in Nat \ {0}

FeedTimes      == 1..FeedTime
Unscheduled == 0     \* resumes_at of a halt without a resumption time
NotHalted  == [from |-> 0, to |-> 0]
Record     == [from : FeedTimes, to : FeedTimes \cup {Unscheduled}] \cup {NotHalted}
NoRecords  == [n \in HaltNames |-> NotHalted]

VARIABLES
    feedClock,
    market,      \* the last halt of each name, as the exchanges know it
    cache,       \* the cached records, until when, and (history) whether they were read
    feedRetryAfter,  \* _retry_after
    lastFetchOk,      \* _last_fetch_ok
    request,     \* what each thread is waiting for
    answer       \* what each thread was last told

haltVars == <<feedClock, market, cache, feedRetryAfter, lastFetchOk, request, answer>>

NoRequest == [sent |-> 0, records |-> NoRecords]
NotTold  == [at |-> 0, halted |-> {}, known |-> FALSE]

HaltInit ==
    /\ feedClock = 1 /\ market = NoRecords
    /\ cache = [records |-> NoRecords, expires |-> 0, parsed |-> FALSE]
    /\ feedRetryAfter = 0 /\ lastFetchOk = FALSE
    /\ request = [t \in Readers |-> NoRequest]
    /\ answer = [t \in Readers |-> NotTold]

\* HaltRecord.is_active
IsActive(record) ==
    /\ record # NotHalted /\ record.from <= feedClock
    /\ record.to = Unscheduled \/ record.to > feedClock

\* A map of halts, and (history) whether it comes from a feed that was read
Told(t, records, known) ==
    answer' = [answer EXCEPT ![t] =
        [at |-> feedClock, halted |-> {n \in HaltNames : IsActive(records[n])}, known |-> known]]

\* active_halts, from the cache
ReadCache(t) ==
    /\ request[t] = NoRequest /\ cache.expires # 0 /\ feedClock <= cache.expires
    /\ lastFetchOk' = TRUE
    /\ Told(t, cache.records, cache.parsed)
    /\ UNCHANGED <<feedClock, market, cache, feedRetryAfter, request>>

\* Nothing is said of lastOk while the back-off lasts.
BackOff(t) ==
    /\ request[t] = NoRequest /\ feedClock > cache.expires /\ feedClock < feedRetryAfter
    /\ Told(t, NoRecords, FALSE)
    /\ UNCHANGED <<feedClock, market, cache, feedRetryAfter, lastFetchOk, request>>

\* The request goes out; what comes back is the market of now.
Request(t) ==
    /\ request[t] = NoRequest /\ feedClock > cache.expires /\ feedClock >= feedRetryAfter
    /\ request' = [request EXCEPT ![t] = [sent |-> feedClock, records |-> market]]
    /\ UNCHANGED <<feedClock, market, cache, feedRetryAfter, lastFetchOk, answer>>

CachedUntil == feedClock + HaltTTL

Store(t, records, parsed) ==
    /\ lastFetchOk' = TRUE /\ feedRetryAfter' = 0
    /\ cache' = [records |-> records, expires |-> CachedUntil, parsed |-> parsed]
    /\ request' = [request EXCEPT ![t] = NoRequest]
    /\ UNCHANGED <<feedClock, market>>

Response(t) ==
    /\ request[t] # NoRequest
    /\ Store(t, request[t].records, TRUE)
    /\ Told(t, request[t].records, TRUE)

\* parse_halt_feed makes no records of a text it cannot parse, and they are stored like
\* any others.
Garbled(t) ==
    /\ request[t] # NoRequest
    /\ Store(t, NoRecords, FALSE)
    /\ Told(t, NoRecords, FALSE)

Failed(t) ==
    /\ request[t] # NoRequest
    /\ lastFetchOk' = FALSE /\ feedRetryAfter' = feedClock + HaltBackoff
    /\ request' = [request EXCEPT ![t] = NoRequest]
    /\ Told(t, NoRecords, FALSE)
    /\ UNCHANGED <<feedClock, market, cache>>

---------------------------------------------------------------------------
(* The exchanges.                                                          *)

Halted(n) == market[n] # NotHalted /\ (market[n].to = Unscheduled \/ market[n].to > feedClock)

\* A halt, with or without a time of resumption, and the announcement of one
Halt(n) ==
    /\ ~Halted(n)
    /\ \E to \in {Unscheduled} \cup {m \in FeedTimes : m > feedClock} :
          market' = [market EXCEPT ![n] = [from |-> feedClock, to |-> to]]
    /\ UNCHANGED <<feedClock, cache, feedRetryAfter, lastFetchOk, request, answer>>

Schedule(n) ==
    /\ Halted(n) /\ market[n].to = Unscheduled
    /\ \E to \in {m \in FeedTimes : m > feedClock} : market' = [market EXCEPT ![n].to = to]
    /\ UNCHANGED <<feedClock, cache, feedRetryAfter, lastFetchOk, request, answer>>

\* A request does not outlast its timeouts.
FeedTick ==
    /\ feedClock < FeedTime
    /\ \A t \in Readers : request[t] # NoRequest => feedClock < request[t].sent + FetchTime
    /\ feedClock' = feedClock + 1
    /\ UNCHANGED <<market, cache, feedRetryAfter, lastFetchOk, request, answer>>

Lookup(t) == ReadCache(t) \/ BackOff(t) \/ Request(t) \/ Response(t) \/ Garbled(t) \/ Failed(t)

FeedNext ==
    \/ \E t \in Readers : Lookup(t)
    \/ \E n \in HaltNames : Halt(n) \/ Schedule(n)
    \/ FeedTick

FeedSpec == HaltInit /\ [][FeedNext]_haltVars

---------------------------------------------------------------------------
(* What it promises.                                                       *)

\* Every variable holds a value of its kind.
FeedTypeOK ==
    /\ feedClock \in FeedTimes /\ market \in [HaltNames -> Record]
    /\ cache \in [records : [HaltNames -> Record], expires : 0..(FeedTime + HaltTTL), parsed : BOOLEAN]
    /\ feedRetryAfter \in 0..(FeedTime + HaltBackoff) /\ lastFetchOk \in BOOLEAN
    /\ \A t \in Readers : request[t].records \in [HaltNames -> Record]
    /\ \A t \in Readers : answer[t].halted \subseteq HaltNames

\* "Which symbols are halted right now": a name that is called halted is so now, or its
\* halt was lifted no longer ago than a cached feed may be old; and one that has been
\* halted for longer than that is called halted whenever the feed was read.  How old a
\* feed may be is the time it is cached and, as slow requests store older feeds over
\* newer ones, the time of a request.
HaltsAreCurrent ==
    \A t \in Readers : answer[t].at = feedClock /\ answer[t].known =>
        LET window == HaltTTL + FetchTime IN
        /\ \A n \in answer[t].halted : Halted(n) \/ feedClock - market[n].to <= window
        /\ \A n \in HaltNames \ answer[t].halted :
              ~Halted(n) \/ feedClock - market[n].from <= window

===========================================================================
