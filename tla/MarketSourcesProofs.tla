-------------------------- MODULE MarketSourcesProofs --------------------------
(***************************************************************************)
(* What is remembered of the providers' answers is as recent as its        *)
(* windows allow, for any number of threads and names, any windows and     *)
(* back-offs: the trading halts, the market caps and the earnings dates.   *)
(* What is told of a ticker is from where it says, and what discovery      *)
(* publishes is what the providers quoted.                                 *)
(*                                                                         *)
(* HaltInv rests on Reflects: a list that was sent at an instant differs   *)
(* from the market of now only by what happened since.  CalInv relates     *)
(* the dates the executor has loaded to the version of the file they are   *)
(* of, and counts the dates of a refresh that are not yet in the file.     *)
(* BarsInv says which rows of a chunk's answer have arrived, page by page, *)
(* and that every symbol without a frame is still to be asked for.         *)
(* DiscoveryInv ties the candidates of a run, while sources are asked, to  *)
(* the rows quoted by the sources that are over, and accounts afterwards   *)
(* for every name that was quoted.                                         *)
(***************************************************************************)
EXTENDS MarketSources, SumLemmas, FiniteSetTheorems, SequenceTheorems, TLAPS

---------------------------------------------------------------------------
(* The trading halts.                                                      *)

\* A halt begins no later than now, and is lifted after it begins.
Halts ==
    \A n \in HaltNames : market[n] # NotHalted =>
        market[n].from <= feedClock /\ (market[n].to = Unscheduled \/ market[n].to > market[n].from)

\* Records that were sent at s: a halt is still as it was then, or has been scheduled
\* since, or a later one has followed.
Reflects(records, s) ==
    \A n \in HaltNames :
        /\ records[n] # NotHalted => records[n].from <= s
        /\ \/ records[n] = market[n]
           \/ market[n] # NotHalted /\ market[n].from >= s
           \/ /\ records[n] # NotHalted /\ records[n].to = Unscheduled
              /\ market[n].from = records[n].from /\ market[n].to > s

\* A request under way has the market of when it was sent, and has not timed out.
FeedRequested ==
    \A t \in Readers : request[t] # NoRequest =>
        /\ request[t].sent \in 1..feedClock /\ feedClock <= request[t].sent + FetchTime
        /\ Reflects(request[t].records, request[t].sent)

\* So has the cache, and it expires a window later.
FeedCached ==
    cache.parsed =>
        \E s \in 1..feedClock :
            Reflects(cache.records, s) /\ cache.expires <= s + FetchTime + HaltTTL

\* An answer is never from the future.
ToldBefore == \A t \in Readers : answer[t].at \in 0..feedClock

HaltTypes ==
    /\ feedClock \in FeedTimes /\ market \in [HaltNames -> Record]
    /\ cache \in [records : [HaltNames -> Record], expires : 0..(FeedTime + HaltTTL), parsed : BOOLEAN]
    /\ feedRetryAfter \in 0..(FeedTime + HaltBackoff) /\ lastFetchOk \in BOOLEAN
    /\ request \in [Readers -> [sent : Nat, records : [HaltNames -> Record]]]
    /\ answer \in [Readers -> [at : Nat, halted : SUBSET HaltNames, known : BOOLEAN]]

HaltInv == HaltTypes /\ Halts /\ FeedRequested /\ FeedCached /\ ToldBefore /\ HaltsAreCurrent

LEMMA HaltInvInit == HaltInit => HaltInv
<1> SUFFICES ASSUME HaltInit PROVE HaltInv
  OBVIOUS
<1>1. NotHalted \in Record
  BY DEF Record
<1>2. HaltTypes
  <2>1. NoRecords \in [HaltNames -> Record]
    BY <1>1 DEF NoRecords
  <2>2. /\ 1 \in FeedTimes /\ 0 \in 0..(FeedTime + HaltTTL) /\ 0 \in 0..(FeedTime + HaltBackoff)
        /\ 0 \in Nat
    BY HaltAssumption DEF HaltAssumption, FeedTimes
  <2>3. /\ NoRequest \in [sent : Nat, records : [HaltNames -> Record]]
        /\ NotTold \in [at : Nat, halted : SUBSET HaltNames, known : BOOLEAN]
    BY <2>1 DEF NoRequest, NotTold
  <2>4. QED
    BY <2>1, <2>2, <2>3 DEF HaltTypes, HaltInit
<1>3. Halts /\ FeedRequested /\ FeedCached /\ ToldBefore /\ HaltsAreCurrent
  BY DEF HaltInit, Halts, FeedRequested, FeedCached, ToldBefore, HaltsAreCurrent, NoRecords, NotTold
<1>4. QED
  BY <1>2, <1>3 DEF HaltInv

\* What an answer says of now that is made of records a window old.
LEMMA RecordsAreCurrent ==
    ASSUME HaltTypes, Halts, NEW records \in [HaltNames -> Record], NEW s \in 1..feedClock,
           Reflects(records, s), feedClock <= s + FetchTime + HaltTTL, NEW n \in HaltNames
    PROVE  /\ IsActive(records[n]) =>
                 Halted(n) \/ feedClock - market[n].to <= HaltTTL + FetchTime
           /\ ~IsActive(records[n]) =>
                 ~Halted(n) \/ feedClock - market[n].from <= HaltTTL + FetchTime
<1>1. /\ feedClock \in Nat /\ HaltTTL \in Nat /\ FetchTime \in Nat /\ s \in Nat /\ s <= feedClock
      /\ records[n].from \in Nat /\ records[n].to \in Nat
      /\ market[n].from \in Nat /\ market[n].to \in Nat
  BY HaltAssumption DEF HaltTypes, HaltAssumption, Record, FeedTimes, Unscheduled, NotHalted
<1>2. /\ records[n] # NotHalted => records[n].from <= s
      /\ market[n] # NotHalted =>
            market[n].from <= feedClock /\ (market[n].to = Unscheduled \/ market[n].to > market[n].from)
  BY DEF Reflects, Halts
<1>3. CASE records[n] = market[n]
  BY <1>1, <1>2, <1>3 DEF IsActive, Halted, Unscheduled
<1>4. CASE market[n] # NotHalted /\ market[n].from >= s
  BY <1>1, <1>2, <1>4 DEF IsActive, Halted, Unscheduled
<1>5. CASE /\ records[n] # NotHalted /\ records[n].to = Unscheduled
           /\ market[n].from = records[n].from /\ market[n].to > s
  BY <1>1, <1>2, <1>5 DEF IsActive, Halted, Unscheduled
<1>6. QED
  BY <1>3, <1>4, <1>5 DEF Reflects

LEMMA ToldIsCurrent ==
    ASSUME HaltInv, NEW t \in Readers, NEW records \in [HaltNames -> Record], NEW read \in BOOLEAN,
           read => \E s \in 1..feedClock :
                      Reflects(records, s) /\ feedClock <= s + FetchTime + HaltTTL,
           Told(t, records, read), UNCHANGED <<feedClock, market>>
    PROVE  /\ answer' \in [Readers -> [at : Nat, halted : SUBSET HaltNames, known : BOOLEAN]]
           /\ ToldBefore' /\ HaltsAreCurrent'
<1> DEFINE told == [at |-> feedClock, known |-> read,
                    halted |-> {n \in HaltNames : IsActive(records[n])}]
<1>1. feedClock \in Nat
  BY DEF HaltInv, HaltTypes, FeedTimes
<1>2. /\ answer' = [answer EXCEPT ![t] = told]
      /\ answer \in [Readers -> [at : Nat, halted : SUBSET HaltNames, known : BOOLEAN]]
  BY DEF Told, HaltInv, HaltTypes
<1>3. told \in [at : Nat, halted : SUBSET HaltNames, known : BOOLEAN]
  BY <1>1
<1>4. \A r \in Readers : answer'[r] = IF r = t THEN told ELSE answer[r]
  BY <1>2
<1>9. told.at = feedClock /\ told.known = read /\ told.halted = {n \in HaltNames : IsActive(records[n])}
  OBVIOUS
<1> HIDE DEF told
<1>5. ToldBefore'
  BY <1>1, <1>4, <1>9 DEF ToldBefore, HaltInv
<1>6. ASSUME NEW r \in Readers, answer'[r].at = feedClock, answer'[r].known
      PROVE  /\ \A n \in answer'[r].halted : Halted(n) \/ feedClock - market[n].to <= HaltTTL + FetchTime
             /\ \A n \in HaltNames \ answer'[r].halted :
                   ~Halted(n) \/ feedClock - market[n].from <= HaltTTL + FetchTime
  <2>1. CASE r = t
    <3>1. read /\ answer'[r].halted = {n \in HaltNames : IsActive(records[n])}
      BY <1>4, <1>6, <1>9, <2>1
    <3>2. PICK s \in 1..feedClock : Reflects(records, s) /\ feedClock <= s + FetchTime + HaltTTL
      BY <3>1
    <3>3. QED
      BY <3>1, <3>2, RecordsAreCurrent DEF HaltInv
  <2>2. CASE r # t
    BY <1>4, <1>6, <2>2 DEF HaltInv, HaltsAreCurrent
  <2>3. QED
    BY <2>1, <2>2
<1>7. HaltsAreCurrent'
  BY <1>6 DEF HaltsAreCurrent, Halted
<1>8. QED
  BY <1>2, <1>3, <1>5, <1>7

\* Nothing happens at the exchanges.
LEMMA MarketUnmoved ==
    ASSUME UNCHANGED <<feedClock, market>>
    PROVE  /\ Halts => Halts'
           /\ \A records, s : Reflects(records, s) => Reflects(records, s)'
  BY DEF Halts, Reflects

\* Records go on to reflect the market, whatever the exchanges do.
LEMMA ReflectsOn ==
    ASSUME HaltTypes, NEW records, NEW s \in 1..feedClock, Reflects(records, s),
           NEW n \in HaltNames, Halt(n) \/ Schedule(n)
    PROVE  Reflects(records, s)'
<1>1. PICK h : market' = [market EXCEPT ![n] = h]
  BY DEF Halt, Schedule
<1>2. \A m \in HaltNames : market'[m] = IF m = n THEN h ELSE market[m]
  BY <1>1 DEF HaltTypes
<1>3. feedClock \in Nat /\ s \in Nat /\ s <= feedClock
  BY DEF HaltTypes, FeedTimes
<1>4. CASE Halt(n)
  <2>1. market'[n].from = feedClock /\ market'[n] # NotHalted
    BY <1>3, <1>4 DEF Halt, HaltTypes, NotHalted
  <2>2. QED
    BY <1>2, <1>3, <2>1 DEF Reflects
<1>5. CASE Schedule(n)
  <2>1. /\ market[n] # NotHalted /\ market[n].to = Unscheduled
    BY <1>5 DEF Schedule, Halted
  <2>2. market[n] \in [from : FeedTimes, to : FeedTimes \cup {Unscheduled}]
    BY <2>1 DEF HaltTypes, Record
  <2>3. PICK to \in FeedTimes : to > feedClock /\ market' = [market EXCEPT ![n].to = to]
    BY <1>5 DEF Schedule
  <2>4. market'[n].from = market[n].from /\ market'[n].to = to /\ market'[n] # NotHalted
    BY <1>3, <2>2, <2>3 DEF HaltTypes, NotHalted, FeedTimes
  <2>5. to > s
    BY <1>3, <2>3 DEF FeedTimes
  <2>6. /\ records[n] # NotHalted => records[n].from <= s
        /\ \/ records[n] = market[n]
           \/ market[n].from >= s
    <3>1. ~(market[n].to > s)
      BY <1>3, <2>1 DEF Unscheduled
    <3>2. QED
      BY <3>1 DEF Reflects
  <2>7. \/ market'[n] # NotHalted /\ market'[n].from >= s
        \/ /\ records[n] # NotHalted /\ records[n].to = Unscheduled
           /\ market'[n].from = records[n].from /\ market'[n].to > s
    BY <2>1, <2>4, <2>5, <2>6
  <2>8. QED
    BY <1>2, <2>6, <2>7 DEF Reflects
<1>6. QED
  BY <1>4, <1>5

LEMMA RequestedOn ==
    ASSUME FeedRequested, FeedCached, UNCHANGED <<request, cache, feedClock>>,
           \A records : \A s \in 1..feedClock : Reflects(records, s) => Reflects(records, s)'
    PROVE  FeedRequested' /\ FeedCached'
<1>1. FeedRequested'
  BY DEF FeedRequested
<1>2. FeedCached'
  BY DEF FeedCached
<1>3. QED
  BY <1>1, <1>2

\* The market that a request finds reflects itself.
LEMMA MarketReflects == HaltTypes /\ Halts => Reflects(market, feedClock)
  BY DEF HaltTypes, Halts, Reflects

LEMMA ReadCacheStep == ASSUME HaltInv, NEW t \in Readers, ReadCache(t) PROVE HaltInv'
<1>1. /\ UNCHANGED <<feedClock, market, cache, feedRetryAfter, request>> /\ lastFetchOk' = TRUE
      /\ Told(t, cache.records, cache.parsed) /\ feedClock <= cache.expires
  BY DEF ReadCache
<1>2. feedClock \in Nat /\ FetchTime \in Nat /\ HaltTTL \in Nat /\ cache.expires \in Nat
  BY HaltAssumption DEF HaltAssumption, HaltInv, HaltTypes, FeedTimes
<1>3. cache.parsed => \E s \in 1..feedClock :
          Reflects(cache.records, s) /\ feedClock <= s + FetchTime + HaltTTL
  BY <1>1, <1>2 DEF HaltInv, FeedCached
<1>4. cache.records \in [HaltNames -> Record] /\ cache.parsed \in BOOLEAN
  BY DEF HaltInv, HaltTypes
<1>5. /\ answer' \in [Readers -> [at : Nat, halted : SUBSET HaltNames, known : BOOLEAN]]
      /\ ToldBefore' /\ HaltsAreCurrent'
  BY <1>1, <1>3, <1>4, ToldIsCurrent
<1>6. HaltTypes' /\ Halts' /\ FeedRequested' /\ FeedCached'
  BY <1>1, <1>5, MarketUnmoved, RequestedOn DEF HaltInv, HaltTypes
<1>7. QED
  BY <1>5, <1>6 DEF HaltInv

LEMMA BackOffStep == ASSUME HaltInv, NEW t \in Readers, BackOff(t) PROVE HaltInv'
<1>1. /\ UNCHANGED <<feedClock, market, cache, feedRetryAfter, lastFetchOk, request>>
      /\ Told(t, NoRecords, FALSE)
  BY DEF BackOff
<1>2. NoRecords \in [HaltNames -> Record]
  BY DEF NoRecords, Record
<1>3. /\ answer' \in [Readers -> [at : Nat, halted : SUBSET HaltNames, known : BOOLEAN]]
      /\ ToldBefore' /\ HaltsAreCurrent'
  BY <1>1, <1>2, ToldIsCurrent
<1>4. HaltTypes' /\ Halts' /\ FeedRequested' /\ FeedCached'
  BY <1>1, <1>3, MarketUnmoved, RequestedOn DEF HaltInv, HaltTypes
<1>5. QED
  BY <1>3, <1>4 DEF HaltInv

LEMMA RequestStep == ASSUME HaltInv, NEW t \in Readers, Request(t) PROVE HaltInv'
<1> DEFINE sent == [sent |-> feedClock, records |-> market]
<1>1. /\ UNCHANGED <<feedClock, market, cache, feedRetryAfter, lastFetchOk, answer>>
      /\ request' = [request EXCEPT ![t] = sent]
  BY DEF Request
<1>2. feedClock \in 1..feedClock /\ feedClock <= feedClock + FetchTime /\ feedClock \in Nat
  BY HaltAssumption DEF HaltAssumption, HaltInv, HaltTypes, FeedTimes
<1>3. sent \in [sent : Nat, records : [HaltNames -> Record]]
  BY <1>2 DEF HaltInv, HaltTypes
<1>4. HaltTypes'
  BY <1>1, <1>3 DEF HaltInv, HaltTypes
<1>5. Reflects(market, feedClock)'
  BY <1>1, MarketReflects, MarketUnmoved DEF HaltInv
<1>6. \A r \in Readers : request'[r] = IF r = t THEN sent ELSE request[r]
  BY <1>1 DEF HaltInv, HaltTypes
<1>7. FeedRequested'
  <2> SUFFICES ASSUME NEW r \in Readers, (request[r] # NoRequest)'
               PROVE  (/\ request[r].sent \in 1..feedClock /\ feedClock <= request[r].sent + FetchTime
                       /\ Reflects(request[r].records, request[r].sent))'
    BY DEF FeedRequested
  <2>1. CASE r = t
    BY <1>1, <1>2, <1>5, <1>6, <2>1 DEF Reflects
  <2>2. CASE r # t
    BY <1>1, <1>6, <2>2 DEF HaltInv, FeedRequested, Reflects
  <2>3. QED
    BY <2>1, <2>2
<1>8. Halts' /\ FeedCached' /\ ToldBefore' /\ HaltsAreCurrent'
  BY <1>1, MarketUnmoved DEF HaltInv, FeedCached, ToldBefore, HaltsAreCurrent, Halted
<1>9. QED
  BY <1>4, <1>7, <1>8 DEF HaltInv

\* A response is stored as of when it arrives, and is as old as its request.
LEMMA StoreStep ==
    ASSUME HaltInv, NEW t \in Readers, request[t] # NoRequest,
           NEW records \in [HaltNames -> Record], NEW parsed \in BOOLEAN,
           Store(t, records, parsed), Told(t, records, parsed),
           parsed => records = request[t].records
    PROVE  HaltInv'
<1>1. /\ UNCHANGED <<feedClock, market>> /\ lastFetchOk' = TRUE /\ feedRetryAfter' = 0
      /\ cache' = [records |-> records, expires |-> feedClock + HaltTTL, parsed |-> parsed]
      /\ request' = [request EXCEPT ![t] = NoRequest]
  BY DEF Store, CachedUntil
<1>2. /\ feedClock \in FeedTimes /\ feedClock \in Nat /\ FetchTime \in Nat /\ HaltTTL \in Nat
      /\ HaltBackoff \in Nat /\ FeedTime \in Nat
  BY HaltAssumption DEF HaltAssumption, HaltInv, HaltTypes, FeedTimes
<1>3. /\ request[t].sent \in 1..feedClock /\ feedClock <= request[t].sent + FetchTime
      /\ Reflects(request[t].records, request[t].sent)
  BY DEF HaltInv, FeedRequested
<1>4. parsed => \E s \in 1..feedClock :
          /\ Reflects(records, s) /\ feedClock <= s + FetchTime + HaltTTL
          /\ feedClock + HaltTTL <= s + FetchTime + HaltTTL
  BY <1>2, <1>3
<1>5. /\ answer' \in [Readers -> [at : Nat, halted : SUBSET HaltNames, known : BOOLEAN]]
      /\ ToldBefore' /\ HaltsAreCurrent'
  BY <1>1, <1>4, ToldIsCurrent
<1>6. \A r \in Readers : request'[r] = IF r = t THEN NoRequest ELSE request[r]
  BY <1>1 DEF HaltInv, HaltTypes
<1>7. HaltTypes'
  <2>1. NoRequest \in [sent : Nat, records : [HaltNames -> Record]]
    BY DEF NoRequest, NoRecords, Record
  <2>2. feedClock + HaltTTL \in 0..(FeedTime + HaltTTL) /\ 0 \in 0..(FeedTime + HaltBackoff)
    BY <1>2 DEF FeedTimes
  <2>3. cache' \in [records : [HaltNames -> Record], expires : 0..(FeedTime + HaltTTL), parsed : BOOLEAN]
    BY <1>1, <2>2
  <2>4. QED
    BY <1>1, <1>5, <2>1, <2>2, <2>3 DEF HaltInv, HaltTypes
<1>8. FeedRequested'
  BY <1>1, <1>6, MarketUnmoved DEF HaltInv, FeedRequested
<1>9. FeedCached'
  <2> SUFFICES ASSUME parsed
               PROVE  \E s \in 1..feedClock :
                         Reflects(records, s)' /\ feedClock + HaltTTL <= s + FetchTime + HaltTTL
    BY <1>1 DEF FeedCached
  <2> QED
    BY <1>1, <1>4, MarketUnmoved
<1>10. QED
  BY <1>1, <1>5, <1>7, <1>8, <1>9, MarketUnmoved DEF HaltInv

LEMMA ResponseStep == ASSUME HaltInv, NEW t \in Readers, Response(t) PROVE HaltInv'
<1>1. request[t].records \in [HaltNames -> Record]
  BY DEF HaltInv, HaltTypes
<1>2. QED
  BY <1>1, StoreStep DEF Response

LEMMA GarbledStep == ASSUME HaltInv, NEW t \in Readers, Garbled(t) PROVE HaltInv'
<1>1. NoRecords \in [HaltNames -> Record]
  BY DEF NoRecords, Record
<1>2. QED
  BY <1>1, StoreStep DEF Garbled

LEMMA FailedStep == ASSUME HaltInv, NEW t \in Readers, Failed(t) PROVE HaltInv'
<1>1. /\ UNCHANGED <<feedClock, market, cache>> /\ lastFetchOk' = FALSE
      /\ feedRetryAfter' = feedClock + HaltBackoff
      /\ request' = [request EXCEPT ![t] = NoRequest] /\ Told(t, NoRecords, FALSE)
  BY DEF Failed
<1>2. NoRecords \in [HaltNames -> Record] /\ NoRequest \in [sent : Nat, records : [HaltNames -> Record]]
  BY DEF NoRecords, NoRequest, Record
<1>3. /\ answer' \in [Readers -> [at : Nat, halted : SUBSET HaltNames, known : BOOLEAN]]
      /\ ToldBefore' /\ HaltsAreCurrent'
  BY <1>1, <1>2, ToldIsCurrent
<1>4. feedClock + HaltBackoff \in 0..(FeedTime + HaltBackoff)
  BY HaltAssumption DEF HaltAssumption, HaltInv, HaltTypes, FeedTimes
<1>5. HaltTypes'
  BY <1>1, <1>2, <1>3, <1>4 DEF HaltInv, HaltTypes
<1>6. \A r \in Readers : request'[r] = IF r = t THEN NoRequest ELSE request[r]
  BY <1>1 DEF HaltInv, HaltTypes
<1>7. Halts' /\ FeedRequested' /\ FeedCached'
  BY <1>1, <1>6, MarketUnmoved DEF HaltInv, FeedRequested, FeedCached
<1>8. QED
  BY <1>3, <1>5, <1>7 DEF HaltInv

LEMMA ExchangeStep ==
    ASSUME HaltInv, NEW n \in HaltNames, Halt(n) \/ Schedule(n)
    PROVE  HaltInv'
<1>1. UNCHANGED <<feedClock, cache, feedRetryAfter, lastFetchOk, request, answer>>
  BY DEF Halt, Schedule
<1>2. feedClock \in Nat /\ feedClock \in FeedTimes /\ HaltTTL + FetchTime \in Nat
  BY HaltAssumption DEF HaltAssumption, HaltInv, HaltTypes, FeedTimes
<1>3. /\ market' = [market EXCEPT ![n] = market'[n]]
      /\ market'[n] \in Record /\ market'[n] # NotHalted
      /\ market'[n].to = Unscheduled \/ market'[n].to > feedClock
      /\ \/ market'[n].from = feedClock
         \/ market[n] # NotHalted /\ Halted(n) /\ market'[n].from = market[n].from
  <2>1. CASE Halt(n)
    <3>1. PICK to \in {Unscheduled} \cup {m \in FeedTimes : m > feedClock} :
            market' = [market EXCEPT ![n] = [from |-> feedClock, to |-> to]]
      BY <2>1 DEF Halt
    <3>2. market'[n] = [from |-> feedClock, to |-> to]
      BY <3>1 DEF HaltInv, HaltTypes
    <3>3. to = Unscheduled \/ (to \in FeedTimes /\ to > feedClock)
      BY <3>1
    <3>4. market'[n] \in [from : FeedTimes, to : FeedTimes \cup {Unscheduled}]
      BY <1>2, <3>2, <3>3
    <3>5. market'[n] # NotHalted
      BY <1>2, <3>2 DEF NotHalted, FeedTimes
    <3>6. market' = [market EXCEPT ![n] = market'[n]] /\ market'[n] \in Record
      BY <3>1, <3>2, <3>4 DEF Record
    <3>7. market'[n].to = to /\ market'[n].from = feedClock
      BY <3>2
    <3>8. QED
      BY <1>2, <3>3, <3>5, <3>6, <3>7 DEF Unscheduled, FeedTimes
  <2>2. CASE Schedule(n)
    <3>1. market[n] # NotHalted /\ Halted(n)
      BY <2>2 DEF Schedule, Halted
    <3>2. PICK to \in FeedTimes : to > feedClock /\ market' = [market EXCEPT ![n].to = to]
      BY <2>2 DEF Schedule
    <3>3. market[n] \in [from : FeedTimes, to : FeedTimes \cup {Unscheduled}]
      BY <3>1 DEF HaltInv, HaltTypes, Record
    <3>4. market'[n] = [market[n] EXCEPT !.to = to]
      BY <3>2 DEF HaltInv, HaltTypes
    <3>5. QED
      BY <1>2, <3>1, <3>2, <3>3, <3>4 DEF Record, NotHalted, FeedTimes, HaltInv, HaltTypes
  <2>3. QED
    BY <2>1, <2>2
<1>4. \A m \in HaltNames : m # n => market'[m] = market[m]
  BY <1>3 DEF HaltInv, HaltTypes
<1>5. HaltTypes'
  BY <1>1, <1>3 DEF HaltInv, HaltTypes
<1>6. Halts'
  <2>1. market[n] # NotHalted => market[n].from <= feedClock /\ market[n].from \in Nat
    BY DEF HaltInv, Halts, HaltTypes, Record, FeedTimes
  <2>2. market'[n].to \in Nat
    BY <1>3 DEF Record, NotHalted, FeedTimes, Unscheduled
  <2>3. /\ market'[n].from <= feedClock
        /\ market'[n].to = Unscheduled \/ market'[n].to > market'[n].from
    BY <1>2, <1>3, <2>1, <2>2
  <2>4. QED
    BY <1>1, <1>4, <2>3 DEF HaltInv, Halts
<1>7. FeedRequested' /\ FeedCached'
  BY <1>1, ReflectsOn, RequestedOn DEF HaltInv
<1>8. HaltsAreCurrent'
  <2> SUFFICES ASSUME NEW t \in Readers, answer[t].at = feedClock, answer[t].known, NEW m \in HaltNames
               PROVE  /\ m \in answer[t].halted =>
                            Halted(m)' \/ feedClock - market'[m].to <= HaltTTL + FetchTime
                      /\ m \notin answer[t].halted =>
                            ~Halted(m)' \/ feedClock - market'[m].from <= HaltTTL + FetchTime
    BY <1>1 DEF HaltsAreCurrent, HaltInv, HaltTypes
  <2>1. CASE m = n
    BY <1>1, <1>2, <1>3, <2>1 DEF HaltInv, HaltsAreCurrent, Halted
  <2>2. CASE m # n
    BY <1>1, <1>4, <2>2 DEF HaltInv, HaltsAreCurrent, Halted
  <2>3. QED
    BY <2>1, <2>2
<1>9. QED
  BY <1>1, <1>5, <1>6, <1>7, <1>8 DEF HaltInv, ToldBefore

LEMMA FeedTickStep == ASSUME HaltInv, FeedTick PROVE HaltInv'
<1>1. /\ UNCHANGED <<market, cache, feedRetryAfter, lastFetchOk, request, answer>>
      /\ feedClock' = feedClock + 1 /\ feedClock < FeedTime
      /\ \A t \in Readers : request[t] # NoRequest => feedClock < request[t].sent + FetchTime
  BY DEF FeedTick
<1>2. feedClock \in Nat /\ FetchTime \in Nat /\ FeedTime \in Nat
  BY HaltAssumption DEF HaltAssumption, HaltInv, HaltTypes, FeedTimes
<1>3. HaltTypes'
  BY <1>1, <1>2 DEF HaltInv, HaltTypes, FeedTimes
<1>4. \A records, s : Reflects(records, s) => Reflects(records, s)'
  BY <1>1 DEF Reflects
<1>5. Halts'
  <2>1. \A n \in HaltNames : market[n] # NotHalted => market[n].from \in Nat
    BY DEF HaltInv, HaltTypes, Record, FeedTimes
  <2>2. QED
    BY <1>1, <1>2, <2>1 DEF HaltInv, Halts
<1>6. FeedRequested'
  BY <1>1, <1>2, <1>4 DEF HaltInv, FeedRequested
<1>7. FeedCached'
  BY <1>1, <1>2, <1>4 DEF HaltInv, FeedCached
<1>8. ToldBefore' /\ HaltsAreCurrent'
  BY <1>1, <1>2 DEF HaltInv, ToldBefore, HaltsAreCurrent
<1>9. QED
  BY <1>3, <1>5, <1>6, <1>7, <1>8 DEF HaltInv

LEMMA HaltInvStep == HaltInv /\ [FeedNext]_haltVars => HaltInv'
<1> SUFFICES ASSUME HaltInv, [FeedNext]_haltVars PROVE HaltInv'
  OBVIOUS
<1>1. CASE UNCHANGED haltVars
  BY <1>1, MarketUnmoved
  DEF haltVars, HaltInv, HaltTypes, FeedRequested, FeedCached, ToldBefore, HaltsAreCurrent, Halted
<1>2. CASE \E t \in Readers : Lookup(t)
  BY <1>2, ReadCacheStep, BackOffStep, RequestStep, ResponseStep, GarbledStep, FailedStep DEF Lookup
<1>3. CASE \E n \in HaltNames : Halt(n) \/ Schedule(n)
  BY <1>3, ExchangeStep
<1>4. QED
  BY <1>1, <1>2, <1>3, FeedTickStep DEF FeedNext

\* What is told of halts is no older than the cache and a request may make it, whichever
\* threads ask at once, whatever fails or cannot be parsed.
THEOREM HaltsAreCurrentHolds == FeedSpec => [](FeedTypeOK /\ HaltsAreCurrent)
<1>1. HaltInv => FeedTypeOK /\ HaltsAreCurrent
  BY DEF HaltInv, HaltTypes, FeedTypeOK
<1>2. QED
  BY <1>1, HaltInvInit, HaltInvStep, PTL DEF FeedSpec

---------------------------------------------------------------------------
(* The market caps.                                                        *)

Places ==
    {"idle", "info", "cached", "fmp", "shares", "cik", "concept", "found", "unknown"}

CapTypes ==
    /\ capClock \in CapTimes
    /\ known \in [Companies -> [until : Nat, cap : Cap \cup {NoCap}]]
    /\ shares \in [Companies -> [known : BOOLEAN, at : 0..CapTime, until : Nat]]
    /\ cikUntil \in 0..(CapTime + CikTTL) /\ secRetryAfter \in 0..(CapTime + SecBackoff)
    /\ look \in [Scanners -> [at : Places, ticker : Companies \cup {"none"},
                              concept : 0..Len(Concepts), cap : Cap \cup {NoCap}]]

\* A thread that is looking has a ticker, and what it found is a cap.
LooksFor ==
    \A th \in Scanners :
        /\ look[th].at # "idle" => look[th].ticker \in Companies
        /\ look[th].at = "found" => look[th].cap \in Cap

\* What is on disk has been obtained, and lives no longer than its time from then.
OnDisk ==
    \A t \in Companies :
        /\ known[t].until # Never => known[t].cap \in Cap
        /\ shares[t].known => /\ shares[t].at \in CapTimes
                              /\ shares[t].until <= shares[t].at + SharesTTL

CapInv == CapTypes /\ LooksFor /\ OnDisk /\ RememberedCapsAge

LEMMA CapNumbers ==
    /\ CapTTL \in Nat /\ SharesTTL \in Nat /\ NoSharesTTL \in Nat /\ CikTTL \in Nat
    /\ SecBackoff \in Nat /\ CapTime \in Nat /\ 1 \in CapTimes /\ Len(Concepts) = 2
    /\ \A n \in CapTimes : n \in Nat /\ n \in 0..CapTime /\ n > 0
  BY CapAssumption DEF CapAssumption, CapTimes, Concepts

LEMMA CapInvInit == CapInit => CapInv
<1> SUFFICES ASSUME CapInit PROVE CapInv
  OBVIOUS
<1>1. /\ NoLook \in [at : Places, ticker : Companies \cup {"none"}, concept : 0..Len(Concepts),
                     cap : Cap \cup {NoCap}]
      /\ [until |-> Never, cap |-> NoCap] \in [until : Nat, cap : Cap \cup {NoCap}]
      /\ NoShares \in [known : BOOLEAN, at : 0..CapTime, until : Nat]
  BY CapNumbers DEF NoLook, NoShares, Places, Never
<1>2. CapTypes
  BY <1>1, CapNumbers DEF CapTypes, CapInit, Never
<1>3. LooksFor /\ OnDisk /\ RememberedCapsAge
  BY DEF CapInit, LooksFor, OnDisk, RememberedCapsAge, NoLook, NoShares
<1>4. QED
  BY <1>2, <1>3 DEF CapInv

\* A thread goes on, and the disk stays as it is.
LEMMA LookOnly ==
    ASSUME CapInv, NEW th \in Scanners,
           NEW l \in [at : Places, ticker : Companies \cup {"none"}, concept : 0..Len(Concepts),
                      cap : Cap \cup {NoCap}],
           l.at # "idle" => l.ticker \in Companies, l.at = "found" => l.cap \in Cap,
           look' = [look EXCEPT ![th] = l], UNCHANGED <<capClock, known, shares>>,
           cikUntil' \in 0..(CapTime + CikTTL), secRetryAfter' \in 0..(CapTime + SecBackoff)
    PROVE  CapInv'
<1>1. \A o \in Scanners : look'[o] = IF o = th THEN l ELSE look[o]
  BY DEF CapInv, CapTypes
<1>2. CapTypes'
  BY DEF CapInv, CapTypes
<1>3. LooksFor'
  BY <1>1 DEF CapInv, LooksFor
<1>4. OnDisk' /\ RememberedCapsAge'
  BY DEF CapInv, OnDisk, RememberedCapsAge
<1>5. QED
  BY <1>2, <1>3, <1>4 DEF CapInv

\* Where a thread goes next, with the ticker it has.
LEMMA GoesOn ==
    ASSUME CapInv, NEW th \in Scanners, look[th].at # "idle", NEW at \in Places \ {"found"},
           look' = [look EXCEPT ![th].at = at], UNCHANGED <<capClock, known, shares>>,
           cikUntil' \in 0..(CapTime + CikTTL), secRetryAfter' \in 0..(CapTime + SecBackoff)
    PROVE  CapInv'
<1> DEFINE l == [look[th] EXCEPT !.at = at]
<1>1. /\ l \in [at : Places, ticker : Companies \cup {"none"}, concept : 0..Len(Concepts),
                cap : Cap \cup {NoCap}]
      /\ l.at = at /\ l.ticker = look[th].ticker
  BY DEF CapInv, CapTypes
<1>2. look' = [look EXCEPT ![th] = l]
  BY DEF CapInv, CapTypes
<1>3. l.ticker \in Companies
  BY <1>1 DEF CapInv, LooksFor
<1> HIDE DEF l
<1>4. QED
  BY <1>1, <1>2, <1>3, LookOnly

\* A cap is found now, with a count of shares that is at most its time old.
LEMMA FoundStep ==
    ASSUME CapInv, NEW th \in Scanners, look[th].at # "idle", NEW cap \in Cap, Found(th, cap),
           cap.at = capClock, capClock <= cap.shares + SharesTTL, capClock' = capClock,
           shares' \in [Companies -> [known : BOOLEAN, at : 0..CapTime, until : Nat]],
           \A t \in Companies : shares'[t].known =>
               shares'[t].at \in CapTimes /\ shares'[t].until <= shares'[t].at + SharesTTL,
           UNCHANGED cikUntil, secRetryAfter' \in 0..(CapTime + SecBackoff)
    PROVE  CapInv'
<1> DEFINE ticker == look[th].ticker
           kept == [until |-> capClock + CapTTL, cap |-> cap]
           l == [look[th] EXCEPT !.at = "found", !.cap = cap]
<1>1. ticker \in Companies /\ capClock \in Nat /\ capClock > 0 /\ cap.shares \in Nat
  BY CapNumbers DEF CapInv, LooksFor, CapTypes, Cap
<1>2. kept \in [until : Nat, cap : Cap \cup {NoCap}]
  BY <1>1, CapNumbers
<1>3. /\ known' = [known EXCEPT ![ticker] = kept]
      /\ look' = [look EXCEPT ![th] = l]
  BY DEF Found, Remember, CapInv, CapTypes
<1>4. /\ \A t \in Companies : known'[t] = IF t = ticker THEN kept ELSE known[t]
      /\ \A o \in Scanners : look'[o] = IF o = th THEN l ELSE look[o]
  BY <1>3 DEF CapInv, CapTypes
<1>5. /\ l \in [at : Places, ticker : Companies \cup {"none"}, concept : 0..Len(Concepts),
                cap : Cap \cup {NoCap}]
      /\ l.at = "found" /\ l.ticker = ticker /\ l.cap = cap
  BY DEF CapInv, CapTypes, Places
<1>6. kept.until = capClock + CapTTL /\ kept.cap = cap
  OBVIOUS
<1> HIDE DEF l, kept, ticker
<1>7. CapTypes'
  BY <1>1, <1>2, <1>3, <1>5 DEF CapInv, CapTypes
<1>8. LooksFor'
  BY <1>1, <1>4, <1>5 DEF CapInv, LooksFor
<1>9. OnDisk'
  BY <1>4, <1>6 DEF CapInv, OnDisk
<1>10. RememberedCapsAge'
  <2>1. kept.until <= cap.at + CapTTL /\ kept.until <= cap.shares + SharesTTL + CapTTL
    BY <1>1, <1>6, CapNumbers
  <2>2. QED
    BY <1>4, <1>6, <2>1 DEF CapInv, RememberedCapsAge
<1>11. QED
  BY <1>7, <1>8, <1>9, <1>10 DEF CapInv

\* As they are obtained now.
LEMMA FoundNow ==
    ASSUME CapInv, NEW th \in Scanners, look[th].at # "idle",
           Found(th, [at |-> capClock, shares |-> capClock]),
           UNCHANGED <<capClock, shares, cikUntil, secRetryAfter>>
    PROVE  CapInv'
<1> DEFINE cap == [at |-> capClock, shares |-> capClock]
<1>1. cap \in Cap /\ cap.at = capClock /\ capClock <= cap.shares + SharesTTL
  BY CapNumbers DEF CapInv, CapTypes, Cap
<1>2. Found(th, cap)
  OBVIOUS
<1> HIDE DEF cap
<1>3. QED
  BY <1>1, <1>2, FoundStep DEF CapInv, CapTypes, OnDisk

LEMMA CapUnmoved ==
    CapInv /\ UNCHANGED <<cikUntil, secRetryAfter>> =>
        cikUntil' \in 0..(CapTime + CikTTL) /\ secRetryAfter' \in 0..(CapTime + SecBackoff)
  BY DEF CapInv, CapTypes

LEMMA SecFailsTypes == CapInv /\ SecFails => secRetryAfter' \in 0..(CapTime + SecBackoff)
  BY CapNumbers DEF CapInv, CapTypes, SecFails, CapTimes

LEMMA BeginCapStep == ASSUME CapInv, NEW th \in Scanners, BeginCap(th) PROVE CapInv'
<1>1. PICK ticker \in Companies :
          look' = [look EXCEPT ![th] = [NoLook EXCEPT !.at = "info", !.ticker = ticker]]
  BY DEF BeginCap
<1> DEFINE l == [NoLook EXCEPT !.at = "info", !.ticker = ticker]
<1>2. /\ l \in [at : Places, ticker : Companies \cup {"none"}, concept : 0..Len(Concepts),
                cap : Cap \cup {NoCap}]
      /\ l.at = "info" /\ l.ticker = ticker
  <2>1. NoLook \in [at : Places, ticker : Companies \cup {"none"}, concept : 0..Len(Concepts),
                     cap : Cap \cup {NoCap}]
    BY CapNumbers DEF NoLook, Places
  <2>2. QED
    BY <2>1 DEF Places
<1>3. look' = [look EXCEPT ![th] = l]
  BY <1>1
<1> HIDE DEF l
<1>4. QED
  BY <1>2, <1>3, LookOnly, CapUnmoved DEF BeginCap

LEMMA TickerInfoStep == ASSUME CapInv, NEW th \in Scanners, TickerInfo(th) PROVE CapInv'
  BY FoundNow, GoesOn, CapUnmoved DEF TickerInfo, At, Goto, Places

\* A remembered cap serves as it is.
LEMMA ReadDiskStep == ASSUME CapInv, NEW th \in Scanners, ReadDisk(th) PROVE CapInv'
<1> DEFINE ticker == look[th].ticker
           l == [look[th] EXCEPT !.at = "found", !.cap = known[ticker].cap]
<1>1. look[th].at = "cached" /\ ticker \in Companies
  BY DEF ReadDisk, At, CapInv, LooksFor
<1>2. CASE LastKnown(th)
  <2>1. /\ capClock <= known[ticker].until /\ UNCHANGED known
        /\ look' = [look EXCEPT ![th] = l]
    BY <1>2 DEF LastKnown, CapInv, CapTypes
  <2>2. known[ticker].cap \in Cap
    BY <1>1, <2>1, CapNumbers DEF CapInv, OnDisk, CapTypes, Never
  <2>3. /\ l \in [at : Places, ticker : Companies \cup {"none"}, concept : 0..Len(Concepts),
                  cap : Cap \cup {NoCap}]
        /\ l.at = "found" /\ l.ticker = ticker /\ l.cap = known[ticker].cap
    BY <2>2 DEF CapInv, CapTypes, Places
  <2> HIDE DEF l
  <2>4. QED
    BY <1>1, <2>1, <2>2, <2>3, LookOnly, CapUnmoved DEF ReadDisk
<1>3. CASE Goto(th, "fmp") /\ UNCHANGED known
  BY <1>1, <1>3, GoesOn, CapUnmoved DEF ReadDisk, Goto, Places
<1>4. QED
  BY <1>2, <1>3 DEF ReadDisk

LEMMA AskFmpStep == ASSUME CapInv, NEW th \in Scanners, AskFmp(th) PROVE CapInv'
  BY FoundNow, GoesOn, CapUnmoved DEF AskFmp, At, Goto, GiveUp, Places

\* A count of shares from the disk, which has its time yet to live.
LEMMA ReadSharesStep == ASSUME CapInv, NEW th \in Scanners, ReadShares(th) PROVE CapInv'
<1> DEFINE ticker == look[th].ticker
           cap == [at |-> capClock, shares |-> shares[ticker].at]
<1>1. look[th].at = "shares" /\ ticker \in Companies
  BY DEF ReadShares, At, CapInv, LooksFor
<1>2. CASE capClock <= shares[ticker].until /\ shares[ticker].known /\ Found(th, cap)
  <2>1. /\ shares[ticker].at \in CapTimes /\ capClock \in CapTimes
        /\ capClock <= shares[ticker].at + SharesTTL
    <3>1. /\ shares[ticker].at \in CapTimes /\ capClock \in CapTimes /\ shares[ticker].until \in Nat
          /\ shares[ticker].until <= shares[ticker].at + SharesTTL
      BY <1>1, <1>2 DEF CapInv, OnDisk, CapTypes
    <3>2. QED
      BY <1>2, <3>1, CapNumbers
  <2>2. cap \in Cap /\ cap.at = capClock /\ cap.shares = shares[ticker].at
    BY <2>1 DEF Cap
  <2>3. Found(th, cap)
    BY <1>2
  <2> HIDE DEF cap
  <2>4. QED
    BY <1>1, <2>1, <2>2, <2>3, FoundStep DEF ReadShares, CapInv, CapTypes, OnDisk
<1>3. CASE (GiveUp(th) \/ Goto(th, "cik")) /\ UNCHANGED known
  BY <1>1, <1>3, GoesOn, CapUnmoved DEF ReadShares, GiveUp, Goto, Places
<1>4. QED
  BY <1>2, <1>3 DEF ReadShares

LEMMA CikMapStep == ASSUME CapInv, NEW th \in Scanners, CikMap(th) PROVE CapInv'
<1>1. look[th].at # "idle" /\ UNCHANGED <<capClock, known, shares>>
  BY DEF CikMap, At
<1>2. cikUntil' \in 0..(CapTime + CikTTL)
  <2>1. capClock + CikTTL \in 0..(CapTime + CikTTL)
    BY CapNumbers DEF CapInv, CapTypes, CapTimes
  <2>2. QED
    BY <2>1 DEF CikMap, CapInv, CapTypes
<1>3. secRetryAfter' \in 0..(CapTime + SecBackoff)
  BY SecFailsTypes DEF CikMap, CapInv, CapTypes
<1>4. \E at \in Places \ {"found"} : look' = [look EXCEPT ![th].at = at]
  BY DEF CikMap, Goto, GiveUp, Places
<1>5. QED
  BY <1>1, <1>2, <1>3, <1>4, GoesOn

LEMMA AskConceptStep == ASSUME CapInv, NEW th \in Scanners, AskConcept(th) PROVE CapInv'
<1> DEFINE ticker == look[th].ticker
           count == [known |-> TRUE, at |-> capClock, until |-> capClock + SharesTTL]
           cap == [at |-> capClock, shares |-> capClock]
           l == [look[th] EXCEPT !.concept = @ + 1]
<1>1. /\ look[th].at = "concept" /\ ticker \in Companies /\ capClock \in CapTimes
      /\ look[th].concept < Len(Concepts)
  BY DEF AskConcept, At, CapInv, LooksFor, CapTypes
<1>2. CASE /\ shares' = [shares EXCEPT ![ticker] = count]
           /\ Found(th, cap) /\ UNCHANGED <<capClock, cikUntil, secRetryAfter>>
  <2>1. /\ count \in [known : BOOLEAN, at : 0..CapTime, until : Nat]
        /\ count.at \in CapTimes /\ count.until <= count.at + SharesTTL
    BY <1>1, CapNumbers
  <2>2. cap \in Cap /\ cap.at = capClock /\ capClock <= cap.shares + SharesTTL
    BY <1>1, CapNumbers DEF Cap
  <2>3. /\ shares' = [shares EXCEPT ![ticker] = count] /\ Found(th, cap)
        /\ UNCHANGED <<capClock, cikUntil, secRetryAfter>>
    BY <1>2
  <2> HIDE DEF count, cap
  <2>4. /\ shares' \in [Companies -> [known : BOOLEAN, at : 0..CapTime, until : Nat]]
        /\ \A t \in Companies : shares'[t] = IF t = ticker THEN count ELSE shares[t]
    BY <2>1, <2>3 DEF CapInv, CapTypes
  <2>5. \A t \in Companies : shares'[t].known =>
            shares'[t].at \in CapTimes /\ shares'[t].until <= shares'[t].at + SharesTTL
    BY <2>1, <2>4 DEF CapInv, OnDisk
  <2>6. secRetryAfter' \in 0..(CapTime + SecBackoff)
    BY <2>3 DEF CapInv, CapTypes
  <2>7. QED
    BY <1>1, <2>2, <2>3, <2>4, <2>5, <2>6, FoundStep
<1>3. CASE /\ NextConcept(th) /\ UNCHANGED <<capClock, known, shares, cikUntil>>
           /\ SecFails \/ UNCHANGED secRetryAfter
  <2>1. look' = [look EXCEPT ![th] = l]
    BY <1>3 DEF NextConcept, CapInv, CapTypes
  <2>2. /\ l \in [at : Places, ticker : Companies \cup {"none"}, concept : 0..Len(Concepts),
                  cap : Cap \cup {NoCap}]
        /\ l.at = "concept" /\ l.ticker = ticker
    BY <1>1, CapNumbers DEF CapInv, CapTypes
  <2>3. cikUntil' \in 0..(CapTime + CikTTL) /\ secRetryAfter' \in 0..(CapTime + SecBackoff)
    BY <1>3, SecFailsTypes DEF CapInv, CapTypes
  <2> HIDE DEF l
  <2>4. QED
    BY <1>1, <1>3, <2>1, <2>2, <2>3, LookOnly
<1>4. QED
  BY <1>2, <1>3 DEF AskConcept

LEMMA EndSharesStep == ASSUME CapInv, NEW th \in Scanners, EndShares(th) PROVE CapInv'
<1> DEFINE ticker == look[th].ticker
           none == [known |-> FALSE, at |-> Never, until |-> capClock + NoSharesTTL]
           l == [look[th] EXCEPT !.at = "unknown"]
<1>1. /\ ticker \in Companies /\ UNCHANGED <<capClock, known, cikUntil, secRetryAfter>>
      /\ shares' = [shares EXCEPT ![ticker] = none] \/ UNCHANGED shares
      /\ look' = [look EXCEPT ![th] = l]
  BY DEF EndShares, At, GiveUp, CapInv, LooksFor, CapTypes
<1>2. none \in [known : BOOLEAN, at : 0..CapTime, until : Nat] /\ none.known = FALSE
  BY CapNumbers DEF CapInv, CapTypes, Never
<1>3. /\ l \in [at : Places, ticker : Companies \cup {"none"}, concept : 0..Len(Concepts),
                cap : Cap \cup {NoCap}]
      /\ l.at = "unknown" /\ l.ticker = ticker
  BY DEF CapInv, CapTypes, Places
<1> HIDE DEF none, l
<1>4. \A t \in Companies : shares'[t] = shares[t] \/ shares'[t].known = FALSE
  BY <1>1, <1>2 DEF CapInv, CapTypes
<1>5. CapTypes'
  <2>1. shares' \in [Companies -> [known : BOOLEAN, at : 0..CapTime, until : Nat]]
    BY <1>1, <1>2 DEF CapInv, CapTypes
  <2>2. look' \in [Scanners -> [at : Places, ticker : Companies \cup {"none"},
                               concept : 0..Len(Concepts), cap : Cap \cup {NoCap}]]
    BY <1>1, <1>3 DEF CapInv, CapTypes
  <2>3. QED
    BY <1>1, <2>1, <2>2 DEF CapInv, CapTypes
<1>6. LooksFor'
  BY <1>1, <1>3 DEF CapInv, LooksFor, CapTypes
<1>7. OnDisk' /\ RememberedCapsAge'
  BY <1>1, <1>4 DEF CapInv, OnDisk, RememberedCapsAge
<1>8. QED
  BY <1>5, <1>6, <1>7 DEF CapInv

LEMMA ReturnCapStep == ASSUME CapInv, NEW th \in Scanners, ReturnCap(th) PROVE CapInv'
<1>1. /\ NoLook \in [at : Places, ticker : Companies \cup {"none"}, concept : 0..Len(Concepts),
                     cap : Cap \cup {NoCap}]
      /\ NoLook.at = "idle"
  BY CapNumbers DEF NoLook, Places
<1>2. QED
  BY <1>1, LookOnly, CapUnmoved DEF ReturnCap

LEMMA CapInvStep == CapInv /\ [CapNext]_capVars => CapInv'
<1> SUFFICES ASSUME CapInv, [CapNext]_capVars PROVE CapInv'
  OBVIOUS
<1>1. CASE UNCHANGED <<capClock, known, shares, cikUntil, secRetryAfter, look>>
  BY <1>1 DEF CapInv, CapTypes, LooksFor, OnDisk, RememberedCapsAge
<1>2. CASE CapTick
  BY <1>2, CapNumbers
  DEF CapTick, CapInv, CapTypes, CapTimes, LooksFor, OnDisk, RememberedCapsAge
<1>3. CASE \E th \in Scanners : CapStep(th)
  BY <1>3, BeginCapStep, TickerInfoStep, ReadDiskStep, AskFmpStep, ReadSharesStep, CikMapStep,
     AskConceptStep, EndSharesStep, ReturnCapStep DEF CapStep
<1>4. QED
  BY <1>1, <1>2, <1>3 DEF CapNext, Files, capVars

\* A remembered cap is never older than its time on disk, and a count of shares in it never
\* older than both times: whichever threads of a scan share them, no value keeps itself alive.
THEOREM RememberedCapsAgeHolds == CapSpec => [](CapTypeOK /\ RememberedCapsAge)
<1>1. CapInv => CapTypeOK /\ RememberedCapsAge
  BY DEF CapInv, CapTypes, CapTypeOK, LooksFor, OnDisk, At
<1>2. QED
  BY <1>1, CapInvInit, CapInvStep, PTL DEF CapSpec

---------------------------------------------------------------------------
(* The earnings dates.                                                     *)

RefreshKind ==
    [pc : {"off", "ask", "save"}, asOf : Dates, todo : Seq(Symbols), at : Nat,
     dates : [Symbols -> Dates], got : [Symbols -> Dates], failed : BOOLEAN, blind : BOOLEAN]

ReaderKind ==
    [pc : {"idle", "load", "read", "answer", "judged"}, loaded : BOOLEAN, mtime : Nat,
     dates : [Symbols -> Dates], ticker : Symbols \cup {NoSymbol}, own : Int,
     verdict : {"none", "block", "pass"}, during : SUBSET Dates, unread : BOOLEAN]

\* A refresh counts from a day that has come.
CountsFrom(c) == c.asOf <= date /\ (c.pc # "off" => c.asOf # NoDate)

CalTypes ==
    /\ date \in CalendarDays /\ announced \in [Symbols -> Dates]
    /\ calFile \in [dates : [Symbols -> Dates], version : Nat]
    /\ cli \in RefreshKind /\ cli.at <= Len(cli.todo) /\ CountsFrom(cli)
    /\ reader \in ReaderKind /\ reader.mtime <= calFile.version
    /\ refreshes \in 0..MaxRefreshes /\ calFaults \in 0..MaxCalFaults

\* The dates a refresh has fetched that the file does not have.
Unsaved(c, f) == {t \in Symbols : c.got[t] # NoDate /\ f.dates[t] # c.got[t]}

\* A refresh keeps what it fetches and, if it could read it, what the file had; and no
\* more is unsaved than it has asked for since the last checkpoint.
RefreshOK(c, f) ==
    /\ \A t \in Symbols : c.got[t] # NoDate => c.dates[t] = c.got[t]
    /\ c.pc # "off" /\ ~c.blind =>
          \A t \in Symbols : f.dates[t] # NoDate => c.dates[t] # NoDate
    /\ c.pc # "off" /\ ~c.failed =>
          /\ IsFiniteSet(Unsaved(c, f))
          /\ Cardinality(Unsaved(c, f)) <= IF c.pc = "save" THEN Checkpoint ELSE c.at % Checkpoint

\* A look-up has seen what the file has now; what the calendar loaded is of the version it
\* is stamped with or of a later one; and what it answers from was in the file during the
\* look-up, unless the file could not be read.  Only a plan without a number is looked up.
ReaderOK(r, f) ==
    /\ r.pc # "idle" => r.ticker \in Symbols
    /\ r.pc \in {"load", "read", "answer"} => f.dates[r.ticker] \in r.during /\ r.own = NoDays
    /\ r.loaded /\ r.pc # "read" /\ r.mtime = f.version /\ ~r.unread => r.dates = f.dates
    /\ r.pc = "answer" /\ ~r.unread => r.dates[r.ticker] \in r.during
    /\ r.verdict # "none" => r.pc = "judged"

CalInv == CalTypes /\ RefreshOK(cli, calFile) /\ ReaderOK(reader, calFile) /\ EarningsWeekIsBlocked

\* The next remainder is one more, or none.
LEMMA Remainders ==
    ASSUME NEW i \in Nat, NEW k \in Nat \ {0}
    PROVE  /\ i % k \in Nat /\ i % k < k
           /\ (i + 1) % k = 0 \/ (i + 1) % k = (i % k) + 1
<1> DEFINE q == i \div k
           r == i % k
           s == (i + 1) \div k
           u == (i + 1) % k
<1>1. /\ i = k * q + r /\ r \in 0..(k - 1) /\ q \in Int
      /\ i + 1 = k * s + u /\ u \in 0..(k - 1) /\ s \in Int
  OBVIOUS
<1> HIDE DEF q, r, s, u
<1>2. \A d \in Int : (d >= 1 => k * d >= k) /\ (d <= -1 => k * d <= -k)
  OBVIOUS
<1>3. k * s = k * q + k * (s - q) /\ s - q \in Int
  BY <1>1
<1>4. k * s \in Int /\ k * q \in Int /\ k * (s - q) \in Int
  BY <1>1
<1>5. (s > q => k * s >= k * q + k) /\ (s < q => k * s <= k * q - k)
  BY <1>1, <1>2, <1>3, <1>4
<1>6. u = 0 \/ u = r + 1
  <2>1. CASE s = q
    BY <1>1, <1>4, <2>1
  <2>2. CASE s > q
    BY <1>1, <1>4, <1>5, <2>2
  <2>3. CASE s < q
    BY <1>1, <1>4, <1>5, <2>3
  <2>4. QED
    BY <1>1, <2>1, <2>2, <2>3
<1>7. QED
  BY <1>1, <1>6 DEF r, u

LEMMA CalNumbers ==
    /\ LastDay \in Nat /\ 1 \in CalendarDays /\ NoDate \in Dates /\ NoDates \in [Symbols -> Dates]
    /\ Checkpoint \in Nat \ {0} /\ MaxRefreshes \in Nat /\ MaxCalFaults \in Nat
    /\ \A d \in CalendarDays : d \in Dates /\ d \in Nat /\ d # NoDate
    /\ \A d \in Dates : d \in Nat
    /\ NoDays \in Int /\ Window \in Nat
    /\ \A own \in PlanDays : own \in Int /\ (own \notin 0..Window => own = NoDays \/ own > Window)
  BY CalendarAssumption DEF NoDays, PlanDays, CalendarAssumption, CalendarDays, Dates, NoDate, NoDates

LEMMA Blanks ==
    /\ NoRefresh \in RefreshKind /\ NoRefresh.pc = "off" /\ NoRefresh.at = 0
    /\ NoRefresh.todo = <<>> /\ NoRefresh.got = NoDates /\ NoRefresh.dates = NoDates
    /\ NoRefresh.failed = FALSE /\ NoRefresh.blind = FALSE /\ NoRefresh.asOf = NoDate
    /\ NewReader \in ReaderKind /\ NewReader.pc = "idle" /\ NewReader.mtime = 0
    /\ NewReader.loaded = FALSE /\ NewReader.verdict = "none"
<1>1. /\ <<>> \in Seq(Symbols) /\ NoDates \in [Symbols -> Dates]
      /\ NoDate \in Dates /\ NoDays \in Int
  BY CalNumbers
<1>2. NoRefresh \in RefreshKind
  BY <1>1 DEF NoRefresh, RefreshKind
<1>3. NewReader \in ReaderKind
  BY <1>1 DEF NewReader, ReaderKind
<1>4. QED
  BY <1>2, <1>3 DEF NoRefresh, NewReader

LEMMA NoneCounts == CalInv => CountsFrom(NoRefresh)
  BY Blanks DEF CalInv, CalTypes, CountsFrom, CalendarDays, NoDate

LEMMA BlanksAreOK == \A f : RefreshOK(NoRefresh, f) /\ ReaderOK(NewReader, f)
  BY Blanks DEF RefreshOK, ReaderOK, NoDates

LEMMA CalInvInit == CalInit => CalInv
<1> SUFFICES ASSUME CalInit PROVE CalInv
  OBVIOUS
<1>1. calFile \in [dates : [Symbols -> Dates], version : Nat]
  BY CalNumbers DEF CalInit
<1>2. CalTypes
  BY <1>1, CalNumbers, Blanks DEF CalInit, CalTypes, CountsFrom, NoDate
<1>3. EarningsWeekIsBlocked
  BY Blanks DEF CalInit, EarningsWeekIsBlocked
<1>4. QED
  BY <1>2, <1>3, BlanksAreOK DEF CalInit, CalInv

---------------------------------------------------------------------------
\* The refresh goes on, and the file and the executor stay as they are.
LEMMA RefreshOnly ==
    ASSUME CalInv, UNCHANGED <<date, announced, calFile, reader>>,
           cli' \in RefreshKind, cli'.at <= Len(cli'.todo), CountsFrom(cli'),
           RefreshOK(cli', calFile),
           refreshes' \in 0..MaxRefreshes, calFaults' \in 0..MaxCalFaults
    PROVE  CalInv'
<1>1. CalTypes'
  BY DEF CalInv, CalTypes, CountsFrom
<1>2. EarningsWeekIsBlocked'
  BY DEF CalInv, EarningsWeekIsBlocked, WasInWindow, InWindow
<1>3. RefreshOK(cli, calFile)' /\ ReaderOK(reader, calFile)'
  BY DEF CalInv, RefreshOK, ReaderOK, Unsaved
<1>4. QED
  BY <1>1, <1>2, <1>3 DEF CalInv

LEMMA Faults == CalInv /\ (CalFault \/ UNCHANGED calFaults) => calFaults' \in 0..MaxCalFaults
  BY CalNumbers DEF CalInv, CalTypes, CalFault

LEMMA StartStep == ASSUME CalInv, Start PROVE CalInv'
<1>1. PICK u \in Universes :
          \/ cli' = [NewRefresh(u) EXCEPT !.dates = LoadedDates]
          \/ cli' = [NewRefresh(u) EXCEPT !.blind = TRUE]
  BY DEF Start
<1>2. u \in Seq(Symbols)
  BY CalendarAssumption DEF CalendarAssumption
<1>3. /\ LoadedDates = calFile.dates /\ calFile.dates \in [Symbols -> Dates]
      /\ date \in Dates /\ date # NoDate /\ date <= date
  BY CalNumbers DEF LoadedDates, CalInv, CalTypes
<1>4. /\ cli' \in RefreshKind /\ cli'.pc = "ask" /\ cli'.at = 0 /\ cli'.todo = u
      /\ cli'.asOf = date
      /\ cli'.got = NoDates /\ (cli'.dates = calFile.dates \/ cli'.blind = TRUE)
  <2> DEFINE new == NewRefresh(u)
  <2>1. /\ new \in RefreshKind /\ new.pc = "ask" /\ new.at = 0 /\ new.todo = u
        /\ new.asOf = date /\ new.got = NoDates
    BY <1>2, <1>3, Blanks DEF RefreshKind, NewRefresh
  <2> HIDE DEF new
  <2>2. QED
    BY <1>1, <1>3, <2>1 DEF RefreshKind, new
<1>5. Unsaved(cli', calFile) = {}
  BY <1>4 DEF Unsaved, NoDates
<1>6. 0 % Checkpoint \in Nat
  BY CalNumbers, Remainders
<1>7. RefreshOK(cli', calFile)
  BY <1>4, <1>5, <1>6, FS_EmptySet DEF RefreshOK, NoDates
<1>8. cli'.at <= Len(cli'.todo)
  BY <1>2, <1>4
<1>9. refreshes' \in 0..MaxRefreshes /\ calFaults' \in 0..MaxCalFaults
  BY CalNumbers, Faults DEF Start, CalInv, CalTypes
<1>10. CountsFrom(cli')
  BY <1>3, <1>4 DEF CountsFrom
<1>11. QED
  BY <1>4, <1>7, <1>8, <1>9, <1>10, RefreshOnly DEF Start

\* What is asked for next may be unsaved too; it is at a checkpoint that a save follows.
LEMMA AskProviderStep == ASSUME CalInv, AskProvider PROVE CalInv'
<1> DEFINE t == cli.todo[cli.at + 1]
           next == NextAsked
<1>1. /\ cli.pc = "ask" /\ cli.at < Len(cli.todo) /\ cli \in RefreshKind /\ cli.at \in Nat
      /\ UNCHANGED <<date, announced, calFile, reader, refreshes, calFaults>>
  BY DEF AskProvider, CalInv, CalTypes, RefreshKind
<1>2. t \in Symbols
  BY <1>1 DEF RefreshKind
<1>3. /\ next \in RefreshKind /\ next.at = cli.at + 1 /\ next.todo = cli.todo
      /\ next.dates = cli.dates /\ next.got = cli.got
      /\ next.failed = cli.failed /\ next.blind = cli.blind /\ next.asOf = cli.asOf
      /\ next.pc = IF AtCheckpoint(cli.at + 1) THEN "save" ELSE "ask"
  <2> DEFINE at == cli.at + 1
             after == IF AtCheckpoint(at) THEN "save" ELSE "ask"
  <2>1. at \in Nat /\ after \in {"ask", "save"}
    BY <1>1
  <2>2. next = [cli EXCEPT !.at = at, !.pc = after]
    BY DEF NextAsked
  <2> HIDE DEF next, at, after
  <2>3. /\ next \in RefreshKind /\ next.at = at /\ next.todo = cli.todo
        /\ next.dates = cli.dates /\ next.got = cli.got
        /\ next.failed = cli.failed /\ next.blind = cli.blind /\ next.asOf = cli.asOf
        /\ next.pc = after
    BY <1>1, <2>1, <2>2 DEF RefreshKind
  <2>4. QED
    BY <2>3 DEF at, after
<1>4. \/ \E days \in DaysTo(t) : cli' = WithDate(t, DateOf(days))
      \/ cli' = next
  BY DEF AskProvider
<1> HIDE DEF next
<1>5. ASSUME NEW days \in DaysTo(t)
      PROVE  DateOf(days) \in Dates /\ DateOf(days) # NoDate
  <2>1. /\ announced[t] \in Nat /\ announced[t] <= LastDay /\ date \in Nat
        /\ cli.asOf \in Nat /\ cli.asOf >= 1 /\ cli.asOf <= date /\ LastDay \in Nat
    BY <1>1, <1>2, CalNumbers
    DEF CalInv, CalTypes, RefreshKind, CountsFrom, Dates, CalendarDays, NoDate
  <2>2. days \in Nat /\ days <= announced[t] - date
    BY <2>1 DEF DaysTo
  <2>3. QED
    BY <2>1, <2>2 DEF DateOf, Dates, CalendarDays, NoDate
<1>6. /\ cli' \in RefreshKind /\ cli'.at = cli.at + 1 /\ cli'.todo = cli.todo
      /\ cli'.asOf = cli.asOf
      /\ cli'.failed = cli.failed /\ cli'.blind = cli.blind
      /\ cli'.pc = IF AtCheckpoint(cli.at + 1) THEN "save" ELSE "ask"
      /\ \A o \in Symbols : o # t => cli'.dates[o] = cli.dates[o] /\ cli'.got[o] = cli.got[o]
      /\ \/ cli'.dates[t] = cli'.got[t] /\ cli'.got[t] # NoDate
         \/ cli'.dates[t] = cli.dates[t] /\ cli'.got[t] = cli.got[t]
  <2>1. CASE \E days \in DaysTo(t) : cli' = WithDate(t, DateOf(days))
    <3> PICK days \in DaysTo(t) : cli' = WithDate(t, DateOf(days))
      BY <2>1
    <3> DEFINE made == DateOf(days)
               answered == WithDate(t, made)
    <3>1. /\ answered \in RefreshKind /\ answered.at = next.at /\ answered.todo = next.todo
          /\ answered.failed = next.failed /\ answered.blind = next.blind
          /\ answered.pc = next.pc /\ answered.asOf = next.asOf
          /\ answered.dates = [next.dates EXCEPT ![t] = made]
          /\ answered.got = [next.got EXCEPT ![t] = made]
      <4>1. made \in Dates /\ answered = [next EXCEPT !.dates[t] = made, !.got[t] = made]
        BY <1>5 DEF WithDate, next
      <4> HIDE DEF made, answered, t
      <4>2. QED
        BY <1>2, <1>3, <4>1 DEF RefreshKind
    <3>2. cli'.dates[t] = made /\ cli'.got[t] = made
      BY <1>2, <1>3, <1>5, <3>1 DEF RefreshKind
    <3>3. \A o \in Symbols : o # t => cli'.dates[o] = cli.dates[o] /\ cli'.got[o] = cli.got[o]
      BY <1>1, <1>2, <1>3, <3>1 DEF RefreshKind
    <3>4. made # NoDate /\ cli' = answered
      BY <1>5
    <3> HIDE DEF answered, made
    <3>5. QED
      BY <1>3, <3>1, <3>2, <3>3, <3>4
  <2>2. CASE cli' = next
    BY <1>3, <2>2
  <2>3. QED
    BY <1>4, <2>1, <2>2
<1> HIDE DEF t
<1>7. RefreshOK(cli', calFile)
  <2>1. \A o \in Symbols : cli'.got[o] # NoDate => cli'.dates[o] = cli'.got[o]
    BY <1>6 DEF CalInv, RefreshOK
  <2>2. ~cli.blind => \A o \in Symbols : calFile.dates[o] # NoDate => cli'.dates[o] # NoDate
    BY <1>1, <1>6 DEF CalInv, RefreshOK
  <2>3. ASSUME ~cli.failed
        PROVE  /\ IsFiniteSet(Unsaved(cli', calFile))
               /\ Cardinality(Unsaved(cli', calFile)) <=
                     IF cli'.pc = "save" THEN Checkpoint ELSE cli'.at % Checkpoint
    <3>1. /\ IsFiniteSet(Unsaved(cli, calFile))
          /\ Cardinality(Unsaved(cli, calFile)) <= cli.at % Checkpoint
      BY <1>1, <2>3 DEF CalInv, RefreshOK
    <3>2. Unsaved(cli', calFile) \subseteq Unsaved(cli, calFile) \cup {t}
      BY <1>6 DEF Unsaved
    <3>3. /\ IsFiniteSet(Unsaved(cli, calFile) \cup {t})
          /\ Cardinality(Unsaved(cli, calFile) \cup {t}) <= Cardinality(Unsaved(cli, calFile)) + 1
      <4> DEFINE before == Unsaved(cli, calFile)
      <4>1. IsFiniteSet(before) /\ Cardinality(before) \in Nat
        BY <3>1, FS_CardinalityType
      <4> HIDE DEF before
      <4>2. /\ IsFiniteSet(before \cup {t})
            /\ Cardinality(before \cup {t}) = IF t \in before THEN Cardinality(before)
                                              ELSE Cardinality(before) + 1
        BY <4>1, FS_AddElement
      <4>3. Cardinality(before \cup {t}) <= Cardinality(before) + 1
        BY <4>1, <4>2
      <4>4. QED
        BY <4>2, <4>3 DEF before
    <3>4. /\ IsFiniteSet(Unsaved(cli', calFile))
          /\ Cardinality(Unsaved(cli', calFile)) <= Cardinality(Unsaved(cli, calFile)) + 1
          /\ Cardinality(Unsaved(cli', calFile)) \in Nat
      BY <3>1, <3>2, <3>3, FS_Subset, FS_CardinalityType
    <3>5. /\ cli.at % Checkpoint \in Nat /\ cli.at % Checkpoint < Checkpoint
          /\ cli'.pc = "ask" => (cli.at + 1) % Checkpoint = (cli.at % Checkpoint) + 1
      BY <1>1, <1>6, CalNumbers, Remainders DEF AtCheckpoint
    <3>6. cli'.pc \in {"ask", "save"}
      BY <1>6
    <3>7. QED
      BY <1>6, <3>1, <3>4, <3>5, <3>6, CalNumbers, FS_CardinalityType
  <2>4. QED
    BY <1>6, <2>1, <2>2, <2>3 DEF RefreshOK
<1>8. cli'.at <= Len(cli'.todo)
  BY <1>1, <1>6 DEF RefreshKind
<1>9. CountsFrom(cli')
  BY <1>1, <1>6 DEF CalInv, CalTypes, CountsFrom
<1>10. QED
  BY <1>1, <1>6, <1>7, <1>8, <1>9, RefreshOnly DEF CalInv, CalTypes

\* The file takes all that the refresh has, and a look-up that is under way sees it.
LEMMA SaveStep == ASSUME CalInv, Save PROVE CalInv'
<1>1. /\ cli.pc # "off" /\ UNCHANGED <<date, announced, refreshes>> /\ cli \in RefreshKind
      /\ cli.at \in Nat /\ cli.at <= Len(cli.todo) /\ refreshes \in 0..MaxRefreshes
  BY DEF Save, CalInv, CalTypes, RefreshKind
<1>2. cli.at % Checkpoint \in Nat
  BY <1>1, CalNumbers, Remainders
<1>3. ASSUME cli' = [cli EXCEPT !.pc = "ask"] \/ cli' = [cli EXCEPT !.pc = "ask", !.failed = TRUE]
      PROVE  /\ cli' \in RefreshKind /\ cli'.pc = "ask" /\ cli'.at = cli.at /\ cli'.todo = cli.todo
             /\ cli'.got = cli.got /\ cli'.dates = cli.dates /\ cli'.blind = cli.blind
             /\ cli'.asOf = cli.asOf
  BY <1>1, <1>3 DEF RefreshKind
<1>4. CASE /\ calFile' = [dates |-> cli.dates, version |-> calFile.version + 1]
           /\ cli' = NoRefresh \/ cli' = [cli EXCEPT !.pc = "ask"]
           /\ Watching(calFile') /\ UNCHANGED calFaults
  <2>1. /\ calFile'.dates = cli.dates /\ calFile'.version = calFile.version + 1
        /\ calFile' \in [dates : [Symbols -> Dates], version : Nat] /\ calFile.version \in Nat
    BY <1>1, <1>4 DEF CalInv, CalTypes, RefreshKind
  <2>2. RefreshOK(cli', calFile')
    <3>1. CASE cli' = NoRefresh
      BY <3>1, BlanksAreOK
    <3>2. CASE cli' = [cli EXCEPT !.pc = "ask"]
      <4>1. \A t \in Symbols : cli.got[t] # NoDate => cli.dates[t] = cli.got[t]
        BY DEF CalInv, RefreshOK
      <4>2. Unsaved(cli', calFile') = {}
        BY <1>3, <2>1, <3>2, <4>1 DEF Unsaved
      <4>3. QED
        <5>1. IsFiniteSet({}) /\ Cardinality({}) = 0
          BY FS_EmptySet
        <5>2. /\ cli'.pc = "ask" /\ cli'.got = cli.got /\ cli'.dates = calFile'.dates
              /\ cli'.at % Checkpoint \in Nat /\ cli'.dates = cli.dates
          BY <1>2, <1>3, <2>1, <3>2
        <5>3. QED
          BY <4>1, <4>2, <5>1, <5>2 DEF RefreshOK
    <3>3. QED
      BY <1>4, <3>1, <3>2
  <2>3. /\ reader' \in ReaderKind /\ reader'.mtime = reader.mtime /\ reader'.pc = reader.pc
        /\ reader'.ticker = reader.ticker /\ reader'.loaded = reader.loaded
        /\ reader'.dates = reader.dates /\ reader'.unread = reader.unread
        /\ reader'.verdict = reader.verdict /\ reader.during \subseteq reader'.during
        /\ reader'.own = reader.own
        /\ reader.pc \in {"load", "read", "answer"} => calFile'.dates[reader.ticker] \in reader'.during
        /\ reader.pc \notin {"load", "read", "answer"} => reader' = reader
    <3>1. CASE reader.pc \in {"load", "read", "answer"}
      <4>1. reader' = [reader EXCEPT !.during = @ \cup {calFile'.dates[reader.ticker]}]
        BY <1>4, <3>1 DEF Watching
      <4>2. calFile'.dates[reader.ticker] \in Dates
        BY <2>1, <3>1 DEF CalInv, ReaderOK
      <4>3. QED
        BY <3>1, <4>1, <4>2 DEF CalInv, CalTypes, ReaderKind
    <3>2. CASE reader.pc \notin {"load", "read", "answer"}
      BY <1>4, <3>2 DEF Watching, CalInv, CalTypes
    <3>3. QED
      BY <3>1, <3>2
  <2>4. CalTypes'
    <3>1. reader'.mtime <= calFile'.version
      BY <2>1, <2>3 DEF CalInv, CalTypes, ReaderKind
    <3>2. cli' \in RefreshKind /\ cli'.at <= Len(cli'.todo) /\ CountsFrom(cli')
      BY <1>1, <1>3, <1>4, Blanks, NoneCounts DEF CalInv, CalTypes, CountsFrom
    <3>3. QED
      BY <1>1, <1>4, <2>1, <2>3, <3>1, <3>2 DEF CalInv, CalTypes, CountsFrom
  <2>5. ReaderOK(reader', calFile')
    <3>1. reader'.mtime # calFile'.version
      BY <2>1, <2>3 DEF CalInv, CalTypes, ReaderKind
    <3>2. QED
      BY <2>3, <3>1 DEF CalInv, ReaderOK
  <2>6. EarningsWeekIsBlocked'
    BY <1>1, <2>3 DEF CalInv, ReaderOK, EarningsWeekIsBlocked, WasInWindow, InWindow
  <2>7. QED
    BY <2>2, <2>4, <2>5, <2>6 DEF CalInv
<1>5. CASE /\ cli' = NoRefresh \/ cli' = [cli EXCEPT !.pc = "ask", !.failed = TRUE]
           /\ CalFault /\ UNCHANGED <<calFile, reader>>
  <2>1. calFaults' \in 0..MaxCalFaults
    BY <1>5, Faults
  <2>2. CASE cli' = NoRefresh
    BY <1>1, <1>5, <2>1, <2>2, Blanks, BlanksAreOK, NoneCounts, RefreshOnly
  <2>3. CASE cli' = [cli EXCEPT !.pc = "ask", !.failed = TRUE]
    <3>1. cli'.failed = TRUE
      BY <1>1, <2>3 DEF RefreshKind
    <3>2. RefreshOK(cli', calFile)
      BY <1>1, <1>3, <2>3, <3>1 DEF CalInv, RefreshOK
    <3>3. CountsFrom(cli')
      BY <1>1, <1>3, <2>3 DEF CalInv, CalTypes, CountsFrom
    <3>4. QED
      BY <1>1, <1>3, <1>5, <2>1, <2>3, <3>2, <3>3, RefreshOnly
  <2>4. QED
    BY <1>5, <2>2, <2>3
<1>6. QED
  BY <1>4, <1>5 DEF Save

---------------------------------------------------------------------------
\* The executor goes on, and the file and the refresh stay as they are.
LEMMA ReaderOnly ==
    ASSUME CalInv, UNCHANGED <<date, announced, calFile, cli, refreshes>>,
           reader' \in ReaderKind, reader'.mtime <= calFile.version, ReaderOK(reader', calFile),
           EarningsWeekIsBlocked', calFaults' \in 0..MaxCalFaults
    PROVE  CalInv'
<1>1. CalTypes'
  BY DEF CalInv, CalTypes, CountsFrom
<1>2. RefreshOK(cli, calFile)' /\ ReaderOK(reader, calFile)'
  BY DEF CalInv, RefreshOK, ReaderOK, Unsaved
<1>3. QED
  BY <1>1, <1>2 DEF CalInv

LEMMA ReaderTypes ==
    CalInv => /\ reader \in ReaderKind /\ reader.mtime \in Nat /\ reader.mtime <= calFile.version
              /\ calFile.version \in Nat /\ calFile.dates \in [Symbols -> Dates]
              /\ calFaults \in 0..MaxCalFaults
  BY DEF CalInv, CalTypes, ReaderKind

\* A number that is known and beyond the window passes, and so does none.
LEMMA Judgements ==
    ASSUME NEW r \in ReaderKind, NEW days \in Int, r.ticker \in Symbols
    PROVE  LET j == JudgedBy(r, days)
           IN  /\ j \in ReaderKind /\ j.pc = "judged" /\ j.mtime = r.mtime /\ j.ticker = r.ticker
               /\ j.loaded = r.loaded /\ j.dates = r.dates /\ j.unread = r.unread
               /\ j.during = r.during /\ j.own = r.own
               /\ j.verdict = IF days \in 0..Window THEN "block" ELSE "pass"
  BY DEF JudgedBy, ReaderKind

LEMMA ProposeStep == ASSUME CalInv, Propose PROVE CalInv'
<1>1. PICK t \in Planned, own \in PlanDays :
          reader' = IF own = NoDays THEN PlanFor(t, own) ELSE JudgedBy(PlanFor(t, own), own)
  BY DEF Propose
<1> DEFINE plan == PlanFor(t, own)
<1>2. t \in Symbols /\ calFile.dates[t] \in Dates /\ own \in Int
  BY CalendarAssumption, CalNumbers, ReaderTypes DEF CalendarAssumption
<1>3. /\ plan \in ReaderKind /\ plan.pc = "load" /\ plan.ticker = t /\ plan.own = own
      /\ plan.verdict = reader.verdict /\ plan.during = {calFile.dates[t]}
      /\ plan.mtime = reader.mtime /\ plan.loaded = reader.loaded
      /\ plan.dates = reader.dates /\ plan.unread = reader.unread
  BY <1>2, ReaderTypes DEF ReaderKind, PlanFor
<1>4. reader.verdict = "none" /\ reader.pc = "idle"
  BY ReaderTypes DEF Propose, CalInv, ReaderOK, ReaderKind
<1>5. /\ reader' = IF own = NoDays THEN plan ELSE JudgedBy(plan, own)
      /\ UNCHANGED <<date, announced, calFile, cli, refreshes, calFaults>>
  BY <1>1 DEF Propose
<1> HIDE DEF plan
<1>6. CASE own = NoDays
  <2>1. ReaderOK(reader', calFile)
    BY <1>2, <1>3, <1>4, <1>5, <1>6 DEF CalInv, ReaderOK
  <2>2. EarningsWeekIsBlocked'
    BY <1>3, <1>4, <1>5, <1>6 DEF EarningsWeekIsBlocked
  <2>3. QED
    BY <1>3, <1>5, <1>6, <2>1, <2>2, ReaderTypes, ReaderOnly
<1>7. CASE own # NoDays
  <2>1. /\ reader' \in ReaderKind /\ reader'.pc = "judged" /\ reader'.mtime = reader.mtime
        /\ reader'.ticker = t /\ reader'.loaded = reader.loaded
        /\ reader'.dates = reader.dates /\ reader'.unread = reader.unread /\ reader'.own = own
        /\ reader'.verdict = IF own \in 0..Window THEN "block" ELSE "pass"
    BY <1>2, <1>3, <1>5, <1>7, Judgements
  <2>2. ReaderOK(reader', calFile)
    BY <1>2, <1>4, <2>1 DEF CalInv, ReaderOK
  <2>3. EarningsWeekIsBlocked'
    BY <1>1, <1>7, <2>1, CalNumbers DEF EarningsWeekIsBlocked
  <2>4. QED
    BY <1>5, <2>1, <2>2, <2>3, ReaderTypes, ReaderOnly
<1>8. QED
  BY <1>6, <1>7

\* The version is taken first: dates that are read later are of it or of a newer one.
LEMMA EnsureLoadedStep == ASSUME CalInv, EnsureLoaded PROVE CalInv'
<1>1. reader.pc = "load" /\ reader.verdict = "none"
  BY ReaderTypes DEF EnsureLoaded, CalInv, ReaderOK
<1>2. CASE Changed
  <2>1. reader' = [reader EXCEPT !.pc = "read", !.loaded = TRUE,
                                 !.mtime = calFile.version, !.dates = NoDates]
    BY <1>2 DEF EnsureLoaded
  <2>2. /\ reader' \in ReaderKind /\ reader'.pc = "read" /\ reader'.mtime = calFile.version
        /\ reader'.ticker = reader.ticker /\ reader'.verdict = reader.verdict
        /\ reader'.during = reader.during /\ reader'.own = reader.own
    BY <2>1, ReaderTypes, CalNumbers DEF ReaderKind
  <2>3. ReaderOK(reader', calFile) /\ EarningsWeekIsBlocked'
    BY <1>1, <2>2 DEF CalInv, ReaderOK, EarningsWeekIsBlocked
  <2>4. QED
    BY <2>2, <2>3, ReaderTypes, ReaderOnly DEF EnsureLoaded
<1>3. CASE ~Changed
  <2>1. reader' = [reader EXCEPT !.pc = "answer"]
    BY <1>3 DEF EnsureLoaded
  <2>2. /\ reader' \in ReaderKind /\ reader'.pc = "answer" /\ reader'.mtime = reader.mtime
        /\ reader'.ticker = reader.ticker /\ reader'.verdict = reader.verdict
        /\ reader'.during = reader.during /\ reader'.dates = reader.dates
        /\ reader'.loaded = reader.loaded /\ reader'.unread = reader.unread
        /\ reader'.own = reader.own
    BY <2>1, ReaderTypes DEF ReaderKind
  <2>3. reader.loaded /\ reader.mtime = calFile.version
    BY <1>3 DEF Changed
  <2>4. ReaderOK(reader', calFile) /\ EarningsWeekIsBlocked'
    BY <1>1, <2>2, <2>3 DEF CalInv, ReaderOK, EarningsWeekIsBlocked
  <2>5. QED
    BY <2>2, <2>4, ReaderTypes, ReaderOnly DEF EnsureLoaded
<1>4. QED
  BY <1>2, <1>3

LEMMA ReadFileStep == ASSUME CalInv, ReadFile PROVE CalInv'
<1>1. reader.pc = "read" /\ reader.verdict = "none"
  BY ReaderTypes DEF ReadFile, CalInv, ReaderOK
<1>2. calFaults' \in 0..MaxCalFaults
  BY Faults DEF ReadFile
<1>3. CASE reader' = [reader EXCEPT !.pc = "answer", !.dates = calFile.dates, !.unread = FALSE]
  <2>1. /\ reader' \in ReaderKind /\ reader'.pc = "answer" /\ reader'.mtime = reader.mtime
        /\ reader'.ticker = reader.ticker /\ reader'.verdict = reader.verdict
        /\ reader'.during = reader.during /\ reader'.dates = calFile.dates
        /\ reader'.own = reader.own
    BY <1>3, ReaderTypes DEF ReaderKind
  <2>2. ReaderOK(reader', calFile) /\ EarningsWeekIsBlocked'
    BY <1>1, <2>1 DEF CalInv, ReaderOK, EarningsWeekIsBlocked
  <2>3. QED
    BY <1>2, <2>1, <2>2, ReaderTypes, ReaderOnly DEF ReadFile
<1>4. CASE reader' = [reader EXCEPT !.pc = "answer", !.unread = TRUE]
  <2>1. /\ reader' \in ReaderKind /\ reader'.pc = "answer" /\ reader'.mtime = reader.mtime
        /\ reader'.ticker = reader.ticker /\ reader'.verdict = reader.verdict
        /\ reader'.during = reader.during /\ reader'.unread = TRUE
        /\ reader'.own = reader.own
    BY <1>4, ReaderTypes DEF ReaderKind
  <2>2. ReaderOK(reader', calFile) /\ EarningsWeekIsBlocked'
    BY <1>1, <2>1 DEF CalInv, ReaderOK, EarningsWeekIsBlocked
  <2>3. QED
    BY <1>2, <2>1, <2>2, ReaderTypes, ReaderOnly DEF ReadFile
<1>5. QED
  BY <1>3, <1>4 DEF ReadFile

\* A date that was in the file during the look-up and is in the window blocks; a past one
\* is not in the window.
LEMMA AnswerStep == ASSUME CalInv, Answer PROVE CalInv'
<1> DEFINE d == reader.dates[reader.ticker]
<1>1. /\ reader.pc = "answer" /\ reader \in ReaderKind /\ d \in Dates /\ date \in Nat /\ d \in Nat
      /\ reader.ticker \in Symbols /\ reader.own = NoDays
  BY CalNumbers DEF Answer, CalInv, CalTypes, ReaderOK, ReaderKind
<1>2. PICK days \in Int : /\ reader' = JudgedBy(reader, days)
                          /\ d >= date => days = d - date
  <2>1. CASE d >= date /\ reader' = JudgedBy(reader, d - date)
    BY <1>1, <2>1
  <2>2. CASE d < date /\ \E days \in DaysTo(reader.ticker) \cup {NoDays} :
                             reader' = JudgedBy(reader, days)
    BY <1>1, <2>2, CalNumbers DEF DaysTo
  <2>3. QED
    BY <2>1, <2>2 DEF Answer
<1>3. /\ reader' \in ReaderKind /\ reader'.pc = "judged" /\ reader'.mtime = reader.mtime
      /\ reader'.ticker = reader.ticker /\ reader'.loaded = reader.loaded
      /\ reader'.dates = reader.dates /\ reader'.unread = reader.unread
      /\ reader'.during = reader.during /\ reader'.own = NoDays
      /\ reader'.verdict = IF days \in 0..Window THEN "block" ELSE "pass"
  BY <1>1, <1>2, Judgements
<1>4. ReaderOK(reader', calFile)
  BY <1>1, <1>3 DEF CalInv, ReaderOK
<1>5. EarningsWeekIsBlocked'
  <2> SUFFICES ASSUME days \notin 0..Window, \A e \in reader.during : InWindow(e)
               PROVE  reader.unread
    BY <1>3 DEF EarningsWeekIsBlocked, WasInWindow, InWindow, Answer
  <2>1. CASE ~reader.unread
    <3>1. d \in reader.during
      BY <1>1, <2>1 DEF CalInv, ReaderOK
    <3>2. InWindow(d)
      BY <3>1
    <3>3. d >= date /\ d <= date + Window
      BY <3>2 DEF InWindow
    <3>4. d - date \in 0..Window
      BY <1>1, <3>3, CalNumbers
    <3>5. QED
      BY <1>2, <3>3, <3>4
  <2>2. QED
    BY <2>1
<1>6. QED
  BY <1>3, <1>4, <1>5, ReaderTypes, ReaderOnly DEF Answer

LEMMA NextPlanStep == ASSUME CalInv, NextPlan PROVE CalInv'
<1>1. reader' = [reader EXCEPT !.pc = "idle", !.ticker = NoSymbol, !.own = NoDays,
                               !.verdict = "none", !.during = {}]
  BY DEF NextPlan
<1>2. /\ reader' \in ReaderKind /\ reader'.pc = "idle" /\ reader'.verdict = "none"
      /\ reader'.mtime = reader.mtime /\ reader'.loaded = reader.loaded
      /\ reader'.dates = reader.dates /\ reader'.unread = reader.unread
  BY <1>1, ReaderTypes, CalNumbers DEF ReaderKind
<1>3. ReaderOK(reader', calFile) /\ EarningsWeekIsBlocked'
  BY <1>2 DEF NextPlan, CalInv, ReaderOK, EarningsWeekIsBlocked
<1>4. QED
  BY <1>2, <1>3, ReaderTypes, ReaderOnly DEF NextPlan

LEMMA RestartStep == ASSUME CalInv, Restart PROVE CalInv'
<1>1. ReaderOK(reader', calFile) /\ EarningsWeekIsBlocked' /\ reader' \in ReaderKind
  BY Blanks, BlanksAreOK DEF Restart, EarningsWeekIsBlocked
<1>2. reader'.mtime <= calFile.version
  BY Blanks, ReaderTypes DEF Restart
<1>3. QED
  BY <1>1, <1>2, ReaderTypes, ReaderOnly DEF Restart

LEMMA InterruptStep == ASSUME CalInv, Interrupt PROVE CalInv'
<1>1. /\ cli' \in RefreshKind /\ cli'.at <= Len(cli'.todo) /\ RefreshOK(cli', calFile)
      /\ CountsFrom(cli')
  BY Blanks, BlanksAreOK, NoneCounts DEF Interrupt
<1>2. QED
  BY <1>1, RefreshOnly DEF Interrupt, CalInv, CalTypes

LEMMA CalInvStep == CalInv /\ [CalNext]_calVars => CalInv'
<1> SUFFICES ASSUME CalInv, [CalNext]_calVars PROVE CalInv'
  OBVIOUS
<1>1. ASSUME UNCHANGED <<date, calFile, cli, reader, refreshes, calFaults>>,
             announced' \in [Symbols -> Dates]
      PROVE  CalInv'
  <2>1. CalTypes'
    BY <1>1 DEF CalInv, CalTypes, CountsFrom
  <2>2. RefreshOK(cli, calFile)' /\ ReaderOK(reader, calFile)' /\ EarningsWeekIsBlocked'
    BY <1>1 DEF CalInv, RefreshOK, Unsaved, ReaderOK, EarningsWeekIsBlocked, WasInWindow, InWindow
  <2>3. QED
    BY <2>1, <2>2 DEF CalInv
<1>2. CASE UNCHANGED calVars
  BY <1>1, <1>2 DEF calVars, CalInv, CalTypes
<1>3. ASSUME NEW t \in Symbols, Announce(t) PROVE CalInv'
  <2>1. announced' \in [Symbols -> Dates]
    BY <1>3, CalNumbers DEF Announce, CalInv, CalTypes
  <2>2. QED
    BY <1>1, <1>3, <2>1 DEF Announce
<1>4. CASE NextDay
  <2>1. CalTypes'
    <3>1. cli.asOf \in Nat /\ cli.asOf <= date /\ date \in Nat
      BY CalNumbers DEF CalInv, CalTypes, CountsFrom, RefreshKind
    <3>2. CountsFrom(cli)'
      BY <1>4, <3>1 DEF NextDay, CalInv, CalTypes, CountsFrom
    <3>3. QED
      BY <1>4, <3>2, CalNumbers DEF NextDay, CalInv, CalTypes, CalendarDays
  <2>2. RefreshOK(cli, calFile)' /\ ReaderOK(reader, calFile)'
    BY <1>4 DEF NextDay, CalInv, RefreshOK, Unsaved, ReaderOK
  <2>3. reader'.verdict = "none"
    BY <1>4, ReaderTypes DEF NextDay, CalInv, ReaderOK, ReaderKind
  <2>4. QED
    BY <2>1, <2>2, <2>3 DEF CalInv, EarningsWeekIsBlocked
<1>5. CASE Reader
  BY <1>5, ProposeStep, EnsureLoadedStep, ReadFileStep, AnswerStep, NextPlanStep, RestartStep DEF Reader
<1>6. CASE Cli
  BY <1>6, StartStep, AskProviderStep, SaveStep, InterruptStep DEF Cli
<1>7. QED
  BY <1>2, <1>3, <1>4, <1>5, <1>6 DEF CalNext

\* No plan without a number of days of its own passes the earnings-week rule while the file
\* that the executor could read has a date in the window throughout the look-up, whatever a
\* refresh writes meanwhile; and none with such a number passes unless it is beyond the window.
THEOREM EarningsWeekIsBlockedHolds == CalSpec => [](CalTypeOK /\ EarningsWeekIsBlocked)
<1>1. CalInv => CalTypeOK /\ EarningsWeekIsBlocked
  BY CalNumbers DEF CalInv, CalTypes, CalTypeOK, RefreshKind, ReaderKind, CountsFrom
<1>2. QED
  BY <1>1, CalInvInit, CalInvStep, PTL DEF CalSpec

\* A refresh loses nothing that was fetched before it, and of the dates it made of its own
\* answers no more than lies between two checkpoints, wherever it is interrupted and
\* whatever midnights it crosses.
THEOREM DatesAreKeptHolds == CalSpec => DatesAreKept
<1>1. CalInv => FetchedDatesAreKept
  <2> SUFFICES ASSUME CalInv, cli.pc # "off", ~cli.failed
               PROVE  Cardinality(Unsaved(cli, calFile)) <= Checkpoint
    BY DEF FetchedDatesAreKept, Unsaved
  <2>1. cli.at \in Nat
    BY DEF CalInv, CalTypes, RefreshKind
  <2>2. cli.at % Checkpoint \in Nat /\ cli.at % Checkpoint < Checkpoint
    BY <2>1, CalNumbers, Remainders
  <2>3. Cardinality(Unsaved(cli, calFile)) \in Nat
    BY FS_CardinalityType DEF CalInv, RefreshOK
  <2>4. QED
    BY <2>2, <2>3, CalNumbers DEF CalInv, RefreshOK
<1>2. CalInv /\ [CalNext]_calVars =>
        [~cli.blind =>
            \A t \in Symbols : calFile.dates[t] # NoDate => calFile'.dates[t] # NoDate]_<<calFile, cli>>
  <2> SUFFICES ASSUME CalInv, [CalNext]_calVars, ~cli.blind, NEW t \in Symbols,
                      calFile.dates[t] # NoDate
               PROVE  calFile'.dates[t] # NoDate
    OBVIOUS
  <2>1. CASE calFile' = calFile
    BY <2>1
  <2>2. CASE calFile' # calFile
    <3>1. Save
      BY <2>2
      DEF CalNext, calVars, Reader, Cli, Start, AskProvider, Interrupt, Propose, EnsureLoaded,
          ReadFile, Answer, NextPlan, Restart, Announce, NextDay
    <3>2. calFile'.dates = cli.dates /\ cli.pc # "off"
      BY <2>2, <3>1 DEF Save
    <3>3. QED
      BY <3>2 DEF CalInv, RefreshOK
  <2>3. QED
    BY <2>1, <2>2
<1>3. QED
  BY <1>1, <1>2, CalInvInit, CalInvStep, PTL DEF CalSpec, DatesAreKept, NoDateVanishes

---------------------------------------------------------------------------
(* Ticker information.                                                     *)

Keys == {"any", "yahoo"}
InfoPayloads == {Absent, EmptyDict} \cup [source : {"alpaca", "yahoo"}, fields : SUBSET Fields]
Reasons == {"empty", "raised", "not_configured", "unsupported"}
Failures == Seq([provider : {"cache", "alpaca", "yahoo"}, reason : Reasons])

\* The providers that failed, in order.
Named(f) == [i \in 1..Len(f) |-> f[i].provider]

InfoTypes ==
    /\ infoFiles \in [Keys -> InfoPayloads] /\ infoExpired \subseteq Keys
    /\ info \in [at : {"idle", "alpaca", "yahoo", "stale"}, entry : {"any", "yahoo", "diagnosed"},
                 failures : Failures, payload : InfoPayloads, calls : Nat,
                 source : {"none", "cache", "alpaca", "yahoo", "stale_cache"}]

\* Who has failed by the time a provider is asked, and who can be asked under which key.
Asked ==
    /\ info.at # "idle" => info.entry # "diagnosed"
    /\ info.at \in {"alpaca", "stale"} => info.entry = "any"
    /\ info.at = "alpaca" => Named(info.failures) \in {<<>>, <<"cache">>}
    /\ info.at = "yahoo" /\ info.entry = "any" =>
          Named(info.failures) \in {<<"alpaca">>, <<"cache", "alpaca">>}
    /\ info.at = "stale" =>
          Named(info.failures) \in {<<"alpaca", "yahoo">>, <<"cache", "alpaca", "yahoo">>}

InfoInv == InfoTypes /\ Asked /\ KeysAreApart /\ InfoIsTraced /\ ReportIsHonest

LEMMA PayloadKinds ==
    /\ Absent \in InfoPayloads /\ EmptyDict \in InfoPayloads /\ Absent # EmptyDict
    /\ Absent.source = "absent" /\ EmptyDict.source = "empty"
    /\ ~IsInfo(Absent) /\ ~IsInfo(EmptyDict)
    /\ \A p \in InfoPayloads : IsInfo(p) => p.source \in {"alpaca", "yahoo"}
    /\ \A from \in {"alpaca", "yahoo"} : \A fields \in SUBSET Fields :
          /\ Payload(from, fields) \in InfoPayloads /\ IsInfo(Payload(from, fields))
          /\ Payload(from, fields).source = from
  BY DEF Absent, EmptyDict, Payload, IsInfo, InfoPayloads

\* One more has failed.
LEMMA NamedAppend ==
    ASSUME NEW f \in Failures, NEW p \in {"cache", "alpaca", "yahoo"}, NEW why \in Reasons
    PROVE  LET g == Append(f, [provider |-> p, reason |-> why])
           IN  /\ g \in Failures
               /\ Named(f) = <<>> => Named(g) = <<p>>
               /\ Named(f) = <<"cache">> => Named(g) = <<"cache", p>>
               /\ Named(f) = <<"alpaca">> => Named(g) = <<"alpaca", p>>
               /\ Named(f) = <<"cache", "alpaca">> => Named(g) = <<"cache", "alpaca", p>>
<1> DEFINE r == [provider |-> p, reason |-> why]
           g == Append(f, r)
<1>1. r \in [provider : {"cache", "alpaca", "yahoo"}, reason : Reasons] /\ r.provider = p
  OBVIOUS
<1> HIDE DEF r
<1>2. /\ g \in Failures /\ Len(g) = Len(f) + 1 /\ Len(f) \in Nat /\ g[Len(f) + 1].provider = p
      /\ \A i \in 1..Len(f) : g[i] = f[i]
  BY <1>1 DEF Failures
<1> HIDE DEF g
<1>3. /\ Named(f) = <<>> => Len(f) = 0
      /\ \A a : Named(f) = <<a>> => Len(f) = 1 /\ f[1].provider = a
      /\ \A a, b : Named(f) = <<a, b>> => Len(f) = 2 /\ f[1].provider = a /\ f[2].provider = b
  <2>1. DOMAIN Named(f) = 1..Len(f) /\ \A i \in 1..Len(f) : Named(f)[i] = f[i].provider
    BY DEF Named
  <2>2. /\ DOMAIN <<>> = {}
        /\ \A a : DOMAIN <<a>> = 1..1
        /\ \A a, b : DOMAIN <<a, b>> = 1..2
    OBVIOUS
  <2>3. \A m, n \in Nat : 1..m = 1..n => m = n
    <3> SUFFICES ASSUME NEW m \in Nat, NEW n \in Nat, 1..m = 1..n, m # n PROVE FALSE
      OBVIOUS
    <3>1. CASE m < n
      BY <3>1, n \in 1..n
    <3>2. CASE n < m
      BY <3>2, m \in 1..m
    <3>3. QED
      BY <3>1, <3>2
  <2>4. 1..0 = {} /\ 0 \in Nat /\ 1 \in Nat /\ 2 \in Nat
    OBVIOUS
  <2>5. Named(f) = <<>> => Len(f) = 0
    BY <1>2, <2>1, <2>2, <2>3, <2>4
  <2>6. ASSUME NEW a, Named(f) = <<a>> PROVE Len(f) = 1 /\ f[1].provider = a
    <3>1. Len(f) = 1
      BY <1>2, <2>1, <2>2, <2>3, <2>4, <2>6
    <3>2. QED
      BY <2>1, <2>6, <3>1
  <2>7. ASSUME NEW a, NEW b, Named(f) = <<a, b>>
        PROVE  Len(f) = 2 /\ f[1].provider = a /\ f[2].provider = b
    <3>1. Len(f) = 2
      BY <1>2, <2>1, <2>2, <2>3, <2>4, <2>7
    <3>2. QED
      BY <2>1, <2>7, <3>1
  <2>8. QED
    BY <2>5, <2>6, <2>7
<1>4. /\ Len(f) = 0 => Named(g) = <<p>>
      /\ Len(f) = 1 => Named(g) = <<f[1].provider, p>>
      /\ Len(f) = 2 => Named(g) = <<f[1].provider, f[2].provider, p>>
  BY <1>2 DEF Named
<1>5. QED
  BY <1>2, <1>3, <1>4 DEF g, r

LEMMA InfoInvInit == InfoInit => InfoInv
<1> SUFFICES ASSUME InfoInit PROVE InfoInv
  OBVIOUS
<1>1. /\ NoInfo.at = "idle" /\ NoInfo.entry = "any" /\ NoInfo.failures = <<>>
      /\ NoInfo.payload = EmptyDict /\ NoInfo.source = "none" /\ NoInfo.calls = 0
      /\ NoInfo \in [at : {"idle", "alpaca", "yahoo", "stale"}, entry : {"any", "yahoo", "diagnosed"},
                     failures : Failures, payload : InfoPayloads, calls : Nat,
                     source : {"none", "cache", "alpaca", "yahoo", "stale_cache"}]
  BY PayloadKinds DEF NoInfo, Failures
<1>2. infoFiles \in [Keys -> InfoPayloads] /\ infoFiles["yahoo"] = Absent
  <2>1. CASE infoFiles \in [{"any", "yahoo"} -> {Absent}]
    BY <2>1, PayloadKinds DEF Keys
  <2>2. CASE infoFiles \in [any : {EmptyDict, Payload("alpaca", {"price"})}, yahoo : {Absent}]
    <3>1. Payload("alpaca", {"price"}) \in InfoPayloads
      BY PayloadKinds DEF Fields
    <3>2. /\ infoFiles = [any |-> infoFiles["any"], yahoo |-> Absent]
          /\ infoFiles["any"] \in {EmptyDict, Payload("alpaca", {"price"})}
          /\ infoFiles["yahoo"] = Absent
      BY <2>2
    <3>3. DOMAIN infoFiles = Keys
      BY <2>2 DEF Keys
    <3>4. infoFiles = [k \in Keys |-> infoFiles[k]]
      BY <2>2 DEF Keys
    <3>5. \A k \in Keys : infoFiles[k] \in InfoPayloads
      BY <3>1, <3>2, PayloadKinds DEF Keys
    <3>6. QED
      BY <3>2, <3>4, <3>5
  <2>3. QED
    BY <2>1, <2>2 DEF InfoInit
<1>3. InfoTypes
  BY <1>1, <1>2 DEF InfoInit, InfoTypes
<1>4. Asked /\ KeysAreApart /\ InfoIsTraced /\ ReportIsHonest
  BY <1>1, <1>2, PayloadKinds DEF InfoInit, Asked, KeysAreApart, InfoIsTraced, ReportIsHonest
<1>5. QED
  BY <1>3, <1>4 DEF InfoInv

\* An answer that the call ends with is traced when it names its source.
LEMMA AnswerIsTraced ==
    ASSUME InfoTypes, info.at # "idle",
           NEW payload \in InfoPayloads,
           NEW from \in {"none", "alpaca", "yahoo", "stale_cache"},
           info' = InfoOf(payload, from),
           IsInfo(payload) <=> from # "none",
           from \in {"alpaca", "yahoo"} => payload.source = from,
           info.entry = "yahoo" => payload.source \in {"empty", "yahoo"},
           info.entry = "any" =>
               CASE from = "alpaca" -> Named(info.failures) \in {<<>>, <<"cache">>}
                 [] from = "yahoo" -> Named(info.failures) \in {<<"alpaca">>, <<"cache", "alpaca">>}
                 [] OTHER -> Named(info.failures) \in
                                {<<"alpaca", "yahoo">>, <<"cache", "alpaca", "yahoo">>}
    PROVE  /\ InfoIsTraced' /\ Asked' /\ info'.at = "idle"
           /\ info'.entry = "yahoo" => info'.payload.source \in {"empty", "yahoo"}
           /\ info' \in [at : {"idle", "alpaca", "yahoo", "stale"}, entry : {"any", "yahoo", "diagnosed"},
                         failures : Failures, payload : InfoPayloads, calls : Nat,
                         source : {"none", "cache", "alpaca", "yahoo", "stale_cache"}]
<1>1. /\ info'.at = "idle" /\ info'.payload = payload /\ info'.source = from
      /\ info'.failures = info.failures /\ info'.entry = info.entry
      /\ info' \in [at : {"idle", "alpaca", "yahoo", "stale"}, entry : {"any", "yahoo", "diagnosed"},
                    failures : Failures, payload : InfoPayloads, calls : Nat,
                    source : {"none", "cache", "alpaca", "yahoo", "stale_cache"}]
  BY DEF InfoTypes, InfoOf
<1>3. InfoIsTraced'
  BY <1>1 DEF InfoIsTraced, Named
<1>4. Asked'
  BY <1>1 DEF Asked
<1>5. QED
  BY <1>1, <1>3, <1>4

\* The look-up ends with an answer of a provider, and caches it under its key.
LEMMA CachedAnswer ==
    ASSUME InfoInv, NEW from \in {"alpaca", "yahoo"}, info.at = from, NEW fields \in SUBSET Fields,
           info' = InfoOf(Payload(from, fields), from), CacheInfo(Payload(from, fields)),
           UNCHANGED report
    PROVE  InfoInv'
<1> DEFINE payload == Payload(from, fields)
<1>1. /\ payload \in InfoPayloads /\ IsInfo(payload) /\ payload.source = from
      /\ payload # EmptyDict
  BY PayloadKinds DEF IsInfo
<1>2. /\ info.entry \in Keys /\ (from = "alpaca" => info.entry = "any")
  BY DEF InfoInv, InfoTypes, Asked, Keys
<1>3. /\ infoFiles' = [infoFiles EXCEPT ![info.entry] = payload]
      /\ infoExpired' = infoExpired \ {info.entry} /\ info' = InfoOf(payload, from)
  BY DEF CacheInfo, KeyOf
<1> HIDE DEF payload
<1>4. /\ InfoIsTraced' /\ Asked' /\ info'.at = "idle"
      /\ info'.entry = "yahoo" => info'.payload.source \in {"empty", "yahoo"}
      /\ info' \in [at : {"idle", "alpaca", "yahoo", "stale"}, entry : {"any", "yahoo", "diagnosed"},
                    failures : Failures, payload : InfoPayloads, calls : Nat,
                    source : {"none", "cache", "alpaca", "yahoo", "stale_cache"}]
  <2>1. info.entry = "any" =>
            CASE from = "alpaca" -> Named(info.failures) \in {<<>>, <<"cache">>}
              [] from = "yahoo" -> Named(info.failures) \in {<<"alpaca">>, <<"cache", "alpaca">>}
              [] OTHER -> Named(info.failures) \in
                             {<<"alpaca", "yahoo">>, <<"cache", "alpaca", "yahoo">>}
    BY DEF InfoInv, Asked
  <2>2. info.entry = "yahoo" => payload.source \in {"empty", "yahoo"}
    BY <1>1, <1>2
  <2>3. InfoTypes /\ info.at # "idle"
    BY DEF InfoInv
  <2>4. from \in {"none", "alpaca", "yahoo", "stale_cache"} /\ from # "none"
    OBVIOUS
  <2>5. QED
    BY <1>1, <1>3, <2>1, <2>2, <2>3, <2>4, AnswerIsTraced
<1>5. InfoTypes'
  BY <1>1, <1>2, <1>3, <1>4 DEF InfoInv, InfoTypes
<1>6. KeysAreApart'
  BY <1>1, <1>2, <1>3, <1>4 DEF InfoInv, InfoTypes, KeysAreApart, Keys
<1>7. QED
  BY <1>4, <1>5, <1>6 DEF InfoInv, ReportIsHonest

\* It ends with an answer that is not cached anew.
LEMMA PlainAnswer ==
    ASSUME InfoInv, info.at # "idle",
           NEW payload \in InfoPayloads, NEW from \in {"none", "stale_cache"},
           info' = InfoOf(payload, from), UNCHANGED <<infoFiles, infoExpired, report>>,
           IsInfo(payload) <=> from # "none",
           info.entry = "yahoo" => payload.source \in {"empty", "yahoo"},
           info.entry = "any" => info.at = "stale"
    PROVE  InfoInv'
<1>1. /\ InfoIsTraced' /\ Asked' /\ info'.at = "idle"
      /\ info'.entry = "yahoo" => info'.payload.source \in {"empty", "yahoo"}
      /\ info' \in [at : {"idle", "alpaca", "yahoo", "stale"}, entry : {"any", "yahoo", "diagnosed"},
                    failures : Failures, payload : InfoPayloads, calls : Nat,
                    source : {"none", "cache", "alpaca", "yahoo", "stale_cache"}]
  <2>1. info.entry = "any" =>
            CASE from = "alpaca" -> Named(info.failures) \in {<<>>, <<"cache">>}
              [] from = "yahoo" -> Named(info.failures) \in {<<"alpaca">>, <<"cache", "alpaca">>}
              [] OTHER -> Named(info.failures) \in
                             {<<"alpaca", "yahoo">>, <<"cache", "alpaca", "yahoo">>}
    BY DEF InfoInv, Asked
  <2>2. InfoTypes
    BY DEF InfoInv
  <2>3. QED
    BY <2>1, <2>2, AnswerIsTraced
<1>2. InfoTypes' /\ KeysAreApart'
  BY <1>1 DEF InfoInv, InfoTypes, KeysAreApart
<1>3. QED
  BY <1>1, <1>2 DEF InfoInv, ReportIsHonest

LEMMA LookUpInfoStep ==
    ASSUME InfoInv, NEW entry \in Keys, LookUpInfo(entry)
    PROVE  InfoInv'
<1> DEFINE cached == IF entry \in infoExpired THEN Absent ELSE infoFiles[entry]
           start == [NoInfo EXCEPT !.entry = entry, !.calls = info.calls + 1]
           first == IF entry = "any" THEN "alpaca" ELSE "yahoo"
           empty == <<[provider |-> "cache", reason |-> "empty"]>>
           lost == IF cached = EmptyDict /\ entry = "any" THEN empty ELSE <<>>
           kind == [at : {"idle", "alpaca", "yahoo", "stale"}, entry : {"any", "yahoo", "diagnosed"},
                    failures : Failures, payload : InfoPayloads, calls : Nat,
                    source : {"none", "cache", "alpaca", "yahoo", "stale_cache"}]
<1>1. /\ cached \in InfoPayloads /\ (entry = "yahoo" /\ IsInfo(cached) => cached.source = "yahoo")
  BY PayloadKinds DEF InfoInv, InfoTypes, KeysAreApart, Keys, IsInfo
<1>2. info.calls + 1 \in Nat
  BY DEF InfoInv, InfoTypes
<1>3. /\ start \in kind /\ start.at = "idle" /\ start.entry = entry /\ start.failures = <<>>
      /\ start.payload = EmptyDict /\ start.source = "none"
  <2>1. /\ NoInfo \in kind /\ NoInfo.at = "idle" /\ NoInfo.failures = <<>>
        /\ NoInfo.payload = EmptyDict /\ NoInfo.source = "none"
    BY PayloadKinds DEF NoInfo, Failures
  <2>2. QED
    BY <1>2, <2>1 DEF Keys
<1>4. /\ UNCHANGED <<infoFiles, infoExpired>> /\ report' = NoReport
      /\ info' = IF IsInfo(cached) THEN [start EXCEPT !.payload = cached, !.source = "cache"]
                 ELSE [start EXCEPT !.at = first, !.failures = lost]
  BY DEF LookUpInfo, KeyOf
<1>5. /\ lost \in Failures /\ first \in {"alpaca", "yahoo"}
      /\ entry = "any" => Named(lost) \in {<<>>, <<"cache">>}
  <2>1. empty \in Failures /\ <<>> \in Failures
    BY DEF Failures, Reasons
  <2>2. Named(empty) = <<"cache">> /\ Named(<<>>) = <<>>
    BY DEF Named
  <2>3. QED
    BY <2>1, <2>2
<1> HIDE DEF start, lost, cached
<1>6. CASE IsInfo(cached)
  <2>1. /\ info' \in kind /\ info'.at = "idle" /\ info'.entry = entry /\ info'.failures = <<>>
        /\ info'.payload = cached /\ info'.source = "cache"
    BY <1>1, <1>3, <1>4, <1>6
  <2>2. Named(<<>>) = <<>>
    BY DEF Named
  <2>3. InfoTypes' /\ Asked' /\ KeysAreApart'
    BY <1>1, <1>4, <1>6, <2>1 DEF InfoInv, InfoTypes, Asked, KeysAreApart, Keys
  <2>4. InfoIsTraced'
    BY <1>6, <2>1, <2>2 DEF InfoIsTraced, Named
  <2>5. QED
    BY <1>4, <2>3, <2>4 DEF InfoInv, ReportIsHonest
<1>7. CASE ~IsInfo(cached)
  <2>1. /\ info' \in kind /\ info'.at = first /\ info'.entry = entry /\ info'.failures = lost
    BY <1>3, <1>4, <1>5, <1>7
  <2>2. InfoTypes' /\ Asked' /\ KeysAreApart' /\ InfoIsTraced'
    BY <1>4, <1>5, <2>1 DEF InfoInv, InfoTypes, Asked, KeysAreApart, InfoIsTraced, Keys
  <2>3. QED
    BY <1>4, <2>2 DEF InfoInv, ReportIsHonest
<1>8. QED
  BY <1>6, <1>7

\* The provider that is asked has nothing, and the next one is asked.
LEMMA InfoGoesOn ==
    ASSUME InfoInv, info.at \in {"alpaca", "yahoo"}, info.entry = "any", NEW why \in Reasons,
           NEW next, info.at = "alpaca" => next = "yahoo", info.at = "yahoo" => next = "stale",
           info' = [info EXCEPT !.at = next, !.failures = FailedAt(info.at, why)],
           UNCHANGED <<infoFiles, infoExpired, report>>
    PROVE  InfoInv'
<1> DEFINE f == info.failures
           g == FailedAt(info.at, why)
<1>1. f \in Failures /\ info.at \in {"cache", "alpaca", "yahoo"}
  BY DEF InfoInv, InfoTypes
<1>2. /\ g \in Failures
      /\ Named(f) = <<>> => Named(g) = <<info.at>>
      /\ Named(f) = <<"cache">> => Named(g) = <<"cache", info.at>>
      /\ Named(f) = <<"alpaca">> => Named(g) = <<"alpaca", info.at>>
      /\ Named(f) = <<"cache", "alpaca">> => Named(g) = <<"cache", "alpaca", info.at>>
  BY <1>1, NamedAppend DEF FailedAt
<1>3. /\ info.at = "alpaca" => Named(f) \in {<<>>, <<"cache">>}
      /\ info.at = "yahoo" => Named(f) \in {<<"alpaca">>, <<"cache", "alpaca">>}
  BY DEF InfoInv, Asked
<1> HIDE DEF f, g
<1>4. /\ info.at = "alpaca" => Named(g) \in {<<"alpaca">>, <<"cache", "alpaca">>}
      /\ info.at = "yahoo" => Named(g) \in {<<"alpaca", "yahoo">>, <<"cache", "alpaca", "yahoo">>}
  BY <1>2, <1>3
<1>5. /\ info' \in [at : {"idle", "alpaca", "yahoo", "stale"}, entry : {"any", "yahoo", "diagnosed"},
                    failures : Failures, payload : InfoPayloads, calls : Nat,
                    source : {"none", "cache", "alpaca", "yahoo", "stale_cache"}]
      /\ info'.at = next /\ info'.entry = "any" /\ info'.failures = g
  BY <1>2 DEF InfoInv, InfoTypes, g
<1>6. InfoTypes' /\ Asked' /\ KeysAreApart' /\ InfoIsTraced'
  BY <1>4, <1>5 DEF InfoInv, InfoTypes, Asked, KeysAreApart, InfoIsTraced
<1>7. QED
  BY <1>6 DEF InfoInv, ReportIsHonest

LEMMA AlpacaInfoStep == ASSUME InfoInv, AlpacaInfo PROVE InfoInv'
<1>1. PICK fields \in SUBSET {"price"} :
          info' = InfoOf(Payload("alpaca", fields), "alpaca") /\ CacheInfo(Payload("alpaca", fields))
  BY DEF AlpacaInfo
<1>2. fields \in SUBSET Fields
  BY DEF Fields
<1>3. QED
  BY <1>1, <1>2, CachedAnswer DEF AlpacaInfo

LEMMA NoAlpacaInfoStep == ASSUME InfoInv, NoAlpacaInfo PROVE InfoInv'
<1>1. PICK why \in Reasons : info' = [info EXCEPT !.at = "yahoo", !.failures = FailedAt("alpaca", why)]
  BY DEF NoAlpacaInfo, Reasons
<1>2. info.entry = "any"
  BY DEF NoAlpacaInfo, InfoInv, Asked
<1>3. QED
  BY <1>1, <1>2, InfoGoesOn DEF NoAlpacaInfo

LEMMA YahooInfoStep == ASSUME InfoInv, YahooInfo PROVE InfoInv'
<1>1. PICK full \in SUBSET Fields, fast \in SUBSET Fields :
          /\ info' = InfoOf(Payload("yahoo", WithFastInfo(full, fast)), "yahoo")
          /\ CacheInfo(Payload("yahoo", WithFastInfo(full, fast)))
  BY DEF YahooInfo
<1>2. WithFastInfo(full, fast) \in SUBSET Fields
  BY DEF WithFastInfo
<1>3. QED
  BY <1>1, <1>2, CachedAnswer DEF YahooInfo

LEMMA NoYahooInfoStep == ASSUME InfoInv, NoYahooInfo PROVE InfoInv'
<1>1. PICK why \in Reasons :
          info' = IF info.entry = "any"
                  THEN [info EXCEPT !.at = "stale", !.failures = FailedAt("yahoo", why)]
                  ELSE InfoOf(EmptyDict, "none")
  BY DEF NoYahooInfo, Reasons
<1>2. CASE info.entry = "any"
  BY <1>1, <1>2, InfoGoesOn DEF NoYahooInfo
<1>3. CASE info.entry # "any"
  BY <1>1, <1>3, PlainAnswer, PayloadKinds DEF NoYahooInfo
<1>4. QED
  BY <1>2, <1>3

LEMMA StaleInfoStep == ASSUME InfoInv, StaleInfo PROVE InfoInv'
<1>1. info.at = "stale" /\ info.entry = "any" /\ infoFiles["any"] \in InfoPayloads
  BY DEF StaleInfo, InfoInv, InfoTypes, Asked, Keys
<1>2. CASE IsInfo(infoFiles["any"])
  BY <1>1, <1>2, PlainAnswer DEF StaleInfo
<1>3. CASE ~IsInfo(infoFiles["any"])
  BY <1>1, <1>3, PlainAnswer, PayloadKinds DEF StaleInfo
<1>4. QED
  BY <1>2, <1>3

\* All of the three probes before the fourth: the failures when none answered.
LEMMA AllOfThree == ASSUME NEW a, NEW b, NEW c PROVE SubSeq(<<a, b, c>>, 1, 3) = <<a, b, c>>
<1>1. <<a, b, c>> \in Seq({a, b, c}) /\ Len(<<a, b, c>>) = 3
  OBVIOUS
<1>2. QED
  BY <1>1, SubSeqFull, Zenon

\* A report is healthy only with what it says it has, and a price that is not live was asked
\* of every probe.
\* What the second question leaves in the cache
LEMMA AskAgainKeeps ==
    ASSUME InfoInv, info.entry = "any", AskAgain \/ UNCHANGED <<infoFiles, infoExpired>>
    PROVE  /\ infoFiles' \in [Keys -> InfoPayloads] /\ infoExpired' \subseteq Keys
           /\ infoFiles'["yahoo"] = infoFiles["yahoo"]
<1>1. infoFiles \in [Keys -> InfoPayloads] /\ infoExpired \subseteq Keys
  BY DEF InfoInv, InfoTypes
<1>2. ASSUME NEW payload \in InfoPayloads, CacheInfo(payload)
      PROVE  /\ infoFiles' \in [Keys -> InfoPayloads] /\ infoExpired' \subseteq Keys
             /\ infoFiles'["yahoo"] = infoFiles["yahoo"]
  BY <1>1, <1>2 DEF CacheInfo, KeyOf, Keys
<1>3. CASE UNCHANGED <<infoFiles, infoExpired>>
  BY <1>1, <1>3
<1>4. CASE \E from \in {"alpaca", "yahoo"} : \E fields \in SUBSET Fields : CacheInfo(Payload(from, fields))
  BY <1>2, <1>4, PayloadKinds
<1>5. AskAgain => UNCHANGED <<infoFiles, infoExpired>> \/
          \E from \in {"alpaca", "yahoo"} : \E fields \in SUBSET Fields : CacheInfo(Payload(from, fields))
  <2>1. SUBSET {"price"} \subseteq SUBSET Fields
    BY DEF Fields
  <2>2. QED
    BY <2>1 DEF AskAgain
<1>6. QED
  BY <1>3, <1>4, <1>5

LEMMA DiagnoseStep == ASSUME InfoInv, Diagnose PROVE InfoInv'
<1>1. PICK first \in [Probed -> 1..4] :
          LET tests == [s \in Probed |-> ProbeOf(s, first[s])]
              priced == {s \in Probed : tests[s].status \in {"OK", "OK_CACHED"}}
          IN  report' = [tests |-> tests, info |-> info.payload,
                 overall |-> IF Core \subseteq priced /\ Cardinality(priced) >= 2
                                /\ IsInfo(info.payload)
                             THEN "HEALTHY" ELSE "DEGRADED"]
  BY DEF Diagnose
<1>2. /\ info.at = "idle" /\ info.entry = "any" /\ info' = [info EXCEPT !.entry = "diagnosed"]
      /\ AskAgain \/ UNCHANGED <<infoFiles, infoExpired>>
  BY DEF Diagnose
<1>3. InfoTypes' /\ Asked' /\ KeysAreApart' /\ InfoIsTraced'
  <2>1. /\ infoFiles' \in [Keys -> InfoPayloads] /\ infoExpired' \subseteq Keys
        /\ infoFiles'["yahoo"] = infoFiles["yahoo"]
    BY <1>2, AskAgainKeeps
  <2>2. QED
    BY <1>2, <2>1 DEF InfoInv, InfoTypes, Asked, KeysAreApart, InfoIsTraced
<1>4. ASSUME NEW s \in Probed
      PROVE  /\ ProbeOf(s, first[s]).status # "OK" => ProbeOf(s, first[s]).failures = Probes
  <2>1. Len(Probes) = 3 /\ first[s] \in 1..4
    BY DEF Probes
  <2>2. CASE first[s] <= 3
    BY <2>1, <2>2 DEF ProbeOf
  <2>3. CASE first[s] = 4
    <3>1. SubSeq(Probes, 1, 3) = Probes
      BY AllOfThree DEF Probes
    <3>2. ProbeOf(s, first[s]).failures = SubSeq(Probes, 1, 3)
      BY <2>1, <2>3 DEF ProbeOf
    <3>3. QED
      BY <3>1, <3>2
  <2>4. QED
    BY <2>1, <2>2, <2>3
<1>5. ReportIsHonest'
  <2> DEFINE tests == [s \in Probed |-> ProbeOf(s, first[s])]
             priced == {s \in Probed : tests[s].status \in {"OK", "OK_CACHED"}}
  <2>1. /\ report'.tests = tests /\ report'.info = info.payload
        /\ report'.overall = "HEALTHY" => Core \subseteq priced /\ IsInfo(info.payload)
    BY <1>1
  <2>2. \A s \in Probed : tests[s] = ProbeOf(s, first[s])
    OBVIOUS
  <2> HIDE DEF tests
  <2>3. QED
    BY <1>4, <2>1, <2>2 DEF ReportIsHonest, IsInfo, Absent, EmptyDict, Payload
<1>6. QED
  BY <1>3, <1>5 DEF InfoInv

LEMMA InfoInvStep == InfoInv /\ [InfoNext]_infoVars => InfoInv'
<1> SUFFICES ASSUME InfoInv, [InfoNext]_infoVars PROVE InfoInv'
  OBVIOUS
<1>1. CASE UNCHANGED infoVars
  BY <1>1 DEF infoVars, InfoInv, InfoTypes, Asked, KeysAreApart, InfoIsTraced, ReportIsHonest
<1>2. CASE LookUpInfo("any") \/ LookUpInfo("yahoo")
  BY <1>2, LookUpInfoStep DEF Keys
<1>3. CASE InfoExpires
  BY <1>3
  DEF InfoExpires, Keys, InfoInv, InfoTypes, Asked, KeysAreApart, InfoIsTraced, ReportIsHonest
<1>4. QED
  BY <1>1, <1>2, <1>3, AlpacaInfoStep, NoAlpacaInfoStep, YahooInfoStep, NoYahooInfoStep,
     StaleInfoStep, DiagnoseStep DEF InfoNext

---------------------------------------------------------------------------
(* Headlines.                                                              *)

NewsInv == DOMAIN verdict = NewsNames /\ NewsIsHonest

\* A tier is of a story that is considered and matches it; and a dilution among them comes
\* before all else.
LEMMA VerdictsAreOf ==
    ASSUME NEW considered, NEW v \in Verdicts(considered)
    PROVE  /\ \/ v.tier = "none" /\ v.story = Nothing
              \/ v.story \in considered /\ Matches(v.story, v.tier)
           /\ (\E s \in considered : Matches(s, "dilution")) => v.tier = "dilution"
<1> DEFINE matching(i) == {s \in considered : Matches(s, Tiers[i])}
           newest(set) == {s \in set :
               /\ (\E r \in set : Dated(r)) => Dated(s)
               /\ \A r \in set : Dated(r) /\ Dated(s) => Age(s) <= Age(r)}
           wins(i) == matching(i) # {} /\ \A j \in 1..(i - 1) : matching(j) = {}
<1>1. Len(Tiers) = 4 /\ Tiers[1] = "dilution"
  BY DEF Tiers
<1>2. CASE \E i \in 1..Len(Tiers) : wins(i)
  <2>1. v \in UNION {{[tier |-> Tiers[i], story |-> s] : s \in newest(matching(i))} :
                        i \in {j \in 1..Len(Tiers) : wins(j)}}
    BY <1>2 DEF Verdicts
  <2>2. PICK i \in 1..Len(Tiers) :
            wins(i) /\ v \in {[tier |-> Tiers[i], story |-> s] : s \in newest(matching(i))}
    BY <2>1
  <2>3. PICK s \in newest(matching(i)) : v = [tier |-> Tiers[i], story |-> s]
    BY <2>2
  <2>4. s \in considered /\ Matches(s, Tiers[i])
    BY <2>3
  <2>5. ASSUME NEW r \in considered, Matches(r, "dilution") PROVE v.tier = "dilution"
    <3>1. matching(1) # {}
      BY <1>1, <2>5
    <3>2. i = 1
      BY <1>1, <2>2, <3>1
    <3>3. QED
      BY <1>1, <2>3, <3>2
  <2>6. QED
    BY <2>3, <2>4, <2>5
<1>3. CASE ~\E i \in 1..Len(Tiers) : wins(i)
  <2>1. v = [tier |-> "none", story |-> Nothing]
    BY <1>3 DEF Verdicts
  <2>2. ~wins(1)
    BY <1>1, <1>3
  <2>3. \A j \in 1..(1 - 1) : matching(j) = {}
    OBVIOUS
  <2>4. matching(1) = {}
    BY <2>2, <2>3
  <2>5. QED
    BY <1>1, <2>1, <2>4
<1>4. QED
  BY <1>2, <1>3

\* What is told of a name is of the list it is told by, as it is judged now.
LEMMA TellStep ==
    ASSUME NewsInv, NEW n \in NewsNames, NEW list, Tell(n, list),
           UNCHANGED <<newsClock, crossed, alerts>>
    PROVE  NewsInv'
<1> DEFINE considered == {s \in list : Concerns(s, n) /\ InNewsWindow(s, MaxAge, AllowUndated)}
<1>1. PICK v \in ClassifiedFor(n, list) :
          verdict' = [verdict EXCEPT ![n] =
              [tier |-> v.tier, story |-> v.story, at |-> newsClock, served |-> list]]
  BY DEF Tell
<1>2. v \in Verdicts(considered)
  BY DEF ClassifiedFor
<1>3. /\ \/ v.tier = "none"
         \/ v.story \in considered /\ Matches(v.story, v.tier)
      /\ (\E s \in considered : Matches(s, "dilution")) => v.tier = "dilution"
  BY <1>2, VerdictsAreOf
<1>4. /\ DOMAIN verdict' = NewsNames
      /\ verdict'[n].tier = v.tier /\ verdict'[n].story = v.story
      /\ verdict'[n].at = newsClock /\ verdict'[n].served = list
      /\ \A m \in NewsNames : m # n => verdict'[m] = verdict[m]
  BY <1>1 DEF NewsInv
<1>5. TierIsEarned'
  <2> SUFFICES ASSUME NEW m \in NewsNames, (verdict[m].tier # "none")'
               PROVE  (LET s == verdict[m].story IN
                       /\ s \in verdict[m].served /\ Concerns(s, m) /\ Matches(s, verdict[m].tier)
                       /\ IF Dated(s) THEN AgeAt(s, verdict[m].at) <= MaxAge ELSE AllowUndated)'
    BY DEF TierIsEarned
  <2>1. CASE m = n
    <3>1. v.story \in considered /\ Matches(v.story, v.tier)
      BY <1>3, <1>4, <2>1
    <3>2. QED
      BY <1>4, <2>1, <3>1 DEF InNewsWindow, Age, AgeAt
  <2>2. CASE m # n
    BY <1>4, <2>2 DEF NewsInv, NewsIsHonest, TierIsEarned, AgeAt
  <2>3. QED
    BY <2>1, <2>2
<1>6. DilutionIsTheStory'
  <2> SUFFICES ASSUME NEW m \in NewsNames, NEW s, (s \in verdict[m].served)',
                      Concerns(s, m), "dilution" \in s.tiers, Dated(s),
                      (AgeAt(s, verdict[m].at) <= MaxAge)'
               PROVE  verdict'[m].tier = "dilution"
    BY DEF DilutionIsTheStory
  <2>1. CASE m = n
    <3>1. s \in considered
      BY <1>4, <2>1 DEF InNewsWindow, Age, AgeAt
    <3>2. Matches(s, "dilution")
      BY DEF Matches
    <3>3. QED
      BY <1>3, <1>4, <2>1, <3>1, <3>2
  <2>2. CASE m # n
    BY <1>4, <2>2 DEF NewsInv, NewsIsHonest, DilutionIsTheStory, AgeAt
  <2>3. QED
    BY <2>1, <2>2
<1>7. AlertsAreOfNow'
  BY DEF NewsInv, NewsIsHonest, AlertsAreOfNow, AgeAt
<1>8. QED
  BY <1>4, <1>5, <1>6, <1>7 DEF NewsInv, NewsIsHonest

LEMMA PollWireStep == ASSUME NewsInv, PollWire PROVE NewsInv'
<1> DEFINE recent == {s \in OnTheWire \cap Carries["alpaca"] : Since(s, Lookback)}
           single(s) == MaxStorySymbols = 0 \/ Cardinality(s.tags) <= MaxStorySymbols
           fit == {s \in recent : single(s) /\ InNewsWindow(s, Lookback, FALSE)}
<1>1. /\ UNCHANGED <<newsClock, crossed, headlines, verdict>>
      /\ alerts' = [at |-> newsClock,
                    stories |-> {v.story : v \in UNION {Verdicts({s}) : s \in fit}} \ {Nothing}]
  BY DEF PollWire
<1>2. ASSUME NEW r \in alerts'.stories
      PROVE  /\ Dated(r) /\ newsClock - crossed[r] <= Lookback
             /\ MaxStorySymbols > 0 => Cardinality(r.tags) <= MaxStorySymbols
  <2>1. r \in {v.story : v \in UNION {Verdicts({s}) : s \in fit}} /\ r # Nothing
    BY <1>1
  <2>2. PICK s \in fit : \E v \in Verdicts({s}) : r = v.story
    BY <2>1
  <2>3. r = s
    BY <2>1, <2>2, VerdictsAreOf
  <2>4. single(s) /\ InNewsWindow(s, Lookback, FALSE)
    BY <2>2
  <2>5. MaxStorySymbols \in Nat
    BY NewsAssumption DEF NewsAssumption
  <2>6. QED
    BY <2>3, <2>4, <2>5 DEF InNewsWindow, Age
<1>3. AlertsAreOfNow'
  BY <1>1, <1>2 DEF AlertsAreOfNow, AgeAt
<1>4. TierIsEarned' /\ DilutionIsTheStory'
  BY <1>1 DEF NewsInv, NewsIsHonest, TierIsEarned, DilutionIsTheStory, AgeAt
<1>5. QED
  BY <1>1, <1>3, <1>4 DEF NewsInv, NewsIsHonest

LEMMA NewsInvStep == NewsInv /\ [NewsNext]_newsVars => NewsInv'
<1> SUFFICES ASSUME NewsInv, [NewsNext]_newsVars PROVE NewsInv'
  OBVIOUS
<1>1. CASE UNCHANGED newsVars \/ NewsTick
  BY <1>1
  DEF newsVars, NewsTick, NewsInv, NewsIsHonest, TierIsEarned, DilutionIsTheStory, AlertsAreOfNow,
      AgeAt
<1>2. ASSUME NEW n \in NewsNames, NewsFromCache(n) \/ NewsFetched(n) PROVE NewsInv'
  BY <1>2, TellStep DEF NewsFromCache, NewsFetched
<1>3. QED
  BY <1>1, <1>2, PollWireStep DEF NewsNext

LEMMA NewsInvInit == NewsInit => NewsInv
  BY DEF NewsInit, NewsInv, NewsIsHonest, TierIsEarned, DilutionIsTheStory, AlertsAreOfNow, NoStory

---------------------------------------------------------------------------
(* The price frames.                                                       *)

BatchFields ==
    /\ batch = [at |-> batch.at, asked |-> batch.asked, need |-> batch.need, from |-> batch.from,
                feed |-> batch.feed, page |-> batch.page, rows |-> batch.rows, out |-> batch.out,
                calls |-> batch.calls]
    /\ batch.asked \in Seq(Bars) /\ batch.need \subseteq DOMAIN batch.asked
    /\ batch.from \in Nat /\ batch.page \in Nat /\ batch.calls \in Nat

BarsTypes ==
    /\ dailyFeed \in [feed : {"sip", "iex"}, credentials : BOOLEAN]
    /\ barFiles = [s \in Bars |-> barFiles[s]]
    /\ asking \in [Bars -> [at : {"not", "alpaca", "polygon", "ticker", "download"}, tries : Nat]]
    /\ BatchFields

\* Of a chunk under way each name has the rows, from its first day on, that are on the
\* pages so far, all of them of the tape the chunk is asked for on now.
PagesAreKept ==
    batch.at = "chunk" =>
        /\ batch.feed \in {FirstFeed, "iex-fallback"}
        /\ \A n \in Chunk :
              Sent(n) = IF batch.page = 0 THEN <<>>
                        ELSE SubSeq(History(n, Tape), 1, Within(n, batch.page * PageRows))

\* Symbols are asked for on their own after the last chunk, and only what was asked for
\* is answered.
RestIsAsked ==
    /\ \A s \in Bars : asking[s] # NotAsking => batch.at = "rest"
    /\ DOMAIN batch.out \subseteq ToSet(batch.asked)

BarsInv == BarsTypes /\ PagesAreKept /\ RestIsAsked /\ BarsAreWhole

LEMMA NamesFinite ==
    ASSUME NEW b, b.asked \in Seq(Bars), b.need \subseteq DOMAIN b.asked
    PROVE  IsFiniteSet(AlpacaNames(b))
<1> DEFINE S == {i \in b.need : OnAlpaca(b.asked[i])}
           T == {Name(b.asked[i]) : i \in S}
           f == [i \in S |-> Name(b.asked[i])]
<1>1. b.need \subseteq 1..Len(b.asked) /\ Len(b.asked) \in Nat
  OBVIOUS
<1>2. IsFiniteSet(1..Len(b.asked))
  BY <1>1, FS_Interval
<1>3. IsFiniteSet(S)
  BY <1>1, <1>2, FS_Subset
<1>4. f \in Surjection(S, T)
  BY Zenon DEF Surjection
<1>5. QED
  BY <1>3, <1>4, FS_Surjection DEF AlpacaNames

\* What is known of the names of a batch.
LEMMA NamesAre ==
    ASSUME BatchFields
    PROVE  /\ IsFiniteSet(AlpacaNames(batch))
           /\ \A n \in AlpacaNames(batch) :
                 /\ \A t \in Tapes : Days[n][t] \in Nat
                 /\ Original(n) \in ToSet(batch.asked) /\ Original(n) \in Bars
                 /\ Name(Original(n)) = n
<1>1. /\ batch.need \subseteq 1..Len(batch.asked) /\ Len(batch.asked) \in Nat
      /\ \A i \in batch.need : batch.asked[i] \in Bars /\ batch.asked[i] \in ToSet(batch.asked)
  BY DEF BatchFields, ToSet
<1>2. IsFiniteSet(AlpacaNames(batch))
  BY NamesFinite DEF BatchFields
<1>3. ASSUME NEW n \in AlpacaNames(batch)
      PROVE  /\ \A t \in Tapes : Days[n][t] \in Nat
             /\ Original(n) \in ToSet(batch.asked) /\ Original(n) \in Bars
             /\ Name(Original(n)) = n
  <2>1. PICK i \in batch.need : OnAlpaca(batch.asked[i]) /\ Name(batch.asked[i]) = n
    BY DEF AlpacaNames
  <2>2. /\ Spellings(batch, n) # {} /\ Spellings(batch, n) \in SUBSET (0..Len(batch.asked))
    BY <1>1, <2>1 DEF Spellings
  <2>3. Max(Spellings(batch, n)) \in Spellings(batch, n)
    BY <1>1, <2>2, MaxIsGreatest
  <2>4. QED
    BY <1>1, <2>1, <2>3, BarsAssumption DEF Spellings, Original, BarsAssumption
<1>4. QED
  BY <1>2, <1>3

\* A stretch of the combined answer holds, of each name, a stretch of its history.
LEMMA WithinBounds ==
    ASSUME BatchFields, NEW n \in Chunk
    PROVE  /\ Days[n][Tape] \in Nat
           /\ \A k \in Nat : Within(n, k) \in 0..Days[n][Tape]
           /\ \A k, l \in Nat : k <= l => Within(n, k) <= Within(n, l)
           /\ Within(n, 0) = 0
           /\ \A k \in Nat : k >= Rows(Chunk) => Within(n, k) = Days[n][Tape]
<1> DEFINE E == {m \in Chunk : Place(m) < Place(n)}
           d == [m \in Chunk |-> Days[m][Tape]]
<1>1. Tape \in Tapes
  BY DEF Tape, Tapes
<1>2. /\ IsFiniteSet(Chunk) /\ \A m \in Chunk : Days[m][Tape] \in Nat
  BY <1>1, NamesAre, FS_Subset DEF Chunk
<1>3. Place(n) \in Nat
  BY NamesAre, FS_Subset, FS_CardinalityType DEF Place
<1>4. E \subseteq Chunk \ {n}
  BY <1>3
<1>5. Rows(E) \in Nat /\ Rows(E) <= SumFunctionOnSet(d, Chunk \ {n})
  <2>1. IsFiniteSet(Chunk \ {n})
    BY <1>2, FS_RemoveElement
  <2>2. \A x \in Chunk \ {n} : d[x] \in Nat
    BY <1>2
  <2>3. \A x \in E : [m \in E |-> Days[m][Tape]][x] \in Nat /\ [m \in E |-> Days[m][Tape]][x] <= d[x]
    BY <1>2
  <2>4. /\ SumFunctionOnSet([m \in E |-> Days[m][Tape]], E) \in Nat
        /\ SumFunctionOnSet([m \in E |-> Days[m][Tape]], E) <= SumFunctionOnSet(d, Chunk \ {n})
    BY <1>4, <2>1, <2>2, <2>3, SumGrows
  <2>5. QED
    BY <2>4 DEF Rows
<1>6. Rows(Chunk) = Days[n][Tape] + SumFunctionOnSet(d, Chunk \ {n})
  <2>1. \A x \in Chunk : d[x] \in Int
    BY <1>2
  <2>2. SumFunctionOnSet(d, Chunk) = d[n] + SumFunctionOnSet(d, Chunk \ {n})
    BY <1>2, <2>1, SumOfOneMore
  <2>3. QED
    BY <2>2 DEF Rows
<1>7. SumFunctionOnSet(d, Chunk \ {n}) \in Int
  BY <1>2, FS_RemoveElement, SumIsInt
<1>8. \A k : Within(n, k) = IF k - Rows(E) < 0 THEN 0
                           ELSE IF k - Rows(E) < Days[n][Tape] THEN k - Rows(E) ELSE Days[n][Tape]
  BY DEF Within
<1> HIDE DEF E, d
<1>9. QED
  BY <1>2, <1>5, <1>6, <1>7, <1>8

\* A stretch of a sequence and the one after it.
LEMMA StretchesJoin ==
    ASSUME NEW S, NEW h \in Seq(S), NEW a \in 0..Len(h), NEW b \in a..Len(h)
    PROVE  SubSeq(h, 1, a) \o SubSeq(h, a + 1, b) = SubSeq(h, 1, b)
<1>1. /\ SubSeq(h, 1, a) \in Seq(S) /\ Len(SubSeq(h, 1, a)) = a
      /\ \A i \in 1..a : SubSeq(h, 1, a)[i] = h[i]
  OBVIOUS
<1>2. /\ SubSeq(h, a + 1, b) \in Seq(S) /\ Len(SubSeq(h, a + 1, b)) = b - a
      /\ \A i \in 1..(b - a) : SubSeq(h, a + 1, b)[i] = h[a + i]
  OBVIOUS
<1>3. /\ SubSeq(h, 1, b) \in Seq(S) /\ Len(SubSeq(h, 1, b)) = b
      /\ \A i \in 1..b : SubSeq(h, 1, b)[i] = h[i]
  OBVIOUS
<1> DEFINE c == SubSeq(h, 1, a) \o SubSeq(h, a + 1, b)
<1>4. c \in Seq(S) /\ Len(c) = b
  BY <1>1, <1>2
<1>5. \A i \in 1..b : c[i] = h[i]
  <2> TAKE i \in 1..b
  <2>1. CASE i <= a
    BY <1>1, <1>2, <2>1
  <2>2. CASE i > a
    BY <1>1, <1>2, <2>2
  <2>3. QED
    BY <2>1, <2>2
<1>6. QED
  BY <1>3, <1>4, <1>5, SeqEqual

LEMMA Histories ==
    ASSUME NEW n, NEW t, Days[n][t] \in Nat
    PROVE  /\ History(n, t) \in Seq([of : {n}, day : Nat, tape : {t}])
           /\ Len(History(n, t)) = Days[n][t]
           /\ SubSeq(History(n, t), 1, Days[n][t]) = History(n, t)
           /\ SubSeq(History(n, t), 1, 0) = <<>>
<1> DEFINE c == Days[n][t]
           h == [d \in 1..c |-> [of |-> n, day |-> d, tape |-> t]]
           S == [of : {n}, day : Nat, tape : {t}]
<1>1. c \in Nat /\ History(n, t) = h
  BY DEF History
<1>2. \A d \in 1..c : [of |-> n, day |-> d, tape |-> t] \in S
  OBVIOUS
<1> HIDE DEF c, S
<1>3. h \in Seq(S)
  BY <1>1, <1>2
<1>4. Len(h) = c
  BY <1>1
<1>5. SubSeq(h, 1, c) = h /\ SubSeq(h, 1, 0) = <<>>
  <2> HIDE DEF h
  <2>1. SubSeq(h, 1, c) \in Seq(S) /\ Len(SubSeq(h, 1, c)) = c
    BY <1>1, <1>3, <1>4
  <2>2. \A i \in 1..c : SubSeq(h, 1, c)[i] = h[i]
    BY <1>1, <1>3, <1>4
  <2>3. SubSeq(h, 1, c) = h
    BY <1>3, <1>4, <2>1, <2>2, SeqEqual
  <2>4. QED
    BY <2>3, SubSeqEmpty
<1>6. QED
  BY <1>1, <1>3, <1>4, <1>5 DEF c, S

\* One page more leaves each name with what is on the pages so far, and the last page
\* with its history.
LEMMA PageArrives ==
    ASSUME BarsTypes, PagesAreKept, batch.at = "chunk"
    PROVE  \A n \in Chunk :
              /\ Extended[n] = SubSeq(History(n, Tape), 1, Within(n, (batch.page + 1) * PageRows))
              /\ (batch.page + 1) * PageRows >= Rows(Chunk) => Extended[n] = History(n, Tape)
<1> TAKE n \in Chunk
<1> DEFINE a == Within(n, batch.page * PageRows)
           b == Within(n, (batch.page + 1) * PageRows)
           h == History(n, Tape)
<1>1. /\ batch.page * PageRows \in Nat /\ (batch.page + 1) * PageRows \in Nat
      /\ batch.page * PageRows <= (batch.page + 1) * PageRows
  BY BarsAssumption DEF BarsAssumption, BarsTypes, BatchFields
<1>2. /\ Days[n][Tape] \in Nat /\ a \in 0..Days[n][Tape] /\ b \in a..Days[n][Tape]
      /\ batch.page = 0 => a = 0
      /\ (batch.page + 1) * PageRows >= Rows(Chunk) => b = Days[n][Tape]
  <2> HIDE DEF a, b
  <2>1. BatchFields
    BY DEF BarsTypes
  <2>2. batch.page = 0 => batch.page * PageRows = 0
    BY BarsAssumption DEF BarsAssumption
  <2>3. QED
    BY <1>1, <2>1, WithinBounds, <2>2 DEF a, b
<1>3. /\ h \in Seq([of : {n}, day : Nat, tape : {Tape}]) /\ Len(h) = Days[n][Tape]
      /\ SubSeq(h, 1, Days[n][Tape]) = h /\ SubSeq(h, 1, 0) = <<>>
  BY <1>2, Histories
<1>4. SubSeq(h, 1, a) \o SubSeq(h, a + 1, b) = SubSeq(h, 1, b)
  <2> HIDE DEF a, b, h
  <2>1. a \in 0..Len(h) /\ b \in a..Len(h)
    BY <1>2, <1>3
  <2>2. QED
    BY <1>3, <2>1, StretchesJoin
<1>5. Sent(n) = SubSeq(h, 1, a) /\ OnPage(n) = SubSeq(h, a + 1, b)
  BY <1>2, <1>3 DEF PagesAreKept, OnPage
<1>6. Extended[n] = Sent(n) \o OnPage(n)
  BY DEF Extended
<1>7. QED
  BY <1>2, <1>3, <1>4, <1>5, <1>6

---------------------------------------------------------------------------
(* The steps.                                                              *)

\* What a step that leaves the list alone leaves alone.
LEMMA SameNames ==
    ASSUME batch'.asked = batch.asked, batch'.need = batch.need
    PROVE  /\ AlpacaNames(batch') = AlpacaNames(batch)
           /\ \A n : Place(n)' = Place(n)
           /\ \A n : Original(n)' = Original(n)
           /\ batch'.from = batch.from => Chunk' = Chunk
           /\ batch'.from = batch.from /\ batch'.feed = batch.feed =>
                 Tape' = Tape /\ \A n, k : Within(n, k)' = Within(n, k)
<1>1. /\ AlpacaNames(batch') = AlpacaNames(batch)
      /\ \A n : Spellings(batch', n) = Spellings(batch, n)
  BY DEF AlpacaNames, Spellings
<1>2. \A n : Place(n)' = Place(n)
  BY <1>1 DEF Place
<1>3. \A n : Original(n)' = Original(n)
  BY <1>1 DEF Original
<1>4. ASSUME batch'.from = batch.from PROVE Chunk' = Chunk
  BY <1>1, <1>2, <1>4 DEF Chunk
<1>5. ASSUME batch'.from = batch.from, batch'.feed = batch.feed
      PROVE  Tape' = Tape /\ \A n, k : Within(n, k)' = Within(n, k)
  <2>1. Tape' = Tape
    BY <1>5 DEF Tape
  <2>2. \A S : Rows(S)' = Rows(S)
    BY <2>1 DEF Rows
  <2>3. QED
    BY <1>2, <1>4, <1>5, <2>1, <2>2 DEF Within
<1>6. QED
  BY <1>1, <1>2, <1>3, <1>4, <1>5

LEMMA BarsInvInit == BarsInit => BarsInv
<1> SUFFICES ASSUME BarsInit PROVE BarsInv
  OBVIOUS
<1>1. BarsTypes
  <2>1. batch = NoBatch
    BY DEF BarsInit
  <2>2. BatchFields
    BY <2>1, EmptySeq DEF NoBatch, BatchFields
  <2>3. asking \in [Bars -> [at : {"not", "alpaca", "polygon", "ticker", "download"}, tries : Nat]]
    BY DEF BarsInit, NotAsking
  <2>4. barFiles = [s \in Bars |-> barFiles[s]]
    BY DEF BarsInit
  <2>5. QED
    BY <2>2, <2>3, <2>4 DEF BarsInit, BarsTypes
<1>2. /\ batch.at = "idle" /\ batch.asked = <<>> /\ batch.out = <<>> /\ batch.page = 0
      /\ \A s \in Bars : asking[s] = NotAsking
  BY DEF BarsInit, NoBatch
<1>3. ToSet(batch.asked) = {} /\ DOMAIN batch.out = {}
  BY <1>2 DEF ToSet
<1>4. FramesAreWhole
  <2>1. PICK tag \in [Bars -> {"nothing", "iex", "none"}] :
           barFiles = [s \in Bars |-> IF tag[s] = "nothing" \/ Days[Name(s)]["iex"] = 0 THEN NoFrame
                                    ELSE [rows |-> History(Name(s), "iex"), feed |-> tag[s]]]
    BY DEF BarsInit
  <2>2. QED
    BY <1>3, <2>1 DEF FramesAreWhole, Whole, TapesOf
<1>5. BarsTypeOK
  BY <1>1, <1>2, BarsAssumption DEF BarsTypes, BarsTypeOK, BarsAssumption, NotAsking
<1>6. QED
  BY <1>1, <1>2, <1>3, <1>4, <1>5
  DEF BarsInv, PagesAreKept, RestIsAsked, BarsAreWhole, VolumesAreTrusted, EverySymbolIsAnswered

LEMMA AskBatchStep == ASSUME BarsInv, NEW list \in Batches, AskBatch(list) PROVE BarsInv'
<1> DEFINE hits  == {s \in ToSet(list) : InCache(s)}
           need  == {i \in DOMAIN list : list[i] \notin hits}
           out   == [s \in hits |-> [frame |-> barFiles[s], from |-> "cache"]]
<1>1. /\ UNCHANGED <<dailyFeed, barFiles, barExpired, asking>>
      /\ batch.at = "idle" /\ list \in Seq(Bars)
  BY BarsAssumption DEF AskBatch, BarsAssumption
<1>2. /\ batch' = [at |-> batch'.at, asked |-> list, need |-> need, from |-> 0, feed |-> FirstFeed,
                   page |-> 0, rows |-> <<>>, out |-> out, calls |-> batch.calls + 1]
      /\ batch'.at \in {"idle", "chunk", "rest"} /\ (batch'.at = "idle" <=> need = {})
      /\ batch'.at = "chunk" => AlpacaNames(batch') # {}
  <2> DEFINE names == IF dailyFeed.credentials THEN AlpacaNames([asked |-> list, need |-> need]) ELSE {}
             at    == IF need = {} THEN "idle" ELSE IF names = {} THEN "rest" ELSE "chunk"
  <2>1. batch' = [at |-> at, asked |-> list, need |-> need, from |-> 0, feed |-> FirstFeed,
                  page |-> 0, rows |-> <<>>, out |-> out, calls |-> batch.calls + 1]
    BY Zenon DEF AskBatch
  <2> HIDE DEF hits, need, out
  <2>2. AlpacaNames([asked |-> list, need |-> need]) = AlpacaNames(batch')
    BY <2>1 DEF AlpacaNames
  <2>3. QED
    BY <2>1, <2>2
<1> HIDE DEF need, out
<1>3. BatchFields'
  <2>1. need \subseteq DOMAIN list
    BY DEF need
  <2>2. batch.calls + 1 \in Nat
    BY DEF BarsInv, BarsTypes, BatchFields
  <2>3. QED
    BY <1>1, <1>2, <2>1, <2>2 DEF BatchFields
<1>4. BarsTypes'
  BY <1>1, <1>3 DEF BarsInv, BarsTypes
<1>5. PagesAreKept'
  <2>1. FirstFeed' = FirstFeed
    BY <1>1 DEF FirstFeed
  <2>2. QED
    BY <1>2, <2>1 DEF PagesAreKept, Sent
<1>6. /\ \A s \in Bars : asking'[s] = NotAsking
      /\ ToSet(batch'.asked) = ToSet(list) /\ DOMAIN batch'.out = hits
  BY <1>1, <1>2 DEF BarsInv, RestIsAsked, out
<1>7. BarsTypeOK'
  <2>1. batch'.at = "chunk" => 0 < Cardinality(AlpacaNames(batch'))
    <3>1. IsFiniteSet(AlpacaNames(batch'))
      BY <1>3, NamesFinite DEF BatchFields
    <3>2. QED
      BY <1>2, <3>1, FS_EmptySet, FS_CardinalityType
  <2>2. QED
    BY <1>1, <1>2, <1>4, <2>1, BarsAssumption DEF BarsTypeOK, BarsTypes, BarsAssumption
<1>8. FramesAreWhole'
  <2>1. hits \subseteq Bars
    BY <1>1 DEF ToSet
  <2>2. QED
    BY <1>1, <1>2, <1>6, <2>1 DEF BarsInv, BarsAreWhole, FramesAreWhole, Whole, out
<1>9. VolumesAreTrusted'
  BY <1>1, <1>2, <1>6 DEF VolumesAreTrusted, Trusted, InCache, out
<1>10. EverySymbolIsAnswered'
  <2>1. need = {} => hits = ToSet(list)
    BY <1>1 DEF need, ToSet
  <2>2. QED
    BY <1>2, <1>6, <2>1 DEF EverySymbolIsAnswered
<1>11. QED
  BY <1>4, <1>5, <1>6, <1>7, <1>8, <1>9, <1>10 DEF BarsInv, BarsAreWhole, RestIsAsked

LEMMA MorePagesStep == ASSUME BarsInv, MorePages PROVE BarsInv'
<1>1. /\ UNCHANGED <<dailyFeed, barFiles, barExpired, asking>>
      /\ batch.at = "chunk" /\ batch.page + 1 < MaxPages /\ BatchFields
  BY DEF MorePages, BarsInv, BarsTypes
<1>2. batch' = [at |-> batch.at, asked |-> batch.asked, need |-> batch.need, from |-> batch.from,
                feed |-> batch.feed, page |-> batch.page + 1, rows |-> Extended, out |-> batch.out,
                calls |-> batch.calls]
  BY <1>1 DEF MorePages, BatchFields
<1>3. BarsTypes'
  BY <1>1, <1>2 DEF BarsInv, BarsTypes, BatchFields
<1>4. /\ AlpacaNames(batch') = AlpacaNames(batch) /\ Chunk' = Chunk /\ Tape' = Tape
      /\ \A n, k : Within(n, k)' = Within(n, k)
  BY <1>2, SameNames
<1>5. PagesAreKept'
  <2>1. FirstFeed' = FirstFeed
    BY <1>1 DEF FirstFeed
  <2>2. ASSUME NEW n \in Chunk
        PROVE  Sent(n)' = SubSeq(History(n, Tape), 1, Within(n, (batch.page + 1) * PageRows))
    <3>1. DOMAIN batch'.rows = Chunk /\ batch'.rows[n] = Extended[n]
      BY <1>2 DEF Extended
    <3>2. Sent(n)' = Extended[n]
      BY <3>1 DEF Sent
    <3>3. QED
      BY <1>1, <3>2, PageArrives DEF BarsInv
  <2>3. batch'.page = batch.page + 1 /\ batch'.page # 0
    BY <1>1, <1>2 DEF BatchFields
  <2>4. batch.feed \in {FirstFeed, "iex-fallback"} /\ batch'.feed = batch.feed
    BY <1>1, <1>2 DEF BarsInv, PagesAreKept
  <2>5. QED
    BY <1>4, <2>1, <2>2, <2>3, <2>4 DEF PagesAreKept
<1>6. /\ UNCHANGED <<batch.at, batch.asked, batch.out, batch.from>>
  BY <1>2
<1>7. BarsTypeOK'
  BY <1>1, <1>2, <1>4 DEF BarsInv, BarsAreWhole, BarsTypeOK
<1>8. QED
  BY <1>1, <1>3, <1>5, <1>6, <1>7
  DEF BarsInv, BarsAreWhole, RestIsAsked, FramesAreWhole, VolumesAreTrusted, Trusted,
      EverySymbolIsAnswered, Missing

LEMMA RefusedStep == ASSUME BarsInv, Refused PROVE BarsInv'
<1>1. /\ UNCHANGED <<dailyFeed, barFiles, barExpired, asking>>
      /\ batch.at = "chunk" /\ BatchFields
  BY DEF Refused, BarsInv, BarsTypes
<1>2. batch' = [at |-> batch.at, asked |-> batch.asked, need |-> batch.need, from |-> batch.from,
                feed |-> "iex-fallback", page |-> 0, rows |-> <<>>, out |-> batch.out,
                calls |-> batch.calls]
  BY <1>1 DEF Refused, BatchFields
<1>3. BarsTypes'
  BY <1>1, <1>2 DEF BarsInv, BarsTypes, BatchFields
<1>4. AlpacaNames(batch') = AlpacaNames(batch)
  BY <1>2, SameNames
<1>5. PagesAreKept'
  BY <1>2 DEF PagesAreKept, Sent
<1>6. /\ UNCHANGED <<batch.at, batch.asked, batch.out, batch.from>>
  BY <1>2
<1>7. BarsTypeOK'
  BY <1>1, <1>2, <1>4, BarsAssumption DEF BarsAssumption, BarsInv, BarsAreWhole, BarsTypeOK
<1>8. QED
  BY <1>1, <1>3, <1>5, <1>6, <1>7
  DEF BarsInv, BarsAreWhole, RestIsAsked, FramesAreWhole, VolumesAreTrusted, Trusted,
      EverySymbolIsAnswered, Missing

\* The next chunk begins, whatever became of the last.
LEMMA ChunkBegins ==
    ASSUME BarsInv, batch.at = "chunk", UNCHANGED <<dailyFeed, asking>>,
           NEW out, DOMAIN out \subseteq ToSet(batch.asked), batch' = [NextChunk EXCEPT !.out = out]
    PROVE  /\ BatchFields' /\ PagesAreKept' /\ BarsTypeOK' /\ RestIsAsked' /\ EverySymbolIsAnswered'
           /\ batch'.out = out
<1>1. BatchFields /\ ChunkSize \in Nat /\ MaxPages \in Nat \ {0}
  BY BarsAssumption DEF BarsAssumption, BarsInv, BarsTypes
<1> DEFINE at == IF batch.from + ChunkSize < Cardinality(AlpacaNames(batch)) THEN "chunk" ELSE "rest"
<1>2. batch' = [at |-> at, asked |-> batch.asked, need |-> batch.need, from |-> batch.from + ChunkSize,
                feed |-> FirstFeed, page |-> 0, rows |-> <<>>, out |-> out, calls |-> batch.calls]
  <2> DEFINE from == batch.from + ChunkSize
             ff   == FirstFeed
  <2>1. /\ batch = [at |-> batch.at, asked |-> batch.asked, need |-> batch.need, from |-> batch.from,
                    feed |-> batch.feed, page |-> batch.page, rows |-> batch.rows, out |-> batch.out,
                    calls |-> batch.calls]
        /\ batch' = [[batch EXCEPT !.from = from, !.feed = ff, !.page = 0, !.rows = <<>>, !.at = at]
                       EXCEPT !.out = out]
    BY <1>1 DEF NextChunk, BatchFields
  <2> HIDE DEF at, from, ff
  <2>2. batch' = [at |-> at, asked |-> batch.asked, need |-> batch.need, from |-> from,
                  feed |-> ff, page |-> 0, rows |-> <<>>, out |-> out, calls |-> batch.calls]
    BY <2>1
  <2>3. QED
    BY <2>2 DEF at, from, ff
<1>3. BatchFields'
  <2> DEFINE from == batch.from + ChunkSize
             ff   == FirstFeed
  <2>1. /\ from \in Nat /\ batch.asked \in Seq(Bars) /\ batch.need \subseteq DOMAIN batch.asked
        /\ batch.calls \in Nat
    BY <1>1 DEF BatchFields
  <2> HIDE DEF at, from, ff
  <2>2. batch' = [at |-> at, asked |-> batch.asked, need |-> batch.need, from |-> from,
                  feed |-> ff, page |-> 0, rows |-> <<>>, out |-> out, calls |-> batch.calls]
    BY <1>2 DEF at, from, ff
  <2>3. /\ batch'.asked = batch.asked /\ batch'.need = batch.need /\ batch'.from = from
        /\ batch'.page = 0 /\ batch'.calls = batch.calls /\ batch'.at = at /\ batch'.feed = ff
        /\ batch'.rows = <<>> /\ batch'.out = out
    BY <2>2
  <2>4. batch' = [at |-> batch'.at, asked |-> batch'.asked, need |-> batch'.need, from |-> batch'.from,
                  feed |-> batch'.feed, page |-> batch'.page, rows |-> batch'.rows,
                  out |-> batch'.out, calls |-> batch'.calls]
    BY <2>2, <2>3
  <2>5. QED
    BY <2>1, <2>3, <2>4 DEF BatchFields
<1>4. /\ batch'.at # "idle" /\ batch'.asked = batch.asked /\ batch'.out = out
  BY <1>2
<1> HIDE DEF at
<1>5. AlpacaNames(batch') = AlpacaNames(batch) /\ FirstFeed' = FirstFeed
  BY <1>2, SameNames DEF FirstFeed
<1>6. PagesAreKept'
  BY <1>2, <1>5 DEF PagesAreKept, Sent
<1>7. \A s \in Bars : asking'[s] = NotAsking
  BY DEF BarsInv, RestIsAsked
<1>8. BarsTypeOK'
  BY <1>1, <1>2, <1>5 DEF BarsInv, BarsAreWhole, BarsTypeOK, at
<1>9. QED
  BY <1>3, <1>6, <1>7, <1>8, <1>4 DEF RestIsAsked, EverySymbolIsAnswered

LEMMA ChunkFailsStep == ASSUME BarsInv, ChunkFails PROVE BarsInv'
<1>1. /\ UNCHANGED <<dailyFeed, barFiles, barExpired, asking>>
      /\ batch.at = "chunk" /\ batch' = NextChunk
  BY DEF ChunkFails
<1>2. NextChunk = [NextChunk EXCEPT !.out = batch.out]
  BY DEF NextChunk, BarsInv, BarsTypes, BatchFields
<1>3. DOMAIN batch.out \subseteq ToSet(batch.asked)
  BY DEF BarsInv, RestIsAsked
<1>4. /\ BatchFields' /\ PagesAreKept' /\ BarsTypeOK' /\ RestIsAsked' /\ EverySymbolIsAnswered'
      /\ batch'.out = batch.out
  BY <1>1, <1>2, <1>3, ChunkBegins
<1>5. QED
  BY <1>1, <1>4 DEF BarsInv, BarsTypes, BarsAreWhole, FramesAreWhole, VolumesAreTrusted, Trusted

LEMMA LastPageStep == ASSUME BarsInv, LastPage PROVE BarsInv'
<1> DEFINE found    == {n \in Chunk : Extended[n] # <<>>}
           filled   == {Original(n) : n \in found}
           frame(s) == [rows |-> Extended[Name(s)], feed |-> batch.feed]
           out == [s \in DOMAIN batch.out \cup filled |->
                     IF s \in filled THEN [frame |-> frame(s), from |-> "batch"] ELSE batch.out[s]]
<1>1. /\ UNCHANGED <<dailyFeed, asking>> /\ batch.at = "chunk"
      /\ (batch.page + 1) * PageRows >= Rows(Chunk)
      /\ batch' = [NextChunk EXCEPT !.out = out]
      /\ barFiles' = [s \in Bars |-> IF s \in filled THEN frame(s) ELSE barFiles[s]]
  BY Zenon DEF LastPage
<1>2. ASSUME NEW s \in filled
      PROVE  /\ s \in ToSet(batch.asked) /\ Whole(s, frame(s)) /\ Trusted(frame(s))
  <2>1. PICK n \in Chunk : s = Original(n)
    OBVIOUS
  <2>2. BatchFields /\ n \in AlpacaNames(batch)
    BY DEF BarsInv, BarsTypes, Chunk
  <2>3. s \in ToSet(batch.asked) /\ Name(s) = n
    BY <2>1, <2>2, NamesAre
  <2>4. Extended[n] = History(n, Tape)
    BY <1>1, PageArrives DEF BarsInv
  <2>5. batch.feed \in {FirstFeed, "iex-fallback"} /\ dailyFeed.feed \in {"sip", "iex"}
    BY <1>1 DEF BarsInv, PagesAreKept, BarsTypes
  <2>6. Tape \in TapesOf(batch.feed)
    BY <2>5 DEF Tape, TapesOf, FirstFeed
  <2>7. frame(s).rows = History(Name(s), Tape) /\ frame(s).feed = batch.feed
    BY <2>3, <2>4
  <2>8. Whole(s, frame(s))
    BY <2>6, <2>7 DEF Whole
  <2>9. Trusted(frame(s))
    BY <2>5, <2>7 DEF Trusted, TrustedDailyVolume, FirstFeed
  <2>10. QED
    BY <2>3, <2>8, <2>9
<1>3. DOMAIN out = DOMAIN batch.out \cup filled
  OBVIOUS
<1>4. DOMAIN out \subseteq ToSet(batch.asked)
  BY <1>2, <1>3 DEF BarsInv, RestIsAsked
<1>5. \A s \in DOMAIN out : out[s] = IF s \in filled THEN [frame |-> frame(s), from |-> "batch"]
                                     ELSE batch.out[s]
  OBVIOUS
<1> HIDE DEF filled, out
<1>6. /\ BatchFields' /\ PagesAreKept' /\ BarsTypeOK' /\ RestIsAsked' /\ EverySymbolIsAnswered'
      /\ batch'.out = out
  BY <1>1, <1>4, ChunkBegins
<1>7. BarsTypes'
  BY <1>1, <1>6 DEF BarsInv, BarsTypes
<1> HIDE DEF frame
<1>8. FramesAreWhole'
  <2>1. \A s \in Bars : Whole(s, barFiles'[s])
    BY <1>1, <1>2 DEF BarsInv, BarsAreWhole, FramesAreWhole
  <2>2. ASSUME NEW s \in DOMAIN out PROVE Whole(s, out[s].frame)
    <3>1. CASE s \in filled
      BY <1>2, <1>5, <3>1
    <3>2. CASE s \notin filled
      BY <1>3, <1>5, <3>2 DEF BarsInv, BarsAreWhole, FramesAreWhole
    <3>3. QED
      BY <3>1, <3>2
  <2>3. QED
    BY <1>6, <2>1, <2>2 DEF FramesAreWhole, Whole
<1>9. VolumesAreTrusted'
  <2>1. ASSUME NEW s \in DOMAIN out, out[s].from \in {"cache", "batch", "live"}
        PROVE  Trusted(out[s].frame)
    <3>1. CASE s \in filled
      BY <1>2, <1>5, <3>1
    <3>2. CASE s \notin filled
      BY <1>3, <1>5, <2>1, <3>2 DEF BarsInv, BarsAreWhole, VolumesAreTrusted
    <3>3. QED
      BY <3>1, <3>2
  <2>2. QED
    BY <1>1, <1>6, <2>1 DEF VolumesAreTrusted, Trusted
<1>10. QED
  BY <1>6, <1>7, <1>8, <1>9 DEF BarsInv, BarsAreWhole

\* An answer of a symbol alone.
LEMMA AnsweredStep ==
    ASSUME BarsInv, NEW s \in Missing, batch.at = "rest", NEW frame, NEW from,
           AnsweredWith(s, frame, from), UNCHANGED dailyFeed,
           Whole(s, frame), from \in {"cache", "batch", "live"} => Trusted(frame),
           barFiles' = [r \in Bars |-> barFiles'[r]], \A r \in Bars : Whole(r, barFiles'[r])
    PROVE  BarsInv'
<1> DEFINE out == [r \in DOMAIN batch.out \cup {s} |->
                     IF r = s THEN [frame |-> frame, from |-> from] ELSE batch.out[r]]
<1>1. BatchFields /\ s \in ToSet(batch.asked) /\ s \in Bars
  BY DEF BarsInv, BarsTypes, BatchFields, Missing, ToSet
<1>2. batch' = [at |-> batch.at, asked |-> batch.asked, need |-> batch.need, from |-> batch.from,
                feed |-> batch.feed, page |-> batch.page, rows |-> batch.rows, out |-> out,
                calls |-> batch.calls]
  BY <1>1 DEF AnsweredWith, BatchFields
<1>3. /\ DOMAIN out = DOMAIN batch.out \cup {s} /\ out[s] = [frame |-> frame, from |-> from]
      /\ \A r \in DOMAIN batch.out : r # s => out[r] = batch.out[r]
  OBVIOUS
<1> HIDE DEF out
<1>4. asking' = [asking EXCEPT ![s] = NotAsking]
  BY DEF AnsweredWith
<1>5. BarsTypes'
  BY <1>1, <1>2, <1>4 DEF BarsInv, BarsTypes, BatchFields, NotAsking
<1>6. \A r \in Bars : asking'[r] = IF r = s THEN NotAsking ELSE asking[r]
  BY <1>4 DEF BarsInv, BarsTypes
<1>7. PagesAreKept' /\ RestIsAsked'
  BY <1>1, <1>2, <1>3, <1>6 DEF BarsInv, PagesAreKept, RestIsAsked
<1>8. BarsTypeOK'
  BY <1>2, <1>5 DEF BarsInv, BarsAreWhole, BarsTypeOK, BarsTypes
<1>9. FramesAreWhole'
  BY <1>2, <1>3 DEF BarsInv, BarsAreWhole, FramesAreWhole
<1>10. VolumesAreTrusted'
  BY <1>2, <1>3 DEF BarsInv, BarsAreWhole, VolumesAreTrusted, Trusted
<1>11. EverySymbolIsAnswered'
  BY <1>2, <1>3, <1>6 DEF BarsInv, BarsAreWhole, EverySymbolIsAnswered, Missing
<1>12. QED
  BY <1>5, <1>7, <1>8, <1>9, <1>10, <1>11 DEF BarsInv, BarsAreWhole

\* What a provider answers is the history of the symbol, of a tape its tag stands for.
LEMMA AnswersAreWhole ==
    ASSUME BarsInv, NEW s \in Bars, NEW p, NEW frame \in Answers(s, p)
    PROVE  Whole(s, frame) /\ Trusted(frame)
<1>1. PICK feed \in {"sip", "iex", "consolidated", "iex-fallback"} :
         /\ frame = FrameOf(Name(s), feed)
         /\ dailyFeed.feed = "sip" => feed # "iex"
  BY DEF Answers, FirstFeed, BarsInv, BarsTypes
<1>2. /\ frame.rows = History(Name(s), IF feed = "iex-fallback" THEN "iex" ELSE feed)
      /\ frame.feed = feed
  BY <1>1 DEF FrameOf
<1>3. (IF feed = "iex-fallback" THEN "iex" ELSE feed) \in TapesOf(feed)
  BY DEF TapesOf
<1>4. QED
  BY <1>1, <1>2, <1>3 DEF Whole, Trusted, TrustedDailyVolume

\* A symbol that is asked for is still missing.
LEMMA AskingIsMissing ==
    ASSUME BarsInv, NEW s \in Bars, asking[s] # NotAsking
    PROVE  s \in Missing /\ batch.at = "rest"
  BY DEF BarsInv, BarsAreWhole, RestIsAsked, EverySymbolIsAnswered, ToSet, Missing

\* The next provider, or the first again.
LEMMA AskingStep ==
    ASSUME BarsInv, NEW s \in Missing, batch.at = "rest",
           NEW a \in [at : {"not", "alpaca", "polygon", "ticker", "download"}, tries : Nat],
           asking' = [asking EXCEPT ![s] = a],
           UNCHANGED <<dailyFeed, barFiles, barExpired, batch>>
    PROVE  BarsInv'
<1>1. s \in Bars
  BY DEF BarsInv, BarsTypes, BatchFields, Missing, ToSet
<1>2. \A r \in Bars : asking'[r] = IF r = s THEN a ELSE asking[r]
  BY DEF BarsInv, BarsTypes
<1>3. BarsTypes'
  BY DEF BarsInv, BarsTypes, BatchFields
<1>4. AlpacaNames(batch') = AlpacaNames(batch) /\ Missing' = Missing
  BY DEF Missing
<1>5. BarsTypeOK'
  BY <1>3, <1>4 DEF BarsInv, BarsAreWhole, BarsTypeOK, BarsTypes
<1>6. PagesAreKept'
  BY DEF PagesAreKept
<1>7. QED
  BY <1>2, <1>3, <1>4, <1>5, <1>6
  DEF BarsInv, BarsAreWhole, RestIsAsked, FramesAreWhole, VolumesAreTrusted, Trusted,
      EverySymbolIsAnswered

LEMMA StartOneStep == ASSUME BarsInv, NEW s \in Bars, StartOne(s) PROVE BarsInv'
<1>1. batch.at = "rest" /\ s \in Missing /\ UNCHANGED <<dailyFeed, barFiles, barExpired>>
  BY DEF StartOne
<1>2. CASE InCache(s)
  <2>1. AnsweredWith(s, barFiles[s], "cache") /\ Trusted(barFiles[s])
    BY <1>2 DEF StartOne, InCache
  <2>2. /\ \A r \in Bars : Whole(r, barFiles'[r]) /\ barFiles'[r] = barFiles[r]
        /\ barFiles' = [r \in Bars |-> barFiles'[r]]
    BY <1>1 DEF BarsInv, BarsTypes, BarsAreWhole, FramesAreWhole
  <2>3. Whole(s, barFiles[s])
    BY <2>2
  <2>4. QED
    BY <1>1, <2>1, <2>2, <2>3, AnsweredStep
<1>3. CASE ~InCache(s)
  <2>1. FirstProvider(s) \in {"alpaca", "polygon", "ticker"}
    BY DEF FirstProvider
  <2>2. asking' = [asking EXCEPT ![s] = [at |-> FirstProvider(s), tries |-> 0]] /\ UNCHANGED batch
    BY <1>3 DEF StartOne
  <2>3. QED
    BY <1>1, <2>1, <2>2, AskingStep
<1>4. QED
  BY <1>2, <1>3

LEMMA OneAnswersStep == ASSUME BarsInv, NEW s \in Bars, OneAnswers(s) PROVE BarsInv'
<1>1. PICK frame \in Answers(s, asking[s].at) :
         AnsweredWith(s, frame, "live") /\ barFiles' = [barFiles EXCEPT ![s] = frame]
  BY DEF OneAnswers
<1>2. asking[s] # NotAsking /\ UNCHANGED dailyFeed
  BY DEF OneAnswers
<1>3. Whole(s, frame) /\ Trusted(frame)
  BY AnswersAreWhole
<1>4. /\ barFiles' = [r \in Bars |-> barFiles'[r]]
      /\ \A r \in Bars : barFiles'[r] = IF r = s THEN frame ELSE barFiles[r]
  BY <1>1 DEF BarsInv, BarsTypes
<1>5. \A r \in Bars : Whole(r, barFiles'[r])
  BY <1>3, <1>4 DEF BarsInv, BarsAreWhole, FramesAreWhole
<1>6. QED
  BY <1>1, <1>2, <1>3, <1>4, <1>5, AskingIsMissing, AnsweredStep

LEMMA OneGoesOnStep == ASSUME BarsInv, NEW s \in Bars, OneGoesOn(s) PROVE BarsInv'
<1>1. /\ asking[s].at \in {"alpaca", "polygon", "ticker"}
      /\ asking' = [asking EXCEPT ![s].at = After(asking[s].at)]
      /\ UNCHANGED <<dailyFeed, barFiles, barExpired, batch>>
  BY DEF OneGoesOn, BarsInv, BarsTypes
<1>2. /\ asking[s] \in [at : {"not", "alpaca", "polygon", "ticker", "download"}, tries : Nat]
      /\ asking[s] # NotAsking
  BY <1>1 DEF BarsInv, BarsTypes, NotAsking
<1>3. After(asking[s].at) \in {"polygon", "ticker", "download"}
  BY <1>1 DEF After
<1> DEFINE a == [asking[s] EXCEPT !.at = After(asking[s].at)]
<1>4. /\ a \in [at : {"not", "alpaca", "polygon", "ticker", "download"}, tries : Nat]
      /\ asking' = [asking EXCEPT ![s] = a]
  BY <1>1, <1>2, <1>3
<1> HIDE DEF a
<1>5. QED
  BY <1>1, <1>2, <1>4, AskingIsMissing, AskingStep

LEMMA OneRetriesStep == ASSUME BarsInv, NEW s \in Bars, OneRetries(s) PROVE BarsInv'
<1> DEFINE a == [at |-> FirstProvider(s), tries |-> asking[s].tries + 1]
<1>1. /\ asking[s].at = "download" /\ asking' = [asking EXCEPT ![s] = a]
      /\ UNCHANGED <<dailyFeed, barFiles, barExpired, batch>>
  BY DEF OneRetries, BarsInv, BarsTypes
<1>2. asking[s] # NotAsking /\ asking[s].tries \in Nat
  BY <1>1 DEF BarsInv, BarsTypes, NotAsking
<1>3. FirstProvider(s) \in {"alpaca", "polygon", "ticker"}
  BY DEF FirstProvider
<1>4. a \in [at : {"not", "alpaca", "polygon", "ticker", "download"}, tries : Nat]
  BY <1>2, <1>3
<1> HIDE DEF a
<1>5. QED
  BY <1>1, <1>2, <1>4, AskingIsMissing, AskingStep

LEMMA OneFallsBackStep == ASSUME BarsInv, NEW s \in Bars, OneFallsBack(s) PROVE BarsInv'
<1>1. PICK from \in {"none", "stale"} : AnsweredWith(s, barFiles[s], from)
  BY DEF OneFallsBack
<1>2. asking[s] # NotAsking /\ UNCHANGED <<dailyFeed, barFiles, barExpired>>
  BY DEF OneFallsBack, NotAsking
<1>3. /\ \A r \in Bars : Whole(r, barFiles'[r]) /\ barFiles'[r] = barFiles[r]
      /\ barFiles' = [r \in Bars |-> barFiles'[r]]
  BY <1>2 DEF BarsInv, BarsTypes, BarsAreWhole, FramesAreWhole
<1>4. Whole(s, barFiles[s])
  BY <1>3
<1>5. from \notin {"cache", "batch", "live"}
  OBVIOUS
<1>6. QED
  BY <1>1, <1>2, <1>3, <1>4, <1>5, AskingIsMissing, AnsweredStep

LEMMA EndBatchStep == ASSUME BarsInv, EndBatch PROVE BarsInv'
<1>1. /\ UNCHANGED <<dailyFeed, barFiles, barExpired, asking>>
      /\ batch.at = "rest" /\ Missing = {} /\ BatchFields
  BY DEF EndBatch, BarsInv, BarsTypes
<1>2. batch' = [at |-> "idle", asked |-> batch.asked, need |-> batch.need, from |-> batch.from,
                feed |-> batch.feed, page |-> batch.page, rows |-> batch.rows, out |-> batch.out,
                calls |-> batch.calls]
  BY <1>1 DEF EndBatch, BatchFields
<1>3. BarsTypes'
  BY <1>1, <1>2 DEF BarsInv, BarsTypes, BatchFields
<1>4. PagesAreKept'
  BY <1>2 DEF PagesAreKept
<1>5. \A s \in Bars : asking[s] = NotAsking
  BY <1>1, AskingIsMissing
<1>6. ToSet(batch.asked) = DOMAIN batch.out
  BY <1>1 DEF Missing, BarsInv, RestIsAsked
<1>7. BarsTypeOK'
  BY <1>1, <1>2 DEF BarsInv, BarsAreWhole, BarsTypeOK
<1>8. batch'.out = batch.out /\ batch'.asked = batch.asked
  BY <1>2
<1>9. QED
  BY <1>1, <1>3, <1>4, <1>5, <1>6, <1>7, <1>8
  DEF BarsInv, BarsAreWhole, RestIsAsked, FramesAreWhole, VolumesAreTrusted, Trusted,
      EverySymbolIsAnswered

\* The files may change, if they are whole.
LEMMA FilesStep ==
    ASSUME BarsInv, UNCHANGED <<dailyFeed, batch, asking>>,
           barFiles' = [r \in Bars |-> barFiles'[r]], \A r \in Bars : Whole(r, barFiles'[r])
    PROVE  BarsInv'
<1>1. BarsTypes'
  BY DEF BarsInv, BarsTypes, BatchFields
<1>2. AlpacaNames(batch') = AlpacaNames(batch) /\ Missing' = Missing
  BY DEF Missing
<1>3. BarsTypeOK'
  BY <1>2 DEF BarsInv, BarsAreWhole, BarsTypeOK
<1>4. PagesAreKept'
  <2>1. Chunk' = Chunk /\ Tape' = Tape /\ FirstFeed' = FirstFeed
        /\ \A n : Sent(n)' = Sent(n) /\ \A k : Within(n, k)' = Within(n, k)
    BY SameNames DEF FirstFeed, Sent
  <2>2. QED
    BY <2>1 DEF BarsInv, PagesAreKept
<1>5. QED
  BY <1>1, <1>2, <1>3, <1>4
  DEF BarsInv, BarsAreWhole, RestIsAsked, FramesAreWhole, VolumesAreTrusted, Trusted,
      EverySymbolIsAnswered

LEMMA OthersCacheStep == ASSUME BarsInv, NEW s \in Bars, OthersCache(s) PROVE BarsInv'
<1>1. PICK p \in Providers(s) : \E frame \in Answers(s, p) : barFiles' = [barFiles EXCEPT ![s] = frame]
  BY DEF OthersCache
<1>2. PICK frame \in Answers(s, p) : barFiles' = [barFiles EXCEPT ![s] = frame]
  BY <1>1
<1>3. Whole(s, frame)
  BY AnswersAreWhole
<1>4. /\ barFiles' = [r \in Bars |-> barFiles'[r]]
      /\ \A r \in Bars : barFiles'[r] = IF r = s THEN frame ELSE barFiles[r]
  BY <1>2 DEF BarsInv, BarsTypes
<1>5. \A r \in Bars : Whole(r, barFiles'[r])
  BY <1>3, <1>4 DEF BarsInv, BarsAreWhole, FramesAreWhole
<1>6. QED
  BY <1>4, <1>5, FilesStep DEF OthersCache

LEMMA BarsInvStep == BarsInv /\ [BarsNext]_barVars => BarsInv'
<1> SUFFICES ASSUME BarsInv, [BarsNext]_barVars PROVE BarsInv'
  OBVIOUS
<1>1. CASE BarsExpire \/ UNCHANGED barVars
  <2>1. UNCHANGED <<dailyFeed, batch, asking, barFiles>>
    BY <1>1 DEF BarsExpire, barVars
  <2>2. /\ barFiles' = [r \in Bars |-> barFiles'[r]] /\ \A r \in Bars : Whole(r, barFiles'[r])
    BY <2>1 DEF BarsInv, BarsTypes, BarsAreWhole, FramesAreWhole
  <2>3. QED
    BY <2>1, <2>2, FilesStep
<1>2. ASSUME NEW list \in Batches, AskBatch(list) PROVE BarsInv'
  BY <1>2, AskBatchStep
<1>3. CASE MorePages \/ LastPage \/ Refused \/ ChunkFails \/ EndBatch
  BY <1>3, MorePagesStep, LastPageStep, RefusedStep, ChunkFailsStep, EndBatchStep
<1>4. ASSUME NEW s \in Bars, StartOne(s) \/ OneAnswers(s) \/ OneGoesOn(s) \/ OneRetries(s)
                             \/ OneFallsBack(s) \/ OthersCache(s)
      PROVE  BarsInv'
  BY <1>4, StartOneStep, OneAnswersStep, OneGoesOnStep, OneRetriesStep, OneFallsBackStep,
     OthersCacheStep
<1>5. QED
  BY <1>1, <1>2, <1>3, <1>4 DEF BarsNext

---------------------------------------------------------------------------
(* Lists that are put in order.                                            *)

\* `order` puts the items at the places S into the list `out`, those of the larger key first.
Arranges(order, out, items, S, key) ==
    LET n == Cardinality(S) IN
    /\ n \in Nat /\ order \in [1..n -> S] /\ out = [k \in 1..n |-> items[order[k]]]
    /\ \A i \in S : \E k \in 1..n : order[k] = i
    /\ \A j, k \in 1..n : order[j] = order[k] => j = k
    /\ \A j, k \in 1..n : j < k => key[order[j]] >= key[order[k]]

LEMMA OrderedAre ==
    ASSUME NEW items, NEW S \in SUBSET Nat, IsFiniteSet(S), NEW key, \A i \in S : key[i] \in Int
    PROVE  \E order : Arranges(order, Ordered(items, S, key), items, S, key)
<1> DEFINE before(i) == {j \in S : key[j] > key[i] \/ (key[j] = key[i] /\ j < i)}
           better == [i \in S |-> before(i)]
           place  == [i \in S |-> Cardinality(before(i)) + 1]
           R == {p \in S \X S : key[p[1]] > key[p[2]] \/ (key[p[1]] = key[p[2]] /\ p[1] < p[2])}
           n == Cardinality(S)
           order == [k \in 1..n |-> CHOOSE i \in S : Cardinality(before(i)) = k - 1]
<1>1. \A i, j \in S : <<i, j>> \in R <=> key[i] > key[j] \/ (key[i] = key[j] /\ i < j)
  OBVIOUS
<1>2. n \in Nat /\ \A i \in S : Cardinality(before(i)) \in Nat
  <2>1. \A i \in S : before(i) \in SUBSET S
    OBVIOUS
  <2> HIDE DEF before
  <2>2. QED
    BY <2>1, FS_Subset, FS_CardinalityType
<1>3. \A i, j \in S : j \in before(i) <=> <<j, i>> \in R
  BY <1>1
<1>4. \A i \in S : before(i) \in SUBSET S
  OBVIOUS
<1> HIDE DEF before, R
<1>5. Ranking(S, R, better, place)
  <2>1. /\ \A x \in S : <<x, x>> \notin R
        /\ \A x, y \in S : x # y => <<x, y>> \in R \/ <<y, x>> \in R
    BY <1>1
  <2>2. \A x, y, z \in S : <<x, y>> \in R /\ <<y, z>> \in R => <<x, z>> \in R
    BY <1>1
  <2>3. \A x \in S : better[x] \in SUBSET S
    BY <1>4
  <2>4. \A x, y \in S : y \in better[x] <=> <<y, x>> \in R
    BY <1>3
  <2>5. place \in [S -> Nat] /\ \A x \in S : place[x] = Cardinality(better[x]) + 1
    BY <1>2
  <2> HIDE DEF better, place
  <2>6. QED
    BY <2>1, <2>2, <2>3, <2>4, <2>5 DEF Ranking
<1>6. /\ \A x \in S : place[x] \in 1..n
      /\ \A y \in S : \A x \in better[y] : place[x] < place[y]
      /\ AllTaken(S, place)
      /\ \A x, y \in S : place[x] = place[y] => x = y
  <2> HIDE DEF better, place
  <2>1. QED
    BY <1>5, PlacesAreTaken
<1>7. \A k \in 1..n : order[k] \in S /\ place[order[k]] = k
  <2> SUFFICES ASSUME NEW k \in 1..n PROVE order[k] \in S /\ place[order[k]] = k
    OBVIOUS
  <2>1. \E i \in S : Cardinality(before(i)) = k - 1
    <3>1. PICK i \in S : place[i] = k
      BY <1>6 DEF AllTaken
    <3>2. QED
      BY <1>2, <3>1
  <2>2. QED
    BY <2>1, <1>2
<1>8. \A i \in S : \E k \in 1..n : order[k] = i
  <2> HIDE DEF place, order
  <2>1. QED
    BY <1>6, <1>7
<1>9. \A j, k \in 1..n : order[j] = order[k] => j = k
  <2> HIDE DEF place, order
  <2>1. QED
    BY <1>7
<1>10. \A j, k \in 1..n : j < k => key[order[j]] >= key[order[k]]
  <2>1. \A i, j \in S : place[i] < place[j] => key[i] >= key[j]
    <3> SUFFICES ASSUME NEW i \in S, NEW j \in S, key[i] < key[j], place[i] < place[j]
                 PROVE  FALSE
      OBVIOUS
    <3>1. j \in better[i]
      BY <1>1, <1>3
    <3>2. place[j] < place[i]
      <4> HIDE DEF better, place
      <4>1. QED
        BY <1>6, <3>1
    <3>3. QED
      BY <1>2, <3>2
  <2> HIDE DEF place, order
  <2>2. QED
    BY <1>7, <2>1
<1>11. Ordered(items, S, key) = [k \in 1..n |-> items[order[k]]]
  <2>1. Ordered(items, S, key) = [k \in 1..n |-> items[CHOOSE i \in S : Cardinality(before(i)) = k - 1]]
    BY DEF Ordered, before
  <2>2. QED
    BY <2>1
<1>12. order \in [1..n -> S]
  BY <1>7
<1> HIDE DEF order
<1>13. Arranges(order, Ordered(items, S, key), items, S, key)
  BY <1>2, <1>8, <1>9, <1>10, <1>11, <1>12 DEF Arranges
<1>14. QED
  BY <1>13

\* What is selected, in the order it had.
LEMMA PickedAre ==
    ASSUME NEW T, NEW items \in Seq(T), NEW S \in SUBSET (1..Len(items))
    PROVE  /\ Picked(items, S) \in Seq(T)
           /\ Range(Picked(items, S)) = {items[i] : i \in S}
           /\ \E order : Arranges(order, Picked(items, S), items, S, [i \in S |-> 0])
<1> DEFINE out == Picked(items, S)
           n == Cardinality(S)
<1>1. S \in SUBSET Nat /\ IsFiniteSet(S)
  <2>1. Len(items) \in Nat
    OBVIOUS
  <2>2. IsFiniteSet(1..Len(items))
    BY <2>1, FS_Interval
  <2>3. S \in SUBSET Nat
    BY <2>1
  <2>4. QED
    BY <2>2, <2>3, FS_Subset
<1>2. PICK order : Arranges(order, out, items, S, [i \in S |-> 0])
  <2>1. \A i \in S : [j \in S |-> 0][i] \in Int
    OBVIOUS
  <2>2. QED
    BY <1>1, <2>1, OrderedAre DEF Picked
<1> HIDE DEF out
<1>3. /\ n \in Nat /\ order \in [1..n -> S] /\ out = [k \in 1..n |-> items[order[k]]]
      /\ \A i \in S : \E k \in 1..n : order[k] = i
  BY <1>2 DEF Arranges
<1> HIDE DEF n
<1>4. \A k \in 1..n : out[k] = items[order[k]] /\ order[k] \in S /\ items[order[k]] \in T
  <2>1. \A i \in S : items[i] \in T
    OBVIOUS
  <2>2. QED
    BY <1>3, <2>1
<1>5. out \in Seq(T) /\ DOMAIN out = 1..n
  BY <1>3, <1>4
<1>6. Range(out) = {items[i] : i \in S}
  BY <1>3, <1>4, <1>5 DEF Range
<1>7. QED
  BY <1>2, <1>5, <1>6 DEF out

LEMMA SortedAre ==
    ASSUME NEW T, NEW items \in Seq(T), NEW key, \A i \in 1..Len(items) : key[i] \in Int
    PROVE  /\ Sorted(items, key) \in Seq(T)
           /\ Len(Sorted(items, key)) = Len(items)
           /\ \E order : Arranges(order, Sorted(items, key), items, 1..Len(items), key)
           /\ Cardinality(1..Len(items)) = Len(items)
<1> DEFINE S == 1..Len(items)
           n == Cardinality(S)
           out == Sorted(items, key)
<1>1. S \in SUBSET Nat /\ IsFiniteSet(S) /\ n = Len(items) /\ DOMAIN items = S /\ n \in Nat
  <2>1. Len(items) \in Nat
    OBVIOUS
  <2>2. QED
    BY <2>1, FS_Interval
<1>2. PICK order : Arranges(order, out, items, S, key)
  BY <1>1, OrderedAre DEF Sorted
<1> HIDE DEF out
<1>3. order \in [1..n -> S] /\ out = [k \in 1..n |-> items[order[k]]]
  BY <1>2 DEF Arranges
<1>4. \A k \in 1..n : items[order[k]] \in T
  BY <1>3
<1> HIDE DEF n
<1>5. out \in Seq(T) /\ Len(out) = n
  BY <1>1, <1>3, <1>4
<1>6. QED
  BY <1>1, <1>2, <1>5 DEF out, n

---------------------------------------------------------------------------
(* What providers say.                                                     *)

LEMMA FirstRowIs ==
    ASSUME NEW rows \in Seq(MoverRow), NEW name
    PROVE  /\ FirstRow(rows, name) = {} <=> \A i \in 1..Len(rows) : rows[i].name # name
           /\ \A q \in FirstRow(rows, name) : q \in MoverRow /\ q \in Range(rows) /\ q.name = name
           /\ \A p, q \in FirstRow(rows, name) : p = q
<1> DEFINE has   == {i \in 1..Len(rows) : rows[i].name = name}
           first == {i \in 1..Len(rows) : rows[i].name = name /\ \A j \in 1..Len(rows) : j < i => rows[j].name # name}
<1>1. DOMAIN rows = 1..Len(rows) /\ Len(rows) \in Nat /\ \A i \in 1..Len(rows) : rows[i] \in MoverRow
  OBVIOUS
<1>2. FirstRow(rows, name) = {rows[i] : i \in first}
  BY <1>1 DEF FirstRow
<1>3. \A i, j \in first : i = j
  BY <1>1
<1>4. has # {} => first # {}
  <2> SUFFICES ASSUME has # {} PROVE first # {}
    OBVIOUS
  <2>1. has \in SUBSET Nat
    BY <1>1
  <2> HIDE DEF has
  <2>2. PICK m \in has : \A i \in has : m <= i
    BY <2>1, MinIsLeast
  <2>3. m \in 1..Len(rows) /\ rows[m].name = name
    BY DEF has
  <2>4. \A j \in 1..Len(rows) : j < m => rows[j].name # name
    BY <2>2, <2>3, <1>1 DEF has
  <2>5. QED
    BY <2>3, <2>4
<1>5. first \subseteq has
  OBVIOUS
<1>6. FirstRow(rows, name) = {} <=> \A i \in 1..Len(rows) : rows[i].name # name
  BY <1>2, <1>4, <1>5
<1>7. \A q \in FirstRow(rows, name) : q \in MoverRow /\ q \in Range(rows) /\ q.name = name
  BY <1>1, <1>2 DEF Range
<1> HIDE DEF first
<1>8. \A p, q \in FirstRow(rows, name) : p = q
  BY <1>2, <1>3
<1>9. QED
  BY <1>6, <1>7, <1>8

\* A row each of different names
Distinct(rows) == \A i, j \in 1..Len(rows) : rows[i].name = rows[j].name => i = j

LEMMA UniteIs ==
    ASSUME NEW rows \in Seq(MoverRow), NEW more \in Seq(MoverRow), Distinct(rows)
    PROVE  /\ Unite(rows, more) \in Seq(MoverRow)
           /\ Distinct(Unite(rows, more))
           /\ Range(Unite(rows, more)) =
                 Range(rows) \cup {q \in MoverRow : FirstRow(rows, q.name) = {} /\ q \in FirstRow(more, q.name)}
<1> DEFINE S == {i \in 1..Len(more) : FirstRow(rows, more[i].name) = {}
                       /\ \A j \in 1..(i - 1) : more[j].name # more[i].name}
           picked == Picked(more, S)
           m == Len(rows)
           n == Cardinality(S)
           all == rows \o picked
<1>1. /\ DOMAIN more = 1..Len(more) /\ Len(more) \in Nat /\ m \in Nat
      /\ \A i \in 1..Len(more) : more[i] \in MoverRow
  OBVIOUS
<1>2. Unite(rows, more) = all
  BY <1>1 DEF Unite
<1>3. S \in SUBSET (1..Len(more))
  OBVIOUS
<1>4. /\ picked \in Seq(MoverRow) /\ Range(picked) = {more[i] : i \in S}
      /\ \E order : Arranges(order, picked, more, S, [i \in S |-> 0])
  <2> HIDE DEF S
  <2>1. QED
    BY <1>3, PickedAre
<1>5. PICK order : Arranges(order, picked, more, S, [i \in S |-> 0])
  BY <1>4
<1>6. \A i, j \in S : more[i].name = more[j].name => i = j
  <2> SUFFICES ASSUME NEW i \in S, NEW j \in S, more[i].name = more[j].name, i < j PROVE FALSE
    BY <1>1
  <2>1. i \in 1..(j - 1)
    BY <1>1
  <2>2. QED
    BY <2>1
<1>7. \A i \in S : \A k \in 1..m : rows[k].name # more[i].name
  <2> SUFFICES ASSUME NEW i \in S, NEW k \in 1..m PROVE rows[k].name # more[i].name
    OBVIOUS
  <2>1. FirstRow(rows, more[i].name) = {}
    OBVIOUS
  <2>2. QED
    BY <2>1, FirstRowIs
<1>8. \A q : q \in {more[i] : i \in S} <=>
             q \in MoverRow /\ FirstRow(rows, q.name) = {} /\ q \in FirstRow(more, q.name)
  <2> SUFFICES ASSUME NEW q
               PROVE  q \in {more[i] : i \in S} <=>
                         q \in MoverRow /\ FirstRow(rows, q.name) = {} /\ q \in FirstRow(more, q.name)
    OBVIOUS
  <2>1. FirstRow(more, q.name) =
           {more[i] : i \in {i \in 1..Len(more) : more[i].name = q.name
                                  /\ \A j \in 1..Len(more) : j < i => more[j].name # q.name}}
    BY <1>1 DEF FirstRow
  <2>2. \A i \in 1..Len(more) : \A j : j \in 1..(i - 1) <=> j \in 1..Len(more) /\ j < i
    BY <1>1
  <2>3. ASSUME q \in {more[i] : i \in S}
        PROVE  q \in MoverRow /\ FirstRow(rows, q.name) = {} /\ q \in FirstRow(more, q.name)
    <3>1. PICK i \in S : q = more[i]
      BY <2>3
    <3>2. i \in 1..Len(more) /\ q.name = more[i].name
      BY <3>1
    <3>3. \A j \in 1..Len(more) : j < i => more[j].name # q.name
      BY <2>2, <3>1, <3>2
    <3>4. q \in FirstRow(more, q.name)
      BY <2>1, <3>1, <3>2, <3>3
    <3>5. QED
      BY <1>1, <3>1, <3>2, <3>4
  <2>4. ASSUME q \in MoverRow, FirstRow(rows, q.name) = {}, q \in FirstRow(more, q.name)
        PROVE  q \in {more[i] : i \in S}
    <3>1. PICK i \in 1..Len(more) : /\ q = more[i] /\ more[i].name = q.name
                                    /\ \A j \in 1..Len(more) : j < i => more[j].name # q.name
      BY <2>1, <2>4
    <3>2. FirstRow(rows, more[i].name) = {} /\ \A j \in 1..(i - 1) : more[j].name # more[i].name
      BY <2>2, <2>4, <3>1
    <3>3. i \in S
      BY <3>2
    <3>4. QED
      BY <3>1, <3>3
  <2>5. QED
    BY <2>3, <2>4
<1> HIDE DEF S, picked
<1>9. /\ n \in Nat /\ picked = [k \in 1..n |-> more[order[k]]] /\ order \in [1..n -> S]
      /\ \A j, k \in 1..n : order[j] = order[k] => j = k
  BY <1>5 DEF Arranges
<1> HIDE DEF n
<1>10. Len(picked) = n /\ \A k \in 1..n : picked[k] = more[order[k]] /\ order[k] \in S
  BY <1>9, <1>4
<1>11. /\ all \in Seq(MoverRow) /\ Len(all) = m + n
       /\ \A k \in 1..m : all[k] = rows[k]
       /\ \A k \in 1..(m + n) : k > m => all[k] = picked[k - m] /\ k - m \in 1..n
  BY <1>1, <1>4, <1>9, <1>10
<1>12. Distinct(all)
  <2> SUFFICES ASSUME NEW i \in 1..(m + n), NEW j \in 1..(m + n), all[i].name = all[j].name
               PROVE  i = j
    BY <1>11 DEF Distinct
  <2>1. CASE i <= m /\ j <= m
    <3>1. all[i] = rows[i] /\ all[j] = rows[j] /\ i \in 1..m /\ j \in 1..m
      BY <1>1, <1>9, <1>11, <2>1
    <3>2. QED
      BY <3>1 DEF Distinct
  <2>2. CASE i <= m /\ j > m
    <3>1. all[i] = rows[i] /\ i \in 1..m /\ all[j] = more[order[j - m]] /\ order[j - m] \in S
      BY <1>1, <1>9, <1>10, <1>11, <2>2
    <3>2. QED
      BY <1>7, <3>1
  <2>3. CASE i > m /\ j <= m
    <3>1. all[j] = rows[j] /\ j \in 1..m /\ all[i] = more[order[i - m]] /\ order[i - m] \in S
      BY <1>1, <1>9, <1>10, <1>11, <2>3
    <3>2. QED
      BY <1>7, <3>1
  <2>4. CASE i > m /\ j > m
    <3>1. /\ all[i] = more[order[i - m]] /\ order[i - m] \in S /\ i - m \in 1..n
          /\ all[j] = more[order[j - m]] /\ order[j - m] \in S /\ j - m \in 1..n
      BY <1>1, <1>9, <1>10, <1>11, <2>4
    <3>2. order[i - m] = order[j - m]
      BY <1>6, <3>1
    <3>3. i - m = j - m
      BY <1>9, <3>1, <3>2
    <3>4. QED
      BY <1>1, <1>9, <3>3
  <2>5. QED
    BY <1>1, <1>9, <2>1, <2>2, <2>3, <2>4
<1>13. Range(all) = Range(rows) \cup Range(picked)
  <2>1. DOMAIN all = 1..(m + n) /\ DOMAIN rows = 1..m /\ DOMAIN picked = 1..n
    BY <1>1, <1>4, <1>9, <1>10, <1>11
  <2>2. \A k \in 1..m : k \in 1..(m + n)
    BY <1>1, <1>9
  <2>3. \A k \in 1..n : m + k \in 1..(m + n) /\ m + k > m /\ (m + k) - m = k
    BY <1>1, <1>9
  <2>4. \A k \in 1..n : all[m + k] = picked[k]
    BY <1>11, <2>3
  <2>5. \A k \in 1..(m + n) : k <= m => k \in 1..m
    BY <1>1, <1>9
  <2>6. \A k \in 1..(m + n) : k <= m \/ k > m
    BY <1>1, <1>9
  <2> HIDE DEF all, m
  <2>7. QED
    BY <2>1, <2>2, <2>3, <2>4, <2>5, <2>6, <1>11 DEF Range
<1>14. QED
  BY <1>2, <1>4, <1>8, <1>11, <1>12, <1>13

LEMMA UniteTypes ==
    ASSUME NEW rows \in Seq(MoverRow), NEW more \in Seq(MoverRow)
    PROVE  Unite(rows, more) \in Seq(MoverRow)
<1> DEFINE S == {i \in DOMAIN more : FirstRow(rows, more[i].name) = {}
                       /\ \A j \in 1..(i - 1) : more[j].name # more[i].name}
<1>1. S \in SUBSET (1..Len(more))
  OBVIOUS
<1>2. Unite(rows, more) = rows \o Picked(more, S)
  BY DEF Unite
<1> HIDE DEF S
<1>3. Picked(more, S) \in Seq(MoverRow)
  BY <1>1, PickedAre
<1>4. QED
  BY <1>2, <1>3

LEMMA DiscoveryNumbers ==
    /\ Suspect \in Nat /\ Agreement \in Nat /\ MinChange \in Nat /\ MinPrice \in Nat /\ MaxPrice \in Nat
    /\ IncludeShort \in BOOLEAN /\ ExcludeHalted \in BOOLEAN
    /\ PremarketMinChange \in Nat /\ PremarketMinPrice \in Nat /\ PremarketLimit \in Nat
    /\ Limit \in Nat /\ EnrichMax \in Nat /\ MaxWithheld \in Nat /\ MaxRuns \in Nat
    /\ Recomputed \ {Unknown} \subseteq Int /\ Scores \subseteq 0..1000
    /\ Modes \subseteq {"merge", "first_wins"} /\ Kinds \subseteq {"regular", "premarket"}
    /\ Unreadable \notin MoverRow /\ NoAnswer \notin Seq(MoverRow)
    /\ Broken \notin Seq(MoverRow \cup {Unreadable})
  BY DiscoveryAssumption DEF DiscoveryAssumption

LEMMA DiscoveryLists ==
    /\ Sources \in Seq(STRING) /\ IsInjective(Sources)
    /\ Chain \in Seq(STRING) /\ PremarketChain \in Seq(STRING)
    /\ \A p \in Range(Chain) \cup Range(PremarketChain) : \A payload \in Payloads[p] :
          payload = Broken \/ payload \in Seq(MoverRow \cup {Unreadable})
  BY DiscoveryAssumption DEF DiscoveryAssumption

\* What a provider may send
Sendable == Seq(MoverRow \cup {Unreadable}) \cup {Broken}

\* It sends rows that can be read, or none at all.
Speaks(sent) == sent # Broken /\ (sent = <<>> \/ \E r \in Range(sent) : r # Unreadable)

LEMMA ReadableIs ==
    ASSUME NEW payload \in Seq(MoverRow \cup {Unreadable})
    PROVE  /\ Readable(payload) \in Seq(MoverRow)
           /\ Readable(payload) = <<>> <=> \A r \in Range(payload) : r = Unreadable
<1> DEFINE T == MoverRow \cup {Unreadable}
           S == {i \in 1..Len(payload) : payload[i] # Unreadable}
           out == Readable(payload)
<1>1. DOMAIN payload = 1..Len(payload) /\ \A i \in 1..Len(payload) : payload[i] \in T
  OBVIOUS
<1>2. out = Picked(payload, S)
  BY <1>1 DEF Readable
<1>3. out \in Seq(T) /\ Range(out) = {payload[i] : i \in S}
  <2> HIDE DEF out
  <2>1. S \in SUBSET (1..Len(payload))
    OBVIOUS
  <2> HIDE DEF S, T
  <2>2. payload \in Seq(T)
    BY DEF T
  <2>3. QED
    BY <1>2, <2>1, <2>2, PickedAre
<1> HIDE DEF out
<1>4. \A i \in S : payload[i] \in MoverRow
  BY <1>1
<1>5. \A k \in 1..Len(out) : out[k] \in MoverRow
  <2>1. \A k \in 1..Len(out) : out[k] \in Range(out)
    BY <1>3 DEF Range
  <2> HIDE DEF S
  <2>2. QED
    BY <2>1, <1>3, <1>4
<1>6. out \in Seq(MoverRow)
  BY <1>3, <1>5
<1>7. out = <<>> <=> Range(out) = {}
  <2>1. /\ out = <<>> <=> Len(out) = 0
        /\ DOMAIN out = 1..Len(out) /\ Len(out) \in Nat
    BY <1>6, EmptySeq
  <2>2. /\ Len(out) # 0 => 1 \in 1..Len(out)
        /\ Len(out) = 0 => \A i \in 1..Len(out) : FALSE
    BY <2>1
  <2>3. QED
    BY <2>1, <2>2 DEF Range
<1>8. QED
  BY <1>1, <1>3, <1>6, <1>7 DEF out, Range

LEMMA NormalisedIs ==
    ASSUME NEW payload \in Sendable
    PROVE  /\ Normalised(payload) \in Seq(MoverRow) \cup {NoAnswer}
           /\ Normalised(payload) # NoAnswer <=> Speaks(payload)
           /\ \A p : PremarketRows(p, payload) \in Seq(MoverRow) \cup {NoAnswer}
<1>1. CASE payload = Broken
  BY <1>1 DEF Normalised, Speaks, PremarketRows
<1>2. CASE payload # Broken
  <2>1. payload \in Seq(MoverRow \cup {Unreadable})
    BY <1>2 DEF Sendable
  <2>2. Readable(payload) \in Seq(MoverRow) /\ (Readable(payload) = <<>> <=> \A r \in Range(payload) : r = Unreadable)
    BY <2>1, ReadableIs
  <2>3. Readable(payload) # NoAnswer
    BY <2>2, DiscoveryNumbers
  <2>4. QED
    BY <1>2, <2>2, <2>3 DEF Normalised, Speaks, PremarketRows
<1>3. QED
  BY <1>1, <1>2

---------------------------------------------------------------------------
(* What has been heard.                                                    *)

SourceNames == Range(Sources) \cup {"premarket"}
Hearing == [source : SourceNames, sent : Sendable, rows : Seq(MoverRow) \cup {NoAnswer}]

\* Quote, of what has been heard
QuoteIn(heard, src, name) ==
    UNION {FirstRow(heard[k].rows, name) :
           k \in {k \in DOMAIN heard : /\ Lists(heard[k], src, name)
                                       /\ \A l \in 1..(k - 1) : ~Lists(heard[l], src, name)}}

LEMMA QuoteIs == \A t, src, name : Quote(t, src, name) = QuoteIn(run[t].heard, src, name)
  BY DEF Quote, QuoteIn

LEMMA ListsIs ==
    ASSUME NEW h \in Hearing, NEW src, NEW name
    PROVE  /\ Lists(h, src, name) <=> h.source = src /\ h.rows # NoAnswer /\ FirstRow(h.rows, name) # {}
           /\ Lists(h, src, name) => h.rows \in Seq(MoverRow)
  BY DEF Lists, Hearing

\* A quote is one row, of the name.
LEMMA QuoteIsOne ==
    ASSUME NEW heard \in Seq(Hearing), NEW src, NEW name
    PROVE  /\ \A q \in QuoteIn(heard, src, name) : q \in MoverRow /\ q.name = name
           /\ \A p, q \in QuoteIn(heard, src, name) : p = q
           /\ QuoteIn(heard, src, name) # {} =>
                 \E k \in 1..Len(heard) : Lists(heard[k], src, name)
<1> DEFINE first == {k \in 1..Len(heard) : /\ Lists(heard[k], src, name)
                                           /\ \A l \in 1..(k - 1) : ~Lists(heard[l], src, name)}
<1>1. Len(heard) \in Nat /\ DOMAIN heard = 1..Len(heard) /\ \A k \in 1..Len(heard) : heard[k] \in Hearing
  OBVIOUS
<1>2. QuoteIn(heard, src, name) = UNION {FirstRow(heard[k].rows, name) : k \in first}
  BY <1>1 DEF QuoteIn
<1>3. \A j, k \in first : j = k
  <2> SUFFICES ASSUME NEW j \in first, NEW k \in first, j < k PROVE FALSE
    BY <1>1
  <2>1. j \in 1..(k - 1)
    BY <1>1
  <2>2. QED
    BY <2>1
<1>4. \A k \in first : k \in 1..Len(heard) /\ Lists(heard[k], src, name) /\ heard[k].rows \in Seq(MoverRow)
  BY <1>1, ListsIs
<1> HIDE DEF first
<1>5. \A q \in QuoteIn(heard, src, name) : q \in MoverRow /\ q.name = name
  <2> SUFFICES ASSUME NEW q \in QuoteIn(heard, src, name) PROVE q \in MoverRow /\ q.name = name
    OBVIOUS
  <2>1. PICK k \in first : q \in FirstRow(heard[k].rows, name)
    BY <1>2
  <2>2. QED
    BY <1>4, <2>1, FirstRowIs
<1>6. \A p, q \in QuoteIn(heard, src, name) : p = q
  <2> SUFFICES ASSUME NEW p \in QuoteIn(heard, src, name), NEW q \in QuoteIn(heard, src, name)
               PROVE  p = q
    OBVIOUS
  <2>1. PICK j \in first : p \in FirstRow(heard[j].rows, name)
    BY <1>2
  <2>2. PICK k \in first : q \in FirstRow(heard[k].rows, name)
    BY <1>2
  <2>3. j = k
    BY <1>3
  <2>4. QED
    BY <1>4, <2>1, <2>2, <2>3, FirstRowIs
<1>7. QuoteIn(heard, src, name) # {} => \E k \in 1..Len(heard) : Lists(heard[k], src, name)
  BY <1>2, <1>4
<1>8. QED
  BY <1>5, <1>6, <1>7

\* Whoever lists a name first is quoted.
LEMMA ListedIsQuoted ==
    ASSUME NEW heard \in Seq(Hearing), NEW src, NEW name, NEW k \in 1..Len(heard),
           Lists(heard[k], src, name)
    PROVE  QuoteIn(heard, src, name) # {}
<1> DEFINE has == {l \in 1..Len(heard) : Lists(heard[l], src, name)}
<1>1. has \in SUBSET Nat /\ k \in has
  OBVIOUS
<1>2. PICK m \in has : \A l \in has : m <= l
  <2> HIDE DEF has
  <2>1. QED
    BY <1>1, MinIsLeast
<1>3. m \in 1..Len(heard) /\ Lists(heard[m], src, name)
  OBVIOUS
<1>4. \A l \in 1..(m - 1) : ~Lists(heard[l], src, name)
  <2> SUFFICES ASSUME NEW l \in 1..(m - 1), Lists(heard[l], src, name) PROVE FALSE
    OBVIOUS
  <2>1. l \in has /\ l < m /\ l \in Nat /\ m \in Nat
    OBVIOUS
  <2>2. m <= l
    BY <1>2, <2>1
  <2>3. QED
    BY <2>1, <2>2
<1>5. m \in DOMAIN heard /\ FirstRow(heard[m].rows, name) # {}
  BY <1>3 DEF Lists
<1>6. m \in {l \in DOMAIN heard : Lists(heard[l], src, name) /\ \A i \in 1..(l - 1) : ~Lists(heard[i], src, name)}
  BY <1>3, <1>4, <1>5
<1>7. \E q : q \in FirstRow(heard[m].rows, name)
  BY <1>5
<1>8. QED
  BY <1>6, <1>7 DEF QuoteIn

\* One more answer: what was quoted is still, and else the new answer is.
LEMMA QuoteAppend ==
    ASSUME NEW heard \in Seq(Hearing), NEW h \in Hearing, NEW src, NEW name
    PROVE  QuoteIn(Append(heard, h), src, name) =
              IF QuoteIn(heard, src, name) # {} THEN QuoteIn(heard, src, name)
              ELSE IF Lists(h, src, name) THEN FirstRow(h.rows, name) ELSE {}
<1> DEFINE n == Len(heard)
           more == Append(heard, h)
           first(H) == {k \in DOMAIN H : Lists(H[k], src, name) /\ \A l \in 1..(k - 1) : ~Lists(H[l], src, name)}
<1>1. /\ n \in Nat /\ DOMAIN heard = 1..n /\ DOMAIN more = 1..(n + 1)
      /\ \A k \in 1..n : more[k] = heard[k]
      /\ more[n + 1] = h
  OBVIOUS
<1>2. /\ QuoteIn(heard, src, name) = UNION {FirstRow(heard[k].rows, name) : k \in first(heard)}
      /\ QuoteIn(more, src, name) = UNION {FirstRow(more[k].rows, name) : k \in first(more)}
  BY DEF QuoteIn
<1> HIDE DEF more
<1>3. \A k \in 1..n : \A l \in 1..(k - 1) : l \in 1..n /\ more[l] = heard[l]
  BY <1>1
<1>4. \A k \in 1..n : k \in first(more) <=> k \in first(heard)
  BY <1>1, <1>3
<1>5. n + 1 \in first(more) <=> Lists(h, src, name) /\ \A l \in 1..n : ~Lists(heard[l], src, name)
  <2>1. (n + 1) - 1 = n /\ n + 1 \in 1..(n + 1)
    BY <1>1
  <2>2. QED
    BY <2>1, <1>1
<1>6. \A k \in first(more) : k \in 1..n \/ k = n + 1
  BY <1>1
<1>7. \A k \in first(heard) : k \in 1..n /\ k \in first(more)
  BY <1>1, <1>4
<1> HIDE DEF first
<1>8. CASE QuoteIn(heard, src, name) # {}
  <2>1. PICK k \in 1..n : Lists(heard[k], src, name)
    BY <1>8, QuoteIsOne
  <2>2. first(more) = first(heard)
    BY <2>1, <1>4, <1>5, <1>6, <1>7
  <2>3. \A i \in first(heard) : more[i] = heard[i]
    BY <1>1, <1>7
  <2>4. QuoteIn(more, src, name) = QuoteIn(heard, src, name)
    BY <2>2, <2>3, <1>2
  <2>5. QED
    BY <2>4, <1>8 DEF more
<1>9. CASE QuoteIn(heard, src, name) = {}
  <2>1. \A k \in 1..n : ~Lists(heard[k], src, name)
    BY <1>9, ListedIsQuoted
  <2>2. first(heard) = {}
    BY <1>1, <1>7, <2>1 DEF first
  <2>3. first(more) = IF Lists(h, src, name) THEN {n + 1} ELSE {}
    BY <2>1, <2>2, <1>4, <1>5, <1>6
  <2>4. QuoteIn(more, src, name) = IF Lists(h, src, name) THEN FirstRow(h.rows, name) ELSE {}
    BY <2>3, <1>1, <1>2
  <2>5. QED
    BY <2>4, <1>9 DEF more
<1>10. QED
  BY <1>8, <1>9

---------------------------------------------------------------------------
(* Candidates.                                                             *)

LEMMA AbsIsNat == \A n \in Int : Abs(n) \in Nat
  BY DEF Abs

Groups == {S \in SUBSET SourceNames : IsFiniteSet(S) /\ S # {}}

Cand == [name : Nat, price : Nat, change : Int, dir : {"long", "short"}, sources : Groups,
         feed : Int, verified : BOOLEAN, score : 0..1000, enriched : BOOLEAN, halted : BOOLEAN]

LEMMA CandTypes ==
    \A c \in Cand :
        /\ c.name \in Nat /\ c.price \in Nat /\ c.change \in Int /\ c.dir \in {"long", "short"}
        /\ c.sources \in Groups /\ c.feed \in Int /\ c.verified \in BOOLEAN /\ c.score \in 0..1000
  BY DEF Cand

LEMMA GroupGrows ==
    ASSUME NEW S \in Groups, NEW s \in SourceNames
    PROVE  S \cup {s} \in Groups /\ {s} \in Groups
<1>1. IsFiniteSet(S) /\ S \in SUBSET SourceNames
  BY DEF Groups
<1>2. IsFiniteSet(S \cup {s}) /\ IsFiniteSet({s})
  BY <1>1, FS_AddElement, FS_Singleton
<1>3. QED
  BY <1>1, <1>2 DEF Groups

\* The move is still the feed's.
Own(c) == c.change = c.feed /\ ~c.verified

LEMMA CandidateIs ==
    ASSUME NEW row \in MoverRow, NEW src \in SourceNames
    PROVE  LET c == Candidate(row, src) IN
           /\ c \in Cand /\ Own(c) /\ c.name = row.name /\ c.price = row.price /\ c.feed = row.change
           /\ c.sources = {src} /\ c.change = row.change
<1> DEFINE c == Candidate(row, src)
<1>1. row.name \in Nat /\ row.price \in Nat /\ row.change \in Int
  BY DEF MoverRow
<1>2. Direction(src, row.change) \in {"long", "short"}
  BY DEF Direction
<1>3. {src} \in Groups
  BY FS_Singleton DEF Groups
<1>4. c \in Cand
  BY <1>1, <1>2, <1>3 DEF Candidate, Cand
<1>5. QED
  BY <1>4 DEF Candidate, Own

LEMMA MergedIs ==
    ASSUME NEW c \in Cand, Own(c), NEW row \in MoverRow, row.name = c.name, NEW src \in SourceNames
    PROVE  LET d == Merged(c, row, src) IN
           /\ d \in Cand /\ Own(d) /\ d.name = c.name /\ d.sources = c.sources \cup {src}
           /\ IF Abs(row.change) > Abs(c.feed)
              THEN d.price = row.price /\ d.feed = row.change
              ELSE d.price = c.price /\ d.feed = c.feed
<1> DEFINE b == Candidate(row, src)
           seen == [c EXCEPT !.sources = c.sources \cup {src}]
           wins == [b EXCEPT !.sources = seen.sources]
<1>1. c.sources \cup {src} \in Groups
  BY GroupGrows, CandTypes
<1>2. b \in Cand /\ Own(b) /\ b.name = row.name /\ b.price = row.price /\ b.feed = row.change
  BY CandidateIs
<1>3. /\ seen \in Cand /\ Own(seen) /\ seen.name = c.name /\ seen.price = c.price
      /\ seen.feed = c.feed /\ seen.sources = c.sources \cup {src}
  BY <1>1 DEF Cand, Own
<1> HIDE DEF b, seen
<1>4. /\ wins \in Cand /\ Own(wins) /\ wins.name = b.name /\ wins.price = b.price
      /\ wins.feed = b.feed /\ wins.sources = seen.sources
  BY <1>1, <1>2, <1>3 DEF Cand, Own
<1> HIDE DEF wins
<1>5. Merged(c, row, src) = IF Abs(row.change) > Abs(c.feed) THEN wins ELSE seen
  BY DEF Merged, wins, seen, b, Own
<1>6. QED
  BY <1>2, <1>3, <1>4, <1>5

---------------------------------------------------------------------------
(* The rows of the sources, merged.  G is a set of rows, each with the     *)
(* source it is of.                                                        *)

Tidings == SourceNames \X MoverRow

\* A candidate is one of the rows of its name, and its move is the largest of them.
Fits(c, G) ==
    /\ \E x \in G : x[2].name = c.name /\ x[2].price = c.price /\ x[2].change = c.feed
    /\ \A x \in G : x[2].name = c.name => Abs(x[2].change) <= Abs(c.feed)
    /\ c.sources = {x[1] : x \in {y \in G : y[2].name = c.name}}

Fit(cands, G) ==
    /\ \A i \in 1..Len(cands) : Fits(cands[i], G)
    /\ \A x \in G : \E i \in 1..Len(cands) : cands[i].name = x[2].name

Fresh(cands) == Distinct(cands) /\ \A i \in 1..Len(cands) : Own(cands[i])

LEMMA FitsMore ==
    ASSUME NEW G \in SUBSET Tidings, NEW c \in Cand, NEW row \in MoverRow, NEW src \in SourceNames
    PROVE  /\ row.name # c.name /\ Fits(c, G) => Fits(c, G \cup {<<src, row>>})
           /\ row.name = c.name /\ Own(c) /\ Fits(c, G) => Fits(Merged(c, row, src), G \cup {<<src, row>>})
           /\ (\A x \in G : x[2].name # row.name) => Fits(Candidate(row, src), G \cup {<<src, row>>})
<1> DEFINE z == <<src, row>>
           H == G \cup {z}
           Of(K, name) == {x[1] : x \in {y \in K : y[2].name = name}}
<1>1. z[1] = src /\ z[2] = row /\ z \in H /\ \A x \in H : x \in G \/ x = z
  OBVIOUS
<1>2. /\ \A x \in H : x[2].change \in Int /\ Abs(x[2].change) \in Nat
      /\ Abs(c.feed) \in Nat
  <2>1. \A x \in H : x[2] \in MoverRow
    BY DEF Tidings
  <2>2. \A x \in H : x[2].change \in Int
    BY <2>1 DEF MoverRow
  <2>3. QED
    BY <2>2, AbsIsNat, CandTypes
<1>3. \A name : Of(H, name) = IF row.name = name THEN Of(G, name) \cup {src} ELSE Of(G, name)
  <2> SUFFICES ASSUME NEW name
               PROVE  Of(H, name) = IF row.name = name THEN Of(G, name) \cup {src} ELSE Of(G, name)
    OBVIOUS
  <2>1. {y \in H : y[2].name = name} =
           IF row.name = name THEN {y \in G : y[2].name = name} \cup {z} ELSE {y \in G : y[2].name = name}
    BY <1>1
  <2>2. QED
    BY <2>1, <1>1
<1>4. \A d : Fits(d, G) <=> /\ \E x \in G : x[2].name = d.name /\ x[2].price = d.price /\ x[2].change = d.feed
                            /\ \A x \in G : x[2].name = d.name => Abs(x[2].change) <= Abs(d.feed)
                            /\ d.sources = Of(G, d.name)
  BY DEF Fits
<1>5. \A d : Fits(d, H) <=> /\ \E x \in H : x[2].name = d.name /\ x[2].price = d.price /\ x[2].change = d.feed
                            /\ \A x \in H : x[2].name = d.name => Abs(x[2].change) <= Abs(d.feed)
                            /\ d.sources = Of(H, d.name)
  BY DEF Fits
<1> HIDE DEF Of, H, z
<1>6. G \subseteq H
  BY DEF H
<1>7. row.name # c.name /\ Fits(c, G) => Fits(c, H)
  BY <1>1, <1>3, <1>4, <1>5, <1>6
<1>8. ASSUME row.name = c.name, Own(c), Fits(c, G) PROVE Fits(Merged(c, row, src), H)
  <2> DEFINE d == Merged(c, row, src)
  <2>1. /\ d.name = c.name /\ d.sources = c.sources \cup {src}
        /\ IF Abs(row.change) > Abs(c.feed)
           THEN d.price = row.price /\ d.feed = row.change
           ELSE d.price = c.price /\ d.feed = c.feed
    BY <1>8, MergedIs
  <2> HIDE DEF d
  <2>2. \E x \in H : x[2].name = d.name /\ x[2].price = d.price /\ x[2].change = d.feed
    <3>1. CASE Abs(row.change) > Abs(c.feed)
      BY <2>1, <3>1, <1>1, <1>8
    <3>2. CASE ~(Abs(row.change) > Abs(c.feed))
      BY <2>1, <3>2, <1>4, <1>6, <1>8
    <3>3. QED
      BY <3>1, <3>2
  <2>3. \A x \in H : x[2].name = d.name => Abs(x[2].change) <= Abs(d.feed)
    <3> SUFFICES ASSUME NEW x \in H, x[2].name = d.name PROVE Abs(x[2].change) <= Abs(d.feed)
      OBVIOUS
    <3>1. x \in G => Abs(x[2].change) <= Abs(c.feed)
      BY <2>1, <1>4, <1>8
    <3>2. Abs(z[2].change) \in Nat /\ z[2] = row /\ Abs(x[2].change) \in Nat
      BY <1>1, <1>2
    <3>3. x \in G \/ x[2] = row
      BY <1>1
    <3>4. QED
      BY <2>1, <3>1, <3>2, <3>3, <1>2
  <2>4. d.sources = Of(H, d.name)
    BY <2>1, <1>3, <1>4, <1>8
  <2>5. QED
    BY <2>2, <2>3, <2>4, <1>5 DEF d
<1>9. ASSUME \A x \in G : x[2].name # row.name PROVE Fits(Candidate(row, src), H)
  <2> DEFINE d == Candidate(row, src)
  <2>1. d.name = row.name /\ d.price = row.price /\ d.feed = row.change /\ d.sources = {src}
    BY CandidateIs
  <2> HIDE DEF d
  <2>2. \E x \in H : x[2].name = d.name /\ x[2].price = d.price /\ x[2].change = d.feed
    BY <2>1, <1>1
  <2>3. \A x \in H : x[2].name = d.name => Abs(x[2].change) <= Abs(d.feed)
    BY <2>1, <1>1, <1>2, <1>9
  <2>4. Of(G, row.name) = {}
    BY <1>9 DEF Of
  <2>5. d.sources = Of(H, d.name)
    BY <2>1, <2>4, <1>3
  <2>6. QED
    BY <2>2, <2>3, <2>5, <1>5 DEF d
<1>10. QED
  BY <1>7, <1>8, <1>9 DEF H, z

LEMMA AddRowIs ==
    ASSUME NEW cands \in Seq(Cand), Fresh(cands), NEW row \in MoverRow, NEW src \in SourceNames
    PROVE  /\ AddRow(src, cands, row) \in Seq(Cand)
           /\ Fresh(AddRow(src, cands, row))
           /\ \A G \in SUBSET Tidings :
                 Fit(cands, G) => Fit(AddRow(src, cands, row), G \cup {<<src, row>>})
<1> DEFINE n == Len(cands)
           out == AddRow(src, cands, row)
<1>1. /\ n \in Nat /\ DOMAIN cands = 1..n /\ \A i \in 1..n : cands[i] \in Cand /\ Own(cands[i])
      /\ \A i, j \in 1..n : cands[i].name = cands[j].name => i = j
  BY DEF Fresh, Distinct
<1>2. (\E c \in Range(cands) : c.name = row.name) <=> \E i \in 1..n : cands[i].name = row.name
  BY <1>1 DEF Range
<1>3. CASE \E i \in 1..n : cands[i].name = row.name
  <2>1. out = [i \in 1..n |-> IF cands[i].name = row.name THEN Merged(cands[i], row, src) ELSE cands[i]]
    BY <1>1, <1>2, <1>3 DEF AddRow
  <2> HIDE DEF out
  <2>2. \A i \in 1..n : out[i] \in Cand /\ Own(out[i]) /\ out[i].name = cands[i].name
    <3> SUFFICES ASSUME NEW i \in 1..n
                 PROVE  out[i] \in Cand /\ Own(out[i]) /\ out[i].name = cands[i].name
      OBVIOUS
    <3>1. CASE cands[i].name = row.name
      <4>1. cands[i] \in Cand /\ Own(cands[i]) /\ out[i] = Merged(cands[i], row, src)
        BY <1>1, <2>1, <3>1
      <4>2. QED
        BY <3>1, <4>1, MergedIs
    <3>2. CASE cands[i].name # row.name
      BY <1>1, <2>1, <3>2
    <3>3. QED
      BY <3>1, <3>2
  <2>3. out \in Seq(Cand) /\ Len(out) = n
    BY <1>1, <2>1, <2>2
  <2>4. Fresh(out)
    <3>1. \A i, j \in 1..n : out[i].name = out[j].name => i = j
      BY <1>1, <2>2
    <3>2. QED
      BY <2>2, <2>3, <3>1 DEF Fresh, Distinct
  <2>5. ASSUME NEW G \in SUBSET Tidings, Fit(cands, G) PROVE Fit(out, G \cup {<<src, row>>})
    <3>1. /\ \A i \in 1..n : Fits(cands[i], G)
          /\ \A x \in G : \E i \in 1..n : cands[i].name = x[2].name
      BY <2>5 DEF Fit
    <3>2. \A i \in 1..n : Fits(out[i], G \cup {<<src, row>>})
      <4> SUFFICES ASSUME NEW i \in 1..n PROVE Fits(out[i], G \cup {<<src, row>>})
        OBVIOUS
      <4>1. cands[i] \in Cand /\ Own(cands[i]) /\ Fits(cands[i], G)
        BY <1>1, <3>1
      <4>2. out[i] = IF cands[i].name = row.name THEN Merged(cands[i], row, src) ELSE cands[i]
        BY <2>1
      <4>3. QED
        BY <4>1, <4>2, FitsMore
    <3>3. \A x \in G \cup {<<src, row>>} : \E i \in 1..n : out[i].name = x[2].name
      <4> SUFFICES ASSUME NEW x \in G \cup {<<src, row>>}
                   PROVE  \E i \in 1..n : out[i].name = x[2].name
        OBVIOUS
      <4>1. CASE x \in G
        BY <2>2, <3>1, <4>1
      <4>2. CASE x = <<src, row>>
        BY <1>3, <2>2, <4>2
      <4>3. QED
        BY <4>1, <4>2
    <3>4. QED
      BY <2>3, <3>2, <3>3 DEF Fit
  <2>6. QED
    BY <2>3, <2>4, <2>5 DEF out
<1>4. CASE ~ \E i \in 1..n : cands[i].name = row.name
  <2> DEFINE d == Candidate(row, src)
  <2>1. out = Append(cands, d)
    BY <1>2, <1>4 DEF AddRow
  <2>2. d \in Cand /\ Own(d) /\ d.name = row.name
    BY CandidateIs
  <2> HIDE DEF out, d
  <2>3. /\ out \in Seq(Cand) /\ Len(out) = n + 1
        /\ \A i \in 1..n : out[i] = cands[i]
        /\ out[n + 1] = d
    BY <1>1, <2>1, <2>2
  <2>4. \A i \in 1..(n + 1) : i \in 1..n \/ i = n + 1
    BY <1>1
  <2>5. Fresh(out)
    <3>1. \A i \in 1..n : out[i].name # d.name
      BY <1>4, <2>2, <2>3
    <3>2. \A i, j \in 1..(n + 1) : out[i].name = out[j].name => i = j
      BY <1>1, <2>3, <2>4, <3>1
    <3>3. \A i \in 1..(n + 1) : Own(out[i])
      BY <1>1, <2>2, <2>3, <2>4
    <3>4. QED
      BY <2>3, <3>2, <3>3 DEF Fresh, Distinct
  <2>6. ASSUME NEW G \in SUBSET Tidings, Fit(cands, G) PROVE Fit(out, G \cup {<<src, row>>})
    <3>1. /\ \A i \in 1..n : Fits(cands[i], G)
          /\ \A x \in G : \E i \in 1..n : cands[i].name = x[2].name
      BY <2>6 DEF Fit
    <3>2. \A i \in 1..n : Fits(out[i], G \cup {<<src, row>>})
      <4> SUFFICES ASSUME NEW i \in 1..n PROVE Fits(out[i], G \cup {<<src, row>>})
        OBVIOUS
      <4>1. cands[i] \in Cand /\ row.name # cands[i].name /\ Fits(cands[i], G) /\ out[i] = cands[i]
        BY <1>1, <1>4, <2>3, <3>1
      <4>2. QED
        BY <4>1, FitsMore
    <3>3. Fits(d, G \cup {<<src, row>>})
      <4>1. \A x \in G : x[2].name # row.name
        BY <1>4, <3>1
      <4>2. d \in Cand
        BY <2>2
      <4>3. QED
        BY <4>1, <4>2, FitsMore DEF d
    <3>4. \A x \in G \cup {<<src, row>>} : \E i \in 1..(n + 1) : out[i].name = x[2].name
      <4> SUFFICES ASSUME NEW x \in G \cup {<<src, row>>}
                   PROVE  \E i \in 1..(n + 1) : out[i].name = x[2].name
        OBVIOUS
      <4>1. CASE x \in G
        <5>1. PICK i \in 1..n : cands[i].name = x[2].name
          BY <3>1, <4>1
        <5>2. i \in 1..(n + 1) /\ out[i] = cands[i]
          BY <1>1, <2>3
        <5>3. QED
          BY <5>1, <5>2
      <4>2. CASE x = <<src, row>>
        <5>1. n + 1 \in 1..(n + 1)
          BY <1>1
        <5>2. QED
          BY <2>2, <2>3, <4>2, <5>1
      <4>3. QED
        BY <4>1, <4>2
    <3>5. QED
      BY <2>3, <2>4, <3>2, <3>3, <3>4 DEF Fit
  <2>7. QED
    BY <2>3, <2>5, <2>6 DEF out
<1>5. QED
  BY <1>3, <1>4

\* G, and the first k of the rows, of one source
Upto(G, src, rows, k) == G \cup {<<src, rows[i]>> : i \in 1..k}

LEMMA AddRowsAre ==
    ASSUME NEW cands \in Seq(Cand), Fresh(cands), NEW rows \in Seq(MoverRow), NEW src \in SourceNames
    PROVE  /\ AddRows(src, cands, rows) \in Seq(Cand)
           /\ Fresh(AddRows(src, cands, rows))
           /\ \A G \in SUBSET Tidings :
                 Fit(cands, G) => Fit(AddRows(src, cands, rows), G \cup {<<src, r>> : r \in Range(rows)})
<1> DEFINE m == Len(rows)
           P == {c \in Seq(Cand) : Fresh(c)}
           step == [x \in (1..m) \X P |-> AddRow(src, x[2], rows[x[1]])]
           Adds(f) == f = [n \in 0..m |-> IF n = 0 THEN cands ELSE AddRow(src, f[n - 1], rows[n])]
           added == CHOOSE f : Adds(f)
<1>1. m \in Nat /\ \A k \in 1..m : rows[k] \in MoverRow
  OBVIOUS
<1>2. \A k \in 1..m : \A p \in P : step[<<k, p>>] = AddRow(src, p, rows[k]) /\ step[<<k, p>>] \in P
  <2> SUFFICES ASSUME NEW k \in 1..m, NEW p \in P
               PROVE  step[<<k, p>>] = AddRow(src, p, rows[k]) /\ step[<<k, p>>] \in P
    OBVIOUS
  <2>1. step[<<k, p>>] = AddRow(src, p, rows[k])
    OBVIOUS
  <2>2. p \in Seq(Cand) /\ Fresh(p) /\ rows[k] \in MoverRow
    BY <1>1
  <2>3. AddRow(src, p, rows[k]) \in P
    BY <2>2, AddRowIs
  <2>4. QED
    BY <2>1, <2>3
<1>3. cands \in P
  OBVIOUS
<1> HIDE DEF P, step, m
<1>4. \E f \in [0..m -> P] : Loops(f, 0, m, cands, step)
  <2>1. 0 \in Nat /\ 0 <= m /\ \A k \in (0 + 1)..m : \A p \in P : step[<<k, p>>] \in P
    BY <1>1, <1>2
  <2>2. QED
    BY <1>1, <1>3, <2>1, LoopExists
<1>5. \E f : Adds(f)
  <2>1. PICK f \in [0..m -> P] : Loops(f, 0, m, cands, step)
    BY <1>4
  <2>2. \A n \in 0..m : n # 0 => n - 1 \in 0..m /\ n \in 1..m
    BY <1>1
  <2>3. \A n \in 0..m : n # 0 => step[<<n, f[n - 1]>>] = AddRow(src, f[n - 1], rows[n])
    <3> SUFFICES ASSUME NEW n \in 0..m, n # 0
                 PROVE  step[<<n, f[n - 1]>>] = AddRow(src, f[n - 1], rows[n])
      OBVIOUS
    <3>1. f[n - 1] \in P /\ n \in 1..m
      BY <2>2
    <3>2. QED
      BY <1>2, <3>1
  <2>4. f = [n \in 0..m |-> IF n = 0 THEN cands ELSE step[<<n, f[n - 1]>>]]
    BY <2>1 DEF Loops
  <2>5. Adds(f)
    BY <2>3, <2>4
  <2>6. QED
    BY <2>5
<1>6. Adds(added)
  <2> HIDE DEF Adds
  <2>1. QED
    BY <1>5
<1>7. AddRows(src, cands, rows) = added[m]
  BY DEF AddRows, m
<1> HIDE DEF added
<1>8. added[0] = cands /\ \A n \in 0..m : n # 0 => added[n] = AddRow(src, added[n - 1], rows[n])
  <2>1. 0 \in 0..m
    BY <1>1
  <2>2. QED
    BY <1>6, <2>1
<1> HIDE DEF Adds
<1> DEFINE Holds(n) == /\ added[n] \in P
                       /\ \A G \in SUBSET Tidings :
                             Fit(cands, G) => Fit(added[n], Upto(G, src, rows, n))
           N == {n \in Nat : n <= m => Holds(n)}
<1>9. 0 \in N
  <2>1. \A G : Upto(G, src, rows, 0) = G
    BY DEF Upto
  <2>2. Holds(0)
    BY <1>3, <1>8, <2>1
  <2>3. QED
    BY <2>2
<1>10. ASSUME NEW n \in Nat, n \in N PROVE n + 1 \in N
  <2> SUFFICES ASSUME n + 1 <= m PROVE Holds(n + 1)
    OBVIOUS
  <2>1. added[n] \in P /\ \A G \in SUBSET Tidings : Fit(cands, G) => Fit(added[n], Upto(G, src, rows, n))
    BY <1>1, <1>10
  <2>2. n + 1 \in 0..m /\ n + 1 # 0 /\ (n + 1) - 1 = n /\ n + 1 \in 1..m
    BY <1>1
  <2>3. added[n + 1] = AddRow(src, added[n], rows[n + 1])
    <3>1. added[n + 1] = AddRow(src, added[(n + 1) - 1], rows[n + 1])
      BY <1>8, <2>2
    <3>2. QED
      BY <2>2, <3>1
  <2>4. added[n] \in Seq(Cand) /\ Fresh(added[n]) /\ rows[n + 1] \in MoverRow
    BY <1>1, <2>1, <2>2 DEF P
  <2>5. added[n + 1] \in P
    BY <2>3, <2>4, AddRowIs DEF P
  <2>6. ASSUME NEW G \in SUBSET Tidings, Fit(cands, G)
        PROVE  Fit(added[n + 1], Upto(G, src, rows, n + 1))
    <3> DEFINE H == Upto(G, src, rows, n)
    <3>1. Fit(added[n], H)
      BY <2>1, <2>6
    <3>2. H \in SUBSET Tidings
      <4>1. \A i \in 1..n : i \in 1..m
        BY <1>1
      <4>2. \A i \in 1..n : <<src, rows[i]>> \in Tidings
        BY <1>1, <4>1 DEF Tidings
      <4>3. QED
        BY <4>2 DEF Upto
    <3>3. Upto(G, src, rows, n + 1) = H \cup {<<src, rows[n + 1]>>}
      <4>1. \A i : i \in 1..(n + 1) <=> i \in 1..n \/ i = n + 1
        OBVIOUS
      <4>2. QED
        BY <4>1 DEF Upto
    <3> HIDE DEF H
    <3>4. Fit(AddRow(src, added[n], rows[n + 1]), H \cup {<<src, rows[n + 1]>>})
      BY <2>4, <3>1, <3>2, AddRowIs
    <3>5. QED
      BY <2>3, <3>3, <3>4
  <2>7. QED
    BY <2>5, <2>6
<1> HIDE DEF N
<1>11. m \in N
  BY <1>1, <1>9, <1>10, Induction
<1>12. Holds(m)
  <2> HIDE DEF Holds
  <2>1. QED
    BY <1>1, <1>11 DEF N
<1>13. \A G : Upto(G, src, rows, m) = G \cup {<<src, r>> : r \in Range(rows)}
  <2>1. DOMAIN rows = 1..m
    BY DEF m
  <2>2. QED
    BY <2>1 DEF Upto, Range
<1>14. QED
  BY <1>7, <1>12, <1>13 DEF P

---------------------------------------------------------------------------
(* A run, r, of a thread, with its health, h, in the mode m.               *)

MoversProviders == Range(Chain) \cup Range(PremarketChain)

RunRec == [at : {"idle", "source", "ask", "judge", "halts", "claim", "done"}, kind : {"regular", "premarket"},
           sources : Seq(SourceNames), asking : Seq(MoversProviders), answered : Seq(MoversProviders),
           mute : SUBSET MoversProviders, union : Seq(MoverRow), candidates : Seq(Cand), kept : Seq(Cand),
           heard : Seq(Hearing)]

\* What the health of a run says of a candidate that was not published
Withholding == [name : Nat, why : {"unverifiable", "conflicting"}]

HealthRec == [attempted : Seq(SourceNames), succeeded : Seq(SourceNames),
              failed : SUBSET (SourceNames \X (MoversProviders \cup {"no_provider", "discovery_error"})),
              withheld : Seq(Withholding), excluded : Seq(Nat),
              claim : {"none", "asset_names", "symbol_suffix"}]

Served(heard, s) == \E k \in 1..Len(heard) : heard[k].source = s /\ heard[k].rows # NoAnswer
Silent(heard, s) == \E k \in 1..Len(heard) : heard[k].source = s /\ heard[k].rows = NoAnswer

\* The sources that are over
Past(r) == Range(Sources) \ Range(r.sources)

\* What has been quoted in the sources P
Gathered(heard, P) == {x \in Tidings : x[1] \in P /\ x[2] \in QuoteIn(heard, x[1], x[2].name)}

\* Each source is asked once, and all have been when the judging begins.
SourcesOK(r) ==
    /\ IsInjective(r.sources) /\ Range(r.sources) \subseteq Range(Sources)
    /\ r.at = "ask" => r.sources # <<>>
    /\ r.at \notin {"source", "ask"} => r.sources = <<>>

\* What has been heard is of the sources that are over, and of the one that is being asked.
HeardOK(r) ==
    \A k \in 1..Len(r.heard) :
        /\ r.heard[k].rows # NoAnswer <=> Speaks(r.heard[k].sent)
        /\ r.heard[k].source \in Past(r) \/ (r.at = "ask" /\ r.heard[k].source = Head(r.sources))

\* The outages of the sources that are over are told.
OutagesOK(m, r, h) ==
    /\ h.succeeded = <<>> <=> \A s \in Past(r) : ~Served(r.heard, s)
    /\ h.failed = {} <=> \A s \in Past(r) : Served(r.heard, s) /\ (m = "merge" => ~Silent(r.heard, s))

\* The rows are what is quoted in the source s.
Tells(rows, heard, s) ==
    Distinct(rows) /\ \A q \in MoverRow : q \in Range(rows) <=> q \in QuoteIn(heard, s, q.name)

\* What is known of the source that is being asked
AskOK(m, r) ==
    /\ r.answered # <<>> <=> Served(r.heard, Head(r.sources))
    /\ r.mute # {} <=> Silent(r.heard, Head(r.sources))
    /\ m = "merge" => Tells(r.union, r.heard, Head(r.sources))

\* While sources are asked, the candidates are what the sources that are over have quoted.
GatheringOK(m, r) ==
    /\ r.kept = <<>> /\ Fresh(r.candidates)
    /\ m = "merge" => Fit(r.candidates, Gathered(r.heard, Past(r)))

\* The score of a candidate
ScoreOf(change, sources) ==
    LET size  == 25 * Abs(change)
        lists == 80 * (Cardinality(sources) - 1)
    IN  (IF size < 850 THEN size ELSE 850) + (IF lists < 150 THEN lists ELSE 150)

\* The sources that quote the name
Tellers(name, G) == {x[1] : x \in {y \in G : y[2].name = name}}

\* Never a suspect move on the feed's word
Guarded(c) ==
    IF Suspect > 0 /\ Abs(c.feed) >= Suspect
    THEN /\ c.verified /\ c.change \in Recomputed
         /\ Abs(c.change) < Suspect \/ Agree(c.feed, c.change)
         /\ c.dir = IF c.change < 0 THEN "short" ELSE "long"
    ELSE c.change = c.feed

\* A row of the name does not pass the filters, or its correction may not.
Weak(name, G) ==
    \E x \in G : x[2].name = name /\
        \/ Abs(x[2].change) < MinChange \/ x[2].price < MinPrice
        \/ MaxPrice > 0 /\ x[2].price > MaxPrice
        \/ ~IncludeShort
        \/ Abs(x[2].change) >= Suspect /\ \E ours \in Recomputed \ {Unknown} : Abs(ours) < MinChange

\* A full list of which no score is below the name's
Outranked(name, kept, G) ==
    /\ Limit > 0 /\ Len(kept) = Limit
    /\ \E x \in G : x[2].name = name /\ \A i \in 1..Len(kept) :
          \/ Abs(x[2].change) >= Suspect
          \/ ScoreOf(kept[i].change, kept[i].sources) >= ScoreOf(x[2].change, Tellers(name, G))

IsIn(name, cands) == \E i \in 1..Len(cands) : cands[i].name = name

\* The run says what became of the name.
OnRecord(name, h) ==
    \/ name \in Range(h.excluded)
    \/ \E w \in Range(h.withheld) : w.name = name
    \/ Len(h.withheld) = MaxWithheld

\* Every name that was quoted is accounted for.
Known(name, G, r, h) ==
    \/ IsIn(name, r.candidates) \/ IsIn(name, r.kept)
    \/ OnRecord(name, h)
    \/ Weak(name, G)
    \/ r.at # "judge" /\ Outranked(name, r.kept, G)
    \/ ExcludeHalted

\* Afterwards, what is left of the candidates and what is kept is what was quoted, nothing
\* that is kept is an unverified suspect, and no name is lost.
JudgingOK(m, r, h, G) ==
    /\ Distinct(r.candidates) /\ Distinct(r.kept)
    /\ \A i \in 1..Len(r.candidates) : Own(r.candidates[i]) /\ ~IsIn(r.candidates[i].name, r.kept)
    /\ \A i \in 1..Len(r.kept) :
          /\ Guarded(r.kept[i])
          /\ r.at = "judge" => r.kept[i].score = ScoreOf(r.kept[i].change, r.kept[i].sources)
    /\ r.at # "judge" => r.candidates = <<>>
    /\ m = "merge" =>
          /\ \A i \in 1..Len(r.candidates) : Fits(r.candidates[i], G)
          /\ \A i \in 1..Len(r.kept) : Fits(r.kept[i], G)
          /\ \A x \in G : Known(x[2].name, G, r, h)

RegularOK(m, r, h) ==
    /\ SourcesOK(r) /\ HeardOK(r) /\ OutagesOK(m, r, h)
    /\ r.at = "ask" => AskOK(m, r)
    /\ r.at \in {"source", "ask"} => GatheringOK(m, r)
    /\ r.at \notin {"source", "ask"} => JudgingOK(m, r, h, Gathered(r.heard, Range(Sources)))

DiscOK(m, r, h) ==
    /\ r \in RunRec /\ h \in HealthRec /\ m \in {"merge", "first_wins"}
    /\ Len(h.withheld) <= MaxWithheld
    /\ r.at = "ask" => r.sources # <<>>
    /\ r.at = "idle" => r.kept = <<>>
    /\ r.kind = "regular" /\ r.at # "idle" => RegularOK(m, r, h)

---------------------------------------------------------------------------

LEMMA RunTypes ==
    \A r \in RunRec :
        /\ r.at \in {"idle", "source", "ask", "judge", "halts", "claim", "done"}
        /\ r.kind \in {"regular", "premarket"} /\ r.sources \in Seq(SourceNames)
        /\ r.asking \in Seq(MoversProviders) /\ r.answered \in Seq(MoversProviders)
        /\ r.mute \in SUBSET MoversProviders /\ r.union \in Seq(MoverRow)
        /\ r.candidates \in Seq(Cand) /\ r.kept \in Seq(Cand) /\ r.heard \in Seq(Hearing)
  BY DEF RunRec

LEMMA HealthTypes ==
    \A h \in HealthRec :
        /\ h.attempted \in Seq(SourceNames) /\ h.succeeded \in Seq(SourceNames)
        /\ h.failed \in SUBSET (SourceNames \X (MoversProviders \cup {"no_provider", "discovery_error"}))
        /\ h.withheld \in Seq(Withholding) /\ h.excluded \in Seq(Nat)
        /\ h.claim \in {"none", "asset_names", "symbol_suffix"}
  BY DEF HealthRec

LEMMA HeardMore ==
    ASSUME NEW heard \in Seq(Hearing), NEW x \in Hearing
    PROVE  /\ Append(heard, x) \in Seq(Hearing) /\ Len(Append(heard, x)) = Len(heard) + 1
           /\ \A k \in 1..(Len(heard) + 1) :
                 \/ k \in 1..Len(heard) /\ Append(heard, x)[k] = heard[k]
                 \/ Append(heard, x)[k] = x
           /\ \A s : Served(Append(heard, x), s) <=> Served(heard, s) \/ (x.source = s /\ x.rows # NoAnswer)
           /\ \A s : Silent(Append(heard, x), s) <=> Silent(heard, s) \/ (x.source = s /\ x.rows = NoAnswer)
           /\ \A s, name : x.source # s => QuoteIn(Append(heard, x), s, name) = QuoteIn(heard, s, name)
<1> DEFINE n == Len(heard)
           more == Append(heard, x)
<1>1. /\ n \in Nat /\ more \in Seq(Hearing) /\ Len(more) = n + 1
      /\ \A k \in 1..n : more[k] = heard[k] /\ k \in 1..(n + 1)
      /\ more[n + 1] = x /\ n + 1 \in 1..(n + 1)
      /\ \A k \in 1..(n + 1) : k \in 1..n \/ k = n + 1
  OBVIOUS
<1>2. ASSUME NEW s, NEW name, x.source # s
      PROVE  QuoteIn(more, s, name) = QuoteIn(heard, s, name)
  <2>1. ~Lists(x, s, name)
    BY <1>2 DEF Lists
  <2>2. QuoteIn(more, s, name) =
           IF QuoteIn(heard, s, name) # {} THEN QuoteIn(heard, s, name)
           ELSE IF Lists(x, s, name) THEN FirstRow(x.rows, name) ELSE {}
    BY QuoteAppend
  <2>3. QED
    BY <2>1, <2>2
<1> HIDE DEF more, n
<1>3. \A s : Served(more, s) <=> Served(heard, s) \/ (x.source = s /\ x.rows # NoAnswer)
  BY <1>1 DEF Served, n
<1>4. \A s : Silent(more, s) <=> Silent(heard, s) \/ (x.source = s /\ x.rows = NoAnswer)
  BY <1>1 DEF Silent, n
<1>5. QED
  BY <1>1, <1>2, <1>3, <1>4 DEF more, n

LEMMA NobodyHeard ==
    ASSUME NEW heard \in Seq(Hearing), NEW s, \A k \in 1..Len(heard) : heard[k].source # s
    PROVE  ~Served(heard, s) /\ ~Silent(heard, s) /\ \A name : QuoteIn(heard, s, name) = {}
<1>1. \A name : \A k \in 1..Len(heard) : ~Lists(heard[k], s, name)
  BY DEF Lists
<1>2. \A name : QuoteIn(heard, s, name) = {}
  BY <1>1, QuoteIsOne
<1>3. QED
  BY <1>2 DEF Served, Silent

\* One more provider's answer, or its silence, in the source s
LEMMA UnionTells ==
    ASSUME NEW heard \in Seq(Hearing), NEW x \in Hearing, NEW rows \in Seq(MoverRow), Tells(rows, heard, x.source)
    PROVE  /\ x.rows # NoAnswer => /\ Unite(rows, x.rows) \in Seq(MoverRow)
                                   /\ Tells(Unite(rows, x.rows), Append(heard, x), x.source)
           /\ x.rows = NoAnswer => Tells(rows, Append(heard, x), x.source)
<1> DEFINE s == x.source
           more == Append(heard, x)
<1>1. Distinct(rows) /\ \A q \in MoverRow : q \in Range(rows) <=> q \in QuoteIn(heard, s, q.name)
  BY DEF Tells
<1>2. \A name : QuoteIn(more, s, name) =
              IF QuoteIn(heard, s, name) # {} THEN QuoteIn(heard, s, name)
              ELSE IF Lists(x, s, name) THEN FirstRow(x.rows, name) ELSE {}
  BY QuoteAppend
<1> HIDE DEF more, s
<1>3. CASE x.rows = NoAnswer
  <2>1. \A name : ~Lists(x, s, name)
    BY <1>3 DEF Lists
  <2>2. \A name : QuoteIn(more, s, name) = QuoteIn(heard, s, name)
    BY <1>2, <2>1
  <2>3. QED
    BY <1>1, <1>3, <2>2 DEF Tells, more, s
<1>4. CASE x.rows # NoAnswer
  <2> DEFINE all == Unite(rows, x.rows)
  <2>1. x.rows \in Seq(MoverRow)
    BY <1>4 DEF Hearing
  <2>2. /\ all \in Seq(MoverRow) /\ Distinct(all)
        /\ \A q \in MoverRow : q \in Range(all) <=>
              q \in Range(rows) \/ (FirstRow(rows, q.name) = {} /\ q \in FirstRow(x.rows, q.name))
    <3> DEFINE new == {q \in MoverRow : FirstRow(rows, q.name) = {} /\ q \in FirstRow(x.rows, q.name)}
    <3>1. all \in Seq(MoverRow) /\ Distinct(all) /\ Range(all) = Range(rows) \cup new
      BY <1>1, <2>1, UniteIs
    <3> HIDE DEF all
    <3>2. QED
      BY <3>1
  <2> HIDE DEF all
  <2>3. \A name : Lists(x, s, name) <=> FirstRow(x.rows, name) # {}
    BY <1>4 DEF Lists, s
  <2>4. \A name : FirstRow(rows, name) = {} <=> QuoteIn(heard, s, name) = {}
    <3> SUFFICES ASSUME NEW name PROVE FirstRow(rows, name) = {} <=> QuoteIn(heard, s, name) = {}
      OBVIOUS
    <3>1. \A q \in FirstRow(rows, name) : q \in MoverRow /\ q \in Range(rows) /\ q.name = name
      BY FirstRowIs
    <3>2. \A q \in QuoteIn(heard, s, name) : q \in MoverRow /\ q.name = name
      BY QuoteIsOne
    <3>3. ASSUME NEW q \in QuoteIn(heard, s, name) PROVE FirstRow(rows, name) # {}
      <4>1. q \in Range(rows) /\ q.name = name
        BY <1>1, <3>2
      <4>2. PICK i \in 1..Len(rows) : rows[i].name = name
        BY <4>1 DEF Range
      <4>3. QED
        BY <4>2, FirstRowIs
    <3>4. QED
      BY <1>1, <3>1, <3>3
  <2>5. \A q \in MoverRow : q \in Range(all) <=> q \in QuoteIn(more, s, q.name)
    <3> SUFFICES ASSUME NEW q \in MoverRow PROVE q \in Range(all) <=> q \in QuoteIn(more, s, q.name)
      OBVIOUS
    <3>1. CASE QuoteIn(heard, s, q.name) # {}
      BY <1>1, <1>2, <2>2, <2>4, <3>1
    <3>2. CASE QuoteIn(heard, s, q.name) = {}
      BY <1>1, <1>2, <2>2, <2>3, <2>4, <3>2
    <3>3. QED
      BY <3>1, <3>2
  <2>6. Tells(all, more, s)
    BY <2>2, <2>5 DEF Tells
  <2>7. QED
    BY <1>4, <2>2, <2>6 DEF all, more, s
<1>5. QED
  BY <1>3, <1>4

---------------------------------------------------------------------------
(* What holds of every run.                                                *)

AssetTypes ==
    /\ clock \in 1..MaxTime /\ keyed \in BOOLEAN /\ cachedUntil \in Nat /\ retryAfter \in Nat
    /\ lastOk \in BOOLEAN /\ holder \in Threads \cup {Nobody}
    /\ looking \in [Threads -> {"out", "waiting", "fetching"}]

DiscoveryInv ==
    /\ AssetTypes
    /\ run \in [Threads -> RunRec] /\ health \in [Threads -> HealthRec]
    /\ runs \in [Threads -> 0..MaxRuns]
    /\ \A t \in Threads : DiscOK(mode, run[t], health[t])

\* The thread t takes a step of its own, to a run and a health that are as they should be.
Moves(t) ==
    /\ DiscOK(mode, run'[t], health'[t])
    /\ run' = [run EXCEPT ![t] = run'[t]] /\ health' = [health EXCEPT ![t] = health'[t]]
    /\ mode' = mode

\* What there is before the step
LEMMA AtHand ==
    ASSUME DiscoveryInv, NEW t \in Threads
    PROVE  /\ run[t] \in RunRec /\ health[t] \in HealthRec /\ DiscOK(mode, run[t], health[t])
           /\ \A r : LET f == [run EXCEPT ![t] = r] IN f[t] = r /\ f = [run EXCEPT ![t] = f[t]]
           /\ \A h : LET f == [health EXCEPT ![t] = h] IN f[t] = h /\ f = [health EXCEPT ![t] = f[t]]
           /\ health = [health EXCEPT ![t] = health[t]] /\ run = [run EXCEPT ![t] = run[t]]
  BY DEF DiscoveryInv

LEMMA MovesTo ==
    ASSUME DiscoveryInv, NEW t \in Threads, NEW r, NEW h, DiscOK(mode, r, h), mode' = mode,
           run' = [run EXCEPT ![t] = r] \/ (UNCHANGED run /\ r = run[t]),
           health' = [health EXCEPT ![t] = h] \/ (UNCHANGED health /\ h = health[t])
    PROVE  Moves(t)
<1>1. run'[t] = r /\ run' = [run EXCEPT ![t] = run'[t]]
  <2>1. CASE run' = [run EXCEPT ![t] = r]
    BY <2>1, AtHand
  <2>2. CASE run' = run /\ r = run[t]
    BY <2>2, AtHand
  <2>3. QED
    BY <2>1, <2>2
<1>2. health'[t] = h /\ health' = [health EXCEPT ![t] = health'[t]]
  <2>1. CASE health' = [health EXCEPT ![t] = h]
    BY <2>1, AtHand
  <2>2. CASE health' = health /\ h = health[t]
    BY <2>2, AtHand
  <2>3. QED
    BY <2>1, <2>2
<1>3. QED
  BY <1>1, <1>2 DEF Moves

LEMMA NothingYet == Fresh(<<>>) /\ Distinct(<<>>) /\ \A s : ~Served(<<>>, s) /\ ~Silent(<<>>, s)
  BY DEF Fresh, Distinct, Served, Silent

LEMMA SourcesAre == Sources \in Seq(SourceNames) /\ <<"premarket">> \in Seq(SourceNames)
<1>1. Sources \in Seq(STRING)
  BY DiscoveryLists
<1>2. \A i \in 1..Len(Sources) : Sources[i] \in SourceNames
  BY <1>1 DEF SourceNames, Range
<1>3. Sources \in Seq(SourceNames)
  BY <1>1, <1>2
<1>4. "premarket" \in SourceNames
  BY DEF SourceNames
<1>5. QED
  BY <1>3, <1>4

LEMMA BeginMoves == ASSUME DiscoveryInv, NEW t \in Threads, Begin(t) PROVE Moves(t)
<1> DEFINE m == mode
           h == health[t]
<1>1. PICK kind \in Kinds :
         /\ run' = [run EXCEPT ![t] = [NewRun(kind) EXCEPT !.sources = IF kind = "regular" THEN Sources ELSE <<"premarket">>]]
         /\ health' = [health EXCEPT ![t] = IF kind = "regular" THEN BlankHealth ELSE health[t]]
  BY DEF Begin
<1> DEFINE order == IF kind = "regular" THEN Sources ELSE <<"premarket">>
           r2 == [NewRun(kind) EXCEPT !.sources = order]
           h2 == IF kind = "regular" THEN BlankHealth ELSE h
<1>2. kind \in {"regular", "premarket"} /\ order \in Seq(SourceNames)
  BY DiscoveryNumbers, SourcesAre
<1>3. /\ r2 \in RunRec /\ r2.at = "source" /\ r2.kind = kind /\ r2.sources = order
      /\ r2.heard = <<>> /\ r2.candidates = <<>> /\ r2.kept = <<>>
  <2> DEFINE e == <<>>
             n == {}
             new == NewRun(kind)
  <2>1. new = [at |-> "source", kind |-> kind, sources |-> e, asking |-> e, answered |-> e, mute |-> n,
               union |-> e, candidates |-> e, kept |-> e, heard |-> e]
    BY DEF NewRun
  <2>2. e \in Seq(SourceNames) /\ e \in Seq(MoversProviders) /\ e \in Seq(MoverRow) /\ e \in Seq(Cand)
        /\ e \in Seq(Hearing) /\ n \in SUBSET MoversProviders /\ e = <<>>
    OBVIOUS
  <2> HIDE DEF e, n, new, order
  <2>3. new \in RunRec
    BY <1>2, <2>1, <2>2 DEF RunRec
  <2>4. r2 \in RunRec
    BY <1>2, <2>3 DEF RunRec, new
  <2>5. /\ r2.at = "source" /\ r2.kind = kind /\ r2.sources = order
        /\ r2.heard = e /\ r2.candidates = e /\ r2.kept = e
    BY <2>1 DEF new
  <2>6. QED
    BY <2>2, <2>4, <2>5
<1>4. BlankHealth \in HealthRec /\ BlankHealth.withheld = <<>> /\ BlankHealth.succeeded = <<>> /\ BlankHealth.failed = {}
  BY DEF BlankHealth, HealthRec
<1>6. h \in HealthRec /\ DiscOK(m, run[t], h)
  BY AtHand
<1>7. h2 \in HealthRec /\ Len(h2.withheld) <= MaxWithheld /\ m \in {"merge", "first_wins"}
  <2>1. Len(h.withheld) <= MaxWithheld /\ m \in {"merge", "first_wins"}
    BY <1>6 DEF DiscOK
  <2>2. Len(<<>>) <= MaxWithheld
    BY DiscoveryNumbers
  <2>3. QED
    BY <1>4, <1>6, <2>1, <2>2
<1>8. ASSUME kind = "regular" PROVE RegularOK(m, r2, h2)
  <2>1. h2 = BlankHealth /\ r2.sources = Sources
    BY <1>3, <1>8
  <2> HIDE DEF r2, h2
  <2>2. SourcesOK(r2) /\ Past(r2) = {}
    BY <1>3, <2>1, DiscoveryLists DEF SourcesOK, Past
  <2>3. HeardOK(r2)
    BY <1>3 DEF HeardOK
  <2>4. OutagesOK(m, r2, h2)
    BY <1>4, <2>1, <2>2 DEF OutagesOK
  <2>5. GatheringOK(m, r2)
    <3>1. Gathered(r2.heard, Past(r2)) = {}
      BY <2>2 DEF Gathered
    <3>2. Fit(<<>>, {})
      BY DEF Fit
    <3>3. QED
      BY <1>3, <3>1, <3>2, NothingYet DEF GatheringOK
  <2>6. QED
    BY <1>3, <2>2, <2>3, <2>4, <2>5 DEF RegularOK
<1>5. run' = [run EXCEPT ![t] = r2] /\ health' = [health EXCEPT ![t] = h2]
  BY <1>1
<1> HIDE DEF r2, h2
<1>9. DiscOK(m, r2, h2)
  BY <1>3, <1>7, <1>8 DEF DiscOK
<1>10. run'[t] = r2 /\ run' = [run EXCEPT ![t] = run'[t]]
  BY <1>5, AtHand
<1>11. health'[t] = h2 /\ health' = [health EXCEPT ![t] = health'[t]]
  BY <1>5, AtHand
<1>12. mode' = mode
  BY DEF Begin
<1>13. QED
  BY <1>9, <1>10, <1>11, <1>12 DEF Moves

LEMMA AskedForIs == \A s : AskedFor(s) \in Seq(MoversProviders)
<1>1. \A list \in {Chain, PremarketChain} : list \in Seq(MoversProviders)
  <2>1. Chain \in Seq(STRING) /\ PremarketChain \in Seq(STRING)
    BY DiscoveryLists
  <2>2. /\ \A i \in 1..Len(Chain) : Chain[i] \in MoversProviders
        /\ \A i \in 1..Len(PremarketChain) : PremarketChain[i] \in MoversProviders
    BY <2>1 DEF MoversProviders, Range
  <2>3. QED
    BY <2>1, <2>2
<1>2. ASSUME NEW list \in {Chain, PremarketChain}, NEW S \in SUBSET (DOMAIN list)
      PROVE  Picked(list, S) \in Seq(MoversProviders)
  <2>1. list \in Seq(MoversProviders)
    BY <1>1
  <2>2. DOMAIN list = 1..Len(list)
    BY <2>1
  <2>3. QED
    BY <2>1, <2>2, PickedAre
<1> SUFFICES ASSUME NEW s PROVE AskedFor(s) \in Seq(MoversProviders)
  OBVIOUS
<1>3. CASE s = "premarket"
  BY <1>2, <1>3 DEF AskedFor
<1>4. CASE s # "premarket"
  BY <1>2, <1>4 DEF AskedFor
<1>5. QED
  BY <1>3, <1>4

\* The source at the head is not over.
LEMMA HeadIsNew ==
    ASSUME NEW r, r.sources \in Seq(SourceNames), r.sources # <<>>
    PROVE  /\ Head(r.sources) \in SourceNames /\ Head(r.sources) \notin Past(r)
           /\ Tail(r.sources) \in Seq(SourceNames)
           /\ Len(r.sources) > 1 <=> Tail(r.sources) # <<>>
           /\ IsInjective(r.sources) /\ Range(r.sources) \subseteq Range(Sources) =>
                 /\ IsInjective(Tail(r.sources)) /\ Range(Tail(r.sources)) \subseteq Range(Sources)
                 /\ Range(Sources) \ Range(Tail(r.sources)) = Past(r) \cup {Head(r.sources)}
<1> DEFINE list == r.sources
           n == Len(list)
           tail == Tail(list)
<1>1. /\ list \in Seq(SourceNames) /\ n \in Nat /\ n > 0 /\ DOMAIN list = 1..n /\ list[1] = Head(list)
      /\ tail \in Seq(SourceNames) /\ Len(tail) = n - 1 /\ DOMAIN tail = 1..(n - 1)
      /\ \A i \in 1..(n - 1) : tail[i] = list[i + 1] /\ i + 1 \in 1..n
      /\ 1 \in 1..n /\ Head(list) \in SourceNames
  OBVIOUS
<1>2. n > 1 <=> tail # <<>>
  <2>1. tail = <<>> <=> Len(tail) = 0
    BY <1>1, EmptySeq
  <2> HIDE DEF tail, n, list
  <2>2. QED
    BY <1>1, <2>1
<1>3. Head(list) \in Range(list)
  BY <1>1 DEF Range
<1> HIDE DEF list, n, tail
<1>4. ASSUME IsInjective(list), Range(list) \subseteq Range(Sources)
      PROVE  /\ IsInjective(tail) /\ Range(tail) \subseteq Range(Sources)
             /\ Range(Sources) \ Range(tail) = (Range(Sources) \ Range(list)) \cup {Head(list)}
  <2>1. \A i, j \in 1..n : list[i] = list[j] => i = j
    BY <1>1, <1>4 DEF IsInjective
  <2>2. \A i, j \in 1..(n - 1) : tail[i] = tail[j] => i = j
    BY <1>1, <2>1
  <2>3. \A i \in 1..n : i = 1 \/ i - 1 \in 1..(n - 1)
    BY <1>1
  <2>4. \A i \in 1..n : i # 1 => tail[i - 1] = list[i]
    BY <1>1, <2>3
  <2>5. \A i \in 1..(n - 1) : tail[i] # list[1]
    BY <1>1, <2>1
  <2>6. Range(tail) = Range(list) \ {Head(list)}
    <3>1. ASSUME NEW x \in Range(tail) PROVE x \in Range(list) \ {Head(list)}
      <4>1. PICK i \in 1..(n - 1) : x = tail[i]
        BY <1>1 DEF Range
      <4>2. QED
        BY <1>1, <2>5, <4>1 DEF Range
    <3>2. ASSUME NEW x \in Range(list), x # Head(list) PROVE x \in Range(tail)
      <4>1. PICK i \in 1..n : x = list[i]
        BY <1>1 DEF Range
      <4>2. i # 1
        BY <1>1, <3>2, <4>1
      <4>3. i - 1 \in DOMAIN tail /\ tail[i - 1] = x
        BY <1>1, <2>3, <2>4, <4>1, <4>2
      <4>4. QED
        BY <4>3 DEF Range
    <3>3. QED
      BY <3>1, <3>2
  <2>7. IsInjective(tail)
    BY <1>1, <2>2 DEF IsInjective
  <2>8. QED
    BY <1>3, <1>4, <2>6, <2>7
<1>5. QED
  BY <1>1, <1>2, <1>3, <1>4 DEF list, n, tail, Past

\* No answer has come for the source that begins.
LEMMA NewSource ==
    ASSUME NEW r \in RunRec, r.at = "source", r.sources # <<>>, HeardOK(r)
    PROVE  /\ ~Served(r.heard, Head(r.sources)) /\ ~Silent(r.heard, Head(r.sources))
           /\ Tells(<<>>, r.heard, Head(r.sources))
<1> DEFINE s == Head(r.sources)
<1>1. s \notin Past(r) /\ r.heard \in Seq(Hearing)
  BY RunTypes, HeadIsNew
<1>2. \A k \in 1..Len(r.heard) : r.heard[k].source # s
  BY <1>1 DEF HeardOK
<1>3. ~Served(r.heard, s) /\ ~Silent(r.heard, s) /\ \A name : QuoteIn(r.heard, s, name) = {}
  <2> HIDE DEF s
  <2>1. QED
    BY <1>1, <1>2, NobodyHeard
<1> HIDE DEF s
<1>4. Tells(<<>>, r.heard, s)
  <2>1. Range(<<>>) = {}
    BY DEF Range
  <2>2. QED
    BY <1>3, <2>1, NothingYet DEF Tells
<1>5. QED
  BY <1>3, <1>4 DEF s

LEMMA BeginSourceMoves == ASSUME DiscoveryInv, NEW t \in Threads, BeginSource(t) PROVE Moves(t)
<1> DEFINE m == mode
           r == run[t]
           h == health[t]
           s == Head(r.sources)
           asks == AskedFor(s)
           none == <<>>
           nobody == {}
           begun == Append(h.attempted, s)
           r2 == [r EXCEPT !.asking = asks, !.answered = none, !.mute = nobody, !.union = none, !.at = "ask"]
           h2 == [h EXCEPT !.attempted = begun]
<1>1. r \in RunRec /\ h \in HealthRec /\ DiscOK(m, r, h)
  BY AtHand
<1>2. r.at = "source" /\ r.sources # <<>>
  BY DEF BeginSource
<1>3. run' = [run EXCEPT ![t] = r2] /\ mode' = mode
  BY DEF BeginSource
<1>4. health' = [health EXCEPT ![t] = h2]
  BY DEF BeginSource
<1>5. run'[t] = r2 /\ run' = [run EXCEPT ![t] = run'[t]]
  BY <1>3, AtHand
<1>6. health'[t] = h2 /\ health' = [health EXCEPT ![t] = health'[t]]
  BY <1>4, AtHand
<1> HIDE DEF r, h
<1>7. s \in SourceNames
  BY <1>1, <1>2, RunTypes, HeadIsNew
<1> HIDE DEF s
<1>8. /\ r2 \in RunRec /\ r2.at = "ask" /\ r2.kind = r.kind /\ r2.sources = r.sources
      /\ r2.answered = <<>> /\ r2.mute = {} /\ r2.union = <<>> /\ r2.heard = r.heard
      /\ r2.candidates = r.candidates /\ r2.kept = r.kept
  <2>1. asks \in Seq(MoversProviders) /\ none \in Seq(MoversProviders) /\ none \in Seq(MoverRow)
    BY AskedForIs
  <2>2. nobody \in SUBSET MoversProviders /\ none = <<>> /\ nobody = {}
    OBVIOUS
  <2> HIDE DEF asks, none, nobody
  <2>3. r2 \in RunRec
    BY <1>1, <2>1, <2>2 DEF RunRec
  <2>4. /\ r2.at = "ask" /\ r2.kind = r.kind /\ r2.sources = r.sources
        /\ r2.answered = none /\ r2.mute = nobody /\ r2.union = none /\ r2.heard = r.heard
        /\ r2.candidates = r.candidates /\ r2.kept = r.kept
    BY <1>1 DEF RunRec
  <2>5. QED
    BY <2>2, <2>3, <2>4
<1>9. h2 \in HealthRec /\ h2.succeeded = h.succeeded /\ h2.failed = h.failed /\ h2.withheld = h.withheld
  <2>1. begun \in Seq(SourceNames)
    BY <1>1, <1>7, HealthTypes
  <2> HIDE DEF begun
  <2>2. QED
    BY <1>1, <2>1 DEF HealthRec
<1> HIDE DEF r2, h2
<1>10. ASSUME r.kind = "regular" PROVE RegularOK(m, r2, h2)
  <2>1. SourcesOK(r) /\ HeardOK(r) /\ OutagesOK(m, r, h) /\ GatheringOK(m, r)
    BY <1>1, <1>2, <1>10 DEF DiscOK, RegularOK
  <2>2. Past(r2) = Past(r)
    BY <1>8 DEF Past
  <2>3. SourcesOK(r2)
    BY <1>2, <1>8, <2>1 DEF SourcesOK
  <2>4. HeardOK(r2)
    BY <1>2, <1>8, <2>1, <2>2 DEF HeardOK
  <2>5. OutagesOK(m, r2, h2)
    BY <1>8, <1>9, <2>1, <2>2 DEF OutagesOK
  <2>6. AskOK(m, r2)
    BY <1>1, <1>2, <1>8, <2>1, NewSource DEF AskOK
  <2>7. GatheringOK(m, r2)
    BY <1>8, <2>1, <2>2 DEF GatheringOK
  <2>8. QED
    BY <1>8, <2>3, <2>4, <2>5, <2>6, <2>7 DEF RegularOK
<1>11. DiscOK(m, r2, h2)
  BY <1>1, <1>2, <1>8, <1>9, <1>10 DEF DiscOK
<1>12. QED
  BY <1>3, <1>5, <1>6, <1>11 DEF Moves

---------------------------------------------------------------------------
(* The steps that ask.                                                     *)

LEMMA AskOn ==
    ASSUME NEW m, NEW r, NEW h, DiscOK(m, r, h), r.at = "ask", NEW r2 \in RunRec, NEW x \in Hearing,
           r2.at = "ask", r2.kind = r.kind, r2.sources = r.sources, r2.candidates = r.candidates,
           r2.kept = r.kept, r2.heard = Append(r.heard, x), x.source = Head(r.sources),
           r.kind = "regular" => (x.rows # NoAnswer <=> Speaks(x.sent)),
           x.rows = NoAnswer => r2.answered = r.answered /\ r2.mute # {} /\ r2.union = r.union,
           x.rows # NoAnswer => /\ r2.answered # <<>> /\ r2.mute = r.mute
                                /\ r.kind = "regular" /\ m = "merge" => r2.union = Unite(r.union, x.rows)
    PROVE  DiscOK(m, r2, h)
<1> DEFINE s == Head(r.sources)
           old == r.heard
           new == r2.heard
<1>1. r \in RunRec /\ r.sources # <<>>
  BY DEF DiscOK
<1>2. /\ old \in Seq(Hearing) /\ r.sources \in Seq(SourceNames) /\ s \notin Past(r)
      /\ r.union \in Seq(MoverRow)
  BY <1>1, RunTypes, HeadIsNew
<1>3. /\ Len(new) = Len(old) + 1
      /\ \A k \in 1..(Len(old) + 1) : (k \in 1..Len(old) /\ new[k] = old[k]) \/ new[k] = x
      /\ \A s2 : Served(new, s2) <=> Served(old, s2) \/ (x.source = s2 /\ x.rows # NoAnswer)
      /\ \A s2 : Silent(new, s2) <=> Silent(old, s2) \/ (x.source = s2 /\ x.rows = NoAnswer)
      /\ \A s2, name : x.source # s2 => QuoteIn(new, s2, name) = QuoteIn(old, s2, name)
  BY <1>2, HeardMore
<1>4. ASSUME r.kind = "regular" PROVE RegularOK(m, r2, h)
  <2>1. SourcesOK(r) /\ HeardOK(r) /\ OutagesOK(m, r, h) /\ AskOK(m, r) /\ GatheringOK(m, r)
    BY <1>4 DEF DiscOK, RegularOK
  <2>2. Past(r2) = Past(r)
    BY DEF Past
  <2>3. SourcesOK(r2)
    BY <2>1 DEF SourcesOK
  <2>4. HeardOK(r2)
    <3> SUFFICES ASSUME NEW k \in 1..Len(new)
                 PROVE  /\ new[k].rows # NoAnswer <=> Speaks(new[k].sent)
                        /\ new[k].source \in Past(r2) \/ (r2.at = "ask" /\ new[k].source = Head(r2.sources))
      BY DEF HeardOK
    <3>1. CASE k \in 1..Len(old) /\ new[k] = old[k]
      <4>1. /\ old[k].rows # NoAnswer <=> Speaks(old[k].sent)
            /\ old[k].source \in Past(r) \/ (r.at = "ask" /\ old[k].source = Head(r.sources))
        BY <2>1, <3>1 DEF HeardOK
      <4>2. QED
        BY <2>2, <3>1, <4>1
    <3>2. CASE new[k] = x
      BY <1>4, <3>2
    <3>3. QED
      BY <1>3, <3>1, <3>2
  <2>5. OutagesOK(m, r2, h)
    <3>1. \A s2 \in Past(r) : Served(new, s2) = Served(old, s2) /\ Silent(new, s2) = Silent(old, s2)
      BY <1>2, <1>3 DEF Served, Silent
    <3>2. QED
      BY <2>1, <2>2, <3>1 DEF OutagesOK
  <2>6. AskOK(m, r2)
    <3>1. r2.answered # <<>> <=> Served(new, s)
      BY <1>3, <2>1 DEF AskOK
    <3>2. r2.mute # {} <=> Silent(new, s)
      BY <1>3, <2>1 DEF AskOK
    <3>3. ASSUME m = "merge" PROVE Tells(r2.union, new, s)
      <4>1. Tells(r.union, old, s)
        BY <2>1, <3>3 DEF AskOK
      <4>2. CASE x.rows = NoAnswer
        BY <1>2, <4>1, <4>2, UnionTells
      <4>3. CASE x.rows # NoAnswer
        BY <1>2, <1>4, <3>3, <4>1, <4>3, UnionTells
      <4>4. QED
        BY <4>2, <4>3
    <3>4. QED
      BY <3>1, <3>2, <3>3 DEF AskOK
  <2>7. GatheringOK(m, r2)
    <3>1. \A P : s \notin P => Gathered(new, P) = Gathered(old, P)
      BY <1>3 DEF Gathered
    <3>2. Gathered(new, Past(r2)) = Gathered(old, Past(r))
      BY <1>2, <2>2, <3>1
    <3>3. QED
      BY <2>1, <3>2 DEF GatheringOK
  <2>8. QED
    BY <2>3, <2>4, <2>5, <2>6, <2>7 DEF RegularOK
<1>5. QED
  BY <1>1, <1>4 DEF DiscOK

LEMMA AskMoves == ASSUME DiscoveryInv, NEW t \in Threads, Ask(t) PROVE Moves(t)
<1> DEFINE m == mode
           r == run[t]
           h == health[t]
           s == Head(r.sources)
           p == Head(r.asking)
           serves == OneAnswerServes(t)
           rowsOf(payload) == IF r.kind = "premarket" THEN PremarketRows(p, payload) ELSE Normalised(payload)
<1>1. r \in RunRec /\ h \in HealthRec /\ DiscOK(m, r, h)
  BY AtHand
<1>2. r.at = "ask" /\ r.asking # <<>>
  BY DEF Ask
<1>3. /\ s \in SourceNames /\ p \in MoversProviders
      /\ Tail(r.asking) \in Seq(MoversProviders)
      /\ r.kind \in {"regular", "premarket"}
  <2>1. r.sources # <<>>
    BY <1>1, <1>2 DEF DiscOK
  <2>2. r.sources \in Seq(SourceNames) /\ r.asking \in Seq(MoversProviders)
    BY <1>1, RunTypes
  <2>3. QED
    BY <1>1, <1>2, <2>1, <2>2, RunTypes, HeadIsNew
<1>4. PICK payload \in Payloads[p] :
         run' = [run EXCEPT ![t] =
            LET rows == rowsOf(payload)
                heard == Append(r.heard, [source |-> s, sent |-> payload, rows |-> rows])
            IN  IF rows = NoAnswer
                THEN [r EXCEPT !.mute = r.mute \cup {p}, !.asking = Tail(r.asking), !.heard = heard]
                ELSE [r EXCEPT !.answered = Append(r.answered, p), !.heard = heard,
                               !.asking = IF serves THEN <<>> ELSE Tail(r.asking),
                               !.union = IF serves THEN rows ELSE Unite(r.union, rows)]]
  BY DEF Ask
<1> DEFINE rows == rowsOf(payload)
           x == [source |-> s, sent |-> payload, rows |-> rows]
           heard == Append(r.heard, x)
           mute == r.mute \cup {p}
           rest == Tail(r.asking)
           answered == Append(r.answered, p)
           asks == IF serves THEN <<>> ELSE rest
           union == IF serves THEN rows ELSE Unite(r.union, rows)
           r2 == [r EXCEPT !.mute = mute, !.asking = rest, !.heard = heard]
           r3 == [r EXCEPT !.answered = answered, !.heard = heard, !.asking = asks, !.union = union]
<1>5. run' = [run EXCEPT ![t] = IF rows = NoAnswer THEN r2 ELSE r3]
  BY <1>4
<1>6. UNCHANGED <<health, mode>>
  BY DEF Ask
<1>7. payload \in Sendable
  BY <1>3, DiscoveryLists DEF Sendable, MoversProviders
<1>8. /\ rows \in Seq(MoverRow) \cup {NoAnswer}
      /\ r.kind = "regular" => (rows # NoAnswer <=> Speaks(payload))
  BY <1>7, NormalisedIs
<1>9. x \in Hearing /\ x.source = s /\ x.sent = payload /\ x.rows = rows
  BY <1>3, <1>7, <1>8 DEF Hearing
<1>10. r.kind = "regular" /\ m = "merge" => ~serves
  BY DEF OneAnswerServes
<1>11. /\ r.heard \in Seq(Hearing) /\ r.mute \in SUBSET MoversProviders
       /\ r.answered \in Seq(MoversProviders) /\ r.union \in Seq(MoverRow)
  BY <1>1, RunTypes
<1> HIDE DEF r, h, s, p, rows, x, serves
<1>12. /\ heard \in Seq(Hearing) /\ mute \in SUBSET MoversProviders /\ mute # {}
       /\ rest \in Seq(MoversProviders) /\ asks \in Seq(MoversProviders)
       /\ answered \in Seq(MoversProviders) /\ answered # <<>>
  BY <1>3, <1>9, <1>11
<1>13. m = "merge" /\ r.kind = "regular" => union = Unite(r.union, rows)
  BY <1>10
<1>14. rows # NoAnswer => union \in Seq(MoverRow)
  <2>1. CASE serves
    BY <1>8, <2>1
  <2>2. CASE ~serves /\ rows # NoAnswer
    <3>1. rows \in Seq(MoverRow) /\ r.union \in Seq(MoverRow)
      BY <1>8, <1>11, <2>2
    <3>2. Unite(r.union, rows) \in Seq(MoverRow)
      BY <3>1, UniteTypes
    <3>3. QED
      BY <2>2, <3>2
  <2>3. QED
    BY <2>1, <2>2
<1>15. heard = Append(r.heard, x)
  OBVIOUS
<1> HIDE DEF mute, rest, answered, asks, union, heard, m
<1>16. ASSUME rows = NoAnswer PROVE DiscOK(m, r2, h)
  <2>1. /\ r2 \in RunRec /\ r2.at = r.at /\ r2.kind = r.kind /\ r2.sources = r.sources /\ r2.candidates = r.candidates
        /\ r2.kept = r.kept /\ r2.heard = heard /\ r2.answered = r.answered /\ r2.mute = mute /\ r2.union = r.union
    BY <1>1, <1>12 DEF RunRec
  <2> HIDE DEF r2
  <2>2. QED
    BY <1>1, <1>2, <1>8, <1>9, <1>12, <1>15, <1>16, <2>1, AskOn DEF s
<1>17. ASSUME rows # NoAnswer PROVE DiscOK(m, r3, h)
  <2>0. union \in Seq(MoverRow)
    BY <1>14, <1>17
  <2>1. /\ r3 \in RunRec /\ r3.at = r.at /\ r3.kind = r.kind /\ r3.sources = r.sources /\ r3.candidates = r.candidates
        /\ r3.kept = r.kept /\ r3.heard = heard /\ r3.answered = answered /\ r3.mute = r.mute /\ r3.union = union
    BY <1>1, <1>12, <2>0 DEF RunRec
  <2> HIDE DEF r3
  <2>2. QED
    BY <1>1, <1>2, <1>8, <1>9, <1>12, <1>13, <1>15, <1>17, <2>1, AskOn DEF s
<1> DEFINE next == IF rows = NoAnswer THEN r2 ELSE r3
<1>18. DiscOK(m, next, h)
  <2> HIDE DEF r2, r3
  <2>1. QED
    BY <1>16, <1>17
<1>19. run' = [run EXCEPT ![t] = next]
  BY <1>5
<1> HIDE DEF next
<1>20. run'[t] = next /\ run' = [run EXCEPT ![t] = run'[t]]
  BY <1>19, AtHand
<1>21. health'[t] = h /\ health' = [health EXCEPT ![t] = health'[t]]
  BY <1>6, AtHand DEF h
<1>22. QED
  BY <1>6, <1>18, <1>20, <1>21 DEF Moves, m

\* The rows of a source that is over are among what is gathered.
LEMMA GatheredMore ==
    ASSUME NEW heard \in Seq(Hearing), NEW P, NEW s \in SourceNames, NEW rows \in Seq(MoverRow), Tells(rows, heard, s)
    PROVE  Gathered(heard, P) \cup {<<s, q>> : q \in Range(rows)} = Gathered(heard, P \cup {s})
<1> DEFINE G == Gathered(heard, P)
           H == Gathered(heard, P \cup {s})
<1>1. \A q \in Range(rows) : q \in MoverRow
  BY DEF Range
<1>2. \A q \in MoverRow : q \in Range(rows) <=> q \in QuoteIn(heard, s, q.name)
  BY DEF Tells
<1>3. G \subseteq H
  BY DEF Gathered
<1>4. \A q \in Range(rows) : <<s, q>> \in H
  BY <1>1, <1>2 DEF Gathered, Tidings
<1>5. ASSUME NEW x \in H PROVE x \in G \/ \E q \in Range(rows) : x = <<s, q>>
  <2>1. x \in Tidings /\ x[1] \in P \cup {s} /\ x[2] \in QuoteIn(heard, x[1], x[2].name)
    BY DEF Gathered
  <2>2. CASE x[1] \in P
    BY <2>1, <2>2 DEF Gathered
  <2>3. CASE x[1] = s
    <3>1. x = <<s, x[2]>> /\ x[2] \in MoverRow
      BY <2>1, <2>3 DEF Tidings
    <3>2. x[2] \in Range(rows)
      BY <1>2, <2>1, <2>3, <3>1
    <3>3. QED
      BY <3>1, <3>2
  <2>4. QED
    BY <2>1, <2>2, <2>3
<1> HIDE DEF G, H
<1>6. G \cup {<<s, q>> : q \in Range(rows)} = H
  BY <1>3, <1>4, <1>5
<1>7. QED
  BY <1>6 DEF G, H

\* A source is over: its rows are merged, and its outage is told.
LEMMA SourceOver ==
    ASSUME NEW m, NEW r, NEW h, DiscOK(m, r, h), r.at = "ask", r.kind = "regular",
           NEW r2 \in RunRec, NEW h2 \in HealthRec,
           r2.kind = r.kind, r2.kept = r.kept, r2.heard = r.heard, r2.sources = Tail(r.sources),
           r2.candidates = AddRows(Head(r.sources), r.candidates, r.union),
           r2.at = IF r2.sources # <<>> THEN "source" ELSE "judge",
           h2.withheld = h.withheld,
           h2.succeeded = <<>> <=> h.succeeded = <<>> /\ r.answered = <<>>,
           h2.failed = {} <=> h.failed = {} /\ r.answered # <<>> /\ (m = "merge" => r.mute = {})
    PROVE  DiscOK(m, r2, h2)
<1> DEFINE s == Head(r.sources)
           P == Past(r)
           heard == r.heard
<1>1. r \in RunRec /\ r.sources # <<>> /\ RegularOK(m, r, h)
  BY DEF DiscOK
<1>2. SourcesOK(r) /\ HeardOK(r) /\ OutagesOK(m, r, h) /\ AskOK(m, r) /\ GatheringOK(m, r)
  BY <1>1 DEF RegularOK
<1>3. /\ heard \in Seq(Hearing) /\ r.sources \in Seq(SourceNames) /\ r.union \in Seq(MoverRow)
      /\ r.candidates \in Seq(Cand)
  BY <1>1, RunTypes
<1>4. /\ s \in SourceNames /\ s \notin P
      /\ IsInjective(r2.sources) /\ Range(r2.sources) \subseteq Range(Sources)
      /\ Past(r2) = P \cup {s}
  BY <1>1, <1>2, <1>3, HeadIsNew DEF SourcesOK, Past
<1>5. SourcesOK(r2)
  BY <1>4 DEF SourcesOK
<1>6. HeardOK(r2)
  <2> SUFFICES ASSUME NEW k \in 1..Len(heard)
               PROVE  /\ heard[k].rows # NoAnswer <=> Speaks(heard[k].sent)
                      /\ heard[k].source \in Past(r2)
    BY DEF HeardOK
  <2>1. /\ heard[k].rows # NoAnswer <=> Speaks(heard[k].sent)
        /\ heard[k].source \in P \/ heard[k].source = s
    BY <1>2 DEF HeardOK
  <2> HIDE DEF P, s
  <2>2. QED
    BY <1>4, <2>1
<1>7. OutagesOK(m, r2, h2)
  <2>1. /\ r.answered # <<>> <=> Served(heard, s)
        /\ r.mute # {} <=> Silent(heard, s)
    BY <1>2 DEF AskOK
  <2>2. /\ h.succeeded = <<>> <=> \A s2 \in P : ~Served(heard, s2)
        /\ h.failed = {} <=> \A s2 \in P : Served(heard, s2) /\ (m = "merge" => ~Silent(heard, s2))
    BY <1>2 DEF OutagesOK
  <2> HIDE DEF P, s, heard
  <2>3. /\ h2.succeeded = <<>> <=> \A s2 \in P \cup {s} : ~Served(heard, s2)
        /\ h2.failed = {} <=> \A s2 \in P \cup {s} : Served(heard, s2) /\ (m = "merge" => ~Silent(heard, s2))
    BY <2>1, <2>2
  <2>4. QED
    BY <1>4, <2>3 DEF OutagesOK, heard
<1>8. /\ r.kept = <<>> /\ Fresh(r.candidates)
      /\ m = "merge" => Fit(r.candidates, Gathered(heard, P)) /\ Tells(r.union, heard, s)
  BY <1>2 DEF GatheringOK, AskOK
<1>9. Fresh(r2.candidates) /\ r2.candidates \in Seq(Cand)
  BY <1>3, <1>4, <1>8, AddRowsAre
<1>10. ASSUME m = "merge" PROVE Fit(r2.candidates, Gathered(heard, Past(r2)))
  <2>1. Fit(r.candidates, Gathered(heard, P)) /\ Tells(r.union, heard, s)
    BY <1>8, <1>10
  <2>2. Gathered(heard, P) \in SUBSET Tidings
    BY DEF Gathered
  <2> DEFINE rows == r.union
  <2> HIDE DEF P, s, heard
  <2>3. Fit(r2.candidates, Gathered(heard, P) \cup {<<s, q>> : q \in Range(rows)})
    BY <1>3, <1>4, <1>8, <2>1, <2>2, AddRowsAre DEF s
  <2>4. heard \in Seq(Hearing) /\ s \in SourceNames /\ rows \in Seq(MoverRow) /\ Tells(rows, heard, s)
    BY <1>3, <1>4, <2>1
  <2> HIDE DEF rows
  <2>5. Gathered(heard, P) \cup {<<s, q>> : q \in Range(rows)} = Gathered(heard, P \cup {s})
    BY <2>4, GatheredMore
  <2>6. Fit(r2.candidates, Gathered(heard, P \cup {s}))
    BY <2>3, <2>5
  <2>7. QED
    BY <1>4, <2>6
<1>11. GatheringOK(m, r2)
  BY <1>8, <1>9, <1>10 DEF GatheringOK
<1>12. ASSUME r2.sources = <<>> PROVE JudgingOK(m, r2, h2, Gathered(r2.heard, Range(Sources)))
  <2> DEFINE G == Gathered(r2.heard, Range(Sources))
  <2>1. Past(r2) = Range(Sources)
    <3>1. Range(<<>>) = {}
      BY DEF Range
    <3>2. QED
      BY <1>12, <3>1 DEF Past
  <2>2. r2.kept = <<>> /\ r2.at = "judge"
    BY <1>8, <1>12
  <2>3. m = "merge" => Fit(r2.candidates, G)
    BY <1>10, <2>1
  <2> HIDE DEF G
  <2>4. \A i \in 1..Len(r2.candidates) : ~IsIn(r2.candidates[i].name, r2.kept)
    BY <2>2 DEF IsIn
  <2>5. m = "merge" => \A x \in G : Known(x[2].name, G, r2, h2)
    BY <2>3 DEF Known, IsIn, Fit
  <2>6. m = "merge" => \A i \in 1..Len(r2.candidates) : Fits(r2.candidates[i], G)
    BY <2>3 DEF Fit
  <2>7. JudgingOK(m, r2, h2, G)
    BY <1>9, <2>2, <2>4, <2>5, <2>6, NothingYet DEF JudgingOK, Fresh
  <2>8. QED
    BY <2>7 DEF G
<1>13. RegularOK(m, r2, h2)
  BY <1>5, <1>6, <1>7, <1>11, <1>12 DEF RegularOK
<1>14. QED
  BY <1>1, <1>13 DEF DiscOK

LEMMA EndSourceMoves == ASSUME DiscoveryInv, NEW t \in Threads, EndSource(t) PROVE Moves(t)
<1> DEFINE m == mode
           r == run[t]
           h == health[t]
           s == Head(r.sources)
           outages == OutagesOfSource(t, s)
           failed == h.failed \cup outages
           succeeded == IF r.answered # <<>> THEN Append(h.succeeded, s) ELSE h.succeeded
           cands == AddRows(s, r.candidates, r.union)
           rest == Tail(r.sources)
           none == <<>>
           at == IF Len(r.sources) > 1 THEN "source" ELSE "judge"
           r2 == [r EXCEPT !.candidates = cands, !.sources = rest, !.union = none, !.at = at]
           h2 == [h EXCEPT !.failed = failed, !.succeeded = succeeded]
<1>1. r \in RunRec /\ h \in HealthRec /\ DiscOK(m, r, h)
  BY AtHand
<1>2. r.at = "ask" /\ r.kind = "regular" /\ mode' = mode
  BY DEF EndSource
<1>3. run' = [run EXCEPT ![t] = r2] /\ health' = [health EXCEPT ![t] = h2]
  BY DEF EndSource
<1>4. run'[t] = r2 /\ run' = [run EXCEPT ![t] = run'[t]] /\ health'[t] = h2 /\ health' = [health EXCEPT ![t] = health'[t]]
  <2> HIDE DEF r2, h2
  <2>1. QED
    BY <1>3, AtHand
<1>5. /\ r.sources # <<>> /\ r.sources \in Seq(SourceNames) /\ r.candidates \in Seq(Cand)
      /\ r.union \in Seq(MoverRow) /\ r.mute \in SUBSET MoversProviders
      /\ r.answered \in Seq(MoversProviders)
  BY <1>1, <1>2, RunTypes DEF DiscOK
<1>6. s \in SourceNames /\ rest \in Seq(SourceNames) /\ (Len(r.sources) > 1 <=> rest # <<>>)
  BY <1>5, HeadIsNew
<1>7. cands \in Seq(Cand)
  <2>1. Fresh(r.candidates)
    BY <1>1, <1>2 DEF DiscOK, RegularOK, GatheringOK
  <2> HIDE DEF s, r
  <2>2. QED
    BY <1>5, <1>6, <2>1, AddRowsAre
<1>8. /\ outages \in SUBSET (SourceNames \X (MoversProviders \cup {"no_provider", "discovery_error"}))
      /\ outages = {} <=> r.answered # <<>> /\ (m = "merge" => r.mute = {})
  <2>1. outages = IF r.answered # <<>>
                  THEN IF m = "merge" THEN {<<s, p>> : p \in r.mute} ELSE {}
                  ELSE {<<s, "no_provider">>}
    BY DEF OutagesOfSource
  <2> HIDE DEF outages, s, r, m
  <2>2. CASE r.answered # <<>> /\ m = "merge"
    <3>1. outages = {<<s, p>> : p \in r.mute}
      BY <2>1, <2>2
    <3>2. \A p \in r.mute : <<s, p>> \in outages
      BY <3>1
    <3>3. outages = {} <=> r.mute = {}
      BY <3>1, <3>2
    <3>4. \A p \in r.mute : <<s, p>> \in SourceNames \X (MoversProviders \cup {"no_provider", "discovery_error"})
      BY <1>5, <1>6
    <3>5. QED
      BY <2>2, <3>1, <3>3, <3>4
  <2>3. CASE r.answered # <<>> /\ m # "merge"
    BY <2>1, <2>3
  <2>4. CASE r.answered = <<>>
    <3>1. outages = {<<s, "no_provider">>}
      BY <2>1, <2>4
    <3>2. QED
      BY <1>6, <2>4, <3>1
  <2>5. QED
    BY <2>2, <2>3, <2>4
<1>9. /\ h.failed \in SUBSET (SourceNames \X (MoversProviders \cup {"no_provider", "discovery_error"}))
      /\ h.succeeded \in Seq(SourceNames)
  BY <1>1, HealthTypes
<1> HIDE DEF r, h, s, outages
<1>10. /\ failed \in SUBSET (SourceNames \X (MoversProviders \cup {"no_provider", "discovery_error"}))
       /\ failed = {} <=> h.failed = {} /\ outages = {}
  BY <1>8, <1>9
<1>11. /\ succeeded \in Seq(SourceNames)
       /\ succeeded = <<>> <=> h.succeeded = <<>> /\ r.answered = <<>>
  <2>1. Append(h.succeeded, s) \in Seq(SourceNames) /\ Append(h.succeeded, s) # <<>>
    BY <1>6, <1>9
  <2>2. QED
    BY <1>9, <2>1
<1>12. at \in {"source", "judge"} /\ at = (IF rest # <<>> THEN "source" ELSE "judge")
  BY <1>6
<1>13. none \in Seq(MoverRow) /\ rest = Tail(r.sources) /\ cands = AddRows(Head(r.sources), r.candidates, r.union)
  BY DEF s
<1> HIDE DEF failed, succeeded, cands, rest, none, at, m
<1>14. /\ r2 \in RunRec /\ r2.at = at /\ r2.kind = r.kind /\ r2.kept = r.kept /\ r2.heard = r.heard
       /\ r2.sources = rest /\ r2.candidates = cands
  BY <1>1, <1>6, <1>7, <1>12, <1>13 DEF RunRec
<1>15. /\ h2 \in HealthRec /\ h2.withheld = h.withheld /\ h2.succeeded = succeeded /\ h2.failed = failed
  BY <1>1, <1>10, <1>11 DEF HealthRec
<1> HIDE DEF r2, h2
<1>16. DiscOK(m, r2, h2)
  BY <1>1, <1>2, <1>8, <1>10, <1>11, <1>12, <1>13, <1>14, <1>15, SourceOver
<1>17. QED
  BY <1>2, <1>4, <1>16 DEF Moves, m

LEMMA EndPremarketMoves == ASSUME DiscoveryInv, NEW t \in Threads, EndPremarket(t) PROVE Moves(t)
<1> DEFINE m == mode
           r == run[t]
           h == health[t]
           succeeded == Append(h.succeeded, "premarket")
           cands == [i \in DOMAIN r.union |-> Candidate(r.union[i], "premarket")]
           none == <<>>
           r2 == [r EXCEPT !.candidates = cands, !.sources = none, !.union = none, !.at = "judge"]
           h2 == [h EXCEPT !.succeeded = succeeded]
<1>1. r \in RunRec /\ h \in HealthRec /\ DiscOK(m, r, h)
  BY AtHand
<1>2. r.kind = "premarket" /\ mode' = mode
  BY DEF EndPremarket
<1>3. run' = [run EXCEPT ![t] = r2] /\ health' = [health EXCEPT ![t] = h2]
  BY DEF EndPremarket
<1>4. run'[t] = r2 /\ run' = [run EXCEPT ![t] = run'[t]] /\ health'[t] = h2 /\ health' = [health EXCEPT ![t] = health'[t]]
  BY <1>3, AtHand
<1>5. r.union \in Seq(MoverRow) /\ h.succeeded \in Seq(SourceNames) /\ "premarket" \in SourceNames
  BY <1>1, RunTypes, HealthTypes DEF SourceNames
<1> HIDE DEF r, h
<1>6. cands \in Seq(Cand)
  <2>1. DOMAIN r.union = 1..Len(r.union) /\ Len(r.union) \in Nat /\ \A i \in 1..Len(r.union) : r.union[i] \in MoverRow
    BY <1>5
  <2>2. \A i \in 1..Len(r.union) : Candidate(r.union[i], "premarket") \in Cand
    BY <1>5, <2>1, CandidateIs
  <2>3. QED
    BY <2>1, <2>2
<1>7. succeeded \in Seq(SourceNames)
  BY <1>5
<1>8. none \in Seq(SourceNames) /\ none \in Seq(MoverRow)
  OBVIOUS
<1> HIDE DEF succeeded, cands, none, m
<1>9. r2 \in RunRec /\ r2.at = "judge" /\ r2.kind = r.kind
  BY <1>1, <1>6, <1>8 DEF RunRec
<1>10. h2 \in HealthRec /\ h2.withheld = h.withheld
  BY <1>1, <1>7 DEF HealthRec
<1> HIDE DEF r2, h2
<1>11. DiscOK(m, r2, h2)
  BY <1>1, <1>2, <1>9, <1>10 DEF DiscOK
<1>12. QED
  BY <1>2, <1>4, <1>11 DEF Moves, m

LEMMA PremarketFailsMoves ==
    ASSUME DiscoveryInv, NEW t \in Threads, PremarketFails(t) PROVE Moves(t)
<1> DEFINE m == mode
           r == run[t]
           h == health[t]
           failed == h.failed \cup {<<"premarket", "discovery_error">>}
           r2 == [r EXCEPT !.at = "done"]
           h2 == [h EXCEPT !.failed = failed]
<1>1. r \in RunRec /\ h \in HealthRec /\ DiscOK(m, r, h)
  BY AtHand
<1>2. r.kind = "premarket" /\ mode' = mode
  BY DEF PremarketFails
<1>3. run' = [run EXCEPT ![t] = r2] /\ health' = [health EXCEPT ![t] = h2]
  BY DEF PremarketFails
<1>4. run'[t] = r2 /\ run' = [run EXCEPT ![t] = run'[t]] /\ health'[t] = h2 /\ health' = [health EXCEPT ![t] = health'[t]]
  BY <1>3, AtHand
<1> HIDE DEF r, h
<1>5. failed \in SUBSET (SourceNames \X (MoversProviders \cup {"no_provider", "discovery_error"}))
  BY <1>1, HealthTypes DEF SourceNames
<1> HIDE DEF failed, m
<1>6. r2 \in RunRec /\ r2.at = "done" /\ r2.kind = r.kind
  BY <1>1 DEF RunRec
<1>7. h2 \in HealthRec /\ h2.withheld = h.withheld
  BY <1>1, <1>5 DEF HealthRec
<1> HIDE DEF r2, h2
<1>8. DiscOK(m, r2, h2)
  BY <1>1, <1>2, <1>6, <1>7 DEF DiscOK
<1>9. QED
  BY <1>2, <1>4, <1>8 DEF Moves, m

---------------------------------------------------------------------------
(* The steps that judge.                                                   *)

LEMMA TailIs ==
    ASSUME NEW T, NEW list \in Seq(T), list # <<>>
    PROVE  /\ Head(list) \in T /\ Head(list) = list[1] /\ Len(list) \in Nat /\ 1 \in 1..Len(list)
           /\ Tail(list) \in Seq(T) /\ Len(Tail(list)) = Len(list) - 1
           /\ \A i \in 1..(Len(list) - 1) : Tail(list)[i] = list[i + 1] /\ i + 1 \in 1..Len(list)
           /\ \A i \in 1..Len(list) : i = 1 \/ (i - 1 \in 1..(Len(list) - 1) /\ Tail(list)[i - 1] = list[i])
  OBVIOUS

LEMMA AppendIs ==
    ASSUME NEW T, NEW list \in Seq(T), NEW x \in T
    PROVE  /\ Append(list, x) \in Seq(T) /\ Len(list) \in Nat /\ Len(Append(list, x)) = Len(list) + 1
           /\ \A i \in 1..Len(list) : Append(list, x)[i] = list[i] /\ i \in 1..(Len(list) + 1)
           /\ Append(list, x)[Len(list) + 1] = x /\ Len(list) + 1 \in 1..(Len(list) + 1)
           /\ \A i \in 1..(Len(list) + 1) : i \in 1..Len(list) \/ i = Len(list) + 1
  OBVIOUS

\* One candidate less to judge: it is on record, or weak, or it is kept.
LEMMA Judged ==
    ASSUME NEW m, NEW r, NEW h, DiscOK(m, r, h), r.at = "judge", r.candidates # <<>>,
           NEW r2 \in RunRec, NEW h2 \in HealthRec,
           r2.at = r.at, r2.kind = r.kind, r2.sources = r.sources, r2.heard = r.heard,
           r2.candidates = Tail(r.candidates),
           h2.succeeded = h.succeeded, h2.failed = h.failed, Len(h2.withheld) <= MaxWithheld,
           NEW c, c = Head(r.candidates), NEW G, G = Gathered(r.heard, Range(Sources)),
           r.kind = "regular" =>
               /\ \A name : OnRecord(name, h) => OnRecord(name, h2)
               /\ \/ r2.kept = r.kept /\ (OnRecord(c.name, h2) \/ (m = "merge" => Weak(c.name, G)))
                  \/ \E d \in Cand : /\ d.name = c.name /\ d.price = c.price /\ d.feed = c.feed
                                     /\ d.sources = c.sources /\ Guarded(d)
                                     /\ d.score = ScoreOf(d.change, d.sources)
                                     /\ r2.kept = Append(r.kept, d)
    PROVE  DiscOK(m, r2, h2)
<1>1. r \in RunRec /\ h \in HealthRec /\ m \in {"merge", "first_wins"}
  BY DEF DiscOK
<1>2. r.candidates \in Seq(Cand) /\ r.kept \in Seq(Cand)
  BY <1>1, RunTypes
<1> DEFINE n == Len(r.candidates)
           cands == r.candidates
           rest == r2.candidates
           k == Len(r.kept)
<1>3. /\ n \in Nat /\ 1 \in 1..n /\ c = cands[1] /\ c \in Cand /\ Len(rest) = n - 1
      /\ \A i \in 1..(n - 1) : rest[i] = cands[i + 1] /\ i + 1 \in 1..n
      /\ \A i \in 1..n : i = 1 \/ (i - 1 \in 1..(n - 1) /\ rest[i - 1] = cands[i])
  BY <1>2, TailIs
<1>4. ASSUME r.kind = "regular" PROVE RegularOK(m, r2, h2)
  <2>1. SourcesOK(r) /\ HeardOK(r) /\ OutagesOK(m, r, h) /\ JudgingOK(m, r, h, G)
    BY <1>4 DEF DiscOK, RegularOK
  <2>2. Past(r2) = Past(r)
    BY DEF Past
  <2>3. SourcesOK(r2) /\ HeardOK(r2) /\ OutagesOK(m, r2, h2)
    BY <2>1, <2>2 DEF SourcesOK, HeardOK, OutagesOK
  <2>4. /\ \A i, j \in 1..n : cands[i].name = cands[j].name => i = j
        /\ \A i, j \in 1..k : r.kept[i].name = r.kept[j].name => i = j
        /\ \A i \in 1..n : Own(cands[i]) /\ ~IsIn(cands[i].name, r.kept)
        /\ \A i \in 1..k : Guarded(r.kept[i]) /\ r.kept[i].score = ScoreOf(r.kept[i].change, r.kept[i].sources)
    BY <2>1 DEF JudgingOK, Distinct
  <2>5. m = "merge" => /\ \A i \in 1..n : Fits(cands[i], G)
                       /\ \A i \in 1..k : Fits(r.kept[i], G)
                       /\ \A x \in G : Known(x[2].name, G, r, h)
    BY <2>1 DEF JudgingOK
  <2> HIDE DEF n, cands, rest
  <2>6. Distinct(rest) /\ \A i \in 1..Len(rest) : Own(rest[i]) /\ ~IsIn(rest[i].name, r.kept) /\ rest[i].name # c.name
    <3>1. \A i, j \in 1..(n - 1) : rest[i].name = rest[j].name => i = j
      BY <1>3, <2>4
    <3>2. \A i \in 1..(n - 1) : rest[i].name # c.name
      BY <1>3, <2>4
    <3>3. QED
      BY <1>3, <2>4, <3>1, <3>2 DEF Distinct
  <2>7. m = "merge" => \A i \in 1..Len(rest) : Fits(rest[i], G)
    BY <1>3, <2>5
  <2>8. \A name : IsIn(name, cands) => name = c.name \/ IsIn(name, rest)
    <3> SUFFICES ASSUME NEW name, NEW i \in 1..n, cands[i].name = name PROVE name = c.name \/ IsIn(name, rest)
      BY DEF IsIn, n, cands
    <3>1. CASE i = 1
      BY <1>3, <3>1
    <3>2. CASE i # 1
      <4>1. i - 1 \in 1..Len(rest) /\ rest[i - 1].name = name
        BY <1>3, <3>2
      <4>2. QED
        BY <4>1 DEF IsIn
    <3>3. QED
      BY <3>1, <3>2
  <2>9. \A name : Known(name, G, r, h) =>
           \/ name = c.name \/ IsIn(name, rest) \/ IsIn(name, r.kept) \/ OnRecord(name, h2) \/ Weak(name, G) \/ ExcludeHalted
    BY <1>4, <2>8 DEF Known, cands
  <2>10. CASE r2.kept = r.kept /\ (OnRecord(c.name, h2) \/ (m = "merge" => Weak(c.name, G)))
    <3>1. m = "merge" => \A x \in G : Known(x[2].name, G, r2, h2)
      BY <2>5, <2>9, <2>10 DEF Known, rest
    <3>2. JudgingOK(m, r2, h2, G)
      BY <2>4, <2>5, <2>6, <2>7, <2>10, <3>1 DEF JudgingOK, Distinct, rest
    <3>3. QED
      BY <2>3, <3>2 DEF RegularOK
  <2>11. ASSUME NEW d \in Cand, d.name = c.name, d.price = c.price, d.feed = c.feed, d.sources = c.sources,
                Guarded(d), d.score = ScoreOf(d.change, d.sources), r2.kept = Append(r.kept, d)
         PROVE  RegularOK(m, r2, h2)
    <3> DEFINE kept == r2.kept
    <3>1. /\ k \in Nat /\ Len(kept) = k + 1
          /\ \A i \in 1..k : kept[i] = r.kept[i] /\ i \in 1..(k + 1)
          /\ kept[k + 1] = d /\ k + 1 \in 1..(k + 1)
          /\ \A i \in 1..(k + 1) : i \in 1..k \/ i = k + 1
      BY <1>2, <2>11, AppendIs
    <3> HIDE DEF k, kept
    <3>2. \A i \in 1..k : r.kept[i].name # c.name
      BY <1>3, <2>4 DEF IsIn, k
    <3>3. Distinct(kept)
      <4> SUFFICES ASSUME NEW i \in 1..(k + 1), NEW j \in 1..(k + 1), kept[i].name = kept[j].name PROVE i = j
        BY <3>1 DEF Distinct
      <4>1. QED
        BY <2>4, <2>11, <3>1, <3>2
    <3>4. \A i \in 1..(k + 1) : Guarded(kept[i]) /\ kept[i].score = ScoreOf(kept[i].change, kept[i].sources)
      BY <2>4, <2>11, <3>1
    <3>5. \A name : IsIn(name, kept) <=> IsIn(name, r.kept) \/ name = c.name
      <4>1. \A name : IsIn(name, r.kept) \/ name = c.name => IsIn(name, kept)
        BY <2>11, <3>1 DEF IsIn, k
      <4>2. \A name : IsIn(name, kept) => IsIn(name, r.kept) \/ name = c.name
        BY <2>11, <3>1 DEF IsIn, k
      <4>3. QED
        BY <4>1, <4>2
    <3>6. m = "merge" => \A i \in 1..(k + 1) : Fits(kept[i], G)
      <4>1. m = "merge" => Fits(d, G)
        BY <1>3, <2>5, <2>11 DEF Fits
      <4>2. QED
        BY <2>5, <3>1, <4>1
    <3>7. m = "merge" => \A x \in G : Known(x[2].name, G, r2, h2)
      BY <2>5, <2>9, <3>5 DEF Known, rest, kept
    <3>8. JudgingOK(m, r2, h2, G)
      BY <2>6, <2>7, <3>1, <3>3, <3>4, <3>5, <3>6, <3>7 DEF JudgingOK, rest, kept
    <3>9. QED
      BY <2>3, <3>8 DEF RegularOK
  <2>12. QED
    BY <1>4, <2>10, <2>11
<1>5. QED
  BY <1>1, <1>4 DEF DiscOK

LEMMA ScoreIs ==
    ASSUME NEW c \in Cand
    PROVE  Score(c) = ScoreOf(c.change, c.sources) /\ Score(c) \in 0..1000
<1> DEFINE size == 25 * Abs(c.change)
           lists == 80 * (Cardinality(c.sources) - 1)
<1>1. Abs(c.change) \in Nat
  BY AbsIsNat, CandTypes
<1>2. Cardinality(c.sources) \in Nat /\ Cardinality(c.sources) # 0
  <2>1. IsFiniteSet(c.sources) /\ c.sources # {}
    BY CandTypes DEF Groups
  <2>2. QED
    BY <2>1, FS_EmptySet, FS_CardinalityType
<1>3. size \in Nat /\ lists \in Nat
  BY <1>1, <1>2
<1>4. Score(c) = (IF size < 850 THEN size ELSE 850) + (IF lists < 150 THEN lists ELSE 150)
  BY DEF Score
<1>5. ScoreOf(c.change, c.sources) = (IF size < 850 THEN size ELSE 850) + (IF lists < 150 THEN lists ELSE 150)
  BY DEF ScoreOf
<1> HIDE DEF size, lists
<1>6. QED
  BY <1>3, <1>4, <1>5

LEMMA ScoredIs ==
    ASSUME NEW d \in Cand
    PROVE  LET e == Scored(d) IN
           /\ e \in Cand /\ e.name = d.name /\ e.price = d.price /\ e.feed = d.feed /\ e.sources = d.sources
           /\ e.change = d.change /\ e.verified = d.verified /\ e.dir = d.dir
           /\ e.score = ScoreOf(e.change, e.sources)
<1> DEFINE score == Score(d)
<1>1. score = ScoreOf(d.change, d.sources) /\ score \in 0..1000
  BY ScoreIs
<1>2. Scored(d) = [d EXCEPT !.score = score]
  BY DEF Scored
<1> HIDE DEF score
<1>3. [d EXCEPT !.score = score] \in Cand
  BY <1>1 DEF Cand
<1>4. QED
  BY <1>1, <1>2, <1>3 DEF Cand

LEMMA VerifiedIs ==
    ASSUME NEW c \in Cand, NEW ours \in Int
    PROVE  LET d == Verified(c, ours) IN
           /\ d \in Cand /\ d.name = c.name /\ d.price = c.price /\ d.feed = c.feed /\ d.sources = c.sources
           /\ d.change = ours /\ d.verified /\ d.dir = (IF ours < 0 THEN "short" ELSE "long")
<1> DEFINE dir == IF ours < 0 THEN "short" ELSE "long"
<1>1. dir \in {"long", "short"}
  OBVIOUS
<1>2. Verified(c, ours) = [c EXCEPT !.change = ours, !.verified = TRUE, !.dir = dir]
  BY DEF Verified
<1> HIDE DEF dir
<1>3. [c EXCEPT !.change = ours, !.verified = TRUE, !.dir = dir] \in Cand
  BY <1>1 DEF Cand
<1>4. QED
  BY <1>1, <1>2, <1>3 DEF Cand, dir

\* What does not pass the filters came of a weak row, or of a weak correction.
LEMMA WeakIs ==
    ASSUME NEW c \in Cand, NEW d \in Cand, NEW G, Fits(c, G), d.price = c.price, ~Passes(d),
           d.change = c.feed \/ (Abs(c.feed) >= Suspect /\ d.change \in Recomputed \ {Unknown})
    PROVE  Weak(c.name, G)
<1>1. PICK x \in G : x[2].name = c.name /\ x[2].price = c.price /\ x[2].change = c.feed
  BY DEF Fits
<1>2. Abs(d.change) \in Nat /\ d.price \in Nat
  BY AbsIsNat, CandTypes
<1>3. Abs(d.change) < MinChange \/ d.price < MinPrice \/ (MaxPrice > 0 /\ d.price > MaxPrice) \/ ~IncludeShort
  BY <1>2, DiscoveryNumbers DEF Passes
<1>4. CASE d.change = c.feed
  BY <1>1, <1>3, <1>4 DEF Weak
<1>5. CASE Abs(c.feed) >= Suspect /\ d.change \in Recomputed \ {Unknown}
  BY <1>1, <1>3, <1>5 DEF Weak
<1>6. QED
  BY <1>4, <1>5

\* The run without the candidate at the head; and with it kept, as d.
Rest(r) == [r EXCEPT !.candidates = Tail(r.candidates)]
Keeping(r, d) == [Rest(r) EXCEPT !.kept = Append(Rest(r).kept, Scored(d))]

\* The candidate at the head passes the filters, as it is or corrected, or it is dropped.
LEMMA PassOn ==
    ASSUME NEW m, NEW r, NEW h, DiscOK(m, r, h), r.at = "judge", r.candidates # <<>>,
           NEW c, c = Head(r.candidates), NEW d \in Cand, d.name = c.name, d.price = c.price, d.feed = c.feed,
           d.sources = c.sources,
           r.kind = "regular" => Guarded(d) /\ (d.change = c.feed \/ (Abs(c.feed) >= Suspect /\ d.change \in Recomputed \ {Unknown})),
           NEW next, next = Keeping(r, d) \/ (next = Rest(r) /\ (r.kind = "regular" => ~Passes(d)))
    PROVE  DiscOK(m, next, h)
<1> DEFINE G == Gathered(r.heard, Range(Sources))
           rest == Rest(r)
           e == Scored(d)
           tail == Tail(r.candidates)
           kept == Append(r.kept, e)
<1>1. r \in RunRec /\ h \in HealthRec /\ Len(h.withheld) <= MaxWithheld
  BY DEF DiscOK
<1>2. r.candidates \in Seq(Cand) /\ r.kept \in Seq(Cand)
  BY <1>1, RunTypes
<1>3. c \in Cand /\ tail \in Seq(Cand)
  BY <1>2, TailIs
<1>4. /\ e \in Cand /\ e.name = d.name /\ e.price = d.price /\ e.feed = d.feed /\ e.sources = d.sources
      /\ e.change = d.change /\ e.verified = d.verified /\ e.dir = d.dir
      /\ e.score = ScoreOf(e.change, e.sources)
  BY ScoredIs
<1> HIDE DEF e
<1>5. kept \in Seq(Cand)
  BY <1>2, <1>4
<1>6. tail = Tail(r.candidates) /\ kept = Append(r.kept, e)
  OBVIOUS
<1> HIDE DEF tail, kept, G
<1>7. /\ rest \in RunRec /\ rest.at = r.at /\ rest.kind = r.kind /\ rest.sources = r.sources /\ rest.heard = r.heard
      /\ rest.candidates = tail /\ rest.kept = r.kept
  BY <1>1, <1>3, <1>6 DEF RunRec, Rest
<1> HIDE DEF rest
<1>8. LET more == [rest EXCEPT !.kept = kept]
      IN  /\ more \in RunRec /\ more.at = r.at /\ more.kind = r.kind /\ more.sources = r.sources
          /\ more.heard = r.heard /\ more.candidates = tail /\ more.kept = kept
  BY <1>5, <1>7 DEF RunRec
<1>9. next = [rest EXCEPT !.kept = kept] \/ (next = rest /\ (r.kind = "regular" => ~Passes(d)))
  BY <1>6, <1>7 DEF e, Keeping, rest
<1>10. /\ next \in RunRec /\ next.at = r.at /\ next.kind = r.kind /\ next.sources = r.sources
       /\ next.heard = r.heard /\ next.candidates = tail
       /\ next.kept = kept \/ (next.kept = r.kept /\ (r.kind = "regular" => ~Passes(d)))
  BY <1>7, <1>8, <1>9
<1>11. ASSUME r.kind = "regular" PROVE Guarded(e)
  BY <1>4, <1>11 DEF Guarded
<1>12. ASSUME r.kind = "regular", ~Passes(d), m = "merge" PROVE Weak(c.name, G)
  <2>1. Fits(c, G)
    <3>1. JudgingOK(m, r, h, G)
      BY <1>12 DEF DiscOK, RegularOK, G
    <3>2. Fits(r.candidates[1], G) /\ c = r.candidates[1]
      BY <1>2, <1>12, <3>1, TailIs DEF JudgingOK
    <3>3. QED
      BY <3>2
  <2>2. QED
    BY <1>3, <1>12, <2>1, WeakIs
<1>13. r.kind = "regular" =>
          /\ \A name : OnRecord(name, h) => OnRecord(name, h)
          /\ \/ next.kept = r.kept /\ (OnRecord(c.name, h) \/ (m = "merge" => Weak(c.name, G)))
             \/ \E d2 \in Cand : /\ d2.name = c.name /\ d2.price = c.price /\ d2.feed = c.feed
                                 /\ d2.sources = c.sources /\ Guarded(d2)
                                 /\ d2.score = ScoreOf(d2.change, d2.sources)
                                 /\ next.kept = Append(r.kept, d2)
  BY <1>4, <1>6, <1>10, <1>11, <1>12
<1>14. G = Gathered(r.heard, Range(Sources)) /\ next.candidates = Tail(r.candidates)
  BY <1>6, <1>10 DEF G
<1>15. next \in RunRec /\ next.at = r.at /\ next.kind = r.kind /\ next.sources = r.sources /\ next.heard = r.heard
  BY <1>10
<1>16. QED
  BY <1>1, <1>13, <1>14, <1>15, Judged

\* The candidate at the head is put on record.
LEMMA RecordedOn ==
    ASSUME NEW m, NEW r, NEW h, DiscOK(m, r, h), r.at = "judge", r.candidates # <<>>,
           NEW h2 \in HealthRec, h2.succeeded = h.succeeded, h2.failed = h.failed, Len(h2.withheld) <= MaxWithheld,
           r.kind = "regular" => /\ \A name : OnRecord(name, h) => OnRecord(name, h2)
                                 /\ OnRecord(Head(r.candidates).name, h2)
    PROVE  DiscOK(m, Rest(r), h2)
<1> DEFINE tail == Tail(r.candidates)
           rest == Rest(r)
<1>1. r \in RunRec /\ h \in HealthRec
  BY DEF DiscOK
<1>2. r.candidates \in Seq(Cand)
  BY <1>1, RunTypes
<1>3. tail \in Seq(Cand) /\ tail = Tail(r.candidates)
  BY <1>2, TailIs
<1> HIDE DEF tail
<1>4. /\ rest \in RunRec /\ rest.at = r.at /\ rest.kind = r.kind /\ rest.sources = r.sources /\ rest.heard = r.heard
      /\ rest.candidates = tail /\ rest.kept = r.kept
  BY <1>1, <1>3 DEF RunRec, Rest
<1> HIDE DEF rest
<1>5. QED
  BY <1>3, <1>4, Judged DEF rest

LEMMA JudgeMoves == ASSUME DiscoveryInv, NEW t \in Threads, Judge(t) PROVE Moves(t)
<1> DEFINE m == mode
           r == run[t]
           h == health[t]
           c == Head(r.candidates)
           regular == r.kind = "regular"
           rest == Rest(r)
           passing(d) == IF regular THEN Passes(d) ELSE PassesPremarket(d)
           next(d) == IF passing(d) THEN Keeping(r, d) ELSE rest
           excluded == IF regular THEN Append(h.excluded, c.name) ELSE h.excluded
           withheld(ours) == IF Len(h.withheld) < MaxWithheld
                             THEN Append(h.withheld, [name |-> c.name, why |-> Guard(c, ours)]) ELSE h.withheld
<1>1. r \in RunRec /\ h \in HealthRec /\ DiscOK(m, r, h)
  BY AtHand
<1>2. r.at = "judge" /\ r.candidates # <<>> /\ mode' = mode
  BY DEF Judge
<1>3. PICK byName \in BOOLEAN : Consider(t, byName)
  BY DEF Judge
<1>4. \/ /\ health' = [health EXCEPT ![t] = [h EXCEPT !.excluded = excluded]]
         /\ run' = [run EXCEPT ![t] = rest]
      \/ /\ regular /\ IsSuspect(c)
         /\ \E ours \in Recomputed :
               \/ /\ Guard(c, ours) = "ours"
                  /\ run' = [run EXCEPT ![t] = next(Verified(c, ours))]
                  /\ UNCHANGED health
               \/ /\ Guard(c, ours) # "ours"
                  /\ run' = [run EXCEPT ![t] = rest]
                  /\ health' = [health EXCEPT ![t] = [h EXCEPT !.withheld = withheld(ours)]]
      \/ /\ ~(regular /\ IsSuspect(c))
         /\ run' = [run EXCEPT ![t] = next(c)] /\ UNCHANGED health
  BY <1>3 DEF Consider, Rest, Keeping
<1>5. /\ r.candidates \in Seq(Cand) /\ Len(h.withheld) <= MaxWithheld
      /\ h.excluded \in Seq(Nat) /\ h.withheld \in Seq(Withholding)
  BY <1>1, RunTypes, HealthTypes DEF DiscOK
<1>6. c \in Cand /\ c = r.candidates[1] /\ 1 \in 1..Len(r.candidates)
  BY <1>2, <1>5, TailIs
<1>7. regular => c.change = c.feed
  BY <1>1, <1>2, <1>6 DEF DiscOK, RegularOK, JudgingOK, Own
<1>8. \A r2, h2 : /\ run' = [run EXCEPT ![t] = r2]
                  /\ health' = [health EXCEPT ![t] = h2] \/ (UNCHANGED health /\ h2 = h)
                  /\ DiscOK(m, r2, h2)
                  => Moves(t)
  BY <1>2, MovesTo
<1> HIDE DEF r, h, m
<1>9. ASSUME health' = [health EXCEPT ![t] = [h EXCEPT !.excluded = excluded]], run' = [run EXCEPT ![t] = rest]
      PROVE  Moves(t)
  <2> DEFINE h2 == [h EXCEPT !.excluded = excluded]
             n == Len(h.excluded)
  <2>1. excluded \in Seq(Nat) /\ Range(h.excluded) \subseteq Range(excluded)
        /\ (regular => c.name \in Range(excluded))
    <3>1. CASE regular
      <4>1. c.name \in Nat /\ excluded = Append(h.excluded, c.name)
        BY <1>6, <3>1, CandTypes
      <4> HIDE DEF excluded, c
      <4>2. /\ excluded \in Seq(Nat) /\ Len(excluded) = n + 1 /\ n \in Nat
            /\ \A i \in 1..n : excluded[i] = h.excluded[i] /\ i \in 1..(n + 1)
            /\ excluded[n + 1] = c.name /\ n + 1 \in 1..(n + 1)
        BY <1>5, <4>1, AppendIs
      <4>3. DOMAIN excluded = 1..(n + 1) /\ DOMAIN h.excluded = 1..n
        BY <1>5, <4>2
      <4> HIDE DEF n
      <4>4. QED
        BY <4>2, <4>3 DEF Range
    <3>2. CASE ~regular
      BY <1>5, <3>2
    <3>3. QED
      BY <3>1, <3>2
  <2> HIDE DEF excluded, c, rest
  <2>2. /\ h2 \in HealthRec /\ h2.succeeded = h.succeeded /\ h2.failed = h.failed /\ h2.withheld = h.withheld
        /\ h2.excluded = excluded
    BY <1>1, <2>1 DEF HealthRec
  <2> HIDE DEF h2
  <2>3. \A name : OnRecord(name, h) => OnRecord(name, h2)
    BY <2>1, <2>2 DEF OnRecord
  <2>4. regular => OnRecord(c.name, h2)
    BY <2>1, <2>2 DEF OnRecord
  <2>5. DiscOK(m, rest, h2)
    BY <1>1, <1>2, <1>5, <2>2, <2>3, <2>4, RecordedOn DEF rest, c
  <2>6. QED
    BY <1>8, <1>9, <2>5 DEF h2
<1>10. ASSUME NEW ours \in Recomputed, regular, IsSuspect(c), Guard(c, ours) = "ours",
              run' = [run EXCEPT ![t] = next(Verified(c, ours))], UNCHANGED health
       PROVE  Moves(t)
  <2> DEFINE d == Verified(c, ours)
  <2>1. ours \in Int /\ ours # Unknown /\ (Agree(c.change, ours) \/ Abs(ours) < Suspect)
    <3>1. ours # Unknown /\ (Agree(c.change, ours) \/ ~(Abs(ours) >= Suspect))
      BY <1>10 DEF Guard
    <3>2. ours \in Int
      BY <3>1, DiscoveryNumbers
    <3>3. Abs(ours) \in Nat /\ Suspect \in Nat
      BY <3>2, AbsIsNat, DiscoveryNumbers
    <3>4. QED
      BY <3>1, <3>2, <3>3
  <2>2. /\ d \in Cand /\ d.name = c.name /\ d.price = c.price /\ d.feed = c.feed /\ d.sources = c.sources
        /\ d.change = ours /\ d.verified /\ d.dir = (IF ours < 0 THEN "short" ELSE "long")
    BY <1>6, <2>1, VerifiedIs
  <2>3. Abs(c.feed) >= Suspect /\ Suspect > 0
    BY <1>7, <1>10 DEF IsSuspect
  <2> DEFINE after == next(d)
  <2>4. after = Keeping(r, d) \/ (after = Rest(r) /\ (r.kind = "regular" => ~Passes(d)))
    OBVIOUS
  <2> HIDE DEF d, after, next, passing
  <2>7. Guarded(d)
    BY <1>7, <1>10, <2>1, <2>2, <2>3 DEF Guarded
  <2>8. DiscOK(m, after, h)
    <3>1. c = Head(r.candidates)
      OBVIOUS
    <3> HIDE DEF rest, c
    <3>2. r.kind = "regular" => Guarded(d) /\ (d.change = c.feed \/ (Abs(c.feed) >= Suspect /\ d.change \in Recomputed \ {Unknown}))
      BY <2>1, <2>2, <2>3, <2>7
    <3>3. QED
      BY <1>1, <1>2, <2>2, <2>4, <3>1, <3>2, PassOn
  <2>9. QED
    BY <1>8, <1>10, <2>8 DEF after, d
<1>11. ASSUME NEW ours \in Recomputed, regular, Guard(c, ours) # "ours", run' = [run EXCEPT ![t] = rest],
              health' = [health EXCEPT ![t] = [h EXCEPT !.withheld = withheld(ours)]]
       PROVE  Moves(t)
  <2> DEFINE w == [name |-> c.name, why |-> Guard(c, ours)]
             list == withheld(ours)
             h2 == [h EXCEPT !.withheld = list]
             n == Len(h.withheld)
  <2>1. w \in Withholding /\ w.name = c.name
    BY <1>6, <1>11, CandTypes DEF Guard, Withholding
  <2>2. list = IF n < MaxWithheld THEN Append(h.withheld, w) ELSE h.withheld
    OBVIOUS
  <2>3. n \in Nat /\ MaxWithheld \in Nat /\ n <= MaxWithheld
    BY <1>5, DiscoveryNumbers
  <2>4. h2 = [h EXCEPT !.withheld = list]
    OBVIOUS
  <2> HIDE DEF w, list, h2, c
  <2>5. /\ list \in Seq(Withholding) /\ Len(list) <= MaxWithheld /\ Range(h.withheld) \subseteq Range(list)
        /\ n = MaxWithheld => Len(list) = MaxWithheld
        /\ w \in Range(list) \/ Len(list) = MaxWithheld
    <3>1. CASE n < MaxWithheld
      <4>1. /\ list \in Seq(Withholding) /\ Len(list) = n + 1
            /\ \A i \in 1..n : list[i] = h.withheld[i] /\ i \in 1..(n + 1)
            /\ list[n + 1] = w /\ n + 1 \in 1..(n + 1)
        BY <1>5, <2>1, <2>2, <3>1, AppendIs
      <4>2. DOMAIN list = 1..(n + 1) /\ DOMAIN h.withheld = 1..n
        BY <1>5, <4>1
      <4> HIDE DEF n
      <4>3. Range(h.withheld) \subseteq Range(list) /\ w \in Range(list)
        BY <4>1, <4>2 DEF Range
      <4>4. QED
        BY <2>3, <3>1, <4>1, <4>3
    <3>2. CASE ~(n < MaxWithheld)
      BY <1>5, <2>2, <2>3, <3>2
    <3>3. QED
      BY <3>1, <3>2
  <2>6. /\ h2 \in HealthRec /\ h2.succeeded = h.succeeded /\ h2.failed = h.failed /\ h2.excluded = h.excluded
        /\ h2.withheld = list
    BY <1>1, <2>4, <2>5 DEF HealthRec
  <2>7. \A name : OnRecord(name, h) => OnRecord(name, h2)
    BY <2>5, <2>6 DEF OnRecord
  <2>8. OnRecord(c.name, h2)
    BY <2>1, <2>5, <2>6 DEF OnRecord
  <2>9. DiscOK(m, rest, h2)
    BY <1>1, <1>2, <2>5, <2>6, <2>7, <2>8, RecordedOn DEF c, rest
  <2> HIDE DEF rest
  <2>10. QED
    BY <1>8, <1>11, <2>9 DEF h2, list
<1>12. ASSUME ~(regular /\ IsSuspect(c)), run' = [run EXCEPT ![t] = next(c)], UNCHANGED health
       PROVE  Moves(t)
  <2> DEFINE after == next(c)
  <2>1. after = Keeping(r, c) \/ (after = Rest(r) /\ (r.kind = "regular" => ~Passes(c)))
    OBVIOUS
  <2>4. regular => Guarded(c)
    BY <1>7, <1>12 DEF Guarded, IsSuspect
  <2>5. DiscOK(m, after, h)
    <3>1. c = Head(r.candidates)
      OBVIOUS
    <3> HIDE DEF rest, c, after, next, passing
    <3>2. r.kind = "regular" => Guarded(c) /\ (c.change = c.feed \/ (Abs(c.feed) >= Suspect /\ c.change \in Recomputed \ {Unknown}))
      BY <1>7, <2>4
    <3>3. c \in Cand /\ c.name = c.name /\ c.price = c.price /\ c.feed = c.feed /\ c.sources = c.sources
      BY <1>6
    <3>4. QED
      BY <1>1, <1>2, <2>1, <3>1, <3>2, <3>3, PassOn
  <2>6. QED
    BY <1>8, <1>12, <2>5
<1>13. QED
  BY <1>4, <1>9, <1>10, <1>11, <1>12

---------------------------------------------------------------------------
(* The list, in order and cut.                                             *)

\* Two records of one candidate: enrichment and the halts may tell them apart.
Same(c, d) ==
    /\ c.name = d.name /\ c.price = d.price /\ c.change = d.change /\ c.dir = d.dir
    /\ c.sources = d.sources /\ c.feed = d.feed /\ c.verified = d.verified

\* Each of the new list is one of the old list's, and no two are the same one.
Kin(new, old) ==
    \E at \in [1..Len(new) -> 1..Len(old)] :
        /\ \A j, k \in 1..Len(new) : at[j] = at[k] => j = k
        /\ \A k \in 1..Len(new) : Same(new[k], old[at[k]])

\* One of the old list is in the new one, or that is full of others which score as much.
Chosen(new, old) ==
    \A i \in 1..Len(old) :
        \/ \E k \in 1..Len(new) : Same(new[k], old[i])
        \/ /\ Limit > 0 /\ Len(new) = Limit
           /\ \A k \in 1..Len(new) : \E j \in 1..Len(old) : Same(new[k], old[j]) /\ old[j].score >= old[i].score

LEMMA TopIs ==
    ASSUME NEW T, NEW list \in Seq(T), NEW n \in Nat
    PROVE  /\ Top(list, n) \in Seq(T) /\ Len(list) \in Nat
           /\ Len(Top(list, n)) = IF n < Len(list) THEN n ELSE Len(list)
           /\ \A k \in 1..Len(Top(list, n)) : Top(list, n)[k] = list[k] /\ k \in 1..Len(list)
<1> DEFINE m == IF n < Len(list) THEN n ELSE Len(list)
<1>1. m \in Nat /\ Len(list) \in Nat /\ m <= Len(list)
  OBVIOUS
<1>2. Top(list, n) = SubSeq(list, 1, m)
  BY DEF Top
<1> HIDE DEF m
<1>3. /\ SubSeq(list, 1, m) \in Seq(T) /\ Len(SubSeq(list, 1, m)) = m
      /\ \A k \in 1..m : SubSeq(list, 1, m)[k] = list[k] /\ k \in 1..Len(list)
  BY <1>1
<1>4. QED
  BY <1>1, <1>2, <1>3 DEF m

LEMMA RankedAre ==
    ASSUME NEW items \in Seq(Cand)
    PROVE  /\ Ranked(items) \in Seq(Cand) /\ Len(Ranked(items)) = Len(items)
           /\ \E order \in [1..Len(items) -> 1..Len(items)] :
                 /\ \A k \in 1..Len(items) : Ranked(items)[k] = items[order[k]]
                 /\ \A i \in 1..Len(items) : \E k \in 1..Len(items) : order[k] = i
                 /\ \A j, k \in 1..Len(items) : order[j] = order[k] => j = k
                 /\ \A j, k \in 1..Len(items) : j < k => items[order[j]].score >= items[order[k]].score
<1> DEFINE n == Len(items)
           key == [i \in DOMAIN items |-> items[i].score]
           out == Ranked(items)
<1>1. DOMAIN items = 1..n /\ \A i \in 1..n : items[i] \in Cand
  OBVIOUS
<1>2. \A i \in 1..n : key[i] = items[i].score /\ key[i] \in Int
  <2>1. \A i \in DOMAIN items : key[i] = items[i].score
    OBVIOUS
  <2>2. \A i \in 1..n : items[i].score \in 0..1000
    BY <1>1, CandTypes
  <2>3. \A x \in 0..1000 : x \in Int
    OBVIOUS
  <2>4. \A i \in 1..n : items[i].score \in Int
    BY <2>2, <2>3
  <2> HIDE DEF key, n
  <2>5. QED
    BY <1>1, <2>1, <2>4
<1>3. out = Sorted(items, key)
  BY DEF Ranked
<1> HIDE DEF key, out
<1>4. /\ out \in Seq(Cand) /\ Len(out) = n /\ Cardinality(1..n) = n
      /\ \E order : Arranges(order, out, items, 1..n, key)
  BY <1>2, <1>3, SortedAre
<1>5. PICK order : Arranges(order, out, items, 1..n, key)
  BY <1>4
<1>6. /\ order \in [1..n -> 1..n] /\ out = [k \in 1..n |-> items[order[k]]]
      /\ \A i \in 1..n : \E k \in 1..n : order[k] = i
      /\ \A j, k \in 1..n : order[j] = order[k] => j = k
      /\ \A j, k \in 1..n : j < k => key[order[j]] >= key[order[k]]
  BY <1>4, <1>5 DEF Arranges
<1> HIDE DEF n
<1>7. /\ \A k \in 1..n : out[k] = items[order[k]]
      /\ \A j, k \in 1..n : j < k => items[order[j]].score >= items[order[k]].score
  BY <1>2, <1>6
<1>8. QED
  BY <1>4, <1>6, <1>7 DEF n, out

LEMMA EnrichedIs ==
    ASSUME NEW c \in Cand, NEW found \in Scores \cup {Unknown}
    PROVE  Enriched(c, found) \in Cand /\ Same(Enriched(c, found), c)
<1>1. CASE found = Unknown
  BY <1>1 DEF Enriched, Same
<1>2. CASE found # Unknown
  <2>1. found \in 0..1000
    BY <1>2, DiscoveryNumbers
  <2>2. Enriched(c, found) = [c EXCEPT !.score = found, !.enriched = TRUE]
    BY <1>2 DEF Enriched
  <2>3. [c EXCEPT !.score = found, !.enriched = TRUE] \in Cand
    BY <2>1 DEF Cand
  <2>4. QED
    BY <2>2, <2>3 DEF Cand, Same
<1>3. QED
  BY <1>1, <1>2

\* The top of the list, enriched
EnrichedTop(top, found) ==
    [i \in DOMAIN top |-> IF i \in DOMAIN found THEN Enriched(top[i], found[i]) ELSE top[i]]

LEMMA EnrichedTopIs ==
    ASSUME NEW top \in Seq(Cand), NEW found \in [DOMAIN Top(top, EnrichMax) -> Scores \cup {Unknown}]
    PROVE  /\ EnrichedTop(top, found) \in Seq(Cand) /\ Len(EnrichedTop(top, found)) = Len(top)
           /\ \A k \in 1..Len(top) : Same(EnrichedTop(top, found)[k], top[k])
<1> DEFINE out == EnrichedTop(top, found)
           n == Len(top)
<1>1. DOMAIN top = 1..n /\ n \in Nat /\ \A i \in 1..n : top[i] \in Cand
  OBVIOUS
<1>2. \A i \in DOMAIN found : found[i] \in Scores \cup {Unknown}
  OBVIOUS
<1> HIDE DEF n
<1>3. ASSUME NEW i \in 1..n PROVE out[i] \in Cand /\ Same(out[i], top[i])
  <2>1. out[i] = IF i \in DOMAIN found THEN Enriched(top[i], found[i]) ELSE top[i]
    BY <1>1 DEF EnrichedTop
  <2>2. CASE i \in DOMAIN found
    <3>1. found[i] \in Scores \cup {Unknown} /\ top[i] \in Cand
      BY <1>1, <1>2, <2>2
    <3>2. Enriched(top[i], found[i]) \in Cand /\ Same(Enriched(top[i], found[i]), top[i])
      BY <3>1, EnrichedIs
    <3>3. QED
      BY <2>1, <2>2, <3>2
  <2>3. CASE i \notin DOMAIN found
    BY <1>1, <2>1, <2>3 DEF Same
  <2>4. QED
    BY <2>2, <2>3
<1>4. out = [i \in 1..n |-> out[i]]
  BY <1>1 DEF EnrichedTop
<1> HIDE DEF out
<1>5. out \in Seq(Cand) /\ Len(out) = n
  BY <1>1, <1>3, <1>4
<1>6. QED
  BY <1>3, <1>5 DEF out, n

LEMMA RankIs ==
    ASSUME NEW kept \in Seq(Cand), NEW kind \in {"regular", "premarket"}, NEW top, top = Capped(kind, Leading(kind, kept)),
           NEW found \in [DOMAIN Top(top, EnrichMax) -> Scores \cup {Unknown}]
    PROVE  LET new == Ranked(EnrichedTop(top, found)) IN
           /\ new \in Seq(Cand)
           /\ kind = "regular" => Kin(new, kept) /\ Chosen(new, kept)
<1> DEFINE lead == Leading(kind, kept)
           sorted == Ranked(lead)
           rich == EnrichedTop(top, found)
           new == Ranked(rich)
           n == Len(kept)
           m == Len(top)
<1>1. lead \in Seq(Cand)
  <2>1. CASE kind = "regular"
    BY <2>1 DEF Leading
  <2>2. CASE kind # "regular"
    <3> DEFINE key == [i \in DOMAIN kept |-> -kept[i].name]
               byName == Sorted(kept, key)
               key2 == [i \in DOMAIN byName |-> Abs(byName[i].change)]
    <3>1. \A i \in 1..Len(kept) : key[i] \in Int
      BY CandTypes
    <3> HIDE DEF key
    <3>2. byName \in Seq(Cand)
      BY <3>1, SortedAre
    <3> HIDE DEF byName
    <3>3. \A i \in 1..Len(byName) : key2[i] \in Int
      <4>1. DOMAIN byName = 1..Len(byName) /\ \A i \in 1..Len(byName) : byName[i] \in Cand
        BY <3>2
      <4>2. \A i \in 1..Len(byName) : Abs(byName[i].change) \in Nat
        BY <4>1, CandTypes, AbsIsNat
      <4>3. QED
        BY <4>1, <4>2
    <3> HIDE DEF key2
    <3>4. Sorted(byName, key2) \in Seq(Cand)
      BY <3>2, <3>3, SortedAre
    <3>5. lead = Top(Sorted(byName, key2), PremarketLimit)
      BY <2>2 DEF Leading, byName, key, key2
    <3>6. QED
      BY <3>4, <3>5, TopIs, DiscoveryNumbers
  <2>3. QED
    BY <2>1, <2>2
<1>2. top = IF kind = "regular" /\ Limit > 0 THEN Top(sorted, Limit) ELSE sorted
  BY DEF Capped
<1> HIDE DEF lead
<1>3. sorted \in Seq(Cand) /\ Len(sorted) = Len(lead)
  BY <1>1, RankedAre
<1> HIDE DEF sorted
<1>4. /\ top \in Seq(Cand) /\ m \in Nat
      /\ \A k \in 1..m : top[k] = sorted[k] /\ k \in 1..Len(sorted)
      /\ m = Len(sorted) \/ (Limit > 0 /\ m = Limit /\ m < Len(sorted))
  <2>1. CASE kind = "regular" /\ Limit > 0
    <3>1. top = Top(sorted, Limit) /\ Limit \in Nat
      BY <1>2, <2>1, DiscoveryNumbers
    <3>2. QED
      BY <1>3, <2>1, <3>1, TopIs
  <2>2. CASE ~(kind = "regular" /\ Limit > 0)
    BY <1>2, <1>3, <2>2
  <2>3. QED
    BY <2>1, <2>2
<1>5. rich \in Seq(Cand) /\ Len(rich) = m /\ \A k \in 1..m : Same(rich[k], top[k])
  BY <1>4, EnrichedTopIs
<1> HIDE DEF rich
<1>6. new \in Seq(Cand) /\ Len(new) = m
  BY <1>5, RankedAre
<1>7. PICK order2 \in [1..m -> 1..m] :
         /\ \A k \in 1..m : new[k] = rich[order2[k]]
         /\ \A i \in 1..m : \E k \in 1..m : order2[k] = i
         /\ \A j, k \in 1..m : order2[j] = order2[k] => j = k
  BY <1>5, RankedAre
<1> HIDE DEF new
<1>8. ASSUME kind = "regular" PROVE Kin(new, kept) /\ Chosen(new, kept)
  <2>1. lead = kept
    BY <1>8 DEF Leading, lead
  <2>2. n \in Nat /\ Len(sorted) = n
    BY <1>3, <2>1
  <2>3. PICK order \in [1..n -> 1..n] :
           /\ \A k \in 1..n : sorted[k] = kept[order[k]]
           /\ \A i \in 1..n : \E k \in 1..n : order[k] = i
           /\ \A j, k \in 1..n : order[j] = order[k] => j = k
           /\ \A j, k \in 1..n : j < k => kept[order[j]].score >= kept[order[k]].score
    BY <2>1, RankedAre DEF sorted
  <2> DEFINE at == [k \in 1..m |-> order[order2[k]]]
  <2> HIDE DEF n, m
  <2>4. \A k \in 1..m : order2[k] \in 1..m /\ order2[k] \in 1..n /\ order2[k] <= m
    <3>1. \A k \in 1..m : order2[k] \in 1..m
      OBVIOUS
    <3>2. \A k \in 1..m : k \in 1..n
      BY <1>4, <2>2
    <3>3. \A k \in 1..m : k <= m
      OBVIOUS
    <3>4. QED
      BY <3>1, <3>2, <3>3
  <2>5. /\ at \in [1..m -> 1..n] /\ \A j, k \in 1..m : at[j] = at[k] => j = k
        /\ \A k \in 1..m : at[k] = order[order2[k]]
    <3>1. \A k \in 1..m : at[k] = order[order2[k]]
      OBVIOUS
    <3>2. \A k \in 1..m : order[order2[k]] \in 1..n
      BY <2>4
    <3>3. at \in [1..m -> 1..n]
      BY <3>2
    <3> HIDE DEF at
    <3>4. \A j, k \in 1..m : at[j] = at[k] => order2[j] = order2[k]
      BY <2>3, <2>4, <3>1
    <3>5. QED
      BY <1>7, <3>1, <3>3, <3>4
  <2> HIDE DEF at
  <2>6. \A k \in 1..m : Same(new[k], kept[at[k]])
    <3> SUFFICES ASSUME NEW k \in 1..m PROVE Same(new[k], kept[at[k]])
      OBVIOUS
    <3>1. new[k] = rich[order2[k]] /\ Same(rich[order2[k]], top[order2[k]])
      BY <1>5, <1>7, <2>4
    <3>2. top[order2[k]] = kept[at[k]]
      <4>1. order2[k] \in 1..m /\ order2[k] \in 1..n
        BY <2>4
      <4>2. top[order2[k]] = sorted[order2[k]]
        BY <1>4, <4>1
      <4>3. sorted[order2[k]] = kept[order[order2[k]]]
        BY <2>3, <4>1
      <4>4. QED
        BY <2>5, <4>2, <4>3
    <3>3. QED
      BY <3>1, <3>2
  <2>7. Kin(new, kept)
    BY <1>6, <2>5, <2>6 DEF Kin, n
  <2>8. ASSUME NEW i \in 1..n
        PROVE  \/ \E k \in 1..m : Same(new[k], kept[i])
               \/ /\ Limit > 0 /\ m = Limit
                  /\ \A k \in 1..m : \E j \in 1..n : Same(new[k], kept[j]) /\ kept[j].score >= kept[i].score
    <3>1. PICK p \in 1..n : order[p] = i
      BY <2>3
    <3>2. CASE p \in 1..m
      <4>1. PICK k \in 1..m : order2[k] = p
        BY <1>7, <3>2
      <4>2. at[k] = i
        BY <2>5, <3>1, <4>1
      <4>3. QED
        BY <2>6, <4>2
    <3>3. CASE p \notin 1..m
      <4>1. p > m /\ Limit > 0 /\ m = Limit
        BY <1>4, <2>2, <3>3
      <4>2. ASSUME NEW k \in 1..m PROVE kept[at[k]].score >= kept[i].score /\ at[k] \in 1..n
        <5>1. order2[k] < p /\ order2[k] \in 1..n
          BY <1>4, <2>4, <4>1
        <5>2. QED
          BY <2>3, <2>5, <3>1, <5>1
      <4>3. QED
        BY <2>6, <4>1, <4>2
    <3>4. QED
      BY <3>2, <3>3
  <2>9. Chosen(new, kept)
    BY <1>6, <2>8 DEF Chosen, n
  <2>10. QED
    BY <2>7, <2>9
<1>9. QED
  BY <1>6, <1>8 DEF new, rich

LEMMA SameGuarded ==
    \A c, d, G : Same(c, d) => (Guarded(d) => Guarded(c)) /\ (Fits(d, G) => Fits(c, G))
                               /\ ScoreOf(c.change, c.sources) = ScoreOf(d.change, d.sources)
<1>1. \A c, d : Same(c, d) /\ Guarded(d) => Guarded(c)
  BY DEF Same, Guarded
<1>2. \A c, d, G : Same(c, d) /\ Fits(d, G) => Fits(c, G)
  BY DEF Same, Fits
<1>3. \A c, d : Same(c, d) => ScoreOf(c.change, c.sources) = ScoreOf(d.change, d.sources)
  BY DEF Same
<1>4. QED
  BY <1>1, <1>2, <1>3

\* What is kept stays guarded and fitting, name by name, when a list is of another one's.
LEMMA KinAre ==
    ASSUME NEW new, NEW old, Kin(new, old), Distinct(old), \A i \in 1..Len(old) : Guarded(old[i])
    PROVE  /\ Distinct(new) /\ \A i \in 1..Len(new) : Guarded(new[i])
           /\ \A G : (\A i \in 1..Len(old) : Fits(old[i], G)) => \A i \in 1..Len(new) : Fits(new[i], G)
<1>1. PICK at \in [1..Len(new) -> 1..Len(old)] :
         /\ \A j, k \in 1..Len(new) : at[j] = at[k] => j = k
         /\ \A k \in 1..Len(new) : Same(new[k], old[at[k]])
  BY DEF Kin
<1>2. \A k \in 1..Len(new) : at[k] \in 1..Len(old)
  OBVIOUS
<1>3. Distinct(new)
  <2> SUFFICES ASSUME NEW i \in 1..Len(new), NEW j \in 1..Len(new), new[i].name = new[j].name PROVE i = j
    BY DEF Distinct
  <2>1. old[at[i]].name = old[at[j]].name
    BY <1>1 DEF Same
  <2>2. QED
    BY <1>1, <1>2, <2>1 DEF Distinct
<1>4. QED
  BY <1>1, <1>2, <1>3, SameGuarded

\* What is common to the states after the loop over the candidates
LEMMA StandsOn ==
    ASSUME NEW m, NEW r, NEW h, r.kind = "regular", RegularOK(m, r, h),
           r.at \in {"judge", "halts", "claim"}, r.candidates = <<>>,
           NEW r2, NEW h2, r2.kind = r.kind, r2.sources = r.sources, r2.heard = r.heard, r2.candidates = r.candidates,
           r2.at \in {"halts", "claim", "done"}, h2.succeeded = h.succeeded, h2.failed = h.failed,
           Kin(r2.kept, r.kept), NEW G, G = Gathered(r.heard, Range(Sources)),
           m = "merge" => \A x \in G : Known(x[2].name, G, r2, h2)
    PROVE  RegularOK(m, r2, h2)
<1>1. SourcesOK(r) /\ HeardOK(r) /\ OutagesOK(m, r, h) /\ JudgingOK(m, r, h, G)
  BY DEF RegularOK
<1>2. Past(r2) = Past(r)
  BY DEF Past
<1>3. SourcesOK(r2) /\ HeardOK(r2) /\ OutagesOK(m, r2, h2)
  BY <1>1, <1>2 DEF SourcesOK, HeardOK, OutagesOK
<1>4. Distinct(r.kept) /\ \A i \in 1..Len(r.kept) : Guarded(r.kept[i])
  BY <1>1 DEF JudgingOK
<1>5. /\ Distinct(r2.kept) /\ \A i \in 1..Len(r2.kept) : Guarded(r2.kept[i])
      /\ (\A i \in 1..Len(r.kept) : Fits(r.kept[i], G)) => \A i \in 1..Len(r2.kept) : Fits(r2.kept[i], G)
  BY <1>4, KinAre
<1>6. Distinct(<<>>) /\ Len(<<>>) = 0
  BY NothingYet
<1>7. JudgingOK(m, r2, h2, G)
  <2>1. \A i \in 1..Len(r2.candidates) : FALSE
    BY <1>6
  <2>2. m = "merge" => \A i \in 1..Len(r2.kept) : Fits(r2.kept[i], G)
    BY <1>1, <1>5 DEF JudgingOK
  <2>3. QED
    BY <1>5, <1>6, <2>1, <2>2 DEF JudgingOK
<1>8. QED
  BY <1>3, <1>7 DEF RegularOK

LEMMA RankedOn ==
    ASSUME NEW m, NEW r, NEW h, DiscOK(m, r, h), r.at = "judge", r.candidates = <<>>, NEW r2 \in RunRec,
           r2.kind = r.kind, r2.sources = r.sources, r2.heard = r.heard, r2.candidates = r.candidates, r2.at = "halts",
           r.kind = "regular" => Kin(r2.kept, r.kept) /\ Chosen(r2.kept, r.kept)
    PROVE  DiscOK(m, r2, h)
<1> DEFINE G == Gathered(r.heard, Range(Sources))
<1>1. ASSUME r.kind = "regular" PROVE RegularOK(m, r2, h)
  <2>1. RegularOK(m, r, h)
    BY <1>1 DEF DiscOK
  <2>2. JudgingOK(m, r, h, G)
    BY <2>1 DEF RegularOK
  <2>3. ASSUME m = "merge", NEW x \in G PROVE Known(x[2].name, G, r2, h)
    <3> DEFINE name == x[2].name
    <3>1. Known(name, G, r, h)
      BY <2>2, <2>3 DEF JudgingOK
    <3>2. /\ \A i \in 1..Len(r.kept) : /\ Guarded(r.kept[i]) /\ Fits(r.kept[i], G)
                                       /\ r.kept[i].score = ScoreOf(r.kept[i].change, r.kept[i].sources)
      BY <2>2, <2>3 DEF JudgingOK
    <3> HIDE DEF name, G
    <3>3. ASSUME NEW i \in 1..Len(r.kept), r.kept[i].name = name
          PROVE  IsIn(name, r2.kept) \/ Outranked(name, r2.kept, G)
      <4> DEFINE c == r.kept[i]
      <4>1. CASE \E k \in 1..Len(r2.kept) : Same(r2.kept[k], c)
        BY <3>3, <4>1 DEF Same, IsIn
      <4>2. CASE /\ Limit > 0 /\ Len(r2.kept) = Limit
                 /\ \A k \in 1..Len(r2.kept) : \E j \in 1..Len(r.kept) :
                       Same(r2.kept[k], r.kept[j]) /\ r.kept[j].score >= c.score
        <5>1. Guarded(c) /\ Fits(c, G) /\ c.score = ScoreOf(c.change, c.sources) /\ c.name = name
          BY <3>2, <3>3
        <5>2. \A k \in 1..Len(r2.kept) : ScoreOf(r2.kept[k].change, r2.kept[k].sources) >= ScoreOf(c.change, c.sources)
          <6> SUFFICES ASSUME NEW k \in 1..Len(r2.kept)
                       PROVE  ScoreOf(r2.kept[k].change, r2.kept[k].sources) >= ScoreOf(c.change, c.sources)
            OBVIOUS
          <6>1. PICK j \in 1..Len(r.kept) : Same(r2.kept[k], r.kept[j]) /\ r.kept[j].score >= c.score
            BY <4>2
          <6>2. ScoreOf(r2.kept[k].change, r2.kept[k].sources) = r.kept[j].score
            BY <3>2, <6>1, SameGuarded
          <6>3. QED
            BY <5>1, <6>1, <6>2
        <5> HIDE DEF c
        <5>3. PICK y \in G : y[2].name = c.name /\ y[2].price = c.price /\ y[2].change = c.feed
          BY <5>1 DEF Fits
        <5>4. c.sources = Tellers(name, G)
          BY <5>1 DEF Fits, Tellers
        <5>5. Abs(y[2].change) >= Suspect \/ c.change = y[2].change
          BY <5>1, <5>3 DEF Guarded
        <5>6. \A k \in 1..Len(r2.kept) :
                 \/ Abs(y[2].change) >= Suspect
                 \/ ScoreOf(r2.kept[k].change, r2.kept[k].sources) >= ScoreOf(y[2].change, Tellers(name, G))
          BY <5>2, <5>4, <5>5
        <5>7. QED
          BY <4>2, <5>1, <5>3, <5>6 DEF Outranked
      <4>3. QED
        BY <1>1, <3>3, <4>1, <4>2 DEF Chosen
    <3>4. IsIn(name, r.kept) => IsIn(name, r2.kept) \/ Outranked(name, r2.kept, G)
      BY <3>3 DEF IsIn
    <3>5. ~IsIn(name, r.candidates)
      BY DEF IsIn
    <3>6. Known(name, G, r2, h)
      BY <3>1, <3>4, <3>5 DEF Known
    <3>7. QED
      BY <3>6 DEF name
  <2>4. QED
    BY <1>1, <2>1, <2>3, StandsOn
<1>2. QED
  BY <1>1 DEF DiscOK

\* Later steps leave the list as it is, but for what the halts say of it.
LEMMA LaterOn ==
    ASSUME NEW m, NEW r, NEW h, DiscOK(m, r, h), r.at \in {"halts", "claim"}, NEW r2 \in RunRec,
           r2.kind = r.kind, r2.sources = r.sources, r2.heard = r.heard, r2.candidates = r.candidates,
           r2.at \in {"claim", "done"},
           r.kind = "regular" => /\ Kin(r2.kept, r.kept)
                                 /\ ExcludeHalted \/ (Len(r2.kept) = Len(r.kept)
                                                      /\ \A k \in 1..Len(r.kept) : Same(r2.kept[k], r.kept[k])),
           NEW h2 \in HealthRec, h2.succeeded = h.succeeded, h2.failed = h.failed, h2.excluded = h.excluded,
           h2.withheld = h.withheld
    PROVE  DiscOK(m, r2, h2)
<1> DEFINE G == Gathered(r.heard, Range(Sources))
<1>1. ASSUME r.kind = "regular" PROVE RegularOK(m, r2, h2)
  <2>1. RegularOK(m, r, h)
    BY <1>1 DEF DiscOK
  <2>2. JudgingOK(m, r, h, G) /\ r.candidates = <<>>
    BY <2>1 DEF RegularOK, JudgingOK
  <2>3. ASSUME m = "merge", NEW x \in G PROVE Known(x[2].name, G, r2, h2)
    <3> DEFINE name == x[2].name
    <3>1. Known(name, G, r, h)
      BY <2>2, <2>3 DEF JudgingOK
    <3> HIDE DEF name, G
    <3>2. CASE ExcludeHalted
      BY <3>2 DEF Known, name
    <3>3. CASE Len(r2.kept) = Len(r.kept) /\ \A k \in 1..Len(r.kept) : Same(r2.kept[k], r.kept[k])
      <4>1. IsIn(name, r.kept) => IsIn(name, r2.kept)
        BY <3>3 DEF IsIn, Same
      <4>2. \A k \in 1..Len(r2.kept) : ScoreOf(r2.kept[k].change, r2.kept[k].sources) = ScoreOf(r.kept[k].change, r.kept[k].sources)
        BY <3>3, SameGuarded
      <4>3. Outranked(name, r.kept, G) => Outranked(name, r2.kept, G)
        BY <3>3, <4>2 DEF Outranked
      <4>4. OnRecord(name, h) => OnRecord(name, h2)
        BY DEF OnRecord
      <4>5. Known(name, G, r2, h2)
        BY <3>1, <4>1, <4>3, <4>4 DEF Known
      <4>6. QED
        BY <4>5 DEF name
    <3>4. QED
      BY <1>1, <3>2, <3>3
  <2>4. QED
    BY <1>1, <2>1, <2>2, <2>3, StandsOn
<1>2. QED
  BY <1>1 DEF DiscOK

LEMMA LooksOnMoves == ASSUME DiscoveryInv, NEW t \in Threads, JudgeLooksOn(t) PROVE Moves(t)
<1>1. UNCHANGED <<run, health, mode>>
  BY DEF JudgeLooksOn, discoveryVars
<1>2. DiscOK(mode, run[t], health[t])
  BY AtHand
<1>3. QED
  BY <1>1, <1>2, MovesTo

LEMMA RankMoves == ASSUME DiscoveryInv, NEW t \in Threads, Rank(t) PROVE Moves(t)
<1> DEFINE m == mode
           r == run[t]
           h == health[t]
           top == Capped(r.kind, Leading(r.kind, r.kept))
<1>1. r \in RunRec /\ DiscOK(m, r, h)
  BY AtHand
<1>2. r.at = "judge" /\ r.candidates = <<>> /\ UNCHANGED <<health, mode>>
  BY DEF Rank
<1>3. PICK found \in [DOMAIN Top(top, EnrichMax) -> Scores \cup {Unknown}] :
         run' = [run EXCEPT ![t] = [r EXCEPT !.kept = Ranked(EnrichedTop(top, found)), !.at = "halts"]]
  BY DEF Rank, EnrichedTop
<1> DEFINE kept == Ranked(EnrichedTop(top, found))
           r2 == [r EXCEPT !.kept = kept, !.at = "halts"]
<1>4. run' = [run EXCEPT ![t] = r2]
  BY <1>3
<1>5. r.kept \in Seq(Cand) /\ r.kind \in {"regular", "premarket"} /\ top = Capped(r.kind, Leading(r.kind, r.kept))
  BY <1>1, RunTypes
<1> HIDE DEF r, top
<1>6. kept \in Seq(Cand) /\ (r.kind = "regular" => Kin(kept, r.kept) /\ Chosen(kept, r.kept))
  BY <1>5, RankIs
<1> HIDE DEF kept
<1>7. /\ r2 \in RunRec /\ r2.kind = r.kind /\ r2.sources = r.sources /\ r2.heard = r.heard
      /\ r2.candidates = r.candidates /\ r2.at = "halts" /\ r2.kept = kept
  BY <1>1, <1>6 DEF RunRec
<1> HIDE DEF r2, h
<1>8. DiscOK(m, r2, h)
  BY <1>1, <1>2, <1>6, <1>7, RankedOn
<1>9. QED
  BY <1>2, <1>4, <1>8, MovesTo DEF h

\* The candidates, flagged with the halts
Flagged(kept, halted) ==
    [i \in DOMAIN kept |-> [kept[i] EXCEPT !.halted = @ \/ kept[i].name \in halted]]

LEMMA FlaggedAre ==
    ASSUME NEW kept \in Seq(Cand), NEW halted
    PROVE  /\ Flagged(kept, halted) \in Seq(Cand) /\ Len(Flagged(kept, halted)) = Len(kept)
           /\ \A k \in 1..Len(kept) : Same(Flagged(kept, halted)[k], kept[k])
<1> DEFINE out == Flagged(kept, halted)
           n == Len(kept)
<1>1. DOMAIN kept = 1..n /\ n \in Nat /\ \A i \in 1..n : kept[i] \in Cand
  OBVIOUS
<1>2. out = [i \in 1..n |-> [kept[i] EXCEPT !.halted = kept[i].halted \/ kept[i].name \in halted]]
  BY <1>1 DEF Flagged
<1> HIDE DEF out
<1>3. ASSUME NEW i \in 1..n PROVE out[i] \in Cand /\ Same(out[i], kept[i])
  <2> DEFINE c == kept[i]
             flag == c.halted \/ c.name \in halted
  <2>1. c \in Cand /\ flag \in BOOLEAN
    BY <1>1 DEF Cand
  <2>2. out[i] = [c EXCEPT !.halted = flag]
    BY <1>2
  <2> HIDE DEF c, flag
  <2>3. [c EXCEPT !.halted = flag] \in Cand /\ Same([c EXCEPT !.halted = flag], c)
    BY <2>1 DEF Cand, Same
  <2>4. QED
    BY <2>2, <2>3 DEF c
<1>4. out = [i \in 1..n |-> out[i]]
  BY <1>2
<1>5. out \in Seq(Cand) /\ Len(out) = n
  BY <1>1, <1>3, <1>4
<1>6. QED
  BY <1>3, <1>5 DEF out

LEMMA UnhaltedAre ==
    ASSUME NEW kept \in Seq(Cand), NEW flagged \in Seq(Cand), Len(flagged) = Len(kept),
           \A k \in 1..Len(kept) : Same(flagged[k], kept[k])
    PROVE  /\ Kin(flagged, kept)
           /\ LET rest == Picked(flagged, {i \in DOMAIN flagged : ~flagged[i].halted})
              IN  rest \in Seq(Cand) /\ Kin(rest, kept)
<1> DEFINE n == Len(kept)
           S == {i \in DOMAIN flagged : ~flagged[i].halted}
           rest == Picked(flagged, S)
<1>1. n \in Nat /\ DOMAIN flagged = 1..n
  OBVIOUS
<1>2. Kin(flagged, kept)
  <2> DEFINE at == [k \in 1..n |-> k]
  <2>1. at \in [1..n -> 1..n] /\ \A k \in 1..n : at[k] = k
    OBVIOUS
  <2> HIDE DEF at
  <2>2. QED
    BY <2>1 DEF Kin
<1>3. S \in SUBSET (1..Len(flagged)) /\ S \in SUBSET (1..n)
  BY <1>1
<1> HIDE DEF S
<1>4. /\ rest \in Seq(Cand)
      /\ \E order : Arranges(order, rest, flagged, S, [i \in S |-> 0])
  BY <1>3, PickedAre
<1>5. PICK order : Arranges(order, rest, flagged, S, [i \in S |-> 0])
  BY <1>4
<1> DEFINE m == Cardinality(S)
<1> HIDE DEF rest
<1>6. /\ m \in Nat /\ order \in [1..m -> S] /\ rest = [k \in 1..m |-> flagged[order[k]]]
      /\ \A j, k \in 1..m : order[j] = order[k] => j = k
  BY <1>5 DEF Arranges
<1> HIDE DEF m, n
<1>7. Len(rest) = m /\ order \in [1..m -> 1..n] /\ \A k \in 1..m : rest[k] = flagged[order[k]] /\ order[k] \in 1..n
  <2>1. order \in [1..m -> 1..n] /\ \A k \in 1..m : order[k] \in 1..n
    BY <1>3, <1>6
  <2>2. \A k \in 1..m : rest[k] = flagged[order[k]]
    BY <1>6
  <2>3. Len(rest) = m
    BY <1>4, <1>6
  <2>4. QED
    BY <2>1, <2>2, <2>3
<1>8. \A k \in 1..m : Same(rest[k], kept[order[k]])
  BY <1>7 DEF n
<1>9. Kin(rest, kept)
  <2>1. order \in [1..Len(rest) -> 1..Len(kept)]
    BY <1>7 DEF n
  <2>2. \A j, k \in 1..Len(rest) : order[j] = order[k] => j = k
    BY <1>6, <1>7
  <2>3. \A k \in 1..Len(rest) : Same(rest[k], kept[order[k]])
    BY <1>7, <1>8
  <2>4. QED
    BY <2>1, <2>2, <2>3 DEF Kin
<1>10. QED
  BY <1>2, <1>4, <1>9 DEF rest, S

LEMMA AnnotateHaltsMoves == ASSUME DiscoveryInv, NEW t \in Threads, AnnotateHalts(t) PROVE Moves(t)
<1> DEFINE m == mode
           r == run[t]
           h == health[t]
<1>1. r \in RunRec /\ h \in HealthRec /\ DiscOK(m, r, h)
  BY AtHand
<1>2. r.at = "halts" /\ UNCHANGED <<health, mode>>
  BY DEF AnnotateHalts
<1>3. PICK halted :
         LET flagged == Flagged(r.kept, halted)
         IN  run' = [run EXCEPT ![t] = [r EXCEPT
                !.kept = IF ExcludeHalted THEN Picked(flagged, {i \in DOMAIN flagged : ~flagged[i].halted})
                         ELSE flagged,
                !.at = "claim"]]
  BY DEF AnnotateHalts, Flagged
<1> DEFINE flagged == Flagged(r.kept, halted)
           unhalted == Picked(flagged, {i \in DOMAIN flagged : ~flagged[i].halted})
           kept == IF ExcludeHalted THEN unhalted ELSE flagged
           r2 == [r EXCEPT !.kept = kept, !.at = "claim"]
<1>4. run' = [run EXCEPT ![t] = r2]
  BY <1>3
<1>5. r.kept \in Seq(Cand)
  BY <1>1, RunTypes
<1> HIDE DEF r
<1>6. /\ flagged \in Seq(Cand) /\ Len(flagged) = Len(r.kept)
      /\ \A k \in 1..Len(r.kept) : Same(flagged[k], r.kept[k])
  BY <1>5, FlaggedAre
<1> HIDE DEF flagged
<1>7. Kin(flagged, r.kept) /\ unhalted \in Seq(Cand) /\ Kin(unhalted, r.kept)
  BY <1>5, <1>6, UnhaltedAre
<1> HIDE DEF unhalted
<1>8. kept \in Seq(Cand) /\ Kin(kept, r.kept) /\ (ExcludeHalted \/ kept = flagged)
  BY <1>6, <1>7
<1> HIDE DEF kept
<1>9. /\ r2 \in RunRec /\ r2.kind = r.kind /\ r2.sources = r.sources /\ r2.heard = r.heard
      /\ r2.candidates = r.candidates /\ r2.at = "claim" /\ r2.kept = kept
  BY <1>1, <1>8 DEF RunRec
<1> HIDE DEF r2, h
<1>10. DiscOK(m, r2, h)
  BY <1>1, <1>2, <1>6, <1>8, <1>9, LaterOn
<1>11. QED
  BY <1>2, <1>4, <1>10, MovesTo DEF h

LEMMA ClaimMoves == ASSUME DiscoveryInv, NEW t \in Threads, Claim(t) PROVE Moves(t)
<1> DEFINE m == mode
           r == run[t]
           h == health[t]
           claim == IF r.kind = "premarket" THEN h.claim ELSE IF lastOk THEN "asset_names" ELSE "symbol_suffix"
           r2 == [r EXCEPT !.at = "done"]
           h2 == [h EXCEPT !.claim = claim]
<1>1. r \in RunRec /\ h \in HealthRec /\ DiscOK(m, r, h)
  BY AtHand
<1>2. r.at = "claim" /\ mode' = mode /\ run' = [run EXCEPT ![t] = r2]
  BY DEF Claim
<1>3. health' = [health EXCEPT ![t] = h2]
  BY DEF Claim
<1> HIDE DEF r, h
<1>4. claim \in {"none", "asset_names", "symbol_suffix"}
  BY <1>1, HealthTypes
<1> HIDE DEF claim
<1>5. /\ r2 \in RunRec /\ r2.kind = r.kind /\ r2.sources = r.sources /\ r2.heard = r.heard
      /\ r2.candidates = r.candidates /\ r2.at = "done" /\ r2.kept = r.kept
  BY <1>1 DEF RunRec
<1>6. /\ h2 \in HealthRec /\ h2.succeeded = h.succeeded /\ h2.failed = h.failed /\ h2.excluded = h.excluded
      /\ h2.withheld = h.withheld
  BY <1>1, <1>4 DEF HealthRec
<1>7. Kin(r.kept, r.kept) /\ \A k \in 1..Len(r.kept) : Same(r.kept[k], r.kept[k])
  <2>1. r.kept \in Seq(Cand)
    BY <1>1, RunTypes
  <2>2. \A k \in 1..Len(r.kept) : Same(r.kept[k], r.kept[k])
    BY DEF Same
  <2>3. QED
    BY <2>1, <2>2, UnhaltedAre
<1> HIDE DEF r2, h2
<1>8. DiscOK(m, r2, h2)
  BY <1>1, <1>2, <1>5, <1>6, <1>7, LaterOn
<1>9. QED
  BY <1>2, <1>3, <1>8, MovesTo

LEMMA IdleIs == Idle \in RunRec /\ Idle.at = "idle" /\ Idle.kept = <<>>
<1> DEFINE e == <<>>
           n == {}
<1>1. Idle = [at |-> "idle", kind |-> "regular", sources |-> e, asking |-> e, answered |-> e, mute |-> n,
              union |-> e, candidates |-> e, kept |-> e, heard |-> e]
  BY DEF Idle, NewRun
<1>2. e \in Seq(SourceNames) /\ e \in Seq(MoversProviders) /\ e \in Seq(MoverRow) /\ e \in Seq(Cand)
      /\ e \in Seq(Hearing) /\ n \in SUBSET MoversProviders /\ e = <<>>
  OBVIOUS
<1> HIDE DEF e, n
<1>3. QED
  BY <1>1, <1>2 DEF RunRec

LEMMA ReturnMoves == ASSUME DiscoveryInv, NEW t \in Threads, Return(t) PROVE Moves(t)
<1>1. DiscOK(mode, run[t], health[t])
  BY AtHand
<1>2. run' = [run EXCEPT ![t] = Idle] /\ UNCHANGED <<health, mode>>
  BY DEF Return
<1>3. DiscOK(mode, Idle, health[t])
  BY <1>1, IdleIs DEF DiscOK
<1>4. QED
  BY <1>2, <1>3, MovesTo

---------------------------------------------------------------------------
(* The list of asset names, and any step.                                  *)

LEMMA AssetNumbers == AssetTTL \in Nat /\ AssetBackoff \in Nat /\ MaxTime \in Nat /\ MaxTime > 0
  BY AssetAssumption DEF AssetAssumption

LEMMA AssetsMove ==
    ASSUME AssetTypes, NEW t \in Threads, UNCHANGED clock, FoundList(t) \/ NoList(t) \/ LookOn(t)
    PROVE  AssetTypes'
<1>1. looking \in [Threads -> {"out", "waiting", "fetching"}] /\ clock \in Nat
  BY DEF AssetTypes
<1>2. \A place \in {"out", "waiting", "fetching"} :
         [looking EXCEPT ![t] = place] \in [Threads -> {"out", "waiting", "fetching"}]
  BY <1>1
<1>3. clock + AssetTTL \in Nat /\ clock + AssetBackoff \in Nat
  BY <1>1, AssetNumbers
<1>4. CASE FoundList(t)
  <2>1. looking' \in [Threads -> {"out", "waiting", "fetching"}]
    BY <1>1, <1>2, <1>4 DEF FoundList, CacheHit, FilledMeanwhile, Fetched
  <2>2. lastOk' \in BOOLEAN /\ keyed' = keyed
    BY <1>4 DEF FoundList, CacheHit, FilledMeanwhile, Fetched
  <2>3. holder' \in Threads \cup {Nobody}
    BY <1>4 DEF FoundList, CacheHit, FilledMeanwhile, Fetched, AssetTypes
  <2>4. cachedUntil' \in Nat /\ retryAfter' \in Nat
    BY <1>3, <1>4 DEF FoundList, CacheHit, FilledMeanwhile, Fetched, AssetTypes
  <2>5. QED
    BY <2>1, <2>2, <2>3, <2>4 DEF AssetTypes
<1>5. CASE NoList(t)
  <2>1. looking' \in [Threads -> {"out", "waiting", "fetching"}]
    BY <1>1, <1>2, <1>5 DEF NoList, Keyless, BackedOff, FetchFailed
  <2>2. QED
    BY <1>3, <1>5, <2>1 DEF NoList, Keyless, BackedOff, FetchFailed, AssetTypes
<1>6. CASE LookOn(t)
  <2>1. looking' \in [Threads -> {"out", "waiting", "fetching"}]
    BY <1>1, <1>2, <1>6 DEF LookOn, CacheMiss, BeginFetch
  <2>2. QED
    BY <1>6, <2>1 DEF LookOn, CacheMiss, BeginFetch, AssetTypes
<1>7. QED
  BY <1>4, <1>5, <1>6

LEMMA StepMoves == ASSUME DiscoveryInv, NEW t \in Threads, ThreadStep(t) PROVE Moves(t)
  BY BeginMoves, BeginSourceMoves, AskMoves, EndSourceMoves, EndPremarketMoves, PremarketFailsMoves, JudgeMoves, LooksOnMoves,
     RankMoves, AnnotateHaltsMoves, ClaimMoves, ReturnMoves
  DEF ThreadStep

\* What is not the run's own
LEMMA StepKeeps ==
    ASSUME DiscoveryInv, NEW t \in Threads, ThreadStep(t)
    PROVE  AssetTypes' /\ runs' \in [Threads -> 0..MaxRuns]
<1>1. AssetTypes /\ runs \in [Threads -> 0..MaxRuns]
  BY DEF DiscoveryInv
<1>2. CASE Begin(t)
  <2>1. runs' = [runs EXCEPT ![t] = runs[t] + 1] /\ runs[t] < MaxRuns /\ UNCHANGED <<clock, assetVars>>
    BY <1>2 DEF Begin
  <2>2. runs[t] + 1 \in 0..MaxRuns
    BY <1>1, <2>1, DiscoveryNumbers
  <2>3. runs' \in [Threads -> 0..MaxRuns]
    BY <1>1, <2>1, <2>2
  <2>4. QED
    BY <1>1, <2>1, <2>3 DEF AssetTypes, assetVars
<1>3. CASE Judge(t) \/ JudgeLooksOn(t)
  <2>1. (FoundList(t) \/ NoList(t) \/ LookOn(t)) /\ UNCHANGED clock /\ UNCHANGED runs
    BY <1>3 DEF Judge, JudgeLooksOn, discoveryVars
  <2>2. QED
    BY <1>1, <2>1, AssetsMove
<1>4. CASE UNCHANGED <<clock, assetVars, runs>>
  BY <1>1, <1>4 DEF AssetTypes, assetVars
<1>5. ThreadStep(t) => Begin(t) \/ Judge(t) \/ JudgeLooksOn(t) \/ UNCHANGED <<clock, assetVars, runs>>
  BY DEF ThreadStep, BeginSource, Ask, EndSource, EndPremarket, PremarketFails, Rank, AnnotateHalts, Claim, Return
<1>6. QED
  BY <1>2, <1>3, <1>4, <1>5

LEMMA DiscoveryInvInit == DiscoveryInit => DiscoveryInv
<1> SUFFICES ASSUME DiscoveryInit PROVE DiscoveryInv
  OBVIOUS
<1>1. AssetTypes
  <2>1. keyed \in BOOLEAN /\ lastOk \in BOOLEAN
    <3>1. keyed = ("alpaca" \in configured) /\ lastOk = FALSE
      BY DEF DiscoveryInit, AssetInit
    <3>2. ("alpaca" \in configured) \in BOOLEAN
      OBVIOUS
    <3>3. QED
      BY <3>1, <3>2, Zenon
  <2>2. clock \in 1..MaxTime /\ cachedUntil \in Nat /\ retryAfter \in Nat
    BY AssetNumbers DEF DiscoveryInit, AssetInit, Expired
  <2>3. holder \in Threads \cup {Nobody} /\ looking \in [Threads -> {"out", "waiting", "fetching"}]
    BY DEF DiscoveryInit, AssetInit
  <2>4. QED
    BY <2>1, <2>2, <2>3 DEF AssetTypes
<1>2. BlankHealth \in HealthRec /\ Len(BlankHealth.withheld) <= MaxWithheld
  <2>1. BlankHealth \in HealthRec /\ BlankHealth.withheld = <<>>
    BY DEF BlankHealth, HealthRec
  <2>2. QED
    BY <2>1, DiscoveryNumbers
<1>3. mode \in {"merge", "first_wins"}
  BY DiscoveryNumbers DEF DiscoveryInit
<1>4. DiscOK(mode, Idle, BlankHealth)
  BY <1>2, <1>3, IdleIs DEF DiscOK
<1>5. /\ run = [t \in Threads |-> Idle] /\ health = [t \in Threads |-> BlankHealth]
      /\ runs = [t \in Threads |-> 0] /\ 0 \in 0..MaxRuns
  BY DiscoveryNumbers DEF DiscoveryInit
<1>6. QED
  BY <1>1, <1>2, <1>4, <1>5, IdleIs DEF DiscoveryInv

LEMMA DiscoveryInvStep == DiscoveryInv /\ [Next]_vars => DiscoveryInv'
<1> SUFFICES ASSUME DiscoveryInv, [Next]_vars PROVE DiscoveryInv'
  OBVIOUS
<1>1. ASSUME NEW t \in Threads, ThreadStep(t) PROVE DiscoveryInv'
  <2>1. Moves(t) /\ AssetTypes' /\ runs' \in [Threads -> 0..MaxRuns]
    BY <1>1, StepMoves, StepKeeps
  <2>2. /\ DiscOK(mode, run'[t], health'[t]) /\ mode' = mode
        /\ run' = [run EXCEPT ![t] = run'[t]] /\ health' = [health EXCEPT ![t] = health'[t]]
    BY <2>1 DEF Moves
  <2>3. run'[t] \in RunRec /\ health'[t] \in HealthRec
    BY <2>2 DEF DiscOK
  <2>4. run \in [Threads -> RunRec] /\ health \in [Threads -> HealthRec]
        /\ \A u \in Threads : DiscOK(mode, run[u], health[u])
    BY DEF DiscoveryInv
  <2>5. run' \in [Threads -> RunRec] /\ health' \in [Threads -> HealthRec]
    BY <2>2, <2>3, <2>4
  <2>6. \A u \in Threads : u # t => run'[u] = run[u] /\ health'[u] = health[u]
    BY <2>2, <2>4
  <2>7. \A u \in Threads : DiscOK(mode', run'[u], health'[u])
    BY <2>2, <2>4, <2>6
  <2>8. QED
    BY <2>1, <2>5, <2>7 DEF DiscoveryInv
<1>2. CASE Others
  <2>1. UNCHANGED <<mode, run, health, runs>>
    BY <1>2 DEF Others, discoveryVars
  <2>2. AssetTypes'
    BY <1>2, AssetNumbers DEF Others, OtherProcessFetches, Tick, AssetTypes, assetVars, DiscoveryInv
  <2>3. QED
    BY <2>1, <2>2 DEF DiscoveryInv
<1>3. CASE UNCHANGED vars
  BY <1>3 DEF vars, assetVars, discoveryVars, DiscoveryInv, AssetTypes
<1>4. QED
  BY <1>1, <1>2, <1>3 DEF Next

---------------------------------------------------------------------------
(* What it comes to.                                                       *)

\* What is gathered is what is quoted in the sources.
LEMMA GatheredAre ==
    ASSUME NEW heard \in Seq(Hearing), NEW name
    PROVE  LET G == Gathered(heard, Range(Sources)) IN
           /\ \A x \in G : x[2].name = name => \E s \in Range(Sources) : x[2] \in QuoteIn(heard, s, name)
           /\ \A s \in Range(Sources) : \A q \in QuoteIn(heard, s, name) :
                 \E x \in G : x[1] = s /\ x[2] = q /\ x[2].name = name
           /\ Tellers(name, G) = {s \in Range(Sources) : QuoteIn(heard, s, name) # {}}
<1> DEFINE G == Gathered(heard, Range(Sources))
<1>1. ASSUME NEW x \in G, x[2].name = name
      PROVE  x[1] \in Range(Sources) /\ x[2] \in QuoteIn(heard, x[1], name)
  BY <1>1 DEF Gathered
<1>2. ASSUME NEW s \in Range(Sources), NEW q \in QuoteIn(heard, s, name)
      PROVE  <<s, q>> \in G /\ q.name = name
  <2>1. q \in MoverRow /\ q.name = name
    BY QuoteIsOne
  <2>2. <<s, q>> \in Tidings
    BY <2>1 DEF Tidings, SourceNames
  <2>3. QED
    BY <2>1, <2>2 DEF Gathered
<1> HIDE DEF G
<1>3. \A s \in Range(Sources) : \A q \in QuoteIn(heard, s, name) :
         \E x \in G : x[1] = s /\ x[2] = q /\ x[2].name = name
  <2> SUFFICES ASSUME NEW s \in Range(Sources), NEW q \in QuoteIn(heard, s, name)
               PROVE  \E x \in G : x[1] = s /\ x[2] = q /\ x[2].name = name
    OBVIOUS
  <2>1. <<s, q>> \in G /\ q.name = name
    BY <1>2
  <2>2. <<s, q>>[1] = s /\ <<s, q>>[2] = q
    OBVIOUS
  <2>3. QED
    BY <2>1, <2>2
<1>4. Tellers(name, G) = {s \in Range(Sources) : QuoteIn(heard, s, name) # {}}
  BY <1>1, <1>3 DEF Tellers
<1>5. QED
  BY <1>1, <1>3, <1>4 DEF G

LEMMA QuotesAre ==
    ASSUME NEW t \in Threads, run[t].heard \in Seq(Hearing), NEW name
    PROVE  LET G == Gathered(run[t].heard, Range(Sources)) IN
           /\ \A q : q \in Quotes(t, name) <=> \E x \in G : x[2] = q /\ x[2].name = name
           /\ {s \in Range(Sources) : Quote(t, s, name) # {}} = Tellers(name, G)
<1> DEFINE heard == run[t].heard
           G == Gathered(heard, Range(Sources))
<1>1. /\ \A x \in G : x[2].name = name => \E s \in Range(Sources) : x[2] \in QuoteIn(heard, s, name)
      /\ \A s \in Range(Sources) : \A q \in QuoteIn(heard, s, name) :
            \E x \in G : x[1] = s /\ x[2] = q /\ x[2].name = name
      /\ Tellers(name, G) = {s \in Range(Sources) : QuoteIn(heard, s, name) # {}}
  BY GatheredAre
<1>2. \A s : Quote(t, s, name) = QuoteIn(heard, s, name)
  BY QuoteIs
<1> HIDE DEF heard, G
<1>3. \A q : q \in Quotes(t, name) <=> \E s \in Range(Sources) : q \in QuoteIn(heard, s, name)
  BY <1>2 DEF Quotes
<1>4. \A q : q \in Quotes(t, name) <=> \E x \in G : x[2] = q /\ x[2].name = name
  BY <1>1, <1>3
<1>5. QED
  BY <1>1, <1>2, <1>4 DEF G, heard

\* A regular run that is over
LEMMA DoneIs ==
    ASSUME DiscoveryInv, NEW t \in Done("regular")
    PROVE  /\ t \in Threads /\ run[t].heard \in Seq(Hearing) /\ run[t].kept \in Seq(Cand)
           /\ HeardOK(run[t]) /\ OutagesOK(mode, run[t], health[t])
           /\ JudgingOK(mode, run[t], health[t], Gathered(run[t].heard, Range(Sources)))
           /\ Past(run[t]) = Range(Sources) /\ run[t].at = "done"
<1>1. t \in Threads /\ run[t].at = "done" /\ run[t].kind = "regular"
  BY DEF Done
<1>2. run[t] \in RunRec /\ RegularOK(mode, run[t], health[t])
  BY <1>1, AtHand DEF DiscOK
<1>3. SourcesOK(run[t]) /\ run[t].sources = <<>>
  BY <1>1, <1>2 DEF RegularOK, SourcesOK
<1>4. Range(<<>>) = {}
  BY DEF Range
<1>5. Past(run[t]) = Range(Sources)
  BY <1>3, <1>4 DEF Past
<1>6. QED
  BY <1>1, <1>2, <1>5, RunTypes DEF RegularOK

LEMMA InList ==
    ASSUME NEW T, NEW list \in Seq(T)
    PROVE  /\ \A x \in Range(list) : x \in T /\ \E i \in 1..Len(list) : x = list[i]
           /\ \A i \in 1..Len(list) : list[i] \in Range(list)
  BY DEF Range

LEMMA TypesOfIt == DiscoveryInv => DiscoveryTypeOK
<1> SUFFICES ASSUME DiscoveryInv PROVE DiscoveryTypeOK
  OBVIOUS
<1>1. AssetTypes
  BY DEF DiscoveryInv
<1>2. ASSUME NEW t \in Threads
      PROVE  /\ runs[t] \in 0..MaxRuns
             /\ run[t].at \in {"idle", "source", "ask", "judge", "halts", "claim", "done"}
             /\ \A c \in Range(run[t].candidates) \cup Range(run[t].kept) :
                   c.dir \in {"long", "short"} /\ c.sources # {} /\ c.score \in 0..1000
             /\ run[t].kind = "regular" => IsInjective([i \in DOMAIN run[t].kept |-> run[t].kept[i].name])
             /\ Len(health[t].withheld) <= MaxWithheld
  <2> DEFINE r == run[t]
             names == [i \in DOMAIN r.kept |-> r.kept[i].name]
  <2>1. r \in RunRec /\ DiscOK(mode, r, health[t]) /\ runs[t] \in 0..MaxRuns
    BY AtHand DEF DiscoveryInv
  <2>2. r.at \in {"idle", "source", "ask", "judge", "halts", "claim", "done"}
        /\ r.candidates \in Seq(Cand) /\ r.kept \in Seq(Cand)
    BY <2>1, RunTypes
  <2>3. \A c \in Range(r.candidates) \cup Range(r.kept) :
           c.dir \in {"long", "short"} /\ c.sources # {} /\ c.score \in 0..1000
    <3>1. \A c \in Range(r.candidates) \cup Range(r.kept) : c \in Cand
      BY <2>2, InList
    <3>2. QED
      BY <3>1, CandTypes DEF Groups
  <2> HIDE DEF r
  <2>4. ASSUME r.kind = "regular" PROVE Distinct(r.kept)
    <3>1. CASE r.at = "idle"
      BY <2>1, <3>1, NothingYet DEF DiscOK
    <3>2. CASE r.at \in {"source", "ask"}
      BY <2>1, <2>4, <3>2, NothingYet DEF DiscOK, RegularOK, GatheringOK
    <3>3. CASE r.at \notin {"idle", "source", "ask"}
      BY <2>1, <2>4, <3>3 DEF DiscOK, RegularOK, JudgingOK
    <3>4. QED
      BY <3>1, <3>2, <3>3
  <2>5. ASSUME Distinct(r.kept) PROVE IsInjective(names)
    <3>1. DOMAIN r.kept = 1..Len(r.kept) /\ DOMAIN names = DOMAIN r.kept
      BY <2>2
    <3>2. \A i \in DOMAIN names : names[i] = r.kept[i].name
      OBVIOUS
    <3> HIDE DEF names
    <3>3. QED
      BY <2>5, <3>1, <3>2 DEF Distinct, IsInjective
  <2>6. Len(health[t].withheld) <= MaxWithheld
    BY <2>1 DEF DiscOK
  <2>7. QED
    BY <2>1, <2>2, <2>3, <2>4, <2>5, <2>6 DEF r
<1>3. QED
  BY <1>1, <1>2 DEF AssetTypes, DiscoveryTypeOK

LEMMA OutagesOfIt == DiscoveryInv => OutagesAreTold
<1> SUFFICES ASSUME DiscoveryInv, NEW t \in Done("regular")
             PROVE  LET said(h) == h.sent # Broken /\ (h.sent = <<>> \/ \E r \in Range(h.sent) : r # Unreadable)
                        answered(src) == \E h \in HeardOf(t, src) : said(h)
                        silent(src)   == \E h \in HeardOf(t, src) : ~said(h)
                    IN  /\ health[t].succeeded = <<>> <=> \A src \in Range(Sources) : ~answered(src)
                        /\ health[t].failed = {} <=>
                              \A src \in Range(Sources) : answered(src) /\ (mode = "merge" => ~silent(src))
  BY DEF OutagesAreTold
<1> DEFINE heard == run[t].heard
           said(h) == h.sent # Broken /\ (h.sent = <<>> \/ \E r \in Range(h.sent) : r # Unreadable)
           answered(src) == \E h \in HeardOf(t, src) : said(h)
           silent(src)   == \E h \in HeardOf(t, src) : ~said(h)
<1>1. /\ heard \in Seq(Hearing) /\ Past(run[t]) = Range(Sources)
      /\ \A k \in 1..Len(heard) : heard[k].rows # NoAnswer <=> Speaks(heard[k].sent)
      /\ OutagesOK(mode, run[t], health[t])
  BY DoneIs DEF HeardOK
<1>2. \A h : said(h) <=> Speaks(h.sent)
  BY DEF Speaks
<1>3. \A src : \A h : h \in HeardOf(t, src) <=> \E k \in 1..Len(heard) : h = heard[k] /\ h.source = src
  BY <1>1, InList DEF HeardOf
<1> HIDE DEF heard, said
<1>4. \A src : answered(src) <=> Served(heard, src)
  BY <1>1, <1>2, <1>3 DEF Served
<1>5. \A src : silent(src) <=> Silent(heard, src)
  BY <1>1, <1>2, <1>3 DEF Silent
<1> HIDE DEF answered, silent
<1>6. /\ health[t].succeeded = <<>> <=> \A src \in Range(Sources) : ~answered(src)
      /\ health[t].failed = {} <=>
            \A src \in Range(Sources) : answered(src) /\ (mode = "merge" => ~silent(src))
  BY <1>1, <1>4, <1>5 DEF OutagesOK, heard
<1>7. QED
  BY <1>6 DEF answered, silent, said

LEMMA QuotesOfIt == DiscoveryInv => QuotesAreOneRow
<1> SUFFICES ASSUME DiscoveryInv, NEW t \in Done("regular"), mode = "merge", NEW c \in Range(run[t].kept)
             PROVE  /\ \E q \in Quotes(t, c.name) : q.price = c.price /\ q.change = c.feed
                    /\ \A q \in Quotes(t, c.name) : Abs(q.change) <= Abs(c.feed)
                    /\ c.sources = {src \in Range(Sources) : Quote(t, src, c.name) # {}}
  BY DEF QuotesAreOneRow
<1> DEFINE G == Gathered(run[t].heard, Range(Sources))
<1>1. /\ t \in Threads /\ run[t].heard \in Seq(Hearing) /\ run[t].kept \in Seq(Cand)
      /\ JudgingOK(mode, run[t], health[t], G)
  BY DoneIs
<1>2. Fits(c, G)
  BY <1>1, InList DEF JudgingOK
<1>3. /\ \A q : q \in Quotes(t, c.name) <=> \E x \in G : x[2] = q /\ x[2].name = c.name
      /\ {src \in Range(Sources) : Quote(t, src, c.name) # {}} = Tellers(c.name, G)
  BY <1>1, QuotesAre
<1> HIDE DEF G
<1>4. QED
  BY <1>2, <1>3 DEF Fits, Tellers

LEMMA SuspectsOfIt == DiscoveryInv => SuspectMovesAreOurs
<1> SUFFICES ASSUME DiscoveryInv, NEW t \in Done("regular"), NEW c \in Range(run[t].kept),
                    Suspect > 0, Abs(c.feed) >= Suspect
             PROVE  /\ c.verified /\ c.change \in Recomputed
                    /\ Abs(c.change) < Suspect \/ Agree(c.feed, c.change)
                    /\ c.dir = IF c.change < 0 THEN "short" ELSE "long"
  BY DEF SuspectMovesAreOurs
<1>1. Guarded(c)
  BY DoneIs, InList DEF JudgingOK
<1>2. QED
  BY <1>1 DEF Guarded

LEMMA TracesOfIt == DiscoveryInv => NothingVanishes
<1> SUFFICES ASSUME DiscoveryInv, NEW t \in Done("regular"), mode = "merge", ~ExcludeHalted,
                    NEW name \in UNION {{q.name : q \in Range(h.rows)} : h \in Answered(t)}
             PROVE  \/ name \in Names(t) \cup Range(health[t].excluded)
                    \/ \E w \in Range(health[t].withheld) : w.name = name
                    \/ Len(health[t].withheld) = MaxWithheld
                    \/ \E q \in Quotes(t, name) :
                          \/ Abs(q.change) < MinChange \/ q.price < MinPrice
                          \/ MaxPrice > 0 /\ q.price > MaxPrice
                          \/ ~IncludeShort
                          \/ Abs(q.change) >= Suspect /\ \E ours \in Recomputed \ {Unknown} : Abs(ours) < MinChange
                    \/ /\ Limit > 0 /\ Len(run[t].kept) = Limit
                       /\ \E q \in Quotes(t, name) : \A c \in Range(run[t].kept) :
                             \/ Abs(q.change) >= Suspect
                             \/ Score(c) >= Score([c EXCEPT !.change = q.change,
                                                      !.sources = {src \in Range(Sources) : Quote(t, src, name) # {}}])
  BY DEF NothingVanishes
<1> DEFINE r == run[t]
           G == Gathered(r.heard, Range(Sources))
<1>1. /\ t \in Threads /\ r.heard \in Seq(Hearing) /\ r.kept \in Seq(Cand) /\ r.at = "done"
      /\ HeardOK(r) /\ Past(r) = Range(Sources) /\ JudgingOK(mode, r, health[t], G)
  BY DoneIs
<1>2. PICK k \in 1..Len(r.heard) : r.heard[k].rows # NoAnswer /\ \E q \in Range(r.heard[k].rows) : q.name = name
  BY <1>1, InList DEF Answered
<1>3. r.heard[k].source \in Range(Sources) /\ r.heard[k].rows \in Seq(MoverRow)
  <2>1. r.heard[k] \in Hearing
    BY <1>1
  <2>2. QED
    BY <1>1, <1>2, <2>1 DEF HeardOK, Hearing
<1> DEFINE s == r.heard[k].source
<1>4. QuoteIn(r.heard, s, name) # {}
  <2>1. \E i \in 1..Len(r.heard[k].rows) : r.heard[k].rows[i].name = name
    BY <1>2, <1>3, InList
  <2>2. FirstRow(r.heard[k].rows, name) # {}
    BY <1>3, <2>1, FirstRowIs
  <2>3. Lists(r.heard[k], s, name)
    BY <1>2, <2>2 DEF Lists
  <2>4. QED
    BY <1>1, <2>3, ListedIsQuoted
<1>5. /\ \A q : q \in Quotes(t, name) <=> \E x \in G : x[2] = q /\ x[2].name = name
      /\ {src \in Range(Sources) : Quote(t, src, name) # {}} = Tellers(name, G)
  BY <1>1, QuotesAre
<1>6. PICK y \in G : y[2].name = name
  <2>1. s \in Range(Sources) /\ r.heard \in Seq(Hearing)
    BY <1>1, <1>3
  <2> HIDE DEF s, r
  <2>2. PICK q : q \in QuoteIn(r.heard, s, name)
    BY <1>4
  <2>3. \A src \in Range(Sources) : \A p \in QuoteIn(r.heard, src, name) :
           \E x \in G : x[1] = src /\ x[2] = p /\ x[2].name = name
    BY <2>1, GatheredAre
  <2> HIDE DEF G
  <2>4. QED
    BY <2>1, <2>2, <2>3
<1>7. Known(name, G, r, health[t]) /\ r.candidates = <<>>
  BY <1>1, <1>6 DEF JudgingOK
<1> HIDE DEF r, G, s
<1>8. CASE IsIn(name, r.kept)
  <2>1. PICK i \in 1..Len(r.kept) : r.kept[i].name = name
    BY <1>8 DEF IsIn
  <2>2. r.kept[i] \in Range(r.kept)
    BY <1>1, InList
  <2>3. name \in Names(t)
    BY <2>1, <2>2 DEF Names, r
  <2>4. QED
    BY <2>3
<1>9. CASE OnRecord(name, health[t])
  BY <1>9 DEF OnRecord
<1>10. CASE Weak(name, G)
  BY <1>5, <1>10 DEF Weak
<1>11. CASE Outranked(name, r.kept, G)
  <2>1. PICK x \in G : x[2].name = name /\ \A i \in 1..Len(r.kept) :
           \/ Abs(x[2].change) >= Suspect
           \/ ScoreOf(r.kept[i].change, r.kept[i].sources) >= ScoreOf(x[2].change, Tellers(name, G))
    BY <1>11 DEF Outranked
  <2> DEFINE q == x[2]
             sources == {src \in Range(Sources) : Quote(t, src, name) # {}}
  <2>2. q \in Quotes(t, name) /\ sources = Tellers(name, G)
    BY <1>5, <2>1
  <2> HIDE DEF sources
  <2>3. ASSUME NEW c \in Range(r.kept)
        PROVE  Abs(q.change) >= Suspect \/ Score(c) >= Score([c EXCEPT !.change = q.change, !.sources = sources])
    <3>1. c \in Cand
      BY <1>1, InList
    <3>2. Score(c) = ScoreOf(c.change, c.sources)
      BY DEF Score, ScoreOf
    <3> DEFINE d == [c EXCEPT !.change = q.change, !.sources = sources]
    <3>3. d.change = q.change /\ d.sources = sources
      BY <3>1 DEF Cand
    <3> HIDE DEF d
    <3>4. Score(d) = ScoreOf(q.change, sources)
      BY <3>3 DEF Score, ScoreOf
    <3>5. \/ Abs(q.change) >= Suspect
          \/ ScoreOf(c.change, c.sources) >= ScoreOf(q.change, Tellers(name, G))
      BY <1>1, <2>1, InList
    <3>6. QED
      BY <2>2, <3>2, <3>4, <3>5 DEF d
  <2>4. Limit > 0 /\ Len(r.kept) = Limit
    BY <1>11 DEF Outranked
  <2>5. QED
    BY <2>2, <2>3, <2>4 DEF sources, r
<1>12. ~IsIn(name, r.candidates)
  BY <1>7 DEF IsIn
<1>13. QED
  BY <1>7, <1>8, <1>9, <1>10, <1>11, <1>12 DEF Known

---------------------------------------------------------------------------
(* The sources together.                                                   *)

\* What is watched is a behaviour of the halts, of the caps and of the earnings dates.
LEMMA EachOnItsOwn == SourcesSpec => FeedSpec /\ CapSpec /\ CalSpec
<1>1. SourcesInit => HaltInit /\ CapInit /\ CalInit
  BY DEF SourcesInit
<1>2. [SourcesNext]_sourcesVars => [FeedNext]_haltVars /\ [CapNext]_capVars /\ [CalNext]_calVars
  BY DEF SourcesNext, sourcesVars, haltVars, capVars, calVars
<1>3. QED
  BY <1>1, <1>2, PTL DEF SourcesSpec, FeedSpec, CapSpec, CalSpec

\* What is remembered of halts, caps and earnings dates is no older than its windows allow.
THEOREM MemoryIsCurrentHolds == SourcesSpec => []MemoryIsCurrent
<1>1. ASSUME FeedTypeOK, HaltsAreCurrent, CapTypeOK, RememberedCapsAge,
             CalTypeOK, EarningsWeekIsBlocked
      PROVE  MemoryIsCurrent
  BY <1>1 DEF MemoryIsCurrent
<1>2. QED
  BY <1>1, EachOnItsOwn, HaltsAreCurrentHolds, RememberedCapsAgeHolds, EarningsWeekIsBlockedHolds, PTL

\* What is told of a ticker is from where it says: the fields of its information and the
\* failures reported with them, and the tier its headlines earn inside their window.
THEOREM WhatIsToldIsTracedHolds == SourcesSpec => []WhatIsToldIsTraced
<1>1. SourcesInit => InfoInv /\ NewsInv
  BY InfoInvInit, NewsInvInit DEF SourcesInit
<1>2. InfoInv /\ NewsInv /\ [SourcesNext]_sourcesVars => InfoInv' /\ NewsInv'
  <2>1. [SourcesNext]_sourcesVars => [InfoNext]_infoVars /\ [NewsNext]_newsVars
    BY DEF SourcesNext, sourcesVars, infoVars, newsVars
  <2>2. QED
    BY <2>1, InfoInvStep, NewsInvStep
<1>3. InfoInv /\ NewsInv => WhatIsToldIsTraced
  BY DEF InfoInv, NewsInv, WhatIsToldIsTraced, InfoIsHonest
<1>4. QED
  BY <1>1, <1>2, <1>3, PTL DEF SourcesSpec

\* Every frame that is cached or handed out is the whole history of its own symbol on one tape,
\* the one its tag names; volumes of one venue pass only where the code says so; and a call
\* of fetch_ohlcv_batch that has returned has answered every symbol.
THEOREM BarsAreWholeHolds == SourcesSpec => []BarsAreWhole
<1>1. SourcesInit => BarsInv
  BY BarsInvInit DEF SourcesInit
<1>2. [SourcesNext]_sourcesVars => [BarsNext]_barVars
  <2>1. InfoNext => [BarsNext]_barVars
    BY DEF InfoNext, BarsNext
  <2>2. QED
    BY <2>1 DEF SourcesNext, sourcesVars, barVars
<1>3. BarsInv => BarsAreWhole
  BY DEF BarsInv
<1>4. QED
  BY <1>1, <1>2, <1>3, BarsInvStep, PTL DEF SourcesSpec

\* Discovery tells its outages; what it publishes of a name is one row of one provider, or our
\* own number where the provider's is suspect; and no name that was heard of vanishes.
THEOREM DiscoveryIsHonestHolds == SourcesSpec => []DiscoveryIsHonest
<1>1. SourcesInit => DiscoveryInv
  BY DiscoveryInvInit DEF SourcesInit
<1>2. [SourcesNext]_sourcesVars => [Next]_vars
  BY DEF SourcesNext, sourcesVars
<1>3. DiscoveryInv => DiscoveryIsHonest
  BY TypesOfIt, OutagesOfIt, QuotesOfIt, SuspectsOfIt, TracesOfIt DEF DiscoveryIsHonest
<1>4. QED
  BY <1>1, <1>2, <1>3, DiscoveryInvStep, PTL DEF SourcesSpec

\* And a refresh of the earnings dates keeps what the file and it have.
THEOREM WatchedDatesAreKept == SourcesSpec => DatesAreKept
  BY EachOnItsOwn, DatesAreKeptHolds, PTL
===============================================================================
