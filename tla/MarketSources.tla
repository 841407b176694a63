----------------------------- MODULE MarketSources -----------------------------
(***************************************************************************)
(* What the program remembers of the answers of its providers, and what    *)
(* it tells of those that failed: movers discovery on its asset list       *)
(* (MoversDiscovery), the trading halts (HaltFeed), the market caps behind *)
(* the size floor (MarketCap), the earnings dates (EarningsCalendar), the  *)
(* frames (BarsFeed), ticker information (TickerInfo) and headlines        *)
(* (NewsFeed).                                                             *)
(*                                                                         *)
(* Each has caches, back-offs and files of its own and no step touches     *)
(* two of them, so that a behaviour watches one: the order of their steps  *)
(* among each other changes nothing.                                       *)
(***************************************************************************)
EXTENDS MoversDiscovery, HaltFeed, MarketCap, EarningsCalendar, TickerInfo, NewsFeed

CONSTANT Watch   \* what to watch, of "movers", "halts", "caps", "earnings", "bars", "info" and "news"

VARIABLE source

sourcesVars == <<source, vars, haltVars, capVars, calVars, barVars, infoVars, newsVars>>

\* What is not watched rests in one state.
SourcesInit ==
    /\ source \in Watch
    /\ IF source = "movers" THEN TRUE
       ELSE /\ mode = CHOOSE m \in Modes : TRUE
            /\ configured = CHOOSE c \in Credentials : TRUE
    /\ IF source = "caps" THEN TRUE ELSE files = [t \in Companies |-> {}]
    /\ IF source = "earnings" THEN TRUE ELSE announced = NoDates
    /\ IF source \in {"bars", "info"} THEN TRUE
       ELSE /\ dailyFeed = [feed |-> "sip", credentials |-> TRUE]
            /\ barFiles = [s \in Bars |-> NoFrame]
    /\ IF source = "info" THEN TRUE ELSE infoFiles = [k \in {"any", "yahoo"} |-> Absent]
    /\ IF source = "news" THEN TRUE
       ELSE crossed = [s \in Stories |-> CHOOSE c \in CrossTimes : TRUE]
    /\ DiscoveryInit /\ HaltInit /\ CapInit /\ CalInit /\ BarsInit /\ InfoInit /\ NewsInit

SourcesNext ==
    \/ source = "movers" /\ Next /\ UNCHANGED <<source, haltVars, capVars, calVars, barVars, infoVars, newsVars>>
    \/ source = "halts" /\ FeedNext /\ UNCHANGED <<source, vars, capVars, calVars, barVars, infoVars, newsVars>>
    \/ source = "caps" /\ CapNext /\ UNCHANGED <<source, vars, haltVars, calVars, barVars, infoVars, newsVars>>
    \/ source = "earnings" /\ CalNext /\ UNCHANGED <<source, vars, haltVars, capVars, barVars, infoVars, newsVars>>
    \/ source = "bars" /\ BarsNext /\ UNCHANGED <<source, vars, haltVars, capVars, calVars, infoVars, newsVars>>
    \/ source = "info" /\ InfoNext /\ UNCHANGED <<source, vars, haltVars, capVars, calVars, newsVars>>
    \/ source = "news" /\ NewsNext
       /\ UNCHANGED <<source, vars, haltVars, capVars, calVars, barVars, infoVars>>

SourcesSpec == SourcesInit /\ [][SourcesNext]_sourcesVars

---------------------------------------------------------------------------
(* The invariants of each, as a conjunction.                               *)

\* "Distinguish quiet market from the data source failed", and more of discovery: the
\* health, well formed like everything else in a run, names the outages and only them;
\* what is published of a name is one row of one provider, or our own number where the
\* provider's is suspect; and every name heard of is listed or accounted for.
DiscoveryIsHonest ==
    /\ DiscoveryTypeOK /\ OutagesAreTold
    /\ QuotesAreOneRow /\ SuspectMovesAreOurs
    /\ NothingVanishes

\* What is remembered of halts and caps is no older than its windows allow, and no plan
\* passes the earnings-week rule while the file, well formed and readable, has a date in
\* the window throughout the lookup.
MemoryIsCurrent ==
    /\ FeedTypeOK /\ CapTypeOK /\ HaltsAreCurrent /\ RememberedCapsAge
    /\ CalTypeOK /\ EarningsWeekIsBlocked

\* What is told of a ticker is from where it says: the fields of its information and the
\* failures reported with them, and the tier its headlines earn inside their window.
WhatIsToldIsTraced == InfoIsHonest /\ NewsIsHonest
===========================================================================
