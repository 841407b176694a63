------------------------------ MODULE MarketCap ------------------------------
(***************************************************************************)
(* The market cap behind the size floor: the chain of _fill_market_cap in  *)
(* src/fundamental/fetcher.py on src/fundamental/market_cap.py.  A cap is  *)
(* what the ticker info has, else the last known one on disk, else FMP's,  *)
(* else the shares SEC EDGAR knows times the price.  The threads of a scan *)
(* share the disk and a back-off from SEC.                                 *)
(*                                                                         *)
(* A cap is the time it was obtained from outside, which is what the age   *)
(* of a remembered one is about.                                           *)
(***************************************************************************)
EXTENDS Naturals, FiniteSets, Sequences

CONSTANTS
    Scanners,
    Companies,
    CapTTL,        \* MARKET_CAP_CACHE_HOURS
    SharesTTL,     \* _SHARES_TTL
    NoSharesTTL,   \* _NO_SHARES_TTL
    CikTTL,        \* _CIK_MAP_TTL
    SecBackoff,    \* _FAILURE_BACKOFF_SEC
    MaxFailures,   \* bound: requests to SEC that fail
    CapTime        \* bound: the clock stops here

ASSUME CapAssumption ==
    /\ CapTTL \in Nat \ {0} /\ SharesTTL \in Nat /\ NoSharesTTL \in Nat /\ CikTTL \in Nat
    /\ SecBackoff \in Nat \ {0} /\ MaxFailures \in Nat /\ CapTime \in Nat \ {0}

CapTimes    == 1..CapTime
Never    == 0
Concepts == <<"dei", "us-gaap">>    \* _SHARE_CONCEPTS, in their order

Cap     == [at : CapTimes, shares : CapTimes]
NoCap   == [at |-> Never, shares |-> Never]
NoShares == [known |-> FALSE, at |-> Never, until |-> Never]

VARIABLES
    capClock,
    files,       \* which concepts each ticker reports; a multi-class issuer only the second
    known,       \* mcap:{ticker}, until when, and the cap
    shares,      \* sec:shares:{ticker}
    cikUntil,    \* expiry of sec:cik_map
    secRetryAfter,  \* _retry_after
    failures,    \* requests that may still fail
    look         \* what each thread is doing

capVars == <<capClock, files, known, shares, cikUntil, secRetryAfter, failures, look>>

NoLook == [at |-> "idle", ticker |-> "none", concept |-> 0, cap |-> NoCap]

CapInit ==
    /\ capClock = 1
    /\ files \in [Companies -> {{"dei"}, {"us-gaap"}, {}}]
    /\ known = [t \in Companies |-> [until |-> Never, cap |-> NoCap]]
    /\ shares = [t \in Companies |-> NoShares]
    /\ cikUntil = Never /\ secRetryAfter = 0 /\ failures = MaxFailures
    /\ look = [th \in Scanners |-> NoLook]

At(th, step) == look[th].at = step
Goto(th, step) == look' = [look EXCEPT ![th].at = step]
GiveUp(th) == look' = [look EXCEPT ![th].at = "unknown"]

\* remember
Remember(ticker, cap) ==
    known' = [known EXCEPT ![ticker] = [until |-> capClock + CapTTL, cap |-> cap]]

\* The cap is found and remembered.
Found(th, cap) ==
    /\ Remember(look[th].ticker, cap)
    /\ look' = [look EXCEPT ![th].at = "found", ![th].cap = cap]

\* _fill_market_cap begins.
BeginCap(th) ==
    /\ At(th, "idle")
    /\ \E ticker \in Companies :
          look' = [look EXCEPT ![th] = [NoLook EXCEPT !.at = "info", !.ticker = ticker]]
    /\ UNCHANGED <<capClock, files, known, shares, cikUntil, secRetryAfter, failures>>

\* Ticker info with a cap, or without one
TickerInfo(th) ==
    /\ At(th, "info")
    /\ \/ Found(th, [at |-> capClock, shares |-> capClock])
       \/ Goto(th, "cached") /\ UNCHANGED known
    /\ UNCHANGED <<capClock, files, shares, cikUntil, secRetryAfter, failures>>

\* Mutant: a cap that comes from the disk is remembered again.
LastKnownRemembered(th) ==
    /\ capClock <= known[look[th].ticker].until
    /\ Found(th, known[look[th].ticker].cap)

\* cached: the last known value serves as it is.
LastKnown(th) ==
    /\ capClock <= known[look[th].ticker].until
    /\ look' = [look EXCEPT ![th].at = "found", ![th].cap = known[look[th].ticker].cap]
    /\ UNCHANGED known

ReadDisk(th) ==
    /\ At(th, "cached")
    /\ \/ LastKnown(th)
       \/ capClock > known[look[th].ticker].until /\ Goto(th, "fmp") /\ UNCHANGED known
    /\ UNCHANGED <<capClock, files, shares, cikUntil, secRetryAfter, failures>>

\* FMP knows it, or has no key, fails or does not know it.  SEC needs a price.
AskFmp(th) ==
    /\ At(th, "fmp")
    /\ \/ Found(th, [at |-> capClock, shares |-> capClock])
       \/ Goto(th, "shares") /\ UNCHANGED known
       \/ GiveUp(th) /\ UNCHANGED known
    /\ UNCHANGED <<capClock, files, shares, cikUntil, secRetryAfter, failures>>

---------------------------------------------------------------------------
(* SEC.                                                                    *)

\* _sec_shares: a count on disk, or the record that there is none
ReadShares(th) ==
    /\ At(th, "shares")
    /\ LET s == shares[look[th].ticker] IN
          \/ /\ capClock <= s.until /\ s.known
             /\ Found(th, [at |-> capClock, shares |-> s.at])
          \/ capClock <= s.until /\ ~s.known /\ GiveUp(th) /\ UNCHANGED known
          \/ capClock > s.until /\ Goto(th, "cik") /\ UNCHANGED known
    /\ UNCHANGED <<capClock, files, shares, cikUntil, secRetryAfter, failures>>

\* _sec_get fails, and all threads leave SEC alone for a while.
SecFails ==
    /\ failures > 0 /\ failures' = failures - 1
    /\ secRetryAfter' = capClock + SecBackoff

\* _cik_map, from disk or from SEC; nothing without it
CikMap(th) ==
    /\ At(th, "cik")
    /\ \/ /\ cikUntil >= capClock /\ Goto(th, "concept")
          /\ UNCHANGED <<cikUntil, secRetryAfter, failures>>
       \/ /\ cikUntil < capClock /\ capClock >= secRetryAfter
          /\ cikUntil' = capClock + CikTTL /\ Goto(th, "concept")
          /\ UNCHANGED <<secRetryAfter, failures>>
       \/ cikUntil < capClock /\ capClock >= secRetryAfter /\ SecFails /\ GiveUp(th) /\ UNCHANGED cikUntil
       \/ /\ cikUntil < capClock /\ capClock < secRetryAfter /\ GiveUp(th)
          /\ UNCHANGED <<cikUntil, secRetryAfter, failures>>
    /\ UNCHANGED <<capClock, files, known, shares>>

NextConcept(th) == look' = [look EXCEPT ![th].concept = @ + 1]

\* One concept is asked for.  It answers with a count, or not (404), or the request
\* fails, or is not made.
AskConcept(th) ==
    /\ At(th, "concept") /\ look[th].concept < Len(Concepts)
    /\ LET concept == Concepts[look[th].concept + 1]
           ticker  == look[th].ticker
       IN  \/ /\ capClock >= secRetryAfter /\ concept \in files[ticker]
              /\ shares' = [shares EXCEPT ![ticker] =
                    [known |-> TRUE, at |-> capClock, until |-> capClock + SharesTTL]]
              /\ Found(th, [at |-> capClock, shares |-> capClock])
              /\ UNCHANGED <<secRetryAfter, failures>>
           \/ /\ capClock >= secRetryAfter /\ concept \notin files[ticker]
              /\ NextConcept(th)
              /\ UNCHANGED <<known, shares, secRetryAfter, failures>>
           \/ /\ capClock >= secRetryAfter /\ SecFails
              /\ NextConcept(th)
              /\ UNCHANGED <<known, shares>>
           \/ /\ capClock < secRetryAfter
              /\ NextConcept(th)
              /\ UNCHANGED <<known, shares, secRetryAfter, failures>>
    /\ UNCHANGED <<capClock, files, cikUntil>>

\* "A genuine no data, not a backoff"
NoData == capClock >= secRetryAfter

\* No concept gave a count: that is kept too, unless the threads are in a back-off now.
EndShares(th) ==
    /\ At(th, "concept") /\ look[th].concept = Len(Concepts)
    /\ LET ticker == look[th].ticker IN
       IF NoData
       THEN shares' = [shares EXCEPT ![ticker] =
               [known |-> FALSE, at |-> Never, until |-> capClock + NoSharesTTL]]
       ELSE UNCHANGED shares
    /\ GiveUp(th)
    /\ UNCHANGED <<capClock, files, known, cikUntil, secRetryAfter, failures>>

ReturnCap(th) ==
    /\ look[th].at \in {"found", "unknown"}
    /\ look' = [look EXCEPT ![th] = NoLook]
    /\ UNCHANGED <<capClock, files, known, shares, cikUntil, secRetryAfter, failures>>

\* A filing changes what a ticker reports.
Files(ticker) ==
    /\ files[ticker] = {}
    /\ files' = [files EXCEPT ![ticker] = {"dei"}]
    /\ UNCHANGED <<capClock, known, shares, cikUntil, secRetryAfter, failures, look>>

CapTick ==
    /\ capClock < CapTime
    /\ capClock' = capClock + 1
    /\ UNCHANGED <<files, known, shares, cikUntil, secRetryAfter, failures, look>>

CapStep(th) ==
    \/ BeginCap(th) \/ TickerInfo(th) \/ ReadDisk(th) \/ AskFmp(th) \/ ReadShares(th)
    \/ CikMap(th) \/ AskConcept(th) \/ EndShares(th) \/ ReturnCap(th)

CapNext == (\E th \in Scanners : CapStep(th)) \/ (\E ticker \in Companies : Files(ticker)) \/ CapTick

CapSpec == CapInit /\ [][CapNext]_capVars

---------------------------------------------------------------------------
(* What it promises.                                                       *)

\* Every variable holds a value of its kind.
CapTypeOK ==
    /\ capClock \in CapTimes
    /\ \A t \in Companies : known[t].cap \in Cap \cup {NoCap}
    /\ \A t \in Companies : shares[t].known => shares[t].at \in CapTimes
    /\ cikUntil \in 0..(CapTime + CikTTL) /\ secRetryAfter \in 0..(CapTime + SecBackoff)
    /\ \A th \in Scanners : /\ look[th].concept \in 0..Len(Concepts)
                           /\ At(th, "found") => look[th].cap \in Cap

\* "The last known value, on disk, market_cap.cache_hours": a remembered cap is never
\* older than that, counted from when it was obtained, and its count of shares never
\* older than both times to live together.  A value cannot keep itself alive.
RememberedCapsAge ==
    \A t \in Companies : known[t].cap # NoCap =>
        /\ known[t].until <= known[t].cap.at + CapTTL
        /\ known[t].until <= known[t].cap.shares + SharesTTL + CapTTL

===========================================================================
