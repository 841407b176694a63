------------------------------ MODULE TickerInfo ------------------------------
(***************************************************************************)
(* Ticker information, and the installation's report on its providers: the *)
(* chain of _fetch_ticker_info_with_diagnostics and diagnose() in          *)
(* src/data/fetcher.py.  Callers that need earnings dates go past the      *)
(* first provider, whose payload has none, under a cache key of their own. *)
(*                                                                         *)
(* A payload is where it came from and which fields of interest it has.    *)
(***************************************************************************)
EXTENDS BarsFeed

CONSTANTS
    Ticker,      \* the symbol whose information is asked for
    Probed,      \* the symbols diagnose() probes
    Core,        \* and its core_symbols
    InfoCalls    \* bound: calls

ASSUME TickerInfoAssumption == Ticker \in Bars /\ Core \subseteq Probed /\ Probed \subseteq Bars /\ InfoCalls \in Nat

Fields == {"price", "earnings"}

VARIABLES
    infoFiles,   \* the cached payload under each key
    infoExpired, \* the keys whose payload has expired
    info,        \* the call of fetch_ticker_info or fetch_ticker_info_yfinance
    report       \* what diagnose() returned last

infoVars == <<infoFiles, infoExpired, info, report>>

Payload(source, fields) == [source |-> source, fields |-> fields]
Absent  == Payload("absent", {})      \* no cached entry, or no answer
EmptyDict == Payload("empty", {})     \* {}, which older versions cached
IsInfo(payload) == payload \notin {Absent, EmptyDict}     \* _is_nonempty_dict

NoInfo == [at |-> "idle", entry |-> "any", failures |-> <<>>, payload |-> EmptyDict,
           source |-> "none", calls |-> 0]
NoReport == [tests |-> <<>>, overall |-> "none"]
KeyShared(entry) == "any"
KeyOf(entry) == entry     \* info:SYM for "any", info:yf:SYM for "yahoo"

\* _provider_failure
FailedAt(provider, why) == Append(info.failures, [provider |-> provider, reason |-> why])

InfoOf(payload, source) == [info EXCEPT !.at = "idle", !.payload = payload, !.source = source]

---------------------------------------------------------------------------
\* The cache, unless it has expired; an empty payload in it is ignored.
LookUpInfo(entry) ==
    LET key == KeyOf(entry)
        cached == IF key \in infoExpired THEN Absent ELSE infoFiles[key]
        start == [NoInfo EXCEPT !.entry = entry, !.calls = info.calls + 1]
    IN  /\ info.at = "idle" /\ info.calls < InfoCalls
        /\ info' = IF IsInfo(cached) THEN [start EXCEPT !.payload = cached, !.source = "cache"]
                   ELSE [start EXCEPT
                            !.at = IF entry = "any" THEN "alpaca" ELSE "yahoo",
                            !.failures = IF cached = EmptyDict /\ entry = "any"
                                         THEN <<[provider |-> "cache", reason |-> "empty"]>>
                                         ELSE <<>>]
    /\ report' = NoReport
    /\ UNCHANGED <<infoFiles, infoExpired>>

CacheInfo(payload) ==
    /\ infoFiles' = [infoFiles EXCEPT ![KeyOf(info.entry)] = payload]
    /\ infoExpired' = infoExpired \ {KeyOf(info.entry)}

\* The asset answers; its snapshot adds a price, or fails.
AlpacaInfo ==
    /\ info.at = "alpaca" /\ dailyFeed.credentials /\ OnAlpaca(Ticker)
    /\ \E fields \in SUBSET {"price"} :
          /\ info' = InfoOf(Payload("alpaca", fields), "alpaca")
          /\ CacheInfo(Payload("alpaca", fields))
    /\ UNCHANGED report

\* It is unknown there (404), or every attempt fails, or it cannot be asked.
NoAlpacaInfo ==
    /\ info.at = "alpaca"
    /\ \E why \in IF ~dailyFeed.credentials THEN {"not_configured"}
                  ELSE IF ~OnAlpaca(Ticker) THEN {"unsupported"} ELSE {"empty", "raised"} :
          info' = [info EXCEPT !.at = "yahoo", !.failures = FailedAt("alpaca", why)]
    /\ UNCHANGED <<infoFiles, infoExpired, report>>

\* _merge_fast_info_fields: fast_info, if it can be read, fills what .info lacks.
WithFastInfo(full, fast) == full \cup (fast \ {"earnings"})

\* .info may time out and leave it all to fast_info.
YahooInfo ==
    /\ info.at = "yahoo"
    /\ \E full, fast \in SUBSET Fields :
          /\ WithFastInfo(full, fast) # {}
          /\ info' = InfoOf(Payload("yahoo", WithFastInfo(full, fast)), "yahoo")
          /\ CacheInfo(Payload("yahoo", WithFastInfo(full, fast)))
    /\ UNCHANGED report

NoYahooInfo ==
    /\ info.at = "yahoo"
    /\ \E why \in {"empty", "raised"} :
          info' = IF info.entry = "any"
                  THEN [info EXCEPT !.at = "stale", !.failures = FailedAt("yahoo", why)]
                  ELSE InfoOf(EmptyDict, "none")
    /\ UNCHANGED <<infoFiles, infoExpired, report>>

\* An expired payload is better than none, and stays expired.
StaleInfo ==
    /\ info.at = "stale"
    /\ info' = IF IsInfo(infoFiles["any"]) THEN InfoOf(infoFiles["any"], "stale_cache")
               ELSE InfoOf(EmptyDict, "none")
    /\ UNCHANGED <<infoFiles, infoExpired, report>>

---------------------------------------------------------------------------
(* diagnose().                                                             *)

Probes == <<"alpaca", "ticker", "download">>     \* of _probe_ohlcv_live

\* The probe of a symbol when the first provider to answer is the i-th, or none is.
\* Cached frames stand in for a probe that finds nothing, however old.
ProbeOf(s, i) ==
    LET failures == SubSeq(Probes, 1, i - 1)
    IN  IF i <= Len(Probes) THEN [status |-> "OK", from |-> Probes[i], failures |-> failures]
        ELSE IF barFiles[s] # NoFrame
        THEN [status |-> "OK_CACHED", failures |-> failures,
              from |-> IF s \in barExpired THEN "stale_cache" ELSE "cache"]
        ELSE [status |-> "EMPTY", from |-> "none", failures |-> failures]
CanProbe(s, i) == i = 1 => dailyFeed.credentials /\ OnAlpaca(s)

\* When get_fundamentals has nothing, the providers are asked once more for their reasons;
\* what one of them answers now is cached, and the report stays without it.
AskAgain ==
    \/ UNCHANGED <<infoFiles, infoExpired>>
    \/ /\ dailyFeed.credentials /\ OnAlpaca(Ticker)
       /\ \E fields \in SUBSET {"price"} : CacheInfo(Payload("alpaca", fields))
    \/ \E fields \in SUBSET Fields \ {{}} : CacheInfo(Payload("yahoo", fields))

\* get_fundamentals has just been asked.
Diagnose ==
    /\ info.at = "idle" /\ info.calls > 0 /\ info.entry = "any"
    /\ \E first \in [Probed -> 1..4] :
          /\ \A s \in Probed : CanProbe(s, first[s])
          /\ LET tests == [s \in Probed |-> ProbeOf(s, first[s])]
                 priced == {s \in Probed : tests[s].status \in {"OK", "OK_CACHED"}}
             IN  report' = [tests |-> tests, info |-> info.payload,
                    overall |-> IF Core \subseteq priced /\ Cardinality(priced) >= 2
                                   /\ IsInfo(info.payload)
                                THEN "HEALTHY" ELSE "DEGRADED"]
    /\ IF IsInfo(info.payload) THEN UNCHANGED <<infoFiles, infoExpired>> ELSE AskAgain
    /\ info' = [info EXCEPT !.entry = "diagnosed"]

InfoExpires ==
    /\ info.at = "idle" /\ report = NoReport
    /\ \E k \in {"any", "yahoo"} \ infoExpired :
          infoFiles[k] # Absent /\ infoExpired' = infoExpired \cup {k}
    /\ UNCHANGED <<infoFiles, info, report>>

InfoInit ==
    /\ infoFiles \in [{"any", "yahoo"} -> {Absent}] \cup
                     [any : {EmptyDict, Payload("alpaca", {"price"})}, yahoo : {Absent}]
    /\ infoExpired = {} /\ info = NoInfo /\ report = NoReport

InfoNext ==
    \/ /\ \/ LookUpInfo("any") \/ LookUpInfo("yahoo")
          \/ AlpacaInfo \/ NoAlpacaInfo \/ YahooInfo \/ NoYahooInfo \/ StaleInfo
          \/ Diagnose \/ InfoExpires
       /\ UNCHANGED barVars
    \/ info.calls = 0 /\ BarsExpire /\ UNCHANGED infoVars

---------------------------------------------------------------------------
\* "Empty payloads are never written to cache", and each key holds what its readers
\* rely on: a payload without earnings dates that the first provider gave never
\* stands between the earnings lookup and the provider that has them.
KeysAreApart ==
    /\ infoFiles["yahoo"] # EmptyDict
    /\ infoFiles["yahoo"].source \in {"absent", "yahoo"}
    /\ info.at = "idle" /\ info.entry = "yahoo" => info.payload.source \in {"empty", "yahoo"}

\* An answer comes from the source it names, and every provider before that source is
\* among the failures once, in order: none is passed over in silence.  An empty entry of
\* the cache, if there was one, comes first.
InfoIsTraced ==
    LET named == [i \in 1..Len(info.failures) |-> info.failures[i].provider]
    IN  info.at = "idle" /\ info.entry = "any" /\ info.calls > 0 =>
            /\ IsInfo(info.payload) <=> info.source # "none"
            /\ named \in CASE info.source = "cache"  -> {<<>>}
                           [] info.source = "alpaca" -> {<<>>, <<"cache">>}
                           [] info.source = "yahoo"  -> {<<"alpaca">>, <<"cache", "alpaca">>}
                           [] OTHER -> {<<"alpaca", "yahoo">>, <<"cache", "alpaca", "yahoo">>}
            /\ info.source \in {"alpaca", "yahoo"} => info.payload.source = info.source

\* A healthy report has a price of every core symbol and information; a symbol whose
\* price is not live lists all the providers that were tried.
ReportIsHonest ==
    report # NoReport =>
        /\ report.overall = "HEALTHY" =>
              IsInfo(report.info) /\ \A s \in Core : report.tests[s].status # "EMPTY"
        /\ \A s \in Probed : report.tests[s].status # "OK" => report.tests[s].failures = Probes

InfoIsHonest == KeysAreApart /\ InfoIsTraced /\ ReportIsHonest
===========================================================================
