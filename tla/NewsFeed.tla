------------------------------- MODULE NewsFeed -------------------------------
(***************************************************************************)
(* src/catalysts/news_feed.py: what story a symbol has.  Headlines come    *)
(* from the first provider that has any, are cached for a while, and are   *)
(* classified each time they are read, so that the age of a story is not   *)
(* the age it had when it was fetched.                                     *)
(*                                                                         *)
(* A story is when it crossed the wire, how it is dated, the symbols its   *)
(* title names and the ones the wire attached to it, the tiers whose       *)
(* pattern its title matches, and whether it is phrased as an adverse one. *)
(***************************************************************************)
EXTENDS Naturals, Sequences, FiniteSets

CONSTANTS
    Stories,          \* the stories of a run, crossing at any of CrossTimes
    CrossTimes,
    NewsNames,
    NewsProviders,    \* _FETCHERS, as a sequence
    Carries,          \* the stories each provider carries
    MaxAge,           \* max_age_hours of the screener
    AllowUndated,     \* allow_undated
    NewsTTL,          \* cache_ttl_sec
    Lookback,         \* of a poll of the wire
    MaxStorySymbols,  \* of a poll; 0 switches the roundup gate off
    NewsTime          \* bound: the clock stops here

ASSUME NewsAssumption ==
    /\ CrossTimes \subseteq 1..NewsTime /\ NewsTime \in Nat
    /\ MaxAge \in Nat \ {0} /\ {NewsTTL, Lookback, MaxStorySymbols} \subseteq Nat
    /\ AllowUndated \in BOOLEAN
    /\ \A i \in DOMAIN NewsProviders : Carries[NewsProviders[i]] \subseteq Stories

Tiers == <<"dilution", "strong", "moderate", "weak">>     \* _TIER_PATTERNS
Nothing == [dated |-> "none", about |-> {}, tags |-> {}, tiers |-> {}, adverse |-> FALSE]
NoStory == [tier |-> "none", story |-> Nothing, at |-> 0, served |-> {}]

VARIABLES
    newsClock,
    crossed,     \* when each story crosses the wire
    headlines,   \* the cached headlines of each symbol, and until when
    verdict,     \* what catalyst_news_for told of each symbol last, and (history) of which list
    alerts       \* the stories the last poll of the wire let through, and when

newsVars == <<newsClock, crossed, headlines, verdict, alerts>>

OnTheWire == {s \in Stories : crossed[s] <= newsClock}

---------------------------------------------------------------------------
\* _age_hours and what classify_headlines makes of it: a date that is missing, or that is
\* in the future, is no date.
Dated(s) == s.dated = "right"
Age(s)   == newsClock - crossed[s]

\* The window, on the side of the fetch: a story without a date cannot be measured by it.
Since(s, window) == Dated(s) => Age(s) <= window

\* The window, on the side of the classification
InAnyWindow(s, window, undated) == TRUE
InNewsWindow(s, window, undated) == IF Dated(s) THEN Age(s) <= window ELSE undated

\* headline_concerns: a title names the security, or it is not about it.
Concerns(s, n) == n \in s.about

\* A pattern matches; adverse phrasing never earns the strong tier.
Matches(s, tier) == tier \in s.tiers /\ (tier = "strong" => ~s.adverse)

\* The first tier that any of the stories matches, and the newest of those that do; one
\* without a date is the last choice.
Verdicts(considered) ==
    LET matching(i) == {s \in considered : Matches(s, Tiers[i])}
        newest(set) == {s \in set :
            /\ (\E r \in set : Dated(r)) => Dated(s)
            /\ \A r \in set : Dated(r) /\ Dated(s) => Age(s) <= Age(r)}
        wins(i) == matching(i) # {} /\ \A j \in 1..(i - 1) : matching(j) = {}
    IN  IF \E i \in 1..Len(Tiers) : wins(i)
        THEN UNION {{[tier |-> Tiers[i], story |-> s] : s \in newest(matching(i))} :
                        i \in {j \in 1..Len(Tiers) : wins(j)}}
        ELSE {[tier |-> "none", story |-> Nothing]}

\* classify_headlines, for a symbol by its name
ClassifiedFor(n, list) ==
    Verdicts({s \in list : Concerns(s, n) /\ InNewsWindow(s, MaxAge, AllowUndated)})

---------------------------------------------------------------------------
\* _fetch_alpaca and _fetch_yfinance give what the wire attached to the symbol, and
\* _fetch_newsapi what names it; all cut off what is dated before the window.
Carried(p, n) ==
    {s \in OnTheWire \cap Carries[p] :
        Since(s, MaxAge) /\ IF p = "newsapi" THEN Concerns(s, n) ELSE n \in s.tags}

\* The first provider with results wins; the ones in failing have none.
FirstFound(n, failing) ==
    LET has(i) == NewsProviders[i] \notin failing /\ Carried(NewsProviders[i], n) # {}
    IN  IF \E i \in DOMAIN NewsProviders : has(i)
        THEN Carried(NewsProviders[CHOOSE i \in DOMAIN NewsProviders :
                                    has(i) /\ \A j \in 1..(i - 1) : ~has(j)], n)
        ELSE {}

Tell(n, list) ==
    \E v \in ClassifiedFor(n, list) :
        verdict' = [verdict EXCEPT ![n] =
            [tier |-> v.tier, story |-> v.story, at |-> newsClock, served |-> list]]

InNewsCache(n) == headlines[n].list # {} /\ newsClock <= headlines[n].expires

\* catalyst_news_for, from the cache
NewsFromCache(n) ==
    /\ InNewsCache(n)
    /\ Tell(n, headlines[n].list)
    /\ UNCHANGED <<newsClock, crossed, headlines, alerts>>

\* and from the providers: an empty list is no answer, and is not cached.
NewsFetched(n) ==
    /\ ~InNewsCache(n)
    /\ \E failing \in SUBSET {NewsProviders[i] : i \in DOMAIN NewsProviders} :
          LET list == FirstFound(n, failing) IN
          /\ Tell(n, list)
          /\ headlines' = IF list = {} THEN headlines
                          ELSE [headlines EXCEPT ![n] =
                                    [list |-> list, expires |-> newsClock + NewsTTL]]
    /\ UNCHANGED <<newsClock, crossed, alerts>>

\* fetch_news_batch for the whole wire, and each of its stories classified alone: this path
\* has no names, and asks how many symbols a story was attached to instead.
PollWire ==
    LET recent == {s \in OnTheWire \cap Carries["alpaca"] : Since(s, Lookback)}
        single(s) == MaxStorySymbols = 0 \/ Cardinality(s.tags) <= MaxStorySymbols
        fit    == {s \in recent : single(s) /\ InNewsWindow(s, Lookback, FALSE)}
    IN  /\ alerts' = [at |-> newsClock,
                      stories |-> {v.story : v \in UNION {Verdicts({s}) : s \in fit}} \ {Nothing}]
        /\ UNCHANGED <<newsClock, crossed, headlines, verdict>>

NewsTick ==
    /\ newsClock < NewsTime /\ newsClock' = newsClock + 1
    /\ UNCHANGED <<crossed, headlines, verdict, alerts>>

NewsInit ==
    /\ newsClock = 1 /\ crossed \in [Stories -> CrossTimes]
    /\ headlines = [n \in NewsNames |-> [list |-> {}, expires |-> 0]]
    /\ verdict = [n \in NewsNames |-> NoStory]
    /\ alerts = [at |-> 0, stories |-> {}]

NewsNext ==
    \/ \E n \in NewsNames : NewsFromCache(n) \/ NewsFetched(n)
    \/ PollWire \/ NewsTick

---------------------------------------------------------------------------
AgeAt(s, t) == t - crossed[s]

\* A tier is earned by a story that names the symbol and was inside the window when the tier
\* was told, although the list it is on may have been fetched while it still was: it is not
\* an undated story unless those count, and not an adverse one if the tier is strong.
TierIsEarned ==
    \A n \in NewsNames : verdict[n].tier # "none" =>
        LET s == verdict[n].story IN
        /\ s \in verdict[n].served /\ Concerns(s, n) /\ Matches(s, verdict[n].tier)
        /\ IF Dated(s) THEN AgeAt(s, verdict[n].at) <= MaxAge ELSE AllowUndated

\* "An offering headline IS the story": no symbol is told a catalyst while the headlines it
\* was judged by hold a dilution of it inside the window.
DilutionIsTheStory ==
    \A n \in NewsNames :
        (\E s \in verdict[n].served :
            /\ Concerns(s, n) /\ "dilution" \in s.tiers
            /\ Dated(s) /\ AgeAt(s, verdict[n].at) <= MaxAge) => verdict[n].tier = "dilution"

\* "The catalyst was published moments ago": a poll lets a story through only inside its
\* lookback, and never a roundup.
AlertsAreOfNow ==
    \A s \in alerts.stories :
        /\ Dated(s) /\ AgeAt(s, alerts.at) <= Lookback
        /\ MaxStorySymbols > 0 => Cardinality(s.tags) <= MaxStorySymbols

NewsIsHonest == TierIsEarned /\ DilutionIsTheStory /\ AlertsAreOfNow
===========================================================================
