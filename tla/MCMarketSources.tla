-------------------------- MODULE MCMarketSources --------------------------
(* Values for TLC: tickers 1 and 2 are stocks, 3 is a warrant by its name.  *)
EXTENDS MarketSources

Row(n, p, c) == [name |-> n, price |-> p, change |-> c]

SourcesValue == <<"gainers", "most_actives">>
ChainValue == <<"alpaca", "fmp">>
PremarketChainValue == <<"polygon", "yahoo">>
PayloadsValue ==
    [alpaca  |-> {Broken, <<>>, <<Unreadable>>, <<Row(1, 5, 20), Unreadable>>, <<Row(1, 6, 400), Row(3, 1, 30)>>},
     fmp     |-> {Broken, <<>>, <<Row(1, 4, 10), Row(2, 1, 20), Row(2, 2, 60)>>, <<Row(2, 3, -50), Row(1, 7, 500)>>},
     polygon |-> {Broken, <<Unreadable>>, <<Row(2, 3, -50), Row(3, 1, 30), Row(1, 4, 10)>>},
     yahoo   |-> {Broken, <<Unreadable>>, <<Row(1, 5, 20), Row(2, 1, 20)>>}]
CredentialsValue == {{"yahoo"}, {"alpaca", "fmp", "yahoo"}, {"fmp", "polygon", "yahoo"}}
RecomputedValue == {Unknown, 1, -20, 380, 900}
UniversesValue == {<<"a", "b">>, <<"b">>}

\* Two spellings of one share class, a stock of two days, an index, and one venue on which
\* only that stock trades
BatchesValue == {<<"B-X", "A", "B.X">>, <<"A", "B-X", "C">>, <<"^V">>}
SpellingValue == [s \in {"A", "B-X", "B.X", "C"} |-> IF s = "B-X" THEN "B.X" ELSE s]
DaysValue == [n \in {"A", "B.X", "C", "^V"} |-> [t \in {"sip", "iex", "consolidated"} |->
                IF n = "A" THEN 2 ELSE IF t = "iex" THEN 0 ELSE 1]]

\* Of a: an offering, an adverse trial, an undated upgrade and a churn piece with a broken
\* date; a deal of b in a roundup that names a too
Story(d, about, tags, tiers, adv) ==
    [dated |-> d, about |-> about, tags |-> tags, tiers |-> tiers, adverse |-> adv]
Offering == Story("right", {"a"}, {"a"}, {"dilution"}, FALSE)
Trial    == Story("right", {"a"}, {"a"}, {"strong", "moderate"}, TRUE)
Upgrade  == Story("none", {"a"}, {"a"}, {"strong"}, FALSE)
Churn    == Story("future", {"a"}, {"a"}, {"weak"}, FALSE)
Deal     == Story("right", {"b"}, {"a", "b"}, {"strong"}, FALSE)
StoriesValue == {Offering, Trial, Upgrade, Churn, Deal}
NewsProvidersValue == <<"alpaca", "yfinance", "newsapi">>
CarriesValue == [alpaca |-> {Offering, Trial, Deal, Churn}, yfinance |-> {Upgrade, Trial, Deal},
                 newsapi |-> {Offering, Churn}]
===========================================================================
