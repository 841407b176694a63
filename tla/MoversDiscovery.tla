--------------------------- MODULE MoversDiscovery ---------------------------
(***************************************************************************)
(* Discovery of market movers: fetch_market_movers of                      *)
(* src/scanner/movers.py on the providers of src/scanner/movers_providers  *)
(* .py, and fetch_premarket_candidates on src/scanner/premarket_movers.py. *)
(*                                                                         *)
(* Every thread that discovers has health of its own; what they share is   *)
(* the asset list.  Tickers are numbers, so that they have an order; moves *)
(* are whole percents; scores are tenths.  A provider's payload, what our  *)
(* bars say of a move, what enrichment finds and what is halted are any    *)
(* of the values they can have.                                            *)
(***************************************************************************)
EXTENDS AssetList, Integers, Sequences, FiniteSets, Functions

CONSTANTS
    Modes,             \* MOVERS_PROVIDER_MODE, "merge" or "first_wins"
    Kinds,             \* the runs a thread makes: "regular", "premarket"
    Sources,           \* MOVERS_SOURCES
    Chain,             \* MOVERS_PROVIDERS
    PremarketChain,    \* PREMARKET_MOVERS_PROVIDERS
    Credentials,       \* sets of providers that may be configured
    Payloads,          \* what each provider may send
    Recomputed,        \* moves our own bars may show
    Suspect, Agreement,\* MOVERS_SUSPECT_CHANGE_PCT, MOVERS_SUSPECT_AGREEMENT_PCT
    MinChange, MinPrice, MaxPrice, IncludeShort,
    PremarketMinChange, PremarketMinPrice, PremarketLimit,
    Limit, EnrichMax,
    Scores,            \* scores enrichment may give
    MaxWithheld,       \* _MAX_WITHHELD
    ExcludeHalted,     \* MOVERS_HALT_EXCLUDE_FROM_LIST
    MaxRuns,           \* bound: runs of a thread
    Broken,            \* what a provider sends that are not rows
    Unreadable,        \* a row that cannot be read
    NoAnswer,          \* what the adapter makes of either
    Unknown            \* a move our bars cannot show; nothing found by enrichment

\* A provider's row of a name
MoverRow == [name : Nat, price : Nat, change : Int]

\* Each source is configured once; a provider sends rows, some of them unreadable, or no rows.
ASSUME DiscoveryAssumption ==
    /\ Modes \subseteq {"merge", "first_wins"} /\ Kinds \subseteq {"regular", "premarket"}
    /\ Suspect \in Nat /\ Agreement \in Nat /\ MinChange \in Nat /\ MinPrice \in Nat
    /\ MaxPrice \in Nat /\ IncludeShort \in BOOLEAN /\ ExcludeHalted \in BOOLEAN
    /\ PremarketMinChange \in Nat /\ PremarketMinPrice \in Nat /\ PremarketLimit \in Nat
    /\ Limit \in Nat /\ EnrichMax \in Nat /\ MaxWithheld \in Nat /\ MaxRuns \in Nat
    /\ Sources \in Seq(STRING) /\ IsInjective(Sources)
    /\ Chain \in Seq(STRING) /\ PremarketChain \in Seq(STRING)
    /\ \A p \in Range(Chain) \cup Range(PremarketChain) : \A payload \in Payloads[p] :
          payload = Broken \/ payload \in Seq(MoverRow \cup {Unreadable})
    /\ Unreadable \notin MoverRow /\ NoAnswer \notin Seq(MoverRow)
    /\ Broken \notin Seq(MoverRow \cup {Unreadable})
    /\ Recomputed \ {Unknown} \subseteq Int /\ Scores \subseteq 0..1000

VARIABLES
    mode,        \* the configuration
    configured,  \* providers with credentials
    run,         \* what each thread is at
    health,      \* _health_state of each thread
    runs         \* runs each thread has begun

discoveryVars == <<mode, configured, run, health, runs>>
vars == <<clock, assetVars, discoveryVars>>

BlankHealth ==
    [attempted |-> <<>>, succeeded |-> <<>>, failed |-> {}, withheld |-> <<>>,
     excluded |-> <<>>, claim |-> "none"]

\* `heard` is history: what each provider answered for each source, in the order of the answers.
NewRun(kind) ==
    [at |-> "source", kind |-> kind, sources |-> <<>>, asking |-> <<>>,
     answered |-> <<>>, mute |-> {}, union |-> <<>>, candidates |-> <<>>, kept |-> <<>>,
     heard |-> <<>>]

Idle == [NewRun("regular") EXCEPT !.at = "idle"]

Abs(n) == IF n < 0 THEN -n ELSE n

\* The items at the places S, those of the larger key first: a stable sort.
Ordered(items, S, key) ==
    LET before(i) == {j \in S : key[j] > key[i] \/ (key[j] = key[i] /\ j < i)}
    IN  [k \in 1..Cardinality(S) |-> items[CHOOSE i \in S : Cardinality(before(i)) = k - 1]]

\* Those at the places S, in the order they are in
Picked(items, S) == Ordered(items, S, [i \in S |-> 0])

Sorted(items, key) == Ordered(items, DOMAIN items, key)

---------------------------------------------------------------------------
(* Providers.                                                              *)

\* MoversProvider.supports: neither Alpaca nor Polygon can serve the most active.
Supports(p, source) ==
    source \in {"gainers", "losers"} \/ (source = "most_actives" /\ p = "fmp")

\* The providers that are asked: those that serve the source and have credentials
AskedFor(source) ==
    IF source = "premarket"
    THEN Picked(PremarketChain, {i \in DOMAIN PremarketChain : PremarketChain[i] \in configured})
    ELSE Picked(Chain, {i \in DOMAIN Chain : Supports(Chain[i], source) /\ Chain[i] \in configured})

Readable(payload) == Picked(payload, {i \in DOMAIN payload : payload[i] # Unreadable})

\* Mutant: rows of which none can be read are an empty answer.
NormalisedAnyway(payload) == IF payload = Broken THEN NoAnswer ELSE Readable(payload)

\* The adapters and _normalise: an error, or a payload of another shape, is no answer.
\* Rows of which none can be read are no answer either; no rows at all are one.
Normalised(payload) ==
    IF payload = Broken \/ (payload # <<>> /\ Readable(payload) = <<>>) THEN NoAnswer
    ELSE Readable(payload)

\* The pre-market adapters.  A quote of Yahoo's pool without a pre-market print is a quiet
\* name; a snapshot of Polygon's without one usable row is no answer.
PremarketRows(p, payload) ==
    IF p = "yahoo" /\ payload # Broken THEN Readable(payload) ELSE Normalised(payload)

\* The first row of a name, if there is one
FirstRow(rows, name) ==
    {rows[i] : i \in {i \in DOMAIN rows :
        rows[i].name = name /\ \A j \in DOMAIN rows : j < i => rows[j].name # name}}

\* A later provider only adds symbols that the earlier ones did not list.
Unite(rows, more) ==
    rows \o Picked(more, {i \in DOMAIN more :
        /\ FirstRow(rows, more[i].name) = {}
        /\ \A j \in 1..(i - 1) : more[j].name # more[i].name})

\* _SOURCE_DIRECTION, or the sign of the move
Direction(source, change) ==
    CASE source = "gainers" -> "long"
      [] source = "losers"  -> "short"
      [] OTHER -> IF change < 0 THEN "short" ELSE "long"

Candidate(row, source) ==
    [name |-> row.name, price |-> row.price, change |-> row.change,
     dir |-> Direction(source, row.change), sources |-> {source}, feed |-> row.change,
     verified |-> FALSE, score |-> 0, enriched |-> FALSE, halted |-> FALSE]

\* Mutant: the larger change replaces the smaller, and the price stays.
MergedChangeOnly(c, row, source) ==
    LET seen == [c EXCEPT !.sources = @ \cup {source}]
    IN  IF Abs(row.change) > Abs(c.change)
        THEN [seen EXCEPT !.change = row.change, !.feed = row.change]
        ELSE seen

\* The larger move wins, with its price and its direction.
Merged(c, row, source) ==
    LET seen == [c EXCEPT !.sources = @ \cup {source}]
    IN  IF Abs(row.change) > Abs(c.change)
        THEN [Candidate(row, source) EXCEPT !.sources = seen.sources]
        ELSE seen

AddRow(source, cands, row) ==
    IF \E c \in Range(cands) : c.name = row.name
    THEN [i \in DOMAIN cands |->
             IF cands[i].name = row.name THEN Merged(cands[i], row, source) ELSE cands[i]]
    ELSE Append(cands, Candidate(row, source))

\* Every row of the source, one after the other
AddRows(source, cands, rows) ==
    LET added[n \in 0..Len(rows)] == IF n = 0 THEN cands ELSE AddRow(source, added[n - 1], rows[n])
    IN  added[Len(rows)]

---------------------------------------------------------------------------
(* The corporate-action guard and the filters.                             *)

\* _changes_agree, relative to the larger of the two
Agree(feed, ours) ==
    LET scale == IF Abs(feed) > Abs(ours) THEN Abs(feed) ELSE Abs(ours)
    IN  100 * Abs(feed - ours) <= Agreement * scale

\* What becomes of a candidate with a suspect move when our bars show `ours`
Guard(c, ours) ==
    IF ours = Unknown THEN "unverifiable"
    ELSE IF ~Agree(c.change, ours) /\ Abs(ours) >= Suspect THEN "conflicting"
    ELSE "ours"

Verified(c, ours) ==
    [c EXCEPT !.change = ours, !.verified = TRUE, !.dir = IF ours < 0 THEN "short" ELSE "long"]

IsSuspect(c) == Suspect > 0 /\ Abs(c.change) >= Suspect

PassesPremarket(c) == Abs(c.change) >= PremarketMinChange /\ c.price >= PremarketMinPrice

Passes(c) ==
    /\ Abs(c.change) >= MinChange /\ c.price >= MinPrice
    /\ MaxPrice > 0 => c.price <= MaxPrice
    /\ c.dir = "short" => IncludeShort

\* _score, in tenths
Score(c) ==
    LET size  == 25 * Abs(c.change)
        lists == 80 * (Cardinality(c.sources) - 1)
    IN  (IF size < 850 THEN size ELSE 850) + (IF lists < 150 THEN lists ELSE 150)

Scored(c) == [c EXCEPT !.score = Score(c)]

\* Mutant: the weakest first.
RankedUpwards(cands) == Sorted(cands, [i \in DOMAIN cands |-> -cands[i].score])

Ranked(cands) == Sorted(cands, [i \in DOMAIN cands |-> cands[i].score])

Top(cands, n) == SubSeq(cands, 1, IF n < Len(cands) THEN n ELSE Len(cands))

\* The candidates to rank: all of them, or before the open the largest moves.
Leading(kind, cands) ==
    LET byName == Sorted(cands, [i \in DOMAIN cands |-> -cands[i].name])
    IN  IF kind = "regular" THEN cands
        ELSE Top(Sorted(byName, [i \in DOMAIN byName |-> Abs(byName[i].change)]), PremarketLimit)

Capped(kind, cands) ==
    IF kind = "regular" /\ Limit > 0 THEN Top(Ranked(cands), Limit) ELSE Ranked(cands)

\* _enrich_candidate: too few bars, no volume or an error leave the candidate as it is.
Enriched(c, found) ==
    IF found = Unknown THEN c ELSE [c EXCEPT !.score = found, !.enriched = TRUE]

---------------------------------------------------------------------------
(* A run of a thread.                                                      *)

DiscoveryInit ==
    /\ AssetInit
    /\ mode \in Modes /\ configured \in Credentials
    /\ keyed = ("alpaca" \in configured)
    /\ run = [t \in Threads |-> Idle]
    /\ health = [t \in Threads |-> BlankHealth]
    /\ runs = [t \in Threads |-> 0]

\* fetch_market_movers begins with blank health; fetch_premarket_candidates goes on with
\* the one there is.
Begin(t) ==
    /\ run[t].at = "idle" /\ runs[t] < MaxRuns
    /\ \E kind \in Kinds :
          LET order == IF kind = "regular" THEN Sources ELSE <<"premarket">>
          IN  /\ run' = [run EXCEPT ![t] = [NewRun(kind) EXCEPT !.sources = order]]
              /\ health' = [health EXCEPT ![t] = IF kind = "regular" THEN BlankHealth ELSE @]
    /\ runs' = [runs EXCEPT ![t] = @ + 1]
    /\ UNCHANGED <<clock, assetVars, mode, configured>>

\* The next source
BeginSource(t) ==
    /\ run[t].at = "source" /\ run[t].sources # <<>>
    /\ LET source == Head(run[t].sources) IN
          /\ run' = [run EXCEPT ![t] = [@ EXCEPT !.asking = AskedFor(source), !.answered = <<>>,
                                                 !.mute = {}, !.union = <<>>, !.at = "ask"]]
          /\ health' = [health EXCEPT ![t].attempted = Append(@, source)]
    /\ UNCHANGED <<clock, assetVars, mode, configured, runs>>

\* The first answer serves a pre-market run, and any run under first_wins.
OneAnswerServes(t) == run[t].kind = "premarket" \/ mode = "first_wins"

\* One provider is asked, and answers or not.
Ask(t) ==
    /\ run[t].at = "ask" /\ run[t].asking # <<>>
    /\ LET p    == Head(run[t].asking)
           rest == Tail(run[t].asking) IN
       \E payload \in Payloads[p] :
          LET rows  == IF run[t].kind = "premarket" THEN PremarketRows(p, payload)
                       ELSE Normalised(payload)
              heard == Append(run[t].heard,
                              [source |-> Head(run[t].sources), sent |-> payload, rows |-> rows])
          IN  run' = [run EXCEPT ![t] =
                  IF rows = NoAnswer
                  THEN [@ EXCEPT !.mute = run[t].mute \cup {p}, !.asking = rest, !.heard = heard]
                  ELSE [@ EXCEPT !.answered = Append(run[t].answered, p), !.heard = heard,
                                 !.asking = IF OneAnswerServes(t) THEN <<>> ELSE rest,
                                 !.union  = IF OneAnswerServes(t) THEN rows ELSE Unite(run[t].union, rows)]]
    /\ UNCHANGED <<clock, assetVars, mode, configured, health, runs>>

\* What goes into failed: under merge the providers missing from the union, otherwise
\* only that nobody answered.
OutagesOfSource(t, source) ==
    IF run[t].answered # <<>>
    THEN IF mode = "merge" THEN {<<source, p>> : p \in run[t].mute} ELSE {}
    ELSE {<<source, "no_provider">>}

\* _fetch_source returns, and its rows are merged with those of the sources before.
EndSource(t) ==
    /\ run[t].at = "ask" /\ run[t].asking = <<>> /\ run[t].kind = "regular"
    /\ LET source == Head(run[t].sources) IN
          /\ health' = [health EXCEPT ![t] = [@ EXCEPT
                !.failed = health[t].failed \cup OutagesOfSource(t, source),
                !.succeeded = IF run[t].answered # <<>> THEN Append(health[t].succeeded, source)
                              ELSE health[t].succeeded]]
          /\ run' = [run EXCEPT ![t] = [@ EXCEPT
                !.candidates = AddRows(source, run[t].candidates, run[t].union),
                !.sources = Tail(run[t].sources), !.union = <<>>,
                !.at = IF Len(run[t].sources) > 1 THEN "source" ELSE "judge"]]
    /\ UNCHANGED <<clock, assetVars, mode, configured, runs>>

\* fetch_premarket_movers returns after its chain; that nobody answered is not told.
EndPremarket(t) ==
    /\ run[t].at = "ask" /\ run[t].asking = <<>> /\ run[t].kind = "premarket"
    /\ health' = [health EXCEPT ![t].succeeded = Append(@, "premarket")]
    /\ run' = [run EXCEPT ![t] = [@ EXCEPT
          !.candidates = [i \in DOMAIN run[t].union |-> Candidate(run[t].union[i], "premarket")],
          !.sources = <<>>, !.union = <<>>, !.at = "judge"]]
    /\ UNCHANGED <<clock, assetVars, mode, configured, runs>>

\* It may also raise: that is told, and the run ends with no list.
PremarketFails(t) ==
    /\ run[t].at = "ask" /\ run[t].kind = "premarket"
    /\ health' = [health EXCEPT ![t].failed = @ \cup {<<"premarket", "discovery_error">>}]
    /\ run' = [run EXCEPT ![t].at = "done"]
    /\ UNCHANGED <<clock, assetVars, mode, configured, runs>>

\* The loop over the candidates.  A derivative is put on record and left out.  A suspect
\* move is checked against our bars, and replaced or withheld.
Consider(t, byName) ==
    LET c    == Head(run[t].candidates)
        rest == [run[t] EXCEPT !.candidates = Tail(@)]
        regular == run[t].kind = "regular"
        pass(d) == IF IF regular THEN Passes(d) ELSE PassesPremarket(d) THEN [rest EXCEPT !.kept = Append(@, Scored(d))] ELSE rest
    IN  IF IsDerivative(c.name, byName)
        THEN /\ health' = [health EXCEPT ![t].excluded = IF regular THEN Append(@, c.name) ELSE @]
             /\ run' = [run EXCEPT ![t] = rest]
        ELSE IF regular /\ IsSuspect(c)
        THEN \E ours \in Recomputed :
                IF Guard(c, ours) = "ours"
                THEN /\ run' = [run EXCEPT ![t] = pass(Verified(c, ours))]
                     /\ UNCHANGED health
                ELSE /\ run' = [run EXCEPT ![t] = rest]
                     /\ health' = [health EXCEPT ![t].withheld =
                            IF Len(@) < MaxWithheld
                            THEN Append(@, [name |-> c.name, why |-> Guard(c, ours)]) ELSE @]
        ELSE run' = [run EXCEPT ![t] = pass(c)] /\ UNCHANGED health

Judge(t) ==
    /\ run[t].at = "judge" /\ run[t].candidates # <<>>
    /\ \/ FoundList(t) /\ Consider(t, TRUE)
       \/ NoList(t) /\ Consider(t, FALSE)
    /\ UNCHANGED <<clock, mode, configured, runs>>

JudgeLooksOn(t) ==
    /\ run[t].at = "judge" /\ run[t].candidates # <<>>
    /\ LookOn(t)
    /\ UNCHANGED <<clock, discoveryVars>>

\* Ranked, cut, and the top of it enriched and ranked again
Rank(t) ==
    /\ run[t].at = "judge" /\ run[t].candidates = <<>>
    /\ LET kind == run[t].kind
           top  == Capped(kind, Leading(kind, run[t].kept))
       IN  \E found \in [DOMAIN Top(top, EnrichMax) -> Scores \cup {Unknown}] :
              run' = [run EXCEPT ![t] = [@ EXCEPT
                  !.kept = Ranked([i \in DOMAIN top |->
                       IF i \in DOMAIN found THEN Enriched(top[i], found[i]) ELSE top[i]]),
                  !.at = "halts"]]
    /\ UNCHANGED <<clock, assetVars, mode, configured, health, runs>>

\* annotate_halts, with the halts there are; none are known when the feed fails.
AnnotateHalts(t) ==
    /\ run[t].at = "halts"
    /\ \E halted \in SUBSET {c.name : c \in Range(run[t].kept)} :
          LET flagged == [i \in DOMAIN run[t].kept |->
                             [run[t].kept[i] EXCEPT !.halted = @ \/ run[t].kept[i].name \in halted]]
          IN  run' = [run EXCEPT ![t] = [@ EXCEPT
                  !.kept = IF ExcludeHalted
                           THEN Picked(flagged, {i \in DOMAIN flagged : ~flagged[i].halted})
                           ELSE flagged,
                  !.at = "claim"]]
    /\ UNCHANGED <<clock, assetVars, mode, configured, health, runs>>

\* Which of the two ways told derivatives apart, by the flag all threads share
Claim(t) ==
    /\ run[t].at = "claim"
    /\ health' = [health EXCEPT ![t].claim =
          IF run[t].kind = "premarket" THEN @
          ELSE IF lastOk THEN "asset_names" ELSE "symbol_suffix"]
    /\ run' = [run EXCEPT ![t].at = "done"]
    /\ UNCHANGED <<clock, assetVars, mode, configured, runs>>

\* The caller has read the list and the health.
Return(t) ==
    /\ run[t].at = "done"
    /\ run' = [run EXCEPT ![t] = Idle]
    /\ UNCHANGED <<clock, assetVars, mode, configured, health, runs>>

ThreadStep(t) ==
    \/ Begin(t) \/ BeginSource(t) \/ Ask(t) \/ EndSource(t)
    \/ EndPremarket(t) \/ PremarketFails(t)
    \/ Judge(t) \/ JudgeLooksOn(t) \/ Rank(t) \/ AnnotateHalts(t) \/ Claim(t) \/ Return(t)

Others == (OtherProcessFetches \/ Tick) /\ UNCHANGED discoveryVars

Next == (\E t \in Threads : ThreadStep(t)) \/ Others

Spec == DiscoveryInit /\ [][Next]_vars

---------------------------------------------------------------------------
(* What discovery promises of the list it returns and of the health that   *)
(* goes with it.                                                           *)

Done(kind)  == {t \in Threads : run[t].at = "done" /\ run[t].kind = kind}
Names(t)    == {c.name : c \in Range(run[t].kept)}
Answered(t) == {h \in Range(run[t].heard) : h.rows # NoAnswer}
HeardOf(t, source) == {h \in Range(run[t].heard) : h.source = source}

\* Every variable holds a value of its kind.
DiscoveryTypeOK ==
    /\ clock \in 1..MaxTime /\ keyed \in BOOLEAN /\ cachedUntil \in Nat /\ retryAfter \in Nat /\ lastOk \in BOOLEAN
    /\ holder \in Threads \cup {Nobody}
    /\ looking \in [Threads -> {"out", "waiting", "fetching"}]
    /\ \A t \in Threads :
          /\ runs[t] \in 0..MaxRuns
          /\ run[t].at \in {"idle", "source", "ask", "judge", "halts", "claim", "done"}
          /\ \A c \in Range(run[t].candidates) \cup Range(run[t].kept) :
                c.dir \in {"long", "short"} /\ c.sources # {} /\ c.score \in 0..1000
          /\ run[t].kind = "regular" => IsInjective([i \in DOMAIN run[t].kept |-> run[t].kept[i].name])
          /\ Len(health[t].withheld) <= MaxWithheld

\* "Distinguish quiet market from the data source failed": when a regular run is over,
\* its health has succeeded sources exactly if some provider answered, and failures
\* exactly if a source was served by nobody or, under merge, with a provider missing.
OutagesAreTold ==
    \A t \in Done("regular") :
        LET said(h) == h.sent # Broken /\ (h.sent = <<>> \/ \E r \in Range(h.sent) : r # Unreadable)
            answered(source) == \E h \in HeardOf(t, source) : said(h)
            silent(source)   == \E h \in HeardOf(t, source) : ~said(h)
        IN  /\ health[t].succeeded = <<>> <=> \A source \in Range(Sources) : ~answered(source)
            /\ health[t].failed = {} <=>
                  \A source \in Range(Sources) :
                      answered(source) /\ (mode = "merge" => ~silent(source))

\* An answer for the source that lists the name
Lists(h, source, name) ==
    h.source = source /\ h.rows # NoAnswer /\ FirstRow(h.rows, name) # {}

\* What the chain gives for a symbol in a source: the first row of the first provider
\* that lists it
Quote(t, source, name) ==
    LET heard == run[t].heard
        first == {k \in DOMAIN heard : /\ Lists(heard[k], source, name)
                                       /\ \A l \in 1..(k - 1) : ~Lists(heard[l], source, name)}
    IN  UNION {FirstRow(heard[k].rows, name) : k \in first}

Quotes(t, name) == UNION {Quote(t, source, name) : source \in Range(Sources)}

\* A candidate is what some provider said, as a whole: its price and its feed's move
\* come from one row, that of the leading provider, in a source that it names, and no
\* other source has a larger move of it.
QuotesAreOneRow ==
    \A t \in Done("regular") : mode = "merge" => \A c \in Range(run[t].kept) :
        LET quotes == Quotes(t, c.name)
        IN  /\ \E q \in quotes : q.price = c.price /\ q.change = c.feed
            /\ \A q \in quotes : Abs(q.change) <= Abs(c.feed)
            /\ c.sources = {source \in Range(Sources) : Quote(t, source, c.name) # {}}

\* The corporate-action guard: a move at or beyond the threshold is never published on
\* the feed's word, and what is published instead is our own number, plausible by
\* itself or in agreement with the feed's.
SuspectMovesAreOurs ==
    \A t \in Done("regular") : \A c \in Range(run[t].kept) :
        Suspect > 0 /\ Abs(c.feed) >= Suspect =>
            /\ c.verified /\ c.change \in Recomputed
            /\ Abs(c.change) < Suspect \/ Agree(c.feed, c.change)
            /\ c.dir = IF c.change < 0 THEN "short" ELSE "long"

\* No name that was discovered vanishes without a trace: one that is neither published,
\* nor on record as a derivative or as withheld (while that record has room), was heard
\* of with a move too small or a price out of range, was corrected to too small a move,
\* or was outranked in a full list by a score that is at least its own.  Whether halted
\* names are dropped is configuration.
NothingVanishes ==
    \A t \in Done("regular") : mode = "merge" /\ ~ExcludeHalted =>
        \A name \in UNION {{q.name : q \in Range(h.rows)} : h \in Answered(t)} :
            \/ name \in Names(t) \cup Range(health[t].excluded)
            \/ \E w \in Range(health[t].withheld) : w.name = name
            \/ Len(health[t].withheld) = MaxWithheld
            \/ \E q \in Quotes(t, name) :
                  \/ Abs(q.change) < MinChange \/ q.price < MinPrice
                  \/ MaxPrice > 0 /\ q.price > MaxPrice
                  \/ ~IncludeShort
                  \/ Abs(q.change) >= Suspect /\ \E ours \in Recomputed \ {Unknown} : Abs(ours) < MinChange
            \/ /\ Limit > 0 /\ Len(run[t].kept) = Limit
               /\ \E q \in Quotes(t, name) : \A c \in Range(run[t].kept) :
                     \/ Abs(q.change) >= Suspect
                     \/ Score(c) >= Score([c EXCEPT !.change = q.change,
                                              !.sources = {src \in Range(Sources) : Quote(t, src, name) # {}}])

===========================================================================
