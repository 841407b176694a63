------------------------------- MODULE BarsFeed -------------------------------
(***************************************************************************)
(* Where the rows of a price frame come from: fetch_ohlcv_batch of         *)
(* src/data/fetcher.py with its paged requests for many symbols at once,   *)
(* the refusal of the consolidated tape in the middle of them, and the     *)
(* providers each symbol that is left over goes through on its own.        *)
(*                                                                         *)
(* A row is a day of a symbol on a tape.  A frame is a sequence of rows    *)
(* and the tag volume_feed that says which tape its volumes are of.  When  *)
(* frames are too old to be read is the matter of MarketData.              *)
(***************************************************************************)
EXTENDS Integers, Sequences, FiniteSets, SequencesExt

CONSTANTS
    Batches,      \* the lists of symbols that are asked for
    Spelling,     \* _alpaca_symbol: Alpaca's name of each symbol it knows the format of
    Days,         \* how many days of each name, and of each other symbol, a tape has
    ChunkSize,    \* _ALPACA_BATCH_SYMBOLS
    PageRows,     \* the limit of a page
    MaxPages,     \* _ALPACA_BATCH_MAX_PAGES
    BarRetries,   \* _MAX_RETRIES
    MaxBatches    \* bound: calls of fetch_ohlcv_batch

Bars    == UNION {ToSet(b) : b \in Batches}
OnAlpaca(s) == s \in DOMAIN Spelling     \* _can_use_alpaca_symbol
Name(s) == IF OnAlpaca(s) THEN Spelling[s] ELSE s
Tapes   == {"sip", "iex", "consolidated"}

ASSUME BarsAssumption ==
    /\ \A b \in Batches : b \in Seq(Bars)
    /\ DOMAIN Spelling \subseteq Bars
    /\ \A s \in Bars : DOMAIN Days[Name(s)] = Tapes /\ \A t \in Tapes : Days[Name(s)][t] \in Nat
    /\ {ChunkSize, PageRows, MaxPages} \subseteq Nat \ {0}
    /\ BarRetries \in Nat /\ MaxBatches \in Nat

VARIABLES
    dailyFeed,    \* ALPACA_DAILY_FEED, and whether there are credentials
    barFiles,     \* the cached frame of each symbol
    barExpired,   \* the symbols whose cached frame has expired
    batch,        \* the call of fetch_ohlcv_batch
    asking        \* the call of fetch_ohlcv for each symbol that is left over

barVars == <<dailyFeed, barFiles, barExpired, batch, asking>>

History(n, tape) == [d \in 1..Days[n][tape] |-> [of |-> n, day |-> d, tape |-> tape]]
NoFrame == [rows |-> <<>>, feed |-> "none"]
FrameOf(n, feed) ==
    LET tape == IF feed = "iex-fallback" THEN "iex" ELSE feed
    IN  [rows |-> History(n, tape), feed |-> feed]

NotAsking == [at |-> "not", tries |-> 0]
NoBatch == [at |-> "idle", asked |-> <<>>, need |-> {}, from |-> 0, feed |-> "none", page |-> 0,
            rows |-> <<>>, out |-> <<>>, calls |-> 0]

\* _alpaca_bars_feed, for daily bars
FirstFeed == IF dailyFeed.feed = "sip" THEN "sip" ELSE "iex"

\* _cached_frame_usable, but for the floor
TrustedDailyVolume == {"sip", "consolidated", "iex-fallback"}
Trusted(frame) == dailyFeed.feed = "sip" => frame.feed \in TrustedDailyVolume
InCache(s) == s \notin barExpired /\ barFiles[s].rows # <<>> /\ Trusted(barFiles[s])

---------------------------------------------------------------------------
(* One request for many symbols.                                           *)

\* The positions of what Alpaca knows by a name, and the names it is asked for.  Of two
\* spellings the last is answered, and the other is left to its own call.
Spellings(b, n) == {i \in b.need : OnAlpaca(b.asked[i]) /\ Name(b.asked[i]) = n}
AlpacaNames(b)  == {Name(b.asked[i]) : i \in {i \in b.need : OnAlpaca(b.asked[i])}}
Original(n)     == batch.asked[Max(Spellings(batch, n))]

\* The names in the order in which they were first met, a chunk after the other
Place(n) == Cardinality({m \in AlpacaNames(batch) : Min(Spellings(batch, m)) <= Min(Spellings(batch, n))})
Chunk    == {n \in AlpacaNames(batch) : Place(n) \in batch.from + 1..batch.from + ChunkSize}

Missing == {s \in ToSet(batch.asked) : s \notin DOMAIN batch.out}

\* fetch_ohlcv_batch: what the cache has is answered from it.  Without credentials, or
\* with no name Alpaca would know, nothing is asked of it.
AskBatch(list) ==
    /\ batch.at = "idle" /\ batch.calls < MaxBatches
    /\ LET hits  == {s \in ToSet(list) : InCache(s)}
           need  == {i \in DOMAIN list : list[i] \notin hits}
           names == IF dailyFeed.credentials THEN AlpacaNames([asked |-> list, need |-> need]) ELSE {}
       IN  batch' = [at |-> IF need = {} THEN "idle" ELSE IF names = {} THEN "rest" ELSE "chunk",
                     asked |-> list, need |-> need, from |-> 0, feed |-> FirstFeed, page |-> 0,
                     rows |-> <<>>, out |-> [s \in hits |-> [frame |-> barFiles[s], from |-> "cache"]],
                     calls |-> batch.calls + 1]
    /\ UNCHANGED <<dailyFeed, barFiles, barExpired, asking>>

Tape  == IF batch.feed = "sip" THEN "sip" ELSE "iex"

\* Alpaca sends what it has of a chunk by symbol, then by time: the rows of n among the
\* first k, and those on the next page
Rows(names) == SumFunctionOnSet([n \in names |-> Days[n][Tape]], names)
Within(n, k) ==
    LET sent == k - Rows({m \in Chunk : Place(m) < Place(n)})
    IN  IF sent < 0 THEN 0 ELSE IF sent < Days[n][Tape] THEN sent ELSE Days[n][Tape]
OnPage(n) ==
    SubSeq(History(n, Tape), Within(n, batch.page * PageRows) + 1,
                             Within(n, (batch.page + 1) * PageRows))

\* rows_by_symbol with one more page
Sent(n)  == IF n \in DOMAIN batch.rows THEN batch.rows[n] ELSE <<>>
Extended == [n \in Chunk |-> Sent(n) \o OnPage(n)]

\* The next chunk starts over, on the tape that was asked for first.
NextChunk ==
    [batch EXCEPT !.from = @ + ChunkSize, !.feed = FirstFeed, !.page = 0, !.rows = <<>>,
                  !.at = IF batch.from + ChunkSize < Cardinality(AlpacaNames(batch)) THEN "chunk" ELSE "rest"]

\* A page arrives, and there are more.
MorePages ==
    /\ batch.at = "chunk"
    /\ (batch.page + 1) * PageRows < Rows(Chunk) /\ batch.page + 1 < MaxPages
    /\ batch' = [batch EXCEPT !.page = @ + 1, !.rows = Extended]
    /\ UNCHANGED <<dailyFeed, barFiles, barExpired, asking>>

\* The last page: each symbol of the chunk that has rows gets a frame, which is cached.
LastPage ==
    LET found    == {n \in Chunk : Extended[n] # <<>>}
        filled   == {Original(n) : n \in found}
        frame(s) == [rows |-> Extended[Name(s)], feed |-> batch.feed]
    IN  /\ batch.at = "chunk"
        /\ (batch.page + 1) * PageRows >= Rows(Chunk)
        /\ batch' = [NextChunk EXCEPT !.out =
                [s \in DOMAIN batch.out \cup filled |->
                    IF s \in filled THEN [frame |-> frame(s), from |-> "batch"] ELSE batch.out[s]]]
        /\ barFiles' = [s \in Bars |-> IF s \in filled THEN frame(s) ELSE barFiles[s]]
        /\ barExpired' = barExpired \ filled
        /\ UNCHANGED <<dailyFeed, asking>>

RefusedGoesOn ==
    /\ batch.at = "chunk" /\ batch.feed = "sip"
    /\ batch' = [batch EXCEPT !.feed = "iex-fallback"]
    /\ UNCHANGED <<dailyFeed, barFiles, barExpired, asking>>

\* The consolidated tape is refused (HTTP 403), on the first page or a later one: the
\* chunk is asked for again from its first page, on one venue's tape.
Refused ==
    /\ batch.at = "chunk" /\ batch.feed = "sip"
    /\ batch' = [batch EXCEPT !.feed = "iex-fallback", !.page = 0, !.rows = <<>>]
    /\ UNCHANGED <<dailyFeed, barFiles, barExpired, asking>>

\* A page fails, or there are too many: what the chunk had so far is discarded.
ChunkFails ==
    /\ batch.at = "chunk"
    /\ batch' = NextChunk
    /\ UNCHANGED <<dailyFeed, barFiles, barExpired, asking>>

---------------------------------------------------------------------------
(* One symbol at a time: fetch_ohlcv.                                      *)

AnsweredWith(s, frame, from) ==
    /\ batch' = [batch EXCEPT !.out =
            [r \in DOMAIN @ \cup {s} |-> IF r = s THEN [frame |-> frame, from |-> from] ELSE @[r]]]
    /\ asking' = [asking EXCEPT ![s] = NotAsking]

\* The providers of _download_ohlcv_once that can be asked about s, and their order
Providers(s) ==
    {p \in {"alpaca", "polygon", "ticker", "download"} :
        /\ p = "alpaca" => dailyFeed.credentials /\ OnAlpaca(s)
        /\ p = "polygon" => OnAlpaca(s)}
FirstProvider(s) ==
    IF "alpaca" \in Providers(s) THEN "alpaca" ELSE IF "polygon" \in Providers(s) THEN "polygon" ELSE "ticker"
After(p) ==
    CASE p = "alpaca" -> "polygon" [] p = "polygon" -> "ticker" [] p = "ticker" -> "download"

\* A worker of the pool takes a symbol: another process may have cached it meanwhile.
StartOne(s) ==
    /\ batch.at = "rest" /\ s \in Missing /\ asking[s] = NotAsking
    /\ IF InCache(s) THEN AnsweredWith(s, barFiles[s], "cache")
       ELSE /\ asking' = [asking EXCEPT ![s] = [at |-> FirstProvider(s), tries |-> 0]]
            /\ UNCHANGED batch
    /\ UNCHANGED <<dailyFeed, barFiles, barExpired>>

\* What a provider may answer: Alpaca's bars of the tape it allows, or the consolidated
\* ones of the others.
Answers(s, p) ==
    IF p # "alpaca" THEN {FrameOf(Name(s), "consolidated")}
    ELSE {FrameOf(Name(s), feed) :
            feed \in {FirstFeed} \cup (IF FirstFeed = "sip" THEN {"iex-fallback"} ELSE {})}

\* The first answer with rows is taken, validated and cached.
OneAnswers(s) ==
    /\ asking[s] # NotAsking
    /\ \E frame \in Answers(s, asking[s].at) :
          /\ frame.rows # <<>>
          /\ AnsweredWith(s, frame, "live")
          /\ barFiles' = [barFiles EXCEPT ![s] = frame]
    /\ barExpired' = barExpired \ {s}
    /\ UNCHANGED dailyFeed

\* A provider fails or has nothing: the next.
OneGoesOn(s) ==
    /\ asking[s].at \in {"alpaca", "polygon", "ticker"}
    /\ asking' = [asking EXCEPT ![s].at = After(@)]
    /\ UNCHANGED <<dailyFeed, barFiles, barExpired, batch>>

\* The last one raises: all of it again.
OneRetries(s) ==
    /\ asking[s].at = "download" /\ asking[s].tries < BarRetries
    /\ asking' = [asking EXCEPT ![s] = [at |-> FirstProvider(s), tries |-> @.tries + 1]]
    /\ UNCHANGED <<dailyFeed, barFiles, barExpired, batch>>

\* It has nothing, or raised too often: the cached frame, however old, or an empty one.
OneFallsBack(s) ==
    /\ asking[s].at = "download"
    /\ AnsweredWith(s, barFiles[s], IF barFiles[s] = NoFrame THEN "none" ELSE "stale")
    /\ UNCHANGED <<dailyFeed, barFiles, barExpired>>

EndBatch ==
    /\ batch.at = "rest" /\ Missing = {}
    /\ batch' = [batch EXCEPT !.at = "idle"]
    /\ UNCHANGED <<dailyFeed, barFiles, barExpired, asking>>

---------------------------------------------------------------------------
\* Another process of the installation caches a frame this one has found missing.
OthersCache(s) ==
    /\ batch.at = "rest" /\ s \in Missing /\ ~InCache(s)
    /\ \E p \in Providers(s) : \E frame \in Answers(s, p) :
          frame.rows # <<>> /\ barFiles' = [barFiles EXCEPT ![s] = frame]
    /\ barExpired' = barExpired \ {s}
    /\ UNCHANGED <<dailyFeed, batch, asking>>

BarsExpire ==
    /\ batch.at = "idle"
    /\ \E s \in Bars \ barExpired : barFiles[s] # NoFrame /\ barExpired' = barExpired \cup {s}
    /\ UNCHANGED <<dailyFeed, barFiles, batch, asking>>

\* The cache holds what an earlier configuration fetched: nothing, one venue's bars that
\* say so, or ones from before frames said where they came from.
BarsInit ==
    /\ dailyFeed \in [feed : {"sip", "iex"}, credentials : BOOLEAN]
    /\ \E tag \in [Bars -> {"nothing", "iex", "none"}] :
          barFiles = [s \in Bars |-> IF tag[s] = "nothing" \/ Days[Name(s)]["iex"] = 0 THEN NoFrame
                                    ELSE [rows |-> History(Name(s), "iex"), feed |-> tag[s]]]
    /\ barExpired = {} /\ batch = NoBatch /\ asking = [s \in Bars |-> NotAsking]

BarsNext ==
    \/ \E list \in Batches : AskBatch(list)
    \/ MorePages \/ LastPage \/ Refused \/ ChunkFails
    \/ \E s \in Bars : StartOne(s) \/ OneAnswers(s) \/ OneGoesOn(s) \/ OneRetries(s) \/ OneFallsBack(s)
    \/ EndBatch \/ BarsExpire \/ \E s \in Bars : OthersCache(s)

---------------------------------------------------------------------------
BarsTypeOK ==
    /\ batch.at \in {"idle", "chunk", "rest"} /\ batch.page < MaxPages
    /\ batch.at = "chunk" => batch.from < Cardinality(AlpacaNames(batch))
    /\ \A s \in Bars : asking[s].at \in {"not", "alpaca", "polygon", "ticker", "download"}

\* The tapes a tag may stand for.
TapesOf(feed) ==
    CASE feed = "sip" -> {"sip"}
      [] feed = "consolidated" -> {"consolidated"}
      [] OTHER -> {"iex"}

\* "A symbol cut off mid-history must not pass as complete": every frame that is cached or
\* handed out is the whole history of its own symbol on one tape, the one its tag names,
\* whatever page of its chunk failed or was refused.
Whole(s, frame) ==
    \/ frame = NoFrame
    \/ \E tape \in TapesOf(frame.feed) : frame.rows = History(Name(s), tape)
FramesAreWhole ==
    /\ \A s \in Bars : Whole(s, barFiles[s])
    /\ \A s \in DOMAIN batch.out : Whole(s, batch.out[s].frame)

\* Under the consolidated feed, volumes of one venue reach a scan only where Alpaca refused
\* the consolidated tape, or where nobody answered and an old frame is all there is.
VolumesAreTrusted ==
    \A s \in DOMAIN batch.out :
        batch.out[s].from \in {"cache", "batch", "live"} => Trusted(batch.out[s].frame)

\* When the call returns every symbol has an entry, and no name was asked for on its own
\* that the batch had answered.
EverySymbolIsAnswered ==
    /\ batch.at = "idle" => ToSet(batch.asked) = DOMAIN batch.out
    /\ \A s \in Bars : asking[s] # NotAsking => s \in Missing

BarsAreWhole == BarsTypeOK /\ FramesAreWhole /\ VolumesAreTrusted /\ EverySymbolIsAnswered
===========================================================================
