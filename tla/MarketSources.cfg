\* Each source on its own.  One thread discovers before the open and in the session; two
\* threads look up the halts of one symbol; two the cap of one company; two refreshes of
\* the earnings dates run beside an executor that judges plans.
SPECIFICATION SourcesSpec
CONSTANTS
    Watch = {"movers", "halts", "caps", "earnings", "bars", "info", "news"}
    Threads = {"worker"}
    Listed = {1, 3}
    NamedDerivative = {3}
    LooksDerivative = {}
    AssetTTL = 1
    AssetBackoff = 1
    MaxTime = 2
    Modes = {"merge", "first_wins"}
    Kinds = {"regular", "premarket"}
    Sources <- SourcesValue
    Chain <- ChainValue
    PremarketChain <- PremarketChainValue
    Credentials <- CredentialsValue
    Payloads <- PayloadsValue
    Recomputed <- RecomputedValue
    Suspect = 300
    Agreement = 25
    MinChange = 3
    MinPrice = 2
    MaxPrice = 0
    IncludeShort = TRUE
    PremarketMinChange = 15
    PremarketMinPrice = 2
    PremarketLimit = 2
    Limit = 1
    EnrichMax = 1
    Scores = {0, 900}
    MaxWithheld = 2
    ExcludeHalted = FALSE
    MaxRuns = 2
    Broken = Broken
    Unreadable = Unreadable
    NoAnswer = NoAnswer
    Unknown = Unknown
    HaltNames = {"a"}
    Readers = {"t1", "t2"}
    HaltTTL = 1
    HaltBackoff = 3
    FetchTime = 1
    FeedTime = 5
    Scanners = {"t1", "t2"}
    Companies = {"a"}
    CapTTL = 2
    SharesTTL = 3
    NoSharesTTL = 2
    CikTTL = 3
    SecBackoff = 1
    MaxFailures = 2
    CapTime = 5
    Symbols = {"a", "b"}
    NoSymbol = "none"
    Universes <- UniversesValue
    Checkpoint = 1
    Planned = {"b"}
    Window = 0
    LastDay = 2
    MaxRefreshes = 2
    MaxCalFaults = 1
    Batches <- BatchesValue
    Spelling <- SpellingValue
    Days <- DaysValue
    ChunkSize = 2
    PageRows = 1
    MaxPages = 3
    BarRetries = 1
    MaxBatches = 1
    Ticker = "A"
    Probed = {"A", "C", "^V"}
    Core = {"A", "C"}
    InfoCalls = 2
    Stories <- StoriesValue
    CrossTimes = {1, 2}
    NewsNames = {"a", "b"}
    NewsProviders <- NewsProvidersValue
    Carries <- CarriesValue
    MaxAge = 1
    AllowUndated = FALSE
    NewsTTL = 2
    Lookback = 1
    MaxStorySymbols = 1
    NewsTime = 3
INVARIANTS
    DiscoveryIsHonest
    MemoryIsCurrent
    BarsAreWhole
    WhatIsToldIsTraced
PROPERTY
    DatesAreKept
CHECK_DEADLOCK FALSE
