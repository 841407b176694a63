\* One process, in any mode, on a cache of one frame that another writes too.
SPECIFICATION FairSpec
CONSTANTS
    Tickers = {"a", "b", "i"}
    DailyTTL = 4
    IntradayTTL = 1
    MaxEntries = 1
    TargetEntries = 1
    MaxLag = 1
    MaxOthers = 1
    MaxTime = 2
    Index = "i"
    MaxSignals = 1
    RefreshDailyBars = TRUE
    Watchlist <- WatchlistValue
    UniverseCap = 1
    KindOrder <- KindOrderValue
    QueueMax = 2
    DedupTTL = 1
    MaxPerCycle = 1
    MaxStale = 1
    EligibilityTTL = 1
    Stocks = {"a", "b", "c"}
    LastDate = 3
    InitialCapital = 100
    MaxConcurrentPositions = 2
    Opens = {10, 12}
    Closes = {5, 13, 15, 18}
    Atrs = {0, 1}
    RiskPerTrade = 20
    MaxPositionPct = 60
    SlippagePct = 10
    CommissionPct = 5
    FrameList <- FramesValue
    WorldList <- WorldsValue
    SignalWeights <- WeightsValue
    RegimeWeighting = TRUE
    FeatureTTL = 0
    FeatureMax = 2
    AccountSize = 10500
    RiskPct = 1
    PositionPct = 10
    OffsetFloor = 10
    OffsetCap = 100
    Slots <- SlotsValue
    BarsAt <- BarsAtValue
    Rules = {"breakout", "sweep_reclaim", "precursor"}
    MaxLookback = 8
    SessionBars = 2
    OpeningMinutes = 10
    AtrPeriod = 2
    RequireAboveVwap = FALSE
    MinRelVolume = 150
    SweepLookback = 2
    SweepWindow = 1
    SweepBars = 3
    Anchors = {"pdl", "pml"}
    MaxExtension = 500
    StopBuffer = 0
    CoilBars = 2
    BaselineBars = 3
    MaxCompression = 70
    MinExpansionVolume = 180
    MinExpansionRange = 150
    MinRangePosition = 70
    ScreenNames <- ScreenNamesValue
    Mornings <- MorningsValue
    Minutes = {470, 478, 482, 566, 573}
    Today = 4
    FrameTTL = 10
    ScreenCap = 2
    MaxResults = 1
    StandardGates <- StandardGatesValue
    PennyRails <- PennyRailsValue
    MinHistory = 2
    MinBaseline = 10
    Modes = {"daily", "intraday", "backtest", "signals", "day trades", "premarket"}
INVARIANTS
    BarsAreRecent
    BooksBalance
    SlotsFreeAtTheOpen
    SignalsAreHonest
    PlansAreSound
    DayTradesAreHonest
    ScreenIsHonest
PROPERTIES
    QueuedOncePerWindow
    UniverseIsCovered
CHECK_DEADLOCK FALSE
