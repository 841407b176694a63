\* A worker in three setups over two trading days, two names, a fault or two.
SPECIFICATION FairSpec
CONSTANTS
    Names = {"a", "b"}
    Symbols = {"a", "b"}
    Processes = {"worker", "peer"}
    DedupTtl = 2
    MaxPerRun = 1
    MaxTime = 5
    MaxWatch = 1
    DayLength = 3
    Horizons = {1}
    HorizonSlip = 0
    Expiry = 1
    MaxFetches = 1
    MaxRecords = 2
    Setups = {{"movers", "outcomes", "peer"}, {"catalyst", "outcomes"}, {"movers", "monitor", "stream"}}
    ScanWindow = {0, 2, 3, 4}
    WireWindow = {0, 1, 2, 3, 4}
    RediscoverEvery = 2
    MaxRecent = 2
    LastNews = 2
    PeerNames = {"a"}
    MaxFaults = 1
INVARIANTS
    WorkerIsBounded
PROPERTIES
    AlertsOncePerTtl
    HistoryContinues
    OutcomesAreFinal
    OutcomesSettle
    StandDownsAreOfToday
CHECK_DEADLOCK FALSE
