\* Two executors and an operator at the breaker; threshold of two errors within one tick.
\* A gate and two dashboard requests at the high-water mark, and the gate alone with a
\* book of correlated names.
SPECIFICATION SharedSpec
CONSTANTS
    Files = {"breaker", "peak"}
    Executors = {e1, e2}
    Operators = {d1}
    NoProcess = NoProcess
    Threshold = 2
    Window = 1
    MaxTime = 2
    MaxErrors = 2
    MaxFaults = 1
    MaxGross = 100
    MaxSingle = 20
    MaxHeat = 6
    MaxCluster = 35
    MaxDrawdown = 15
    Gates = {"gate"}
    Dashboards = {"page", "reload"}
    NoHolder = "none"
    Equities <- EquitiesValue
    Candidates <- CandidatesValue
    Scenes <- ScenesValue
    MaxMoves = 2
    MaxGateFaults = 2
SYMMETRY Interchangeable
INVARIANTS
    BreakerIsExact
    HaltLetsOneEntryThrough
    TripReportedOnce
    PeakRestrains
    DecisionsAreSound
PROPERTIES
    HaltEndsInResume
CHECK_DEADLOCK FALSE
