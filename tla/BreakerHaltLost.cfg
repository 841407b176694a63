\* One operator, one executor that meets no broker errors, one write that fails.
SPECIFICATION SharedSpec
CONSTANTS
    Files = {"breaker"}
    Executors = {e1}
    Operators = {d1}
    NoProcess = NoProcess
    Threshold = 2
    Window = 1
    MaxTime = 0
    MaxErrors = 0
    MaxFaults = 1
    MaxGross = 100
    MaxSingle = 20
    MaxHeat = 6
    MaxCluster = 35
    MaxDrawdown = 15
    Gates = {"gate"}
    Dashboards = {"page"}
    NoHolder = "none"
    Equities <- EquitiesValue
    Candidates <- CandidatesValue
    Scenes <- ScenesValue
    MaxMoves = 0
    MaxGateFaults = 0
INVARIANTS
    HaltHolds
CHECK_DEADLOCK FALSE
