SPECIFICATION FairSpec
CONSTANTS
    Shares = 4
    MaxExits = 6
    Budget <- ProgressBudget
PROPERTIES
    UnprotectedGetsExit
    MonitorCatchesUp
CHECK_DEADLOCK FALSE
