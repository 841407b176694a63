SPECIFICATION Spec
CONSTANTS
    Shares = 4
    MaxExits = 3
    Budget <- NoFaults
INVARIANT
    EntryCloseLeavesNoShares
CHECK_DEADLOCK FALSE
