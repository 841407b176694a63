SPECIFICATION Spec
CONSTANTS
    Shares = 4
    MaxExits = 5
    Budget <- TornBudget
INVARIANT
    BookedAtMostOnce
CHECK_DEADLOCK FALSE
