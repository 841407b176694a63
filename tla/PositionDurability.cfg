SPECIFICATION Spec
CONSTANTS
    Shares = 4
    MaxExits = 6
    Budget <- DurabilityBudget
INVARIANTS
    TypeOK
    SharesAddUp
    BookedOnlyWhatSold
    ExitMatchesTranche
    CloseSettles
PROPERTY
    ImplementsBook
CHECK_DEADLOCK FALSE
