\* Three tickers for two slots and two trades a day, over two days.
SPECIFICATION Spec
CONSTANTS
    Tickers = {a, b, c}
    MaxPositions = 2
    MaxTrades = 2
    MaxDay = 1
    MaxFaults = 2
    NoTicker = NoTicker
SYMMETRY Interchangeable
INVARIANTS
    EntriesAreCounted
PROPERTIES
    PositionLimit
    NoDoubleEntry
CHECK_DEADLOCK FALSE
