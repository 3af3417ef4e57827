SPECIFICATION Spec
CONSTANTS
    Cores = 2
    TickWord = 3
    Word = 7
    HistorySize = 3
    Levels = 1
    Full = 2
    MaxTicks = 2
    MaxAge = 4
CHECK_DEADLOCK FALSE
INVARIANTS
    TypeOK
    KeysNested
    UsageExact
    TotalIsMean
    HistoriesAligned
