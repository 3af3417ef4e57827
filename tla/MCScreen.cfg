SPECIFICATION Spec
CONSTANTS
    Sizes <- MCSizes
    Data <- MCData
    Cores = 10
    Drives = 6
    Interfaces = 7
INVARIANTS
    TypeOK
    NothingOldBetween
    ListFillsWindow
    RoomForProcesses
    NothingWraps
    NothingBleeds
CHECK_DEADLOCK FALSE
