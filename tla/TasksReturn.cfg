CONSTANTS
    a = a
    b = b
    c = c
    Tasks = {a, b}
    NoTask = NoTask
    Kind <- KindManual
    SyncExports = FALSE
    GuestMayFail = TRUE
    InstantiationMode = TRUE
    BackpressureLimit = 2
    MaxBlocks = 0
SPECIFICATION FairSpec
PROPERTIES
    EveryTaskExits
CHECK_DEADLOCK FALSE
