CONSTANTS
    a = a
    b = b
    c = c
    Tasks = {a, b, c}
    NoTask = NoTask
    Kind <- KindHost
    SyncExports = FALSE
    GuestMayFail = FALSE
    InstantiationMode = TRUE
    BackpressureLimit = 2
    MaxBlocks = 1
SPECIFICATION FairSpec
PROPERTIES
    EveryTaskExits
