CONSTANTS
    a = a
    b = b
    c = c
    Tasks = {a, b}
    NoTask = NoTask
    Kind <- KindTwo
    SyncExports = FALSE
    GuestMayFail = TRUE
    InstantiationMode = TRUE
    BackpressureLimit = 2
    MaxBlocks = 2
SPECIFICATION FairSpec
PROPERTIES
    RejectedTaskExits
CHECK_DEADLOCK FALSE
