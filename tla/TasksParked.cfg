CONSTANTS
    a = a
    b = b
    c = c
    Tasks = {a, b}
    NoTask = NoTask
    Kind <- KindTwo
    SyncExports = FALSE
    GuestMayFail = FALSE
    InstantiationMode = TRUE
    BackpressureLimit = 2
    MaxBlocks = 2
SPECIFICATION Spec
INVARIANTS
    ParkedAsItself
CHECK_DEADLOCK FALSE
