CONSTANTS
    a = a
    b = b
    c = c
    Tasks = {a, b}
    NoTask = NoTask
    Kind <- KindTwo
    SyncExports = TRUE
    GuestMayFail = FALSE
    InstantiationMode = TRUE
    BackpressureLimit = 2
    MaxBlocks = 2
SPECIFICATION Spec
INVARIANTS
    ManualExitSucceeds
CHECK_DEADLOCK FALSE
