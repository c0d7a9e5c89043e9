CONSTANTS
    a = a
    b = b
    c = c
    Tasks = {a, b}
    NoTask = NoTask
    Kind <- KindPair
    SyncExports = FALSE
    GuestMayFail = FALSE
    InstantiationMode = TRUE
    BackpressureLimit = 2
    MaxBlocks = 2
SPECIFICATION Spec
INVARIANTS
    CurrentTaskIsRunning
CHECK_DEADLOCK FALSE
