CONSTANTS
    a = a
    b = b
    c = c
    Tasks = {b}
    NoTask = NoTask
    Kind <- KindOne
    SyncExports = FALSE
    GuestMayFail = FALSE
    InstantiationMode = FALSE
    BackpressureLimit = 2
    MaxBlocks = 2
SPECIFICATION Spec
INVARIANTS
    CallbackTaskNotLost
CHECK_DEADLOCK FALSE
