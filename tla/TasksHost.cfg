CONSTANTS
    a = a
    b = b
    c = c
    Tasks = {a, b, c}
    NoTask = NoTask
    Kind <- KindHost
    SyncExports = FALSE
    GuestMayFail = TRUE
    InstantiationMode = TRUE
    BackpressureLimit = 3
    MaxBlocks = 1
SPECIFICATION Spec
INVARIANTS
    NoSleeperForgotten
    NoRejectedTaskSuspended
    LiveTasksTracked
    LockHeldInWasm
    ManualExitSucceeds
    CurrentTaskIsRunning
    ResolvedBySelf
CHECK_DEADLOCK FALSE
