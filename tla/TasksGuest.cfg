CONSTANTS
    a = a
    b = b
    c = c
    Tasks = {a, b, c}
    NoTask = NoTask
    Kind <- KindGuest
    SyncExports = TRUE
    GuestMayFail = TRUE
    InstantiationMode = TRUE
    BackpressureLimit = 2
    MaxBlocks = 1
SPECIFICATION Spec
PROPERTIES
    SlotsAreFIFO
INVARIANTS
    TypeOK
    OneTaskInSlot
    SlotsInOrder
    WaitersCounted
CHECK_DEADLOCK FALSE
