CONSTANTS
    Modes = {"guest", "hostReader", "hostWriter", "hostWriterCancel"}
    MaxElem = 4
    Counts = {0, 1, 2, 3}
    Rejects = {1, 9}
    NoReject = 9
    HostReads = 4
    MaxInject = 3
    Chunks = {0, 1, 2}
    CancelCounts = {1}
    MaxTimers = 2
SPECIFICATION Spec
INVARIANTS InOrder Accounting BlockedIsPending Conservation
PROPERTY OperationsEnd
CHECK_DEADLOCK FALSE
