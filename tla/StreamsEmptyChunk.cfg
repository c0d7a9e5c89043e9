CONSTANTS
    Modes = {"hostWriterCancel"}
    MaxElem = 2
    Counts = {0, 1, 2}
    Rejects = {9}
    NoReject = 9
    HostReads = 1
    MaxInject = 2
    Chunks = {0, 1}
    CancelCounts = {1}
    MaxTimers = 1
SPECIFICATION Spec
PROPERTY ReadsAnswered
CHECK_DEADLOCK FALSE
