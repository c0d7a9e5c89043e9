CONSTANTS
    Modes = {"hostReader"}
    MaxElem = 3
    Counts = {1, 2}
    Rejects = {9}
    NoReject = 9
    HostReads = 4
    MaxInject = 1
    Chunks = {0, 1}
    CancelCounts = {1}
    MaxTimers = 1
SPECIFICATION Spec
INVARIANT NoReadFails
CHECK_DEADLOCK FALSE
