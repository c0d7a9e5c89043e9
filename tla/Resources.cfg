CONSTANTS
    A = A
    B = B
    o1 = o1
    o2 = o2
    Tables = {A, B}
    Host = Host
    Definers = {A, Host}
    NoObject = NoObject
    Objects = {o1, o2}
    Reps = {1, 2}
    MaxHandle = 3
    LendOnBorrows = FALSE
    LendToFormerOwner = FALSE
    ValidLifting = FALSE
SPECIFICATION Spec
INVARIANTS
    OneOwner
    HandlesHeld
    ObjectsOwn
    BorrowsResolve
    Captured
CHECK_DEADLOCK FALSE
