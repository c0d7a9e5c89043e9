CONSTANTS
    A = A
    B = B
    o1 = o1
    o2 = o2
    Tables = {A, B}
    Host = Host
    Definers = {A}
    NoObject = NoObject
    Objects = {o1}
    Reps = {1, 2}
    MaxHandle = 3
    LendOnBorrows = TRUE
    LendToFormerOwner = FALSE
    ValidLifting = FALSE
SPECIFICATION Spec
INVARIANTS
    HandlesHeld
CHECK_DEADLOCK FALSE
