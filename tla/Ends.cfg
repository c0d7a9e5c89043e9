CONSTANTS
    MaxRep = 4
    MaxMade = 5
    Comp = {a, b}
    StreamR = sr
    StreamW = sw
    FutureR = fr
    FutureW = fw
    Ctx = {x1}
    Local = {l1, l2, l3}
    None = none
SPECIFICATION Spec
INVARIANTS Found ContextKept
SYMMETRY Symmetric
CHECK_DEADLOCK FALSE
