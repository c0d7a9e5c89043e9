CONSTANTS
    MaxRep = 3
    Sub = {s1, s2}
    WSet = {w1, w2}
    Calls = {"async", "sync", "manual", "fused", "symmetric"}
    EarlyDrop = TRUE
SPECIFICATION Spec
INVARIANTS HandlesSound ResolutionToldOnce SetsSound ImportResolvesItself
PROPERTY CallsReturn
CHECK_DEADLOCK FALSE
