CONSTANTS
    MaxRep = 3
    Sub = {s1, s2}
    WSet = {w1, w2}
    Calls = {"async", "syncOfAsync"}
    EarlyDrop = TRUE
SPECIFICATION Spec
PROPERTY CallsReturn
CHECK_DEADLOCK FALSE
