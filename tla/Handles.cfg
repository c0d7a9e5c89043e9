CONSTANTS
    MaxHandle = 4
    Reps = {1, 2}
SPECIFICATION TableSpec
INVARIANTS
    FreeLinksSound
    NoHandleLost
PROPERTIES
    HandlesKeepMeaning
