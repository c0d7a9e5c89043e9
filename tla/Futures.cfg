CONSTANTS
    Modes = {"guest", "hostReader", "hostWriter"}
    Consumers = {c1, c2, c3}
SPECIFICATION Spec
INVARIANTS HandedOver OneWaits
PROPERTY OperationsEnd
CHECK_DEADLOCK FALSE
