CONSTANTS
  Types <- NotReturned
  Samples <- MCSamples
  Returned <- Always
  Copied <- Never
  MaxVals = 1
  Start = 8
  Heap = 72
  MemSize = 160
SPECIFICATION Spec
INVARIANT CallerFindsValue
CHECK_DEADLOCK FALSE
