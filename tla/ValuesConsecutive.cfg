CONSTANTS
  Types <- UnevenShapes
  Samples <- MCSamples
  Returned <- Never
  Copied <- Never
  MaxVals = 2
  Start = 8
  Heap = 72
  MemSize = 160
SPECIFICATION Spec
INVARIANT HostFindsValues
CHECK_DEADLOCK FALSE
