CONSTANTS
  Types <- NotCopied
  Samples <- MCSamples
  Returned <- Never
  Copied <- Always
  MaxVals = 2
  Start = 8
  Heap = 72
  MemSize = 160
SPECIFICATION Spec
INVARIANT CopyFindsValues
CHECK_DEADLOCK FALSE
