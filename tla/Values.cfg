CONSTANTS
  Types <- Shapes
  Samples <- MCSamples
  Returned <- MCReturned
  Copied <- MCCopied
  MaxVals = 2
  Start = 8
  Heap = 72
  MemSize = 160
SPECIFICATION Spec
INVARIANTS GuestFindsValues HostFindsValues CopyFindsValues CallerFindsValue
CHECK_DEADLOCK FALSE
