CONSTANTS
  FbCount = 3
  QueueLen = 2
  FbBufs = 1
  Jpeg = TRUE
  FrameBufs = 2
  BadHeaders = TRUE
  SameCore = FALSE
  MaxReceived = 1
  MaxBacklog = 2
SPECIFICATION Spec
INVARIANTS  ReturnNeverBlocks
 
