CONSTANTS
  FbCount = 1
  QueueLen = 5
  FbBufs = 3
  Jpeg = TRUE
  FrameBufs = 2
  BadHeaders = TRUE
  SameCore = FALSE
  MaxReceived = 3
  MaxBacklog = 4
SPECIFICATION Spec
\* A frame with a bad header wedges the single buffer for good.
CHECK_DEADLOCK FALSE
INVARIANTS TypeOK NoWriteToHeld
PROPERTIES PoolSpec
