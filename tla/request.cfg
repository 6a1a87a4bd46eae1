CONSTANTS
  Slots = 2
  Uris = {"jpg"}
  Methods = {"GET", "POST"}
  NULL = NULL
  Garbage = Garbage
  Shapes <- MCShapes
  MaxRequests = 2
  MaxCalls = 2
  Block = 5
  Scratch = 14
  Purge = 2
  MaxUri = 3
SPECIFICATION FairSpec
INVARIANTS TypeOK AnsweredInOrder Framed HeadersKept
PROPERTIES  ServerFreed
