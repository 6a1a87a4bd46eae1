CONSTANTS
  Clients = {c1, c2, c3}
  NoFd = NoFd
  MaxSockets = 2
  Backlog = 1
  LruPurge = TRUE
  Mailbox = 3
  MaxUnread = 1
  MaxWork = 0
  c1 = c1
  c2 = c2
  c3 = c3
SPECIFICATION FairSpec
INVARIANTS PurgeMakesRoom
   
