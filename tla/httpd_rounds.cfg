CONSTANTS
  Clients = {c1, c2, c3}
  NoFd = NoFd
  MaxSockets = 2
  Backlog = 1
  LruPurge = FALSE
  Mailbox = 1
  MaxUnread = 2
  MaxWork = 1
  c1 = c1
  c2 = c2
  c3 = c3
SYMMETRY Symmetry
SPECIFICATION Spec
INVARIANTS TypeOK TableIsOpenSockets RoundCompletes
PROPERTIES NeverReadsIdle
