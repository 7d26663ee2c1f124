SPECIFICATION Spec
CONSTANTS
  p1 = p1
  p2 = p2
  p3 = p3
  b1 = b1
  b2 = b2
  b3 = b3
  NULL = NULL
  Conn <- Peers2
  Addr <- Blocks2
  MaxFd = 2
  MaxMsg = 1
  MsgSize = 1
INVARIANTS
  DeletedClientUnused
CHECK_DEADLOCK FALSE
