SPECIFICATION Spec
CONSTANTS
  p1 = p1
  p2 = p2
  p3 = p3
  b1 = b1
  b2 = b2
  b3 = b3
  NULL = NULL
  Conn <- Peers3
  Addr <- Blocks3
  MaxFd = 3
  MaxMsg = 1
  MsgSize = 1
SYMMETRY Symmetry33
INVARIANTS
  ListOK
  DescriptorsOwned
  NoBlockingRecv
  WalkSafe
CHECK_DEADLOCK FALSE
