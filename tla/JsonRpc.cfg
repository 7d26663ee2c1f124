SPECIFICATION FairSpec
CONSTANTS
  MaxCalls = 4
  MaxActive = 2
  MaxSpare = 1
INVARIANTS Accounted
PROPERTIES Promised Settled
CHECK_DEADLOCK FALSE
