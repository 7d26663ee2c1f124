SPECIFICATION FairSpec
CONSTANTS
  MaxOpens = 3
  MaxHups = 2
  CanStick = TRUE
INVARIANTS
  TypeOK
  ThreadOrder
  HandlesOK
PROPERTIES
  HangupHonoured
  ShutdownEnds
CHECK_DEADLOCK FALSE
