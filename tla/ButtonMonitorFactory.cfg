SPECIFICATION Spec
CONSTANTS
  Devices = {d1}
  Interval = 2
  MaxQueue = 1
  MaxEvents = 2
INVARIANT HeldLong
CHECK_DEADLOCK FALSE
