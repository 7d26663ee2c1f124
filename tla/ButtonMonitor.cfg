SPECIFICATION Spec
CONSTANTS
  Devices = {d1, d2}
  Interval = 2
  MaxQueue = 2
  MaxEvents = 3
INVARIANTS LedTrue Judged
PROPERTIES Serves
CHECK_DEADLOCK FALSE
