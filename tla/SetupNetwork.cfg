SPECIFICATION FairSpec
CONSTANTS
  d1 = d1
  d2 = d2
  d3 = d3
  Undefined = Undefined
  Dev <- Devices3
  N = 3
  AllRecords = TRUE
INVARIANTS
  TypeOK
  OnePoll
  RemapOK
PROPERTIES
  SaveChecked
  MissingNoticed
  LetGo
CHECK_DEADLOCK FALSE
