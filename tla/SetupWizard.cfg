SPECIFICATION FairSpec
CONSTANTS
  Nets = {5, 7}
  MaxDetours = 3
  MaxCalls = 2
INVARIANTS
  TypeOK
  Covered
PROPERTIES
  WizardFinishes
CHECK_DEADLOCK FALSE
