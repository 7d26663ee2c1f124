\* An appliance of each kind, two browsers.
SPECIFICATION FairSpec
CONSTANTS
  Clients = {c1, c2}
  Typed = {25601}
  Masks = {16}
  MaxCuts = 2
  MaxUpgrades = 1
  MaxSaves = 2
  MaxEvents = 2
INVARIANTS Flashed Provisioned Addressing Found Admits
PROPERTIES OwnFields Settles
CHECK_DEADLOCK FALSE
