SPECIFICATION Spec
CONSTANTS
  Users = {u1, u2}
  Clients = {c}
  Boards = {0, 1, 2, 3, 4, 5, 6, 7}
  Pins = {3, 6, 29, 83, 2563}
  MaxOps = 2
SYMMETRY UserSymmetry
INVARIANTS TypeOK UsersApart Displayed Quiet
CHECK_DEADLOCK FALSE
