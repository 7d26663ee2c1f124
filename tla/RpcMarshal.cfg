SPECIFICATION MarshalSpec
CONSTANTS
  Objects = {o1, o2, o3}
  Root = o1
  Nil = nil
  Width = 2
INVARIANTS Faithful
PROPERTY Ends
CHECK_DEADLOCK FALSE
