SPECIFICATION Spec
CONSTANTS
  N = 3
  Master = 2
  Keys = {1, 2, 3}
  NullKey = 3
  Null = Null
  Pending = Pending
  Ops <- Descending
  Inputs <- MCInputs
  Others <- MCOthers
  SampleOneIn = 2
  MaxRows = 4
  FewKeys = {1, 3}
  Numbers = {0, 12}
INVARIANTS
  SortsDescending
\* An operator ends.
CHECK_DEADLOCK FALSE
