SPECIFICATION Spec
CONSTANTS
  Plans <- MCPlans
  Known = {"t"}
  Null = Null
  MaxLines = 6
INVARIANTS
  TypeOK
  AsTheTree
  InPostOrder
  FramesAreTables
\* An evaluation ends.
CHECK_DEADLOCK FALSE
