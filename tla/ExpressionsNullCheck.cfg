SPECIFICATION Spec
CONSTANTS
  Columns = {0, 1}
  ColumnTypes <- Types
  Projections <- NoConditions
  Conditions <- WithNullCheck
  Spaces = 8
  GridRegisters = 4
  MaxTokens = 1
  MaxPair = 1
  MaxKinds = 1
INVARIANTS
  NullsAreExact
\* A projection ends.
CHECK_DEADLOCK FALSE
