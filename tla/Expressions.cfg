SPECIFICATION Spec
CONSTANTS
  Columns = {0, 1, 2}
  ColumnTypes <- Types
  Projections <- Projected
  Conditions <- Filtered
  Spaces = 9
  GridRegisters = 4
  MaxTokens = 6
  MaxPair = 3
  MaxKinds = 4
INVARIANTS
  RegistersApart
  VectorsAligned
  ComputesExpressions
  StaysInSharedMemory
  ReadsAsStored
  WritesAsStored
  PlainNullsAreExact
\* A projection ends.
CHECK_DEADLOCK FALSE
