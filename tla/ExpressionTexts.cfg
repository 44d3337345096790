SPECIFICATION Spec
CONSTANTS
  Inputs <- MCInputs
INVARIANTS
  ReadsAsWritten
  
  PairsAsWritten
PROPERTIES
  LoopMovesOn
\* The reading of a text ends.
CHECK_DEADLOCK FALSE
