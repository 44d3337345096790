SPECIFICATION Spec
CONSTANTS
  Master = 1
  Queries <- JoinOfThree
PROPERTIES
  RoundsDoNotMix
\* A query ends.
CHECK_DEADLOCK FALSE
