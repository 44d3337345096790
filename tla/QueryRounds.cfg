SPECIFICATION FairSpec
CONSTANTS
  Master = 2
  Queries <- SeparateRounds
INVARIANTS
  TypeOK
PROPERTIES
  RoundsDoNotMix
  LeavesWithAll
  AllFinish
\* A query ends, or waits for a message that was lost.
CHECK_DEADLOCK FALSE
