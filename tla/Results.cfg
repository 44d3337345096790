SPECIFICATION FairSpec
CONSTANTS
  Conn = {c1, c2}
  Token = {t1, t2}
  Handler = {p1, p2}
  Null = Null
  Disciplines <- OneAtATime
  MaxGets = 2
  RefModulus = 3
INVARIANTS
  TypeOK
  ReturnsTheOutcome
  NoLostWakeup
  RefExact
  HeldNotFreed
  AbortsIfAbandoned
PROPERTIES
  LifecycleHolds
  GetAnswered
\* Every token is used once, so a run ends when all of them are.
CHECK_DEADLOCK FALSE
