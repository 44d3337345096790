SPECIFICATION Spec
CONSTANTS
  Conn = {c1}
  Token = {t1, t2, t3}
  Handler = {p1}
  Null = Null
  Disciplines <- OneAtATime
  MaxGets = 1
  RefModulus = 2
PROPERTIES
  ClosedIsEmpty
CHECK_DEADLOCK FALSE
