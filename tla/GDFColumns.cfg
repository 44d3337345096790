SPECIFICATION Spec
CONSTANTS
  Handle = {h1, h2, h3}
  Address = {a1, a2, a3}
  Null = Null
SYMMETRY Symmetry
INVARIANTS
  TypeOK
  CountExact
PROPERTIES
  NoEarlyFree
  SharedOwnershipHolds
\* An IPC column is never freed, so the finite Address set can run out.
CHECK_DEADLOCK FALSE
