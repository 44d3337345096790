SPECIFICATION FairSpec
CONSTANTS
  Tables <- MCTables
  Rows <- FileRows
  Listing <- Directories
  Unreadable = {"locked"}
  Missing = {"absent"}
  InMemory = "f1"
  EmptyReadsAllowed = 2
  SchemaBytes = 1
  Null = "nullptr"
  MaxFiles = 3
INVARIANTS
  TypeOK
  ScansAreWhole
  PlainFilesAreSafe
  OpenedOnce
PROPERTIES
  LoadEnds
\* A load ends.
CHECK_DEADLOCK FALSE
