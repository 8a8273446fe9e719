SPECIFICATION Spec
CONSTANTS
  Producers = {p1, p2}
  Stamps = {1, 2}
  Keep = 1
  Databases = {1, 2}
  Versions = {1, 2}
  Selects <- MCSelects
  MaxObject = 3
  Unsound = {2}
  Rows <- MCRows
  MaxRuns = 2
SYMMETRY Interchangeable
INVARIANTS
  BackupInv
  OrphansAreAccountedFor
  RestoreProvesASet
PROPERTY
  ImplementsRecoverySets
CHECK_DEADLOCK FALSE
