\* Runs exclude each other and the backup.  Capture 3 is a manual one.
CONSTANTS
  Captures <- FourCaptures
  Motion = {1, 2, 4}
  Runs = {timer, operator}
  Backup = backup
  MinimumKeep = 1
  MaxDeletionsPerRun = 2
  Instants = {1}
  LocksExclude = TRUE
SPECIFICATION Spec
INVARIANTS
  Exclusion
  NewestKept
  NoUnexplainedLoss
  AtMostOneIntent
PROPERTY
  ImplementsMediaLifecycle
