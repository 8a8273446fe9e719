\* Reclamations do not overlap: the lock keeps its promise, and an abandoned
\* file is reclaimed in the end.
CONSTANTS
  Contenders = {backup, retention, operator}
  Nobody = Nobody
  NoFile = NoFile
  SoloReclaim = TRUE
SPECIFICATION FairSpec
PROPERTIES
  ImplementsHeldLock
  AbandonedLockIsReclaimed
