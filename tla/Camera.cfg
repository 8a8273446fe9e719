CONSTANTS
  Callers = {a, b, c}
  MaxLaunches = 4
  RestoreAfterCapture = TRUE

SPECIFICATION FairSpec

INVARIANTS
  TruthfulState
  NoStrayProcess

PROPERTIES
  ImplementsOwnership
  PreviewReturns

