SPECIFICATION Spec
CONSTANTS
  Pixels = 3
  Frames <- MCFrames
  PixelThreshold = 1
  MotionThreshold = 0
  GlobalThreshold = 2
  Times = {0, 1, 2, 3}
  Cooldown = 2
  Settings <- MCSettings
  MaxFaults = 2
INVARIANTS
  LifeInv
  NothingIsLeftRunning
  FirstFailureIsRaised
  TimelineShowsActivity
PROPERTIES
  MotionRowsKeepDistance
  VerdictFitsScene
  ShutdownCompletes
CHECK_DEADLOCK FALSE
