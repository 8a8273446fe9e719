SPECIFICATION Spec
CONSTANTS
  Pixels = 3
  Frames <- MCFrames
  PixelThreshold = 1
  MotionThreshold = 0
  GlobalThreshold = 2
  Times = {0, 1, 2, 3}
  Cooldown = 2
  Settings <- Everything
  MaxFaults = 2
INVARIANT MotionSurvivesItsCycles
CHECK_DEADLOCK FALSE
