\* Three attempts against two an hour and two a day, on both sides of midnight.
CONSTANTS
  Attempts <- ThreeAttempts
  HourlyLimit = 2
  DailyLimit = 2
  Cooldown = 1
  Hour = 2
  Day = 4
  SweepAfter = 5
  StepBack = 1
  LastInstant = 6
  MaxTriggers = 3
SPECIFICATION FairSpec
INVARIANTS
  LimitsKept
  NothingUncounted
  EveryTriggerIsAccounted
PROPERTIES
  NothingStartsAfterShutdown
  ShutdownCompletes
