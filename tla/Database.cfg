\* Two services start, die and restart against one file of any history.
SPECIFICATION ServiceSpec
CONSTANTS
  Services = {s1, s2}
  Current = 2
  Ahead = 1
  Lenient = {1}
  MaxFaults = 2
INVARIANTS
  HistoryDescribesTables
  StartedMeansCurrent
  MonitorInv
PROPERTIES
  ImplementsSchemaVersions
  EveryServiceStarts
  StatusCatchesUp
CHECK_DEADLOCK FALSE
