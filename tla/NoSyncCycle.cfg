CONSTANTS
  Addr = {1, 2, 3}
  Nodes = {1, 2}
  Foreign = {3}
  MaxHeight = 3
  HeightMod = 8
  CounterInit = 0
  MetricInit = 1
  ForeignMetric = 2
  Ranges <- OneRange
  MaxAge = 2
  MaxChanges = 1
SPECIFICATION Spec
INVARIANT NoSyncCycle
CHECK_DEADLOCK FALSE
