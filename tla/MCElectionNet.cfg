CONSTANTS
  Addr = {0, 1, 2, 3}
  Nodes = {1, 2, 3}
  Foreign = {0}
  MaxHeight = 3
  HeightMod = 8
  CounterInit = 0
  MetricInit = 1
  ForeignMetric = 2
  Ranges <- MCRanges
  MaxAge = 2
  MaxChanges = 2
SPECIFICATION FairSpec
INVARIANTS
  TypeOK
  RankIsMasters
  RootIffSelf
PROPERTIES
  CyclesHeal
  GhostForgotten
  Convergence
CHECK_DEADLOCK FALSE
