CONSTANTS
  Addr = {1, 2, 9}
  MaxHeight = 2
  HeightMod = 8
  Self = 1
  Others = {2}
  CounterInit = 0
  MetricInit = 1
  Timeout = 2
  CleanInterval = 1
  Late = 1
  ClockMod = 100
  Boot = 0
  MaxTime = 6
  FilterRssi = TRUE
  Adverts <- RichAdverts
  Versions <- MCVersions
  NoFrame = NoFrame
SPECIFICATION Spec
INVARIANTS
  TypeOK
  NeighborsAreValidPeers
  SyncMasterIsValidPeer
  NoStalePeer
  NeverFollowsWorse
PROPERTIES
  FreshPeersKept
