CONSTANTS
  Addr = {1, 2, 3, 4, 9}
  MaxHeight = 2
  HeightMod = 8
  Self = 2
  PeerHeights = {0, 1, 2, 7}
  PeerMetrics = {1, 2}
  PeerCounters = {0, 1}
  OwnClaims <- MCOwnClaims
  PeerTables <- MCPeerTables
SPECIFICATION ScanSpec
INVARIANTS
  ScanTypeOK
  ElectsBestCandidate
CHECK_DEADLOCK FALSE
