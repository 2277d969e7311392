CONSTANTS
  Eaw = 5
  Slots = 3
  McSlots = {0}
  UcGuard = 2
  McGuard = 2
  Cap = 2
  Peers = {"p"}
  Matches <- MCMatches
  MaxFrames = 3
  MaxEvents = 1
  None = None
  Off = Off
SPECIFICATION FairSpec
INVARIANTS
  TypeOK
  WaitingHasTimer
  InOrder
PROPERTIES
  TimePasses
  EveryFrameLeaves
