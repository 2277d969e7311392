CONSTANTS
  N = 3
  Tu = 2
  Period = 2
  CtrMod = 16
  ClockMod = 64
  Offsets <- MCOffsets
  Starts = {0, 5}
  MaxDelay = 1
  Guard = 2
  NoFrame = NoFrame
SPECIFICATION SyncSpec
INVARIANTS
  TypeOK
  LagBounded
  SharesWindow
  MeasuresLag
