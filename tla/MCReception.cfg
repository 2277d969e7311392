SPECIFICATION Spec
CONSTANTS
  ActionFrames <- MCActionFrames
  DataFrames <- MCDataFrames
  Gens = {1, 2}
  MaxPayload = 1504
  MaxNumAmpdu = 3
  Channel <- MCChannel
  OwnChannel = 6
  None = None
INVARIANTS TypeOK FrameUnderstood ElectionFieldsTogether HostGetsFrame LostOnlyIfRejected
