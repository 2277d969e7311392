CONSTANTS
  Options <- MCOptions
  Eaw = 8
  Slots = 3
  PsfInterval = 12
  Busy = 1
  ChanSequences <- MCSequences
  MaxJumps = 1
  JumpTargets = {7, 20}
SPECIFICATION FairSpec
INVARIANTS
  RunsOnlyPrepared
  ChannelFollows
  MifInMiddle
  MifOnSlotChannel
PROPERTIES
  KeepsAnnouncing
CHECK_DEADLOCK FALSE
