SPECIFICATION FairSpec
CONSTANTS
  Publishers = {p1, p2}
  Handles = {"cmd", "query"}
  Shifts = {0, 4}
  MaxMsgs = 2
  MaxFrames = 2
  QueueCap = 2
  Faults = {"pub", "gatt", "late", "drop"}
INVARIANTS
  TypeOK
  FlagTracksWrite
  OneWritePerHandle
  Lockstep
  FramesInOrder
PROPERTIES
  FlagFreed
