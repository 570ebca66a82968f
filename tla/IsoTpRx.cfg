SPECIFICATION FairSpec
CONSTANTS
  Bufs = {b1, b2}
  MaxMsgs = 3
  MaxBlocks = 3
  NetBufs = 2
  None = None
  Faults = {"nomem", "pub", "abort"}
INVARIANTS
  TypeOK
  SubscriberReadsAlone
  WholeMessages
PROPERTIES
  SlotSpec
  MessageGetsThrough
CHECK_DEADLOCK FALSE
