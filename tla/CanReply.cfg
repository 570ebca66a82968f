SPECIFICATION FairSpec
CONSTANTS
  Callers = {c1, c2}
  Replies = {r1, r2}
  Bufs = {b1, b2}
  None = None
  Junk = Junk
  Faults = {"nomem", "encode", "pub", "isotp"}
INVARIANTS
  TypeOK
  NoUseAfterFree
  SendAlone
PROPERTIES
  PortSpec
  ReplyPathFreed
