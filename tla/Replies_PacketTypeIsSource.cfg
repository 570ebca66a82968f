SPECIFICATION Spec
CONSTANTS
  Chars = {"cmd", "query"}
  FirstCap = 2
  ContCap = 3
  Lens = {4}
  MaxMsgs = 2
  Faults = {"mix"}
INVARIANT
  PacketTypeIsSource
CHECK_DEADLOCK FALSE
