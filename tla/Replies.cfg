SPECIFICATION Spec
CONSTANTS
  Chars = {"cmd", "query"}
  FirstCap = 2
  ContCap = 3
  Lens = {0, 1, 2, 4, 6, 8}
  MaxMsgs = 3
  Faults = {"nomem", "drop", "mix"}
INVARIANTS
  TypeOK
  OneBlock
  WholeReplies
  ReplyCompletes
PROPERTIES
  ParsedInOrder
CHECK_DEADLOCK FALSE
