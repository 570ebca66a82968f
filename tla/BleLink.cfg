SPECIFICATION Spec
CONSTANTS
  HwPolls = 2
  Faults = {"hci", "gatt", "sec", "resec", "drop"}
INVARIANTS
  TypeOK
  RadioExclusive
  ReadTokenOwned
  FinishNotStranded
PROPERTIES
  ConnectedSticks
