SPECIFICATION FairSpec
CONSTANTS
  HwPolls = 2
  Faults = {"gatt", "sec", "drop"}
INVARIANTS
  SearchPursued
  ConnectedIsDiscovered
PROPERTIES
  StaleConnectedCleared
  LinkGetsConnected
