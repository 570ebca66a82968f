SPECIFICATION Spec
CONSTANTS
  HwPolls = 2
  Faults = {"drop"}
INVARIANTS
  DiscoveryHasConn
