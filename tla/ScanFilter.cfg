SPECIFICATION Spec
CONSTANTS
  Clients = {"search", "any"}
  c1 = c1
  c2 = c2
  other = other
  GoPro = GoPro
  Heart = Heart
  Malformed = Malformed
  NoDevice = NoDevice
  Devices <- MCDevices
  Cameras <- MCCameras
  Capacity <- MCCapacity
  Texts <- MCTexts
  Uuids <- MCUuids
  Appearances = {"camera"}
  MaxBonds = 1
  MaxFilters = 3
  MaxEnabled = 2
  Reports <- MCReports
  Faults = {"hci"}
INVARIANTS
  TypeOK
  VerdictIsDocumented
  SearchTargets
CHECK_DEADLOCK FALSE
