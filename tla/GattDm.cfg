SPECIFICATION FairSpec
CONSTANTS
  MaxAttrs = 6
  ChunkWords = 9
  MaxHandles = 7
  Faults = {"drop", "att", "heap", "queue"}
INVARIANTS
  TypeOK
  ResourcesOwned
  CompletedIsWhole
  ErrorHasCause
PROPERTIES
  DiscoverySpec
CHECK_DEADLOCK FALSE
