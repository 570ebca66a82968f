SPECIFICATION FairSpec
CONSTANTS
  PoolSize = 2
  Mailboxes = 2
  Reports <- MCReports
  MaxChanges = 2
  MaxCmds = 1
  MaxFaults = 2
INVARIANTS
  OneFrameOut
PROPERTIES
  LatestStateShown
