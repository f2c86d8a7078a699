CONSTANTS
  MaxCreates = 3
  MaxTries = 4
  ReportFrom = 2
  MaxFaults = 2
  MaxRequeues = 2
SPECIFICATION Spec
INVARIANTS
  OneServer
  NoOrphan
  PublishedIsEncrypted
  ServedIsWhole
PROPERTIES
  AmbiguityReported
  InstalledServes
  LapseReported
CHECK_DEADLOCK FALSE
