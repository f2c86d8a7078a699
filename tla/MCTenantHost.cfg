CONSTANTS
  Calls = {a, b, c}
  MaxFaults = 1
SPECIFICATION Spec
INVARIANTS
  SuspendedStaysDown
  ServedIsUp
PROPERTIES
  ArchiveIsQuiet
  PauseEnds
CHECK_DEADLOCK FALSE
