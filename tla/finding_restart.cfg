SPECIFICATION FairSpec
CONSTANTS
  None = None
  Empty = Empty
  Procs = {p1, p2}
  Crashes = FALSE
  DiskFaults = FALSE
  MaxStops = 1
PROPERTIES
  DocumentedRestartServes
CHECK_DEADLOCK FALSE
