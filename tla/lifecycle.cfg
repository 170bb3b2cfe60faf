SPECIFICATION FairSpec
CONSTANTS
  None = None
  Empty = Empty
  Procs = {p1, p2, p3}
  Crashes = TRUE
  DiskFaults = TRUE
  MaxStops = 2
INVARIANTS
  TypeOK
  OneDaemon
  DaemonReachable
  SocketAnswers
PROPERTIES
  RestartServes
  StopIsObeyed
  CleanExit
CHECK_DEADLOCK FALSE
