SPECIFICATION IpcFairSpec
CONSTANTS
  Clients = {c1, c2, c3}
  Malformed = {c3}
  Stalled = {c2}
  Browsers = {c1}
  Backlog = 1
  Parts = 2
  Faults = {"hangup", "kill", "accept", "storage"}
INVARIANTS
  IpcTypeOK
  DaemonSurvives
PROPERTIES
  CallEnds
  HandlersEnd
  ImplementsCall
CHECK_DEADLOCK FALSE
