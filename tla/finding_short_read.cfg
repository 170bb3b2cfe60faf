SPECIFICATION IpcSpec
CONSTANTS
  Clients = {c1, c2}
  Malformed = {}
  Stalled = {}
  Browsers = {}
  Backlog = 5
  Parts = 2
  Faults = {}
INVARIANT
  CarriedIsReported
CHECK_DEADLOCK FALSE
