SPECIFICATION DaemonSpec
CONSTANTS
  a = a
  b = b
  secret = secret
  NoContent = NoContent
  Contents <- MCContents
  TypeOf <- MCTypeOf
  Names = {}
  SecretTtl = 1
  Limits <- MCLimits
  MaxNow = 1
  MaxIds = 0
  CleanPeriod = 1
  Lag = 1
  SearchLimit = 2
  Queries <- MCQueries
  StorageFaults = TRUE
  MaxCopies = 3
  MaxStarts = 2
INVARIANTS
  DaemonTypeOK
  SeenIdsStable
  ListComplete
  HistoryFollowsClipboard
PROPERTIES
  ImplementsLog
CHECK_DEADLOCK FALSE
