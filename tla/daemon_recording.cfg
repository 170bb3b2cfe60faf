SPECIFICATION DaemonFairSpec
CONSTANTS
  a = a
  b = b
  secret = secret
  NoContent = NoContent
  Contents <- MCContents
  TypeOf <- MCTypeOf
  Names = {n1}
  SecretTtl = 1
  Limits = {}
  MaxNow = 3
  MaxIds = 0
  CleanPeriod = 1
  Lag = 1
  SearchLimit = 2
  Queries = {}
  StorageFaults = FALSE
  MaxCopies = 2
  MaxStarts = 2
INVARIANTS
  SecretsCarryExpiry
PROPERTIES
  NewTextRecorded
CHECK_DEADLOCK FALSE
