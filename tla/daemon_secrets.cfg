SPECIFICATION DaemonSpec
CONSTANTS
  a = a
  b = b
  secret = secret
  NoContent = NoContent
  Contents <- MCSecrets
  TypeOf <- MCSecretType
  Names = {}
  SecretTtl = 1
  Limits = {}
  MaxNow = 7
  MaxIds = 0
  CleanPeriod = 2
  Lag = 1
  SearchLimit = 2
  Queries = {}
  StorageFaults = TRUE
  MaxCopies = 2
  MaxStarts = 2
INVARIANTS
  SecretLifetime
CHECK_DEADLOCK FALSE
