SPECIFICATION DaemonSpec
CONSTANTS
  a = a
  b = b
  secret = secret
  NoContent = NoContent
  Contents <- MCPlainContents
  TypeOf <- MCPlainTypeOf
  Names = {}
  SecretTtl = 2
  Limits = {}
  MaxNow = 1
  MaxIds = 0
  CleanPeriod = 2
  Lag = 1
  SearchLimit = 2
  Queries = {}
  StorageFaults = FALSE
  MaxCopies = 3
  MaxStarts = 1
PROPERTIES
  NoConsecutiveDuplicate
CHECK_DEADLOCK FALSE
