SPECIFICATION StoreSpec
CONSTANTS
  text = text
  secret = secret
  Contents <- MCContents
  TypeOf <- MCTypeOf
  Names = {n1}
  SecretTtl = 1
  Limits <- MCLimits
  MaxNow = 4
  MaxIds = 4
INVARIANTS
  StoreTypeOK
PROPERTIES
  EvictionIsOldestFirst
  ImplementsLog
CHECK_DEADLOCK FALSE
