\* A 128-byte cache with two buckets, and none, against a moving clock.
SPECIFICATION FairSpec
CONSTANTS
  Key <- MCKey
  Data <- MCData
  KeyLen <- MCKeyLen
  DataLen <- MCDataLen
  HashVal = {0, 6}
  CacheSizes = {0, 128}
  TTLs = {1}
  MaxKeyLen = 5
  MaxDataLen = 150
  MaxTTL = 1
  MaxLoop = 1
  MaxNow = 2
  None = None
INVARIANTS Linked NeverImpossible
PROPERTIES MissHasReason ImplementsCacheSpec CallsReturn
