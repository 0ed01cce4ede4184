\* Two UDP slots, one connection, one SOA query at a time; a cache of two entries on disk; two processes that share a key and one that does not.
SPECIFICATION MCSpec
CONSTANTS
  MAXUDP = 2
  MAXTCP = 1
  MAXSOA = 1
  Client = {c1, c2}
  QType = {"SOA", "AXFR", "other"}
  MinLen = 1
  Lens = {0, 2}
  ResponseLens = {1}
  MaxQueries = 3
  MaxArrivals = 3
  None = None
  Question = {q1, q2}
  MAXUDPDUPLICATED = 1
  Process = {"a", "b", "c"}
  NonceStart <- MCNonceStart
  SecretKey <- MCSecretKey
  Bits = 2
  MaxWall = 5
  MaxBoots = 2
  MaxUsed = 2
  Nil = Nil
  Kind <- MCKind
  Key = {"rr", "r2", "secret"}
  Room = 2
  TTLs = {0, 3}
  MaxTTL = 2
  MaxNow = 2
  MaxStarts = 2
SYMMETRY Symmetry
INVARIANTS ServesAsker DiskSound NonceOnce
CHECK_DEADLOCK FALSE
