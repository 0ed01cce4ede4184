\* The limit on SOA queries.
SPECIFICATION Spec
CONSTANTS
  MAXUDP = 2
  MAXTCP = 1
  MAXSOA = 1
  Client = {c1}
  QType = {"SOA", "AXFR"}
  MinLen = 2
  Lens = {1, 2, 3}
  ResponseLens = {1}
  MaxQueries = 4
  MaxArrivals = 4
  None = None
INVARIANTS SoaLimited
