\* One slot each.
SPECIFICATION FairSpec
CONSTANTS
  MAXUDP = 1
  MAXTCP = 1
  MAXSOA = 1
  Client = {c1}
  QType = {"SOA", "other"}
  MinLen = 2
  Lens = {1, 2, 3}
  ResponseLens = {1}
  MaxQueries = 2
  MaxArrivals = 3
  None = None
PROPERTIES AllEnds
