\* Three levels, four loops, packets with one record a section.  One question.
SPECIFICATION FairSpec
CONSTANTS
  Name <- MCName
  Above <- MCAbove
  Configured <- MCConfigured
  ConfiguredAddr <- MCConfiguredAddr
  Global = {"localhost"}
  GlobalIp <- MCGlobalIp
  Fixed = {"ipv6"}
  Addr <- MCAddr
  IgnoreIp = {"bad"}
  RR <- MCRR
  MaxAnswers = 1
  MaxAuthority = 1
  MaxGlue = 1
  MaxCached = 1
  QType = {"A", "ANY", "AXFR", "CNAME"}
  flagforwardonly = FALSE
  maxlevel = 3
  maxalias = 2
  maxns = 1
  maxloop = 5
  NServers = 2
  MaxQueries = 1
  None = None
INVARIANTS ZonesCover StoredFromZone ResponseFits
PROPERTIES Progress Terminates
