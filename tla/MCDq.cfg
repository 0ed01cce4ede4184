\* Two levels, four loops, packets with one record a section, two rounds.
SPECIFICATION MCSpec
CONSTANTS
  Name <- MCName
  Above <- MCAbove
  Configured <- MCConfigured
  ConfiguredAddr <- MCConfiguredAddr
  Global = {"localhost"}
  GlobalIp <- MCGlobalIp
  Fixed = {"rev"}
  Addr = {"ip1", "ip2"}
  IgnoreIp = {}
  RR <- MCRR
  MaxAnswers = 1
  MaxAuthority = 1
  MaxGlue = 1
  MaxCached = 1
  QType = {"A", "AAAA", "CNAME"}
  flagforwardonly = FALSE
  maxlevel = 2
  maxalias = 1
  maxns = 1
  maxloop = 4
  NServers = 4
  MaxQueries = 1
  None = None
  Global6 = {"localhost", "v6"}
  GlobalIp6 <- MCGlobalIp6
  KeyOf <- MCKeyOf
  ConfiguredKey <- MCConfiguredKey
  Formats = {1, 2}
  flagtcponly = FALSE
  Long = {}
  Garbled = Garbled
  Cut = Cut
  KeyAt <- MCKeyAt
  Rounds = 2
INVARIANTS AcceptsOwn Inside
