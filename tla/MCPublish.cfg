\* Two modifications, one fault.
SPECIFICATION FairSpec
CONSTANTS
  None = None
  ip1 = ip1
  ip2 = ip2
  ip6a = ip6a
  text = text
  print = print
  bytes = bytes
  Lower <- MCLower
  Letters <- MCLetters
  Zone <- MCZone
  ClientIp <- MCClientIp
  FirstLines <- MCFirstLines
  Edits <- MCEdits
  HandEdits <- MCHandEdits
  MaxEdits = 2
  MaxFaults = 1
  MaxNow = 3
INVARIANTS PublishedWhole SkipIsSafe EditsDistinct
PROPERTIES RoundTrip Converges
