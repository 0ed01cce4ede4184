\* A zone as tinydns-sign signs it.
SPECIFICATION Spec
CONSTANTS
  None = None
  ip1 = ip1
  ip2 = ip2
  ip3 = ip3
  ip4 = ip4
  ip5 = ip5
  ip6 = ip6
  ip7 = ip7
  ip8 = ip8
  ip9 = ip9
  key = key
  param = param
  ds = ds
  Lower <- MCLower
  Letters <- MCLetters
  Hash <- MCHash
  NibbleSize = 16
  SigTtl = 2
  Versions <- MCVersionsHex
  Queries <- MCQueries
  RecordSize = 100
  MaxNow = 4
PROPERTY Proven
