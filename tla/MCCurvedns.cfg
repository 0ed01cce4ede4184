\* SIGTERM and a failed start stop the program.
CHECK_DEADLOCK FALSE
SPECIFICATION Spec
SYMMETRY ListenersAlike
CONSTANTS
  None = None
  k1 = k1
  k2 = k2
  k3 = k3
  Key <- MCKey
  cache_hash <- MCHash
  NrBuckets = 2
  NrEntries = 2
  Packets <- MCPackets
  Ids = {1}
  Slots = {1, 2}
  l1 = l1
  l2 = l2
  Listener <- MCListener
  Environments <- MCEnvironments
  RecvResults = {"packet", "none"}
  AcceptResults = {"ok", "again"}
  Sizes = {1}
  BufferLen = 2
  MaxReady = 2
INVARIANTS AnswersAsker  TableSound
