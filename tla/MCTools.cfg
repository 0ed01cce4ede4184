SPECIFICATION ToolsSpec
CONSTANTS
  Conf <- MCConf
  Arg <- MCArg
  Numbers = {"1"}
  Data <- MCData
  Ip6Int <- MCIp6Int
  InAddr <- MCInAddr
  LIFE = 1
  USES = 2
  PATIENCE = 1
  MaxIp <- MCMaxIp
  MaxNow = 3
  MaxCalls = 2
  MaxEdits = 1
  None = None
  Inputs <- MCInputs
  Address = {"i1", "i2", "i3"}
  NameOf <- MCNameOf
  xmax = 3
  maxactive = 2
  InbufSize = 3
  Asked <- MCAskedQ
  Roots <- MCRoots
  Packets <- MCPackets
  IpOf <- MCIpOf
  Odd <- MCOdd
  MaxAsked = 8
  Texts <- MCTexts
  Types <- MCTypes
  Fill = {1, 110}
  Radix = 2
  MaxLabel = 3
  MaxName = 12
  NAMES = 4
  MaxStored <- MCMaxStored
  LOOP = 20
  MaxPacket = 180
  MaxRecords = 2
  Versions <- MCVersions
  Questions <- MCQuestions
  RblBase <- MCBase
  InAddr4 <- MCInAddr4
  MaxText = 2
  MaxAddrs = 3
  Absent = Absent
  TextAddrs <- MCAddresses
  Lists <- MCLists
  Keys <- MCKeys
  Boxes <- MCBoxes
  NoAddress <- MCUnreadable
  Beyond = {0, 7}
  MultiMax = 24
  DjbServers = 4
  DqServers = 6
  ZoneArgs <- MCZoneArgs
  TooLong = {"long"}
  NRetries = 2
  MaxTry = 5
INVARIANTS LooksUp LinesInOrder TracesAll Decodes ServesData TextsRead TellsEach
CHECK_DEADLOCK FALSE
