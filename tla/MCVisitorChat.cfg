SPECIFICATION WidgetSpec
CONSTANTS
  Ips = {"a", "b"}
  Projects = {"p", "q"}
  Anyone = "*"
  Minute = 1
  Hour = 2
  CleanupInterval = 1
  IpProjectPerMinute = 2
  IpProjectPerHour = 2
  IpPerMinute = 2
  ProjectPerMinute = 2
  StreamPerIp = 2
  StreamPerProject = 1
  MaxTime = 2
  MaxOthers = 2
  Requests = {"r1", "r2", "r3", "w1", "w2"}
  WidgetRequests = {"w1", "w2"}
  NoRequest = "none"
  MaxChats = 1
  MaxDeltas = 1
  RagRequest = "r1"
  Structured = {TRUE, FALSE}
  Items = {"i1", "i2", "i3"}
  TopK = 2
  RerankK = 3
  FtsK = 2
  VectorK = 2
  RrfK = 2
  MinCandidates = 2
  MinCommonOverlap = 1
  Unit = 60
  MaxChanges = 2
  IpOf <- MCIpOf
  ProjectOf <- MCProjectOf
  SourceList <- MCSourceList
  SourceOf <- MCSourceOf
  Length <- MCLength
  Order <- MCOrder
  Relevant <- MCRelevant
  Settings <- MCSettings
  Table <- MCTable
  Starts <- MCStarts
INVARIANT WindowsHold
INVARIANT LeasesExact
INVARIANT HitsFromScope
INVARIANT BestFirst
 
CHECK_DEADLOCK FALSE
