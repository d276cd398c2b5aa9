SPECIFICATION FairSpec
CONSTANTS
  Jobs = {j1}
  Groups = {g1}
  Clients = {c1}
  NoJob = NoJob
  NoGroup = NoGroup
  QueueCap = 2
  CacheCap = 2
  MaxEvents = 3
PROPERTY EveryStreamEnds
