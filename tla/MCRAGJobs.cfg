SPECIFICATION FairSpec
CONSTANTS
  Jobs = {j1, j2}
  Groups = {g1}
  Clients = {c1}
  NoJob = NoJob
  NoGroup = NoGroup
  QueueCap = 2
  CacheCap = 2
  MaxEvents = 3
INVARIANT OneActiveJobPerGroup
INVARIANT GroupMapExact
INVARIANT ShutdownLeavesNoTask
INVARIANT StreamInOrder
INVARIANT RegisteredStreamComplete
PROPERTY KeepsPromise
PROPERTY JobSettles
PROPERTY RegisteredStreamEnds
