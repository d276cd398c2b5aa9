SPECIFICATION Spec
CONSTANTS
  Items = {i1}
  Deletable = {}
  NumBatches = 1
  Concurrency = 1
  MaxCrashes = 0
  LockTimeouts = FALSE
  NoOne = NoOne
PROPERTY CheckpointHonoursPause
