SPECIFICATION Spec
CONSTANTS
  Items = {i1, i2}
  Deletable = {}
  NumBatches = 2
  Concurrency = 2
  MaxCrashes = 1
  LockTimeouts = TRUE
  NoOne = NoOne
INVARIANT CompletedIsWhole
INVARIANT NoOrphanVectors
INVARIANT ReportTruth
