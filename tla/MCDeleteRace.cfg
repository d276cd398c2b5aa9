SPECIFICATION Spec
CONSTANTS
  Items = {i1, i2}
  Deletable = {i1}
  NumBatches = 1
  Concurrency = 2
  MaxCrashes = 0
  LockTimeouts = FALSE
  NoOne = NoOne
PROPERTY DeleteSparesBusyItems
