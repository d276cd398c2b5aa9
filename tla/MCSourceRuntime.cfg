SPECIFICATION Spec
CONSTANTS
  files = files
  site = site
  f1 = f1
  f2 = f2
  w1 = w1
  j1 = j1
  j2 = j2
  k1 = k1
  k2 = k2
  l1 = l1
  l2 = l2
  None = None
  Sources = {files, site}
  Items = {f1, f2, w1}
  Jobs = {j1, j2}
  Copies = {k1, k2}
  Loads = {l1, l2}
  SourceOf <- MCSourceOf
  CrawlSources = {site}
  Kinds = {"index", "resume", "sync", "pause", "upload", "rename", "delete", "drop"}
  Underway = {{f1}}
  Beginnings <- MCBeginnings
  Spent <- MCSpent
  MaxRequests = 1
  MaxVisits = 2
  MaxFailures = 1
SYMMETRY Symmetry
INVARIANTS
  
  
  RowsSettle
  BarsSettle
CHECK_DEADLOCK FALSE
