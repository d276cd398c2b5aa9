SPECIFICATION FairSpec
CONSTANTS
  a = a  b = b  c = c  x = x  y = y  None = None
  Keys = {a, b, c}
  InScope = {a, b}
  Configs <- MCConfigs
  MaxPages = 2
  TextOf <- MCTextOf
  Targets = {a}
  Unstamped = {b}
INVARIANT CopyMatchesItsValidator
 
INVARIANT PagesAccountedFor
 
 
PROPERTY SyncSettles
CHECK_DEADLOCK FALSE
