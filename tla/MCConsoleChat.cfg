SPECIFICATION ConsoleSpec
CONSTANTS
  p = p  t = t  u = u  None = None
  Turns = {p, t, u}
  Past <- MCPast
  RagTurns = {}
  MaxInput = 100
  SystemSize = 1
  UserSize <- MCUserSize
  RagSize = 0
  SummarySize = 1
  MaxChunks = 1
  MaxRequests = 1
  MaxLag = 1
INVARIANT ConsoleTypeOK
 
INVARIANT StreamedTextShown
PROPERTY ComposerFreed
CHECK_DEADLOCK FALSE
