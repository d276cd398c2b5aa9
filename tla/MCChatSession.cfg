SPECIFICATION Spec
CONSTANTS
  p = p  t = t  u = u  None = None
  Turns = {p, t, u}
  Past <- MCPast
  RagTurns = {t}
  MaxInput = 20
  SystemSize = 6
  UserSize <- MCUserSize
  RagSize = 7
  SummarySize = 3
  MaxChunks = 1
  MaxRequests = 2
INVARIANT TimelineIntact
INVARIANT ContextComplete
INVARIANT SummaryMatchesRows
 
INVARIANT AnswerKept
 
PROPERTY CancelHeard
CHECK_DEADLOCK FALSE
