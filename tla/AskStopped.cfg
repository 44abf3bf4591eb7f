CONSTANTS
  Items = {i1}
  MaxAsks = 2
  MaxJobs = 1
  MaxChats = 1
  MaxTurns = 2
  MaxPending = 2
  MaxStreams = 2
SPECIFICATION AskSpec
PROPERTIES StoppedRequestKeepsAccount
CHECK_DEADLOCK FALSE
