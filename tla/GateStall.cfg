CONSTANTS
  PrefixLen = 2
  MaxPadding = 1
  BufferSize = 2
  WriteBudget = 2
  Listeners <- PlainServer
  Requests <- OneRequest
  ReadSize = 2
  ReadLoops = 2
  MaxSent <- Few
SPECIFICATION FairSpec
CHECK_DEADLOCK FALSE
PROPERTIES RelayComplete
