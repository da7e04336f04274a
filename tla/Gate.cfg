CONSTANTS
  PrefixLen = 2
  MaxPadding = 1
  BufferSize = 2
  WriteBudget = 2
  Listeners <- Servers
  Requests <- AllRequests
  ReadSize = 2
  ReadLoops = 2
  MaxSent <- Few
SPECIFICATION FairSpec
CHECK_DEADLOCK FALSE
INVARIANTS TypeOK AnswerAsWhole HandsOverClean RelayExact
PROPERTIES GateEnds BufferedIsSent
