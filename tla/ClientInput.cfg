CONSTANTS
  s1 = s1
  s2 = s2
  None = None
  Streams <- Two
  Tls = {TRUE, FALSE}
  MaxPending = 2
  ReadMax = 3
  ReadLoops = 2
  WriteBatch = 2
  MaxFrames = 4
  MaxBad = 1
SPECIFICATION FairSpec
CHECK_DEADLOCK FALSE
INVARIANTS TypeOK BacklogExact InputBounded EveryFrameHandled
PROPERTIES PauseEnds InputIsRead
