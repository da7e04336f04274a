CONSTANTS
  s1 = s1
  s2 = s2
  None = None
  Streams <- One
  Tls = {FALSE}
  MaxPending = 2
  ReadMax = 3
  ReadLoops = 2
  WriteBatch = 2
  MaxFrames = 5
  MaxBad = 0
SPECIFICATION Spec
CHECK_DEADLOCK FALSE
INVARIANT PayloadInOrder
