CONSTANTS
  t1 = t1
  t2 = t2
  None = None
  Streams <- One
  Kinds = {"tcp"}
  ReadSize = 1
  PacketSize = 1
  MaxOutput = 2
  FrameBudget = 1
  StreamBudget = 2
  MaxArrivals = 1
  MaxPayloads = 2
SPECIFICATION Spec
CHECK_DEADLOCK FALSE
INVARIANT SynackAfterConnect
