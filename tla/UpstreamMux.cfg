CONSTANTS
  t1 = t1
  t2 = t2
  None = None
  Streams <- Two
  Kinds = {"tcp", "packet"}
  ReadSize = 1
  PacketSize = 1
  MaxOutput = 1
  FrameBudget = 1
  StreamBudget = 1
  MaxArrivals = 1
  MaxPayloads = 1
SPECIFICATION Spec
CHECK_DEADLOCK FALSE
INVARIANTS TypeOK QueuesAgree NoLostRead ShutdownAfterPayload
SYMMETRY Symmetric
