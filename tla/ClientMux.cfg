SPECIFICATION TimedSpec
CONSTANTS
    s1 = s1
    s2 = s2
    NoStream = NoStream
    Streams <- Two
    Uot <- OneUot
    PeerVersion = 2
    HasWriteTimeout = TRUE
    HeaderLen = 1
    ReadSize = 1
    MaxPendingOutput = 5
    MaxOutFrames = 4
    MaxStreamFrames = 2
    MaxDirect = 1
    DrainFrames = 2
    ByteBudget = 4
    MaxOpens = 2
    MaxData = 3
    MaxControl = 1
CHECK_DEADLOCK FALSE
INVARIANTS
    TypeOK
    NoStaleFrame
    CountersExact
    WireInOrder
    NoLostWakeup
PROPERTIES
    OutputEnds
