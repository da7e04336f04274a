CONSTANTS
  s1 = s1
  s2 = s2
  d1 = d1
  d2 = d2
  ip = ip
  None = None
  Streams <- Two
  Domains <- TwoDomains
  Ips <- OneIp
  MaxUotStreams = 1
  MaxPackets = 3
  RecvMax = 3
  MaxPieces = 4
  MaxBad = 1
SPECIFICATION FairSpec
CHECK_DEADLOCK FALSE
INVARIANTS TypeOK ResourcesReleased 
PROPERTIES PendingEnds
