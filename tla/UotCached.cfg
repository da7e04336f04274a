CONSTANTS
  s1 = s1
  s2 = s2
  d1 = d1
  d2 = d2
  ip = ip
  None = None
  Streams <- One
  Domains <- TwoDomains
  Ips <- OneIp
  MaxUotStreams = 1
  MaxPackets = 2
  RecvMax = 3
  MaxPieces = 3
  MaxBad = 1
SPECIFICATION Spec
CHECK_DEADLOCK FALSE
INVARIANT ResolvedIsSent
