SPECIFICATION FairSpec
CONSTANTS
  s1 = s1
  s2 = s2
  Ids = {s1, s2}
  Versions = {1, 2}
  Limits = {1, 2}
  AddrLen <- MCAddrLen
  MaxAddr = 2
  MaxBytes = 3
  MaxOpens = 2
  MaxReplies = 1
INVARIANTS TypeOK PayloadAfterAddress RecordsExact OpeningHeld
PROPERTIES AnsweredOnce OpeningEnds
CHECK_DEADLOCK FALSE
