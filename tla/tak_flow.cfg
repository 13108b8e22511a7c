SPECIFICATION FairSpec
CONSTANTS
  m1 = m1
  m2 = m2
  m3 = m3
  d1 = d1
  d2 = d2
  Messages = {m1, m2, m3}
  Detections = {d1, d2}
  DetectionOf <- Twins
  Readable = {m1, m3}
  Located = {d1}
  FlowMax = 2
  DedupSize = 1
  MaxAttempts = 2
INVARIANTS
  TypeOK
  NothingLost
PROPERTIES
  EverySettles
