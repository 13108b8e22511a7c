SPECIFICATION FairSpec
CONSTANTS
  Messages = {m1, m2, m3}
  Readable = {m1, m2}
  MaxAttempts = 2
  FlowMax = 1
  BatchSize = 3
  QueueMax = 1
  MaxOrphans = 1
INVARIANTS
  AckedIsCounted
PROPERTIES
  EveryCounted
