SPECIFICATION Spec
CONSTANTS
  m1 = m1
  m2 = m2
  m3 = m3
  d1 = d1
  d2 = d2
  Messages = {m1, m2}
  Detections = {d1, d2}
  DetectionOf <- Twins
  Readable = {m1, m2}
  Located = {d1, d2}
  FlowMax = 2
  DedupSize = 2
  MaxAttempts = 2
PROPERTIES
  FailedSendIsRetried
