SPECIFICATION FairSpec
CONSTANTS
  d1 = d1
  f1 = f1
  f2 = f2
  f3 = f3
  Workers = {w1, w2}
  Devices = {d1}
  Frames = {f1, f2, f3}
  DeviceOf <- AllFromOne
  TimeOf <- Times
  SecondsOf <- Lengths
  Over = {f1, f2}
  Confounded = {f2}
  StreamMax = 2
  BatchMax = 2
  BufferSize = 2
  GateSeconds = 2
  ChronicWindow = 2
  ChronicThreshold = 2
INVARIANTS
  OneAlertPerWorker
  MutedHadCompany
PROPERTIES
  EveryFrameSettles
