SPECIFICATION Spec
CONSTANTS
  Capacity = 2
  Window = 1
  MaxCalls = 2
  MaxFrames = 3
  MaxRuns = 2
  MaxReports = 1
  AckInterval = 2
CHECK_DEADLOCK FALSE
INVARIANTS
  AckedIsPublished
  StreamInOrder
  AcksKeepUp
  RefusedWhenFlooded
  CountersOfOneStream
  ShownWhileStreaming
  NowhereWithoutFix
