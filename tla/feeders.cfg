SPECIFICATION FairSpec
CONSTANTS
  Depth = 2
  MaxSequence = 4
  MaxCalls = 2
  Places = {p1, p2, p3}
  Nowhere = Nowhere
  Registry = p1
  Far = {p3}
  Snap = TRUE
  Room = 2
  MaxClips = 3
  Clips = {c1, c2, c3, c4}
  Wavs = {c1, c2, c3}
  Permits = 2
  MaxPulls = 1
  Detections = {e1, e2}
  Ours = {e1, e2}
  Limit = 1
  Clip = 2
  Lists <- TwoLists
  Slop = 1
  Horizon = 4
  Phones = {d1, d2}
  Interval = 6
  CallTime = 1
  TTL = 12
  MaxRefresh = 3
  MaxTicks = 2
CHECK_DEADLOCK FALSE
INVARIANTS
  FramesPlaced
  FlybysAreRuns
  CollectedOnce
  NonePassed
  KeptVisible
PROPERTIES
  StationGoesOn
  BridgeGoesOn
  VerdictsStand
  ClipsSettle
