SPECIFICATION FairSpec
CONSTANTS
  Instances = {i1}
  Resets = {r1, r2}
  Frames = {f1, f2}
  Tags = {A, B}
  None = None
  MaxEnds = 1
CHECK_DEADLOCK FALSE
INVARIANTS
  EveryFrameCounted
  CountedOnce
  RightRun
PROPERTIES
  AbandonedRunsEnd
