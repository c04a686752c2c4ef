SPECIFICATION Spec
CONSTANTS
  f = f
  g = g
  noFile = noFile
  notLoading = notLoading
  File <- MCFile
  Rate = {1, 2}
  Frames <- MCFrames
  Patches <- MCPatches
  Hop = 2
  Blocks = {2, 3}
  Capacity = 2
  MaxEdits = 5
INVARIANTS EngineFollowsRecord PlaysAtItsRate
PROPERTIES LoadsSayEverything ReadsOn
