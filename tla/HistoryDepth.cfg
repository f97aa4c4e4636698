SPECIFICATION Spec
CONSTANTS
  Ant = {a1, a2}
  Beats = 2
  FramesMax = 4
  OutDepth = 1
  ForceUnsafe = FALSE
  Requests <- NearRequests
  DepthWrites = {2, 3}
  Quiesce = TRUE
  FrameLimit = 3
  EpochLimit = 1
SYMMETRY Symmetry
INVARIANTS ResponsesAreRight FramingClean
