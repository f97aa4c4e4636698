SPECIFICATION Spec
CONSTANTS
  Ant = {a1, a2}
  Beats = 2
  FramesMax = 4
  OutDepth = 2
  ForceUnsafe = FALSE
  Requests <- RingRequests
  DepthWrites = {}
  Quiesce = TRUE
  FrameLimit = 5
  EpochLimit = 0
SYMMETRY Symmetry
INVARIANTS BookkeepingExact NothingForgotten ResponsesAreRight NoSafeCollision
