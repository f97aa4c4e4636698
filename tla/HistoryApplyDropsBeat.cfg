SPECIFICATION Spec
CONSTANTS
  Ant = {a1, a2}
  Beats = 2
  FramesMax = 4
  OutDepth = 2
  ForceUnsafe = FALSE
  Requests <- NearRequests
  DepthWrites = {3}
  Quiesce = FALSE
  FrameLimit = 5
  EpochLimit = 1
SYMMETRY Symmetry
INVARIANTS
  FramingClean
