SPECIFICATION Spec
CONSTANTS
  Data = {d1, d2}
  NoData = NoData
  SyncStages = 3
  LongReset = TRUE
  OneSided = FALSE
INVARIANTS TypeOK StrobeIntact IdleIsAbsolute
PROPERTY IsChannel
