SPECIFICATION FairSpec
CONSTANTS
  Data = {d1, d2}
  NoData = NoData
  Depth = 2
  SyncStages = 2
  OutReg = TRUE
  LongReset = TRUE
INVARIANTS TypeOK Conservative FlagsSafe
PROPERTIES IsFifo NeitherSideWaits
