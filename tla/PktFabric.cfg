SPECIFICATION FairSpec
CONSTANTS
  Radix = 2
  Stages = 1
  N_VC = 2
  VcDepth = 2
  EndDepth = 2
  SeqMod = 2
  MaxPackets <- TwoAndOne
  OutPipe = 0
  WaitMax = 0
  MaxLen = 2
  Traffic <- HotSpot
  Enables <- Refusing
  Guaranteed <- TakeOne
  KillSites <- KillOne
INVARIANTS CreditsConserved PacketsWhole
PROPERTIES IsFifoPerLane Drains
