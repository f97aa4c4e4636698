SPECIFICATION Spec
CONSTANTS
  Seeds = {1, 2}
  DefaultSeed = 1
  Commits = {c1, c2}
  FirstCommit = c1
  Configs = {medium, full}
  QuartusConfig = full
  medium = medium
  full = full
  NoFile = NoFile
  Torn = Torn
  Requests <- MCRequests
  MaxLaunches = 6
  MaxEvents = 2
  Cost <- MCCost
INVARIANTS SweepIsReproducible EvidenceIsOneCompile
PROPERTIES WorkIsKept ScriptsEnd
CHECK_DEADLOCK FALSE
