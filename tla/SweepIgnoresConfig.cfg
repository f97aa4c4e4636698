SPECIFICATION Spec
CONSTANTS
  Seeds = {1, 2}
  DefaultSeed = 1
  Commits = {c1}
  FirstCommit = c1
  Configs = {medium, full}
  QuartusConfig = full
  medium = medium
  full = full
  NoFile = NoFile
  Torn = Torn
  Requests <- MCRequests
  MaxLaunches = 3
  MaxEvents = 0
  Cost <- MCCost
INVARIANT SweepIsOfItsConfig
CHECK_DEADLOCK FALSE
