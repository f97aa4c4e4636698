SPECIFICATION Spec
CONSTANTS
  SAMPLE_W = 8
  Matrix <- MCMatrix
  MaxSweeps = 3
  DATA_W = 2
  Window = 8
  AddrSpace = 24
  SPEC9_GROUPS = {1, 2}
  Sources <- MCSources
  Addresses = {4, 8, 9, 12, 20}
  WATCHDOG_CYCLES = 2
  NoRequest = NoRequest
  NoNet = "none"
  Missing = "missing"
  Literal = {"1", "2", "3"}
  ClockLike = {"clk_a", "clk_b", "clk_s", "clk_d"}
  Procs = {1, 2}
  MaxVersion = 2
  MaxMishaps = 1
  Configs <- MCConfigs
  Builds = {1, 2}
  MaxBuilds = 3
  Operands <- MCOperands
  NoBeat <- MCNoBeat
  SCALE_BITS = 3
  MaxBeats = 4
  GOLDEN_BEATS = 96
INVARIANTS
  DecodersAgree PredictionsHold InventoryHolds VerdictIsTrue HalvesAgree
  ProductIsReference VectorsTellApart TransformIsRight LaneIsFilter
PROPERTIES RecordsAreTrue ScriptsConclude
CHECK_DEADLOCK FALSE
