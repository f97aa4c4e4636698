SPECIFICATION BenchSpec
CONSTANTS
  Data = {d1, d2}
  NoData = NoData
  Depth = 3
  ShowAhead = FALSE
  Width = 3
  SyncStages = 3
  Event = Event
  Stages = 1
  OutDepth = 3
  ElasticDepth = 2
PROPERTIES BuffersAreFifos StreamsAtFullRate CrossingsAreSafe NothingWedges
