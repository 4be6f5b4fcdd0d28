SPECIFICATION HistorySpec
CONSTANTS
  Sample = {low}
  Unreadable = Unreadable
  SampleInterval = 1
  Retention = 2
  CompactionPeriod = 2
  Latency = 1
  LastMoment = 6
  Fault = {"append", "crash"}
INVARIANTS PointsAreOnFile FileIsCompacted
PROPERTIES RestartKeepsPoints
CHECK_DEADLOCK FALSE
