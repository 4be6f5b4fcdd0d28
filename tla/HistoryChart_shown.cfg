SPECIFICATION ChartSpec
CONSTANTS
  Sample = {low}
  Unreadable = Unreadable
  SampleInterval = 1
  Retention = 7
  CompactionPeriod = 3
  Latency = 0
  LastMoment = 11
  Fault = {"rewrite"}
  MaxPoints = 3
INVARIANTS CurrentChartIsRight ThinningKeepsTheEnds
