SPECIFICATION Spec
CONSTANTS
  SampleInterval = 2
  Retention = 4
  CompactionPeriod = 4
  Latency = 1
  LastMoment = 3
  Unreadable = Unreadable
  Fault <- MCNoBody
  Tank <- MCTanks
  TopLevel = 1
  Sample <- Levels
  Limits <- MCLimits
  PumpCount = {0}
  InletRate = 1
  ConsumptionRate = 1
  PumpRate = 1
  MaxStep = 1
  SeasonalInlet <- MCSeasonalInlet
  DailyConsumption <- MCDailyConsumption
  InitialControl <- MCControl
  ControlBody <- MCNoBody
  ValveBody <- MCNoBody
  Unset = Unset
INVARIANTS LeavingDiscardsTheLevels
