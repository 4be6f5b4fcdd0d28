SPECIFICATION Spec
CONSTANTS
  SampleInterval = 2
  Retention = 4
  CompactionPeriod = 4
  Latency = 1
  LastMoment = 2
  Unreadable = Unreadable
  Fault = {"crash"}
  Tank <- MCChamber
  TopLevel = 2
  Sample <- Levels
  Limits <- MCLimits
  PumpCount = {0}
  InletRate = 1
  ConsumptionRate = 1
  PumpRate = 1
  MaxStep = 1
  SeasonalInlet <- MCSeasonalInlet
  DailyConsumption <- MCDailyConsumption
  InitialControl <- MCControl
  ControlBody <- MCControlBody
  ValveBody <- MCValveBody
  Unset = Unset
INVARIANTS EmulatorTypeOK SavedIsRemembered
PROPERTIES KeepsOnlyWhatWasTaken ControlsAreTheOperators HistorySpec LevelsMoveSteadily
