SPECIFICATION Spec
CONSTANTS
  StartRtu = {0, 1}
  OperatorTable = {}
  Capacity = 2
  PumpCount = 0
  Level = {1}
  Setpoint = {}
  Reading = {0, 1}
  Post <- MCLevelPost
  NoValue = NoValue
  NoRequest = NoRequest
  DrainLimit = 2
  Thread = {h1}
  Poller = Poller
  NoThread = NoThread
  Burst = 1
  StartMode = {"disabled", "enabled"}
  PollerStart = {"top"}
  OperatorMode = {"disabled", "enabled"}
INVARIANTS DisablingReturns
