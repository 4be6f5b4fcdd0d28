SPECIFICATION Spec
CONSTANTS
  StartRtu = {0, 1}
  OperatorTable = {}
  Capacity = 3
  PumpCount = 0
  Level = {1}
  Setpoint = {}
  Reading = {0, 1}
  Post <- MCLevelPost
  NoValue = NoValue
  NoRequest = NoRequest
  DrainLimit = 2
  Thread = {h1, h2}
  Poller = Poller
  NoThread = NoThread
  Burst = 2
  StartMode = {"disabled", "enabled"}
  PollerStart = {"top", "simulating"}
  OperatorMode = {"disabled", "enabled"}
INVARIANTS GoodMeansConfirmed QueuedMeansPending
PROPERTIES InjectsOnlyWhileEnabled
