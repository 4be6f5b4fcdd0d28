SPECIFICATION Spec
CONSTANTS
  StartRtu = {0, 1}
  OperatorTable = {}
  Capacity = 2
  PumpCount = 0
  Level = {}
  Setpoint = {1}
  Reading = {0, 1}
  Post <- MCSetpointPost
  NoValue = NoValue
  NoRequest = NoRequest
  DrainLimit = 2
  Thread = {h1}
  Poller = Poller
  NoThread = NoThread
  Burst = 1
  StartMode = {"enabled"}
  PollerStart = {"top"}
  OperatorMode = {}
PROPERTIES FailedWriteStaysPending
