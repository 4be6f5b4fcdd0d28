SPECIFICATION FairSpec
CONSTANTS
  StartRtu = {0}
  OperatorTable = {"digital_reads"}
  Capacity = 2
  PumpCount = 1
  Level = {}
  Setpoint = {}
  Reading = {0}
  Post <- MCNoPost
  NoValue = NoValue
  NoRequest = NoRequest
  DrainLimit = 2
  Thread = {h1}
  Poller = Poller
  NoThread = NoThread
  Burst = 1
  StartMode = {"enabled"}
  PollerStart = {"top"}
  OperatorMode = {}
INVARIANTS NewestEmarIsCommanded ModesAreSaved
PROPERTIES EmarConverges
