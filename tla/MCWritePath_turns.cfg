SPECIFICATION FairSpec
CONSTANTS
  StartRtu = {0, 1}
  OperatorTable = {}
  Capacity = 3
  PumpCount = 0
  Level = {1, 2}
  Setpoint = {1, 2}
  Reading = {0}
  Post <- MCTurnPost
  NoValue = NoValue
  NoRequest = NoRequest
  DrainLimit = 2
  Thread = {h1}
  Poller = Poller
  NoThread = NoThread
  Burst = 2
  StartMode = {"enabled"}
  PollerStart = {"top"}
  OperatorMode = {"disabled", "enabled"}
INVARIANTS TypeOK DepthBounded OnePendingPerLevel
PROPERTIES StateSpec LevelsKeepTheirTurn LevelsAreServed
