SPECIFICATION FairSpec
CONSTANTS
  LastMoment = 2
  Mishaps = 2
  Buffered = 1
  NoSnapshot = NoSnapshot
INVARIANTS StreamTypeOK OneLiveSocket NeverStranded
PROPERTIES StreamKeepsOrder CatchesUp HandlersEnd
CHECK_DEADLOCK FALSE
