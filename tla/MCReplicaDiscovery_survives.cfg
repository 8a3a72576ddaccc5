\* Only replica 2 is asked to terminate.
SPECIFICATION Spec
CONSTANTS
  N = 2
  Identity <- OneIdentity
  Null = Null
  InitDelay = 2
  StatusDelay = 1
  ShareDelay = 1
  CloseDelay = 2
  PhaseDelay = 7
  SlowStart = FALSE
  Founders = {}
  Stoppers = {2}
  Crashers = {}
  MaxMultiplier = 1
  MaxRounds = 0
  Trials <- Calm
INVARIANT OthersOperate
CHECK_DEADLOCK FALSE
