\* Two replicas join, nobody leaves; a rate limit failure at any time.
SPECIFICATION Spec
CONSTANTS
  N = 2
  Identity <- OneIdentity
  Null = Null
  InitDelay = 2
  StatusDelay = 1
  ShareDelay = 1
  CloseDelay = 2
  PhaseDelay = 7
  SlowStart = FALSE
  Founders = {}
  Stoppers = {}
  Crashers = {}
  MaxMultiplier = 2
  MaxRounds = 0
  Trials <- OneFailure
INVARIANT JoinersStart
CHECK_DEADLOCK FALSE
