\* Two replicas launched together, one of another identity joins at any time.
SPECIFICATION Spec
CONSTANTS
  N = 3
  Identity <- TwoIdentities
  Null = Null
  InitDelay = 2
  StatusDelay = 1
  ShareDelay = 1
  CloseDelay = 2
  PhaseDelay = 7
  SlowStart = FALSE
  Founders = {1, 3}
  Stoppers = {}
  Crashers = {}
  MaxMultiplier = 1
  MaxRounds = 0
  Trials <- Calm
INVARIANTS
  ClusterExact
  JoiningIsSafe
CHECK_DEADLOCK FALSE
