\* Two replicas join, one may leave; a rate limit failure at any time.  Or a
\* STATUS may arrive at any time or not at all, so that the phase lock can time
\* out.
SPECIFICATION Spec
CONSTANTS
  N = 2
  Identity <- OneIdentity
  Null = Null
  InitDelay = 2
  StatusDelay = 1
  ShareDelay = 1
  CloseDelay = 2
  PhaseDelay = 7
  SlowStart = FALSE
  Founders = {}
  Stoppers = {2}
  Crashers = {}
  MaxMultiplier = 2
  MaxRounds = 0
  Trials <- FailureOrLate
INVARIANTS
  MultiplierAgrees
  LockWillBeFreed
PROPERTIES
  MultiplierNeverFalls
  StartedSurvivesClose
CHECK_DEADLOCK FALSE
