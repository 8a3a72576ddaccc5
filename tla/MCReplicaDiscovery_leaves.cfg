\* Two replicas join and leave at any time, with and without a CLOSE; one
\* periodic round.  Does discovery come to rest?
SPECIFICATION FairSpec
CONSTANTS
  N = 2
  Identity <- OneIdentity
  Null = Null
  InitDelay = 2
  StatusDelay = 1
  ShareDelay = 1
  CloseDelay = 2
  PhaseDelay = 7
  SlowStart = FALSE
  Founders = {}
  Stoppers = {1, 2}
  Crashers = {1}
  MaxMultiplier = 1
  MaxRounds = 1
  Trials <- Calm
INVARIANTS
  TypeOK
  SlotsSplit
  LockCoversReload
  HasPlace
  RoundsEndInTime
PROPERTIES
  EventuallyAtRest
CHECK_DEADLOCK FALSE
