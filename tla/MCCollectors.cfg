SPECIFICATION MCSpec
CONSTANTS
  Clients = {c1, c2, c3}
  MaxGrants = 6
INVARIANTS
  SharedReleaserFits
  TimerCoversLock
  MutualExclusion
  Fair
  RangeCollected
  GaplessAndFinal
PROPERTIES
  WaiterServed
  EventuallyResolved
\* Holders of the lock may hang; the other parts come to their ends.
CHECK_DEADLOCK FALSE
