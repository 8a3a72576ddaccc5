\* The records do not fit in one step of the aggregation.
SPECIFICATION Spec
CONSTANTS
  Null = Null
  Requests <- TwoBatches
  Tables <- SmallTables
  News <- Present
INVARIANT VolumeKept
CHECK_DEADLOCK FALSE
