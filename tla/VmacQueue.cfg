\* Both threads, allocations that fail; at rest once all frames came.
SPECIFICATION FairSpec
CONSTANTS
  MaxMgmt = 3
  MaxUser = 3
  MaxRx = 2
  Slots = 2
  EarlyFrames = FALSE
  MayFail = TRUE
INVARIANTS
  TypeOK
  EachOnce
  MgmtFirstUnlessFull
PROPERTIES
  AirSpec
  QueuesDrain
CHECK_DEADLOCK FALSE
