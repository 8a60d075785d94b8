\* Two encodings of one bucket, one thread of the user process.
SPECIFICATION FairSpec
CONSTANTS
  Enc = {0, 1}
  NBuckets = 1
  Callers = {c1}
  MaxEntry = 3
  MaxTraffic = 4
  None = None
INVARIANTS
  TypeOK
  EntriesKept
  MisuseExplained
PROPERTIES
  EntriesExpire
\* No more interests or frames need come.
CHECK_DEADLOCK FALSE
