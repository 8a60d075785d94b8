\* Two threads of the user process, a buffer of two copies.
SPECIFICATION Spec
CONSTANTS
  Enc = {0}
  NBuckets = 1
  SEQ_MOD = 3
  WINDOW_TX = 2
  Callers = {c1, c2}
  MaxEntry = 2
  MaxFrames = 5
  None = None
  NULL = NULL
  Junk = Junk
INVARIANTS
  TypeOK
  MisuseExplained
  RemovedForGood
\* No more frames need come.
CHECK_DEADLOCK FALSE
