\* One caller, five frames over a buffer of three; copies may fail.
SPECIFICATION Spec
CONSTANTS
  Callers = {c1}
  WINDOW_TX = 3
  MaxRetx = 1
  Pace = 1
  TimerMod = 16
  PtrBytes = 2
  MaxSeq = 5
  MaxRound = 2
  MaxHoles = 2
  MaxMissing = 1
  NULL = NULL
  Junk = Junk
INVARIANTS
  TypeOK
  BufferSound
  ResendSound
PROPERTIES
  NoCopyForgotten
  PacedApart
CHECK_DEADLOCK FALSE
