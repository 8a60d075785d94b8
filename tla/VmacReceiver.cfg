\* Eleven frames over a window of six, two holes to a report, no wrap.
SPECIFICATION Spec
CONSTANTS
  WINDOW = 6
  HOLES_MAX = 2
  SeqMod = 16
  ROUND = 2
  LossMod = 2
  MaxFrame = 10
  Gap = 2
  Lag = 3
INVARIANTS
  TypeOK
  WindowSound
  RoundsSound
  ReportSound
CHECK_DEADLOCK FALSE
