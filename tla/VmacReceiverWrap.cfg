\* Sequence numbers wrap after eight frames.
SPECIFICATION Spec
CONSTANTS
  WINDOW = 3
  HOLES_MAX = 2
  SeqMod = 8
  ROUND = 2
  LossMod = 2
  MaxFrame = 12
  Gap = 2
  Lag = 3
INVARIANTS
  RoundAskedFor
CHECK_DEADLOCK FALSE
