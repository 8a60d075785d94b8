\* Two encodings of one bucket.
SPECIFICATION Spec
CONSTANTS
  Enc = {0, 1}
  NBuckets = 1
  Callers = {c1}
  MaxEntry = 3
  MaxTraffic = 4
  None = None
INVARIANTS
  SameEncoding
CHECK_DEADLOCK FALSE
