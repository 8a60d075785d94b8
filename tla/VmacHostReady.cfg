CONSTANTS
  Devices = {d1, d2}
  DevKinds <- PlainKinds
  MaxQueues = 16
  MaxDataLen = 2304
  LenMod = 65536
  Overhearing = TRUE
  Frames = {f1}
  Procs = {p1}
  NULL = NULL
  Nobody = Nobody
SPECIFICATION Spec
INVARIANT SentWhenReady
