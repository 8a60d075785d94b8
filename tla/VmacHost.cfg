CONSTANTS
  Devices = {d1}
  DevKinds <- MCDevKinds
  MaxQueues = 16
  MaxDataLen = 2304
  LenMod = 65536
  Overhearing = TRUE
  Frames = {f1, f2}
  Procs = {p1}
  NULL = NULL
  Nobody = Nobody
SPECIFICATION Spec
INVARIANTS TypeOK RegistrationSound FreedOnce
PROPERTIES FramesLeave
