CONSTANTS
  ap = ap
  vlan = vlan
  client = client
  a1 = a1
  MaxKeys = 2
  Setups <- MCSetups
  Type <- MCType
  Stas = {a1}
  Home <- MCHome
  Kinds <- MCKinds
  DefaultIdx = {0}
  MgmtIdx = {1}
  SwControl = TRUE
  MaxPending = 1
  Readers = {r1}
  NoKey = NoKey
  NoSta = NoSta
SPECIFICATION Spec
INVARIANTS TypeOK TailroomSound PointersAgree
PROPERTIES HeldKeysLive NotReinstalled
