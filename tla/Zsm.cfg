SPECIFICATION MCSpec
CONSTANTS
  Depth = 2
  NLine = 3
  NWay = 1
  DictSize = 1
  x = x
  y = y
  SVal = {x, y}
  NoAccess = x
  Invalid = Invalid
  Msm <- MCMsm
  Lens = {3, 8}
  MaxOps = 2
INVARIANTS TreesSane StoreExact ImplementsFlat
CHECK_DEADLOCK FALSE
