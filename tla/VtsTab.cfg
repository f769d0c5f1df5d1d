SPECIFICATION Spec
CONSTANTS
  t1 = t1
  t2 = t2
  c1 = c1
  c2 = c2
  s1 = s1
  s2 = s2
  Thr = {t1, t2}
  Root = t1
  SO = {s1, s2}
  Cell = {c1, c2}
  NoVTS = NoVTS
  NoCell = NoCell
  VtsID_INVALID = VtsID_INVALID
  MaxTick = 2
  MaxTab = 4
  FirstGCAt = 2
  NCache = 1
  NWay = 1
  LineNo <- MCLineNo
INVARIANTS HashConsed FreeListExact CachesCoherent RefsExact
PROPERTY ImplementsClocks
CONSTRAINT Scope
SYMMETRY Symm
