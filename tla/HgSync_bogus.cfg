SPECIFICATION MCSpec
CONSTANTS
  t1 = t1
  t2 = t2
  t3 = t3
  t4 = t4
  h1 = h1
  h2 = h2
  m1 = m1
  m2 = m2
  s1 = s1
  b1 = b1
  c1 = c1
  v1 = v1
  v2 = v2
  Thr = {t1, t2, t3, t4}
  Root = t1
  NoThr = NoThr
  Tid = {1, 2, 3, 4}
  Pth = {h1, h2}
  Mutex = {m1}
  SO = {1, 2, 3, 4}
  Cell = {}
  NoVTS = NoVTS
  MaxTick = 5
  Sem = {}
  SemMax = 1
  MaxInit = 2
  Barrier = {}
  MaxCount = 2
  Cond = {c1}
  Var = {v1}
  Levels = {1}
  RecMax = 2
  AccMax = 1
  Allowed = {"bogusWait"}
INVARIANT BogusWaitsGoOn
SYMMETRY Symm
CHECK_DEADLOCK FALSE
CONSTRAINT Scope
