SPECIFICATION MCSpec
CONSTANTS
  t1 = t1
  t2 = t2
  a1 = a1
  a2 = a2
  a3 = a3
  Thr = {t1, t2}
  Addr = {a1, a2}
  Kinds = {"rdwr"}
  NoLock = NoLock
  MaxHold = 2
  Misuse = FALSE
  Reuse = FALSE
INVARIANT ReleaseAssertHolds
SYMMETRY Symm
CHECK_DEADLOCK FALSE
