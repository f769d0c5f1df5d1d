SPECIFICATION MCSpec
CONSTANTS
  t1 = t1
  t2 = t2
  a1 = a1
  a2 = a2
  a3 = a3
  Thr = {t1, t2}
  Addr = {a1, a2, a3}
  Kinds = {"nonRec", "mbRec", "rdwr"}
  NoLock = NoLock
  MaxHold = 2
  Misuse = TRUE
  Reuse = TRUE
INVARIANTS LocksetsMatch ToolBehindClient ErrorsAreReal LaogIsOrder
SYMMETRY Symm
CHECK_DEADLOCK FALSE
CONSTRAINT Scope
