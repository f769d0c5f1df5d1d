SPECIFICATION MCSpec
CONSTANTS
  Thr = {t1, t2, t3}
  Pair = {t1, t2}
  NAddr = 2
  Loop = {L1, E}
  EmptyLoop = E
  Mutex = M
  None = None
INVARIANTS RecordsAgree HoldIsReal AcquisitionIsSeen FlagHandsOver
SYMMETRY Symm
CONSTRAINT Scope
