SPECIFICATION MCSpec
CONSTANTS
  Thr = {1, 2, 3}
  MaxTym = 2
  Arr <- MCArr
  Union = {"loop", "block"}
  MaxAddr = 8
INVARIANTS ResultDenotes StructuralIsTotal IvUnionExact
PROPERTY Terminates
CHECK_DEADLOCK FALSE
