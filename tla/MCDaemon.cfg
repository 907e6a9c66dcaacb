SPECIFICATION Spec
CONSTANTS
  Runs = {r1, r2}
  Pids = {p1, p2, p3, p4}
  None = None
  MaxStarts = 4
  MaxUpsets = 3
SYMMETRY MCSymmetry
INVARIANTS
  TypeOK
  ClearedForLaunch
  StopLeavesNone
CHECK_DEADLOCK FALSE
