SPECIFICATION Spec
CONSTANTS
  Runs = {r1, r2}
  Uplinks = {wlan0, rmnet}
  MaxStarts = 3
  MaxUpsets = 1
SYMMETRY MCSymmetry
INVARIANTS
  TypeOK
  RulesSurviveOverlap
  JumpsSurviveOverlap
CHECK_DEADLOCK FALSE
