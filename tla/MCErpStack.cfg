SPECIFICATION Spec
CONSTANTS
  Calls = {c1, c2}
  Tools <- MCTools
  MaxStops = 2
SYMMETRY MCSymmetry
INVARIANTS
  TypeOK
  AnswerIsTrue
  DocumentsSurvive
CHECK_DEADLOCK FALSE
