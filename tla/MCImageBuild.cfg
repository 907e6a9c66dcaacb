SPECIFICATION Spec
CONSTANTS
  Trees <- MCTrees
  Running <- MCRunning
  Foreign <- MCForeign
  None = None
  Old = Old
  Torn = Torn
CHECK_DEADLOCK FALSE
INVARIANTS TypeOK ZipIsVerified NeverPrompts KeepsRoot
PROPERTY BuildKeepsConfig
