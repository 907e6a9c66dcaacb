SPECIFICATION Spec
CONSTANTS
  MaxPrefixLen = 2
  MaxUpdates = 2
  MaxKeys = 7
  NoKey = NoKey
  NoNode = NoNode
INVARIANTS
  TypeOK
  NextInPostorder
  StackFits
PROPERTIES
  ScanImplemented
CHECK_DEADLOCK FALSE
