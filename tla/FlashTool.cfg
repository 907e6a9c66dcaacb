SPECIFICATION Spec
CONSTANTS
  MaxVersion = 2
  MaxPatch = 2
  None = None
  Torn = Torn
INVARIANTS
  TypeOK
  AutoFlashesItsOwn
PROPERTIES
  RepackLeavesNoOld
