SPECIFICATION Spec
CONSTANTS
  NativeTypes <- MCNativeTypes
  NativeValue <- MCNativeValue
  Trees <- MixedTrees
INVARIANTS
  TypeOK
  MaxCoversAll
  WiredAllOrNothing
  DeclaredBeforeUse
PROPERTIES
  SuccessDelivers
  PatchesCompose
