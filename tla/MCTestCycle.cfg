SPECIFICATION Spec
CONSTANTS
  Trees <- MCTrees
  Requests <- MCRequests
  Given <- MCGiven
  Stock <- MCStock
  KernelSize <- MCKernelSize
  Field <- MCField
  MaxCycles <- MCMaxCycles
INVARIANTS
  TypeOK
  
  KconfigIntact
  RepackIsBootable
  FailureIsTold
CHECK_DEADLOCK FALSE
