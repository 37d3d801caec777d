CONSTANTS
  r1 = r1
  r2 = r2
  r3 = r3
  Requests <- MC_Requests
  PoolSize <- MC_PoolSize
  Sizes <- MC_Sizes

SPECIFICATION Spec

\* Every request stops once its DoExecute has returned.
CHECK_DEADLOCK FALSE

INVARIANT TypeOK
INVARIANT ScratchScopedToInvocation
