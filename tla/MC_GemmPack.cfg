CONSTANTS
  MaxM <- MC_MaxM
  MaxK <- MC_MaxK
  KNs <- MC_KNs

SPECIFICATION Spec

\* Each behaviour is one call, which returns.
CHECK_DEADLOCK FALSE

INVARIANT PackBLayout
INVARIANT PackALayout
INVARIANT BetasApplied
