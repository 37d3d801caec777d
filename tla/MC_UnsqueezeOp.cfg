CONSTANTS
  AxisVals <- MC_AxisVals
  MaxAxes <- MC_MaxAxes
  MaxInfer <- MC_MaxInfer
  Versions <- MC_Versions
  ReqTypes <- MC_ReqTypes
  Runtimes <- MC_OneRuntime

SPECIFICATION Spec

\* The op stops once Init or Finalize fails or the inference bound is reached.
CHECK_DEADLOCK FALSE

INVARIANT TypeOK
INVARIANT ReshapeUsesOwnAxes
