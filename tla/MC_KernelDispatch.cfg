CONSTANTS
  DT <- MC_DT
  CastCases <- MC_CastCases
  Dims <- MC_Dims
  MaxRank <- MC_MaxRank
  MaxDims <- MC_MaxDims
INIT Init
NEXT Next
INVARIANT CastDispatchExact
INVARIANT ReduceDispatchSound
INVARIANT EltwiseOnlyWithoutBroadcast
INVARIANT RealAxesInBounds
CHECK_DEADLOCK FALSE
