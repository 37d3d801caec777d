CONSTANTS
  Dims <- MC_Dims
  MaxRank <- MC_MaxRank
  ConcatShapes <- MC_ConcatShapes
  Formats <- MC_Formats

SPECIFICATION Spec

\* Each behaviour is one inference call, which returns.
CHECK_DEADLOCK FALSE

INVARIANT TypeOK
INVARIANT GatherMatchesOnnx
