CONSTANTS
  Dims <- MC_Dims
  MaxRank <- MC_MaxRank
  ConcatShapes <- MC_ConcatShapes
  Formats <- MC_Formats

SPECIFICATION Spec

CHECK_DEADLOCK FALSE

INVARIANT ConcatTakesLastIllegal
