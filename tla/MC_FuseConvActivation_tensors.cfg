CONSTANTS
  N <- MC_N
  GraphInput <- MC_GraphInput
  ConstEdges <- MC_ConstEdges
  ReservableConsts <- MC_ReservableConsts
  CVal <- MC_CVal
  CType <- MC_CType
  ClipConstPairs <- MC_ClipConstPairs
  ClipAttrs <- MC_ClipAttrs
  Capacities <- MC_Capacities

SPECIFICATION Spec

CHECK_DEADLOCK FALSE

INVARIANT TensorsMatchEdges
