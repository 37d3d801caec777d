CONSTANTS
  N <- MC_N
  GraphInput <- MC_GraphInput
  ConstEdges <- MC_ConstEdges
  ReservableConsts <- MC_ReservableConsts
  CVal <- MC_CVal
  CType <- MC_CType
  ClipConstPairs <- MC_ClipConstPairs
  ClipAttrs <- MC_ClipAttrs
  Capacities <- MC_Capacities

SPECIFICATION Spec

\* The optimizer stops once the rules reach their fixpoint.
CHECK_DEADLOCK FALSE

INVARIANT TypeOK
INVARIANT TopologyIntegrity
INVARIANT ValuesPreserved
PROPERTY Termination
PROPERTY ConvFusionRefined
