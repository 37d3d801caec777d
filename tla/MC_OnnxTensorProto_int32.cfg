CONSTANTS
  OnnxTypes <- MC_OnnxTypes
  DimsSet <- MC_DimsSet
  Fields <- MC_FieldsInt32
  KeyLists <- MC_KeyLists
  NodeProtos <- MC_NodeProtos

SPECIFICATION Spec

\* Each behaviour is one parser call, which returns.
CHECK_DEADLOCK FALSE

INVARIANT DataMatchesShape
