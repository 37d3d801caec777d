CONSTANTS
  main = main
  s1 = s1
  s2 = s2
  s3 = s3
  n1 = n1
  n2 = n2
  a = a
  c = c
  d = d
  Names <- MC_Names
  Graphs <- MC_Graphs
  Nodes <- MC_Nodes
  Owner <- MC_Owner
  Defined <- MC_Defined

SPECIFICATION Spec

\* Parsing stops once every sub-graph has been composed.
CHECK_DEADLOCK FALSE

INVARIANT ExtraConsumersMatch
INVARIANT ExtraInputsFreeAndDistinct
PROPERTY ExtraInputsAreFreeNames
