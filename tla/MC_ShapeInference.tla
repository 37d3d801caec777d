------------------------- MODULE MC_ShapeInference -------------------------
(* Dims 2 and 3 tell a kept dim from a dropped one; rank 3 data puts the  *)
(* gathered axis at the front, in the middle and at the back; axes from   *)
(* -4 to 3 include one out of range at each end.  Concat gets up to three *)
(* inputs of three distinct shapes with every subset of them illegal.     *)
(* Two formats tell a propagated layout from a forced NDARRAY.            *)
EXTENDS ShapeInference

MC_Dims == {2, 3}
MC_MaxRank == 3
MC_Formats == {"NDARRAY", "N4CX"}
MC_ConcatShapes == {<<2>>, <<3>>, <<2, 3>>}
=============================================================================
