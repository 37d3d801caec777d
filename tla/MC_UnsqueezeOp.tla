--------------------------- MODULE MC_UnsqueezeOp ---------------------------
(* Axis lists of up to two values out of two, three infer_dims_func_     *)
(* calls so that a long list can be followed by a shorter one, and an    *)
(* opset before and from 13.  One runtime, then two runtimes built from  *)
(* the same optimized graph.  The optimizer may ask for no type, INT8 or *)
(* FLOAT16, the default type of a half-precision build.                  *)
EXTENDS UnsqueezeOp

MC_AxisVals == {0, 1}
MC_MaxAxes == 2
MC_MaxInfer == 3
MC_Versions == {11, 13}
MC_OneRuntime == {"r1"}
MC_TwoRuntimes == {"r1", "r2"}
MC_ReqTypes == {"UNKNOWN", "INT8", "FLOAT16"}
=============================================================================
