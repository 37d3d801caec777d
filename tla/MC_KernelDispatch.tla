-------------------------- MODULE MC_KernelDispatch --------------------------
EXTENDS KernelDispatch

(* datatype_t of ppl.common. *)
MC_DT ==
  [UNKNOWN |-> 0, UINT8 |-> 1, UINT16 |-> 2, FLOAT16 |-> 5, FLOAT32 |-> 6,
   FLOAT64 |-> 7, INT8 |-> 10, INT64 |-> 13, BOOL |-> 14, COMPLEX128 |-> 16]

(* The case labels of cast(), PPLNN_USE_ARMV8_2_FP16 defined. *)
MC_CastCases ==
  {<<"FLOAT32", "INT64">>, <<"FLOAT32", "BOOL">>, <<"INT64", "FLOAT32">>,
   <<"INT64", "BOOL">>, <<"BOOL", "FLOAT32">>, <<"BOOL", "INT64">>,
   <<"FLOAT32", "FLOAT64">>, <<"FLOAT64", "FLOAT32">>,
   <<"FLOAT16", "INT64">>, <<"FLOAT16", "BOOL">>, <<"INT64", "FLOAT16">>,
   <<"BOOL", "FLOAT16">>, <<"FLOAT16", "FLOAT64">>, <<"FLOAT64", "FLOAT16">>}

MC_Dims == {1, 2, 3}
MC_MaxRank == 3
MC_MaxDims == 2
=============================================================================
