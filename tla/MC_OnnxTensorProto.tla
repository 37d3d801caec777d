------------------------ MODULE MC_OnnxTensorProto ------------------------
(* Every branch of LoadInternalData, every data_type from UNDEFINED (0)  *)
(* to the first one past dt_map (17), tensors with no, one and six       *)
(* elements, and external key lists that reach each early return of      *)
(* LoadExternalData.                                                     *)
EXTENDS OnnxTensorProto

MC_OnnxTypes == 0 .. 17
MC_DimsSet == {<<>>, <<0>>, <<2>>, <<2, 3>>}
MC_Fields ==
  {<<1, "raw_data">>, <<1, "float_data">>, <<11, "double_data">>,
   <<6, "int32_data">>, <<7, "int64_data">>, <<7, "raw_data">>,
   <<9, "raw_data">>, <<3, "raw_data">>, <<2, "raw_data">>,
   <<0, "raw_data">>, <<17, "raw_data">>}
\* With the encodings ONNX prescribes for BOOL and INT8 when raw_data is
\* not used: one int32_data entry per element.
MC_FieldsInt32 == MC_Fields \cup {<<9, "int32_data">>, <<3, "int32_data">>}
MC_KeyLists ==
  {<<"location">>, <<"location", "offset", "length">>, <<"offset">>,
   <<"other", "location">>, <<"location", "bad_length">>,
   <<"checksum", "location">>}
(* Pad and Gemm nodes carrying any subset of their attributes, in every *)
(* order: every Pad mode ONNX defines (wrap is one ppl.nn lacks), pads   *)
(* lists of lengths 0, 2 and 3 with negative entries, non-default        *)
(* alpha, beta and transposes.                                           *)
MC_PadAttrs ==
  {[name |-> "mode", kind |-> "s", val |-> m] : m \in {"constant", "reflect", "edge", "wrap"}}
  \cup {[name |-> "value", kind |-> "f", val |-> v] : v \in {0, 2}}
  \cup {[name |-> "pads", kind |-> "ints", val |-> p] : p \in {<<>>, <<1, 0>>, <<0, -2, 3>>}}
MC_GemmAttrs ==
  {[name |-> k, kind |-> "f", val |-> v] : k \in {"alpha", "beta"}, v \in {0, 2}}
  \cup {[name |-> k, kind |-> "i", val |-> v] : k \in {"transA", "transB"}, v \in {0, 1}}
MC_NodesOf(op, attrs, n) ==
  {[op |-> op, attrs |-> s] :
     s \in {s \in SeqOf(attrs, n) : IsInjective([i \in DOMAIN s |-> s[i].name])}}
MC_NodeProtos == MC_NodesOf("Pad", MC_PadAttrs, 3) \cup MC_NodesOf("Gemm", MC_GemmAttrs, 4)
=============================================================================
