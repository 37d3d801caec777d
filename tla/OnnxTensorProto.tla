--------------------------- MODULE OnnxTensorProto ---------------------------
(***************************************************************************)
(* ParseTensorProto and its helpers (src/ppl/nn/models/onnx/utils.cc):     *)
(* how the ONNX loader turns a TensorProto into a PPL shape and the bytes  *)
(* of its constant data.  A TensorProto is abstracted to its data_type     *)
(* (the raw int32 of the protobuf field), its dims, where its values are   *)
(* stored and, for external data, the entries of external_data in order.   *)
(* Values are abstracted to their byte counts.                             *)
(***************************************************************************)
EXTENDS Integers, Sequences, FiniteSets, SequencesExt, Folds, FiniteSetsExt

CONSTANTS
  OnnxTypes,   \* data_type values read from model files
  DimsSet,     \* dims lists of the tensors
  Fields,      \* pairs <<data_type, field>>: where a writer stores values
  KeyLists,    \* the key sequences of external_data
  NodeProtos   \* Pad and Gemm NodeProtos: [op, attrs], attrs a sequence
               \* of [name, kind, val], kind naming the value's field

(* TensorProto_DataType values. *)
FLOAT == 1   UINT8 == 2   INT8 == 3   INT32 == 6   INT64 == 7
BOOL == 9    DOUBLE == 11

(* dt_map of ConvertOnnxDataTypeToPplDataType, indexed by data_type. *)
DtMap ==
  <<"UNKNOWN", "FLOAT32", "UINT8", "INT8", "UINT16", "INT16", "INT32", "INT64",
    "UNKNOWN", "BOOL", "FLOAT16", "FLOAT64", "UINT32", "UINT64", "COMPLEX64",
    "COMPLEX128", "BFLOAT16">>

PplTypes == Range(DtMap)

(* GetSizeOfDataType. *)
SizeOf(t) ==
  CASE t \in {"UINT8", "INT8", "BOOL"}                 -> 1
    [] t \in {"UINT16", "INT16", "FLOAT16", "BFLOAT16"} -> 2
    [] t \in {"FLOAT32", "INT32", "UINT32"}             -> 4
    [] t \in {"INT64", "FLOAT64", "UINT64", "COMPLEX64"} -> 8
    [] t = "COMPLEX128"                                 -> 16
    [] OTHER                                            -> 0

(* Mutant: the bound check written `>` instead of `>=`. *)
ConvertOnnxDataType_OffByOne(t) ==
  IF t > Len(DtMap) THEN {"UNKNOWN"}
  ELSE IF t >= 0 /\ t < Len(DtMap) THEN {DtMap[t + 1]}
  ELSE PplTypes \cup {"NOT_A_DATATYPE"}

(* dt_map[onnx_data_type] after the only check, `>= onnx_data_type_max`: *)
(* a negative data_type reads outside the array, which is undefined; the *)
(* build returns whatever word precedes dt_map, a datatype_t or not.     *)
ConvertOnnxDataType(t) ==
  IF t >= Len(DtMap) THEN {"UNKNOWN"}
  ELSE IF t >= 0 THEN {DtMap[t + 1]}
  ELSE PplTypes \cup {"NOT_A_DATATYPE"}

(* The element size of a data_type in raw_data, as ONNX writers use it. *)
OnnxSize(t) == SizeOf(DtMap[t + 1])

Elements(dims) == FoldLeft(LAMBDA a, b : a * b, 1, dims)

(* LoadInternalData: per data_type, raw_data when it is not empty, else   *)
(* the type's repeated field times the PPL element size (bool: the       *)
(* int32_data words, 4 bytes each); INT8/UINT8 take raw_data only; any   *)
(* other type is RC_UNSUPPORTED.  A raw_data of a well-formed tensor     *)
(* holds n elements of the ONNX type's size.                             *)
LoadInternalData(t, field, dims, pplType) ==
  LET n == Elements(dims)
      typed == CASE t = FLOAT  -> field = "float_data"
                 [] t = DOUBLE -> field = "double_data"
                 [] t = INT32  -> field = "int32_data"
                 [] t = INT64  -> field = "int64_data"
                 [] OTHER      -> FALSE
  IN  IF t \in {FLOAT, DOUBLE, INT32, INT64}
      THEN [rc |-> "success",
            bytes |-> IF field = "raw_data" THEN n * OnnxSize(t)
                      ELSE IF typed /\ n > 0 THEN n * SizeOf(pplType) ELSE 0]
      ELSE IF t = BOOL
      THEN [rc |-> "success",
            bytes |-> IF field = "raw_data" THEN n
                      ELSE IF field = "int32_data" /\ n > 0 THEN n * 4 ELSE 0]
      ELSE IF t \in {INT8, UINT8}
      THEN [rc |-> "success", bytes |-> IF field = "raw_data" THEN n ELSE 0]
      ELSE [rc |-> "unsupported", bytes |-> 0]

(* The external_data loop: an unrecognised key returns RC_UNSUPPORTED at *)
(* once; std::stoll of a non-numeric offset or length throws out of the  *)
(* loader.  Keys are "location", "offset", "length", "checksum", "other", *)
(* and "bad_offset"/"bad_length" for a value stoll cannot parse.          *)
RECURSIVE ScanExternalKeys(_)
ScanExternalKeys(ks) ==
  IF ks = <<>> THEN "ok"
  ELSE IF Head(ks) = "other" THEN "unsupported"
  ELSE IF Head(ks) \in {"bad_offset", "bad_length"} THEN "exception"
  ELSE ScanExternalKeys(Tail(ks))

(* LoadExternalData(pb_tensor, model_file_dir, data). *)
LoadExternalData(hasDir, ks, locEmpty, mapOk) ==
  IF ~hasDir THEN "invalid_value"
  ELSE IF ScanExternalKeys(ks) # "ok" THEN ScanExternalKeys(ks)
  ELSE IF "location" \notin Range(ks) THEN "not_found"
  ELSE IF locEmpty THEN "invalid_value"
  ELSE IF ~mapOk THEN "map_failed"
  ELSE "success"

-----------------------------------------------------------------------------
(* Node attributes.  An AttributeProto is its name and the one field its *)
(* writer set; the protobuf accessor of any other field reads that       *)
(* field's default.                                                      *)
FieldDefault == [i |-> 0, f |-> 0, s |-> "", ints |-> <<>>]
Field(a, k) == IF a.kind = k THEN a.val ELSE FieldDefault[k]

(* int64 -> int32 conversion, two's complement: the identity on int32's *)
(* range (every integer TLC represents), a wrap modulo 2^32 beyond it.   *)
Int32(v) == IF v >= -2147483647 - 1 /\ v <= 2147483647 THEN v
            ELSE ((v + 2^31) % 2^32) - 2^31

(* The attribute indices a loop over node.attribute() visits, in order. *)
AttrIndices(node) == 1 .. Len(node.attrs)

(* The first attribute of node named key, 0 if there is none. *)
FirstNamed(node, key) ==
  LET hits == {i \in AttrIndices(node) : node.attrs[i].name = key}
  IN  IF hits = {} THEN 0 ELSE Min(hits)

(* Mutant: the attribute loop starts at index 1, skipping the first. *)
GetIntsByKey_SkipFirst(node, key) ==
  LET hits == {i \in 2 .. Len(node.attrs) : node.attrs[i].name = key}
      ints == IF hits = {} THEN <<>> ELSE Field(node.attrs[Min(hits)], "ints")
  IN  [j \in DOMAIN ints |-> Int32(ints[j])]

(* GetIntsByKey<int32_t> (GetNodeAttrsByKey<int32_t>): the ints of the   *)
(* first attribute named key, each int64 assigned to an int32; empty     *)
(* when no attribute has that name.                                      *)
GetIntsByKey(node, key) ==
  LET i    == FirstNamed(node, key)
      ints == IF i = 0 THEN <<>> ELSE Field(node.attrs[i], "ints")
  IN  [j \in DOMAIN ints |-> Int32(ints[j])]

(* GetAttrValue<T>: i() narrowed for int32_t and uint32_t, i() for     *)
(* int64_t, f() for float, s() for string.                               *)
GetAttrValue(a, T) ==
  CASE T = "int32"  -> Int32(Field(a, "i"))
    [] T = "uint32" -> Int32(Field(a, "i")) % 2^32
    [] T = "int64"  -> Field(a, "i")
    [] T = "float"  -> Field(a, "f")
    [] T = "string" -> Field(a, "s")

(* GetNodeAttrByKey<T>(node, key, default): GetAttrValue of the first    *)
(* attribute named key, or the default.                                  *)
GetNodeAttrByKey(node, key, T, default) ==
  LET i == FirstNamed(node, key)
  IN  IF i = 0 THEN default ELSE GetAttrValue(node.attrs[i], T)

-----------------------------------------------------------------------------
Protos ==
  {p \in [loc : {"internal"}, t : OnnxTypes, dims : DimsSet,
          field : {f[2] : f \in Fields}, hasDir : {TRUE}, keys : {<<>>},
          locEmpty : {FALSE}, mapOk : {TRUE}] : <<p.t, p.field>> \in Fields}
  \cup [loc : {"external"}, t : OnnxTypes, dims : DimsSet, field : {"none"},
        hasDir : BOOLEAN, keys : KeyLists, locEmpty : BOOLEAN, mapOk : BOOLEAN]

NoProto == [loc |-> "none"]
NoNode == [op |-> "none", attrs |-> <<>>]
NoParam == [kind |-> "none"]

VARIABLES
  proto,   \* the TensorProto parsed, or NoProto
  node,    \* the NodeProto whose parameters are parsed, or NoNode
  rc,      \* the parser's RetCode, "none" before it returns
  shape,   \* [dtype, dims]: the ir::Shape ParseTensorProto fills in
  bytes,   \* the size of the data string it fills in
  param    \* the PadParam or GemmParam a parameter parser fills in

vars == <<proto, node, rc, shape, bytes, param>>

(* Each behaviour is one parser call: on a TensorProto, or on a node. *)
Init ==
  /\ \/ proto \in Protos /\ node = NoNode
     \/ proto = NoProto /\ node \in NodeProtos
  /\ rc = "none"
  /\ shape = [dtype |-> "UNKNOWN", dims |-> <<>>]
  /\ bytes = 0
  /\ param = NoParam

(* ParseTensorProto: the data type and dims go into the shape first,     *)
(* whatever the loading of the data then returns.                        *)
ParseTensorProto ==
  /\ rc = "none"
  /\ proto # NoProto
  /\ \E dt \in ConvertOnnxDataType(proto.t) :
       /\ shape' = [dtype |-> dt, dims |-> proto.dims]
       /\ IF proto.loc = "external"
          THEN /\ rc' = LoadExternalData(proto.hasDir, proto.keys, proto.locEmpty, proto.mapOk)
               /\ UNCHANGED bytes
          ELSE LET res == LoadInternalData(proto.t, proto.field, proto.dims, dt)
               IN  /\ rc' = res.rc
                   /\ bytes' = res.bytes
  /\ UNCHANGED <<proto, node, param>>

(* ParsePadParam: the mode string selects PAD_MODE_CONSTANT, _REFLECT or *)
(* _EDGE, anything else returns RC_INVALID_VALUE before value and pads   *)
(* are read.                                                             *)
ParsePadParam ==
  LET mode == GetNodeAttrByKey(node, "mode", "string", "constant")
  IN  /\ rc = "none"
      /\ node.op = "Pad"
      /\ IF mode \in {"constant", "reflect", "edge"}
         THEN /\ rc' = "success"
              /\ param' = [kind  |-> "pad", mode |-> mode,
                           value |-> GetNodeAttrByKey(node, "value", "float", 0),
                           pads  |-> GetIntsByKey(node, "pads")]
         ELSE /\ rc' = "invalid_value"
              /\ UNCHANGED param
      /\ UNCHANGED <<proto, node, shape, bytes>>

(* ParseGemmParam: four attributes with their defaults; N is left 0 for *)
(* the op context to set.                                                *)
ParseGemmParam ==
  /\ rc = "none"
  /\ node.op = "Gemm"
  /\ rc' = "success"
  /\ param' = [kind   |-> "gemm",
               alpha  |-> GetNodeAttrByKey(node, "alpha", "float", 1),
               beta   |-> GetNodeAttrByKey(node, "beta", "float", 1),
               transA |-> GetNodeAttrByKey(node, "transA", "int32", 0),
               transB |-> GetNodeAttrByKey(node, "transB", "int32", 0),
               N      |-> 0]
  /\ UNCHANGED <<proto, node, shape, bytes>>

Next == ParseTensorProto \/ ParsePadParam \/ ParseGemmParam

Spec == Init /\ [][Next]_vars

-----------------------------------------------------------------------------
(* The ONNX TensorProto.DataType enum, by name. *)
OnnxDataType ==
  [FLOAT |-> 1, UINT8 |-> 2, INT8 |-> 3, UINT16 |-> 4, INT16 |-> 5, INT32 |-> 6,
   INT64 |-> 7, STRING |-> 8, BOOL |-> 9, FLOAT16 |-> 10, DOUBLE |-> 11,
   UINT32 |-> 12, UINT64 |-> 13, COMPLEX64 |-> 14, COMPLEX128 |-> 15, BFLOAT16 |-> 16]

(* The datatype_t of the same meaning; PPL has no string type. *)
PplNameOf(n) ==
  CASE n = "FLOAT"  -> "FLOAT32"
    [] n = "DOUBLE" -> "FLOAT64"
    [] n = "STRING" -> "UNKNOWN"
    [] OTHER        -> n

(* Every parsed TensorProto's shape carries the PPL type that means what *)
(* its ONNX data_type means, and UNKNOWN for UNDEFINED and for the types *)
(* newer than dt_map: dt_map's order and its one bound check must agree  *)
(* with the ONNX enum for every data_type a model file can carry.        *)
ShapeTypeMatchesOnnx ==
  rc # "none" /\ proto # NoProto =>
    shape.dtype = IF proto.t \in Range(OnnxDataType)
                  THEN PplNameOf(CHOOSE n \in DOMAIN OnnxDataType : OnnxDataType[n] = proto.t)
                  ELSE "UNKNOWN"

(* A successfully loaded internal tensor holds exactly its elements: the *)
(* data string is as long as the shape's element count times the size of *)
(* the shape's data type, which is how the runtime reads it back.        *)
DataMatchesShape ==
  rc = "success" /\ proto.loc = "internal" =>
    bytes = Elements(shape.dims) * SizeOf(shape.dtype)
(* What an ONNX node means: the value of the node's attribute called key, *)
(* or the operator schema's default; attribute names are unique in a     *)
(* well-formed node, so the position of an attribute carries no meaning. *)
OnnxAttr(n, key, default) ==
  IF \E a \in Range(n.attrs) : a.name = key
  THEN (CHOOSE a \in Range(n.attrs) : a.name = key).val
  ELSE default

(* Parsing a Pad or Gemm node gives the parameters the node means under  *)
(* ONNX, wherever each attribute stands in node.attribute() and whether  *)
(* or not it is present (Pad: mode "constant", value 0, no pads; Gemm:   *)
(* alpha and beta 1, no transposes); a Pad mode ppl.nn does not          *)
(* implement is rejected with RC_INVALID_VALUE and no parameter is set.  *)
ParamsFollowOnnx ==
  rc # "none" /\ node # NoNode =>
    IF node.op = "Pad"
    THEN LET mode == OnnxAttr(node, "mode", "constant")
         IN  IF mode \in {"constant", "reflect", "edge"}
             THEN /\ rc = "success"
                  /\ param = [kind |-> "pad", mode |-> mode,
                              value |-> OnnxAttr(node, "value", 0),
                              pads |-> OnnxAttr(node, "pads", <<>>)]
             ELSE rc = "invalid_value" /\ param = NoParam
    ELSE /\ rc = "success"
         /\ param = [kind |-> "gemm",
                     alpha |-> OnnxAttr(node, "alpha", 1),
                     beta |-> OnnxAttr(node, "beta", 1),
                     transA |-> OnnxAttr(node, "transA", 0),
                     transB |-> OnnxAttr(node, "transB", 0),
                     N |-> 0]
=============================================================================
