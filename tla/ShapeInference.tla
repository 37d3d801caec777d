--------------------------- MODULE ShapeInference ---------------------------
(***************************************************************************)
(* The optimizer's side of three operators (spec 4.2): the callbacks that  *)
(* give output shapes and data formats, and for the op objects the order  *)
(* Init, inference, SelectFormat or Finalize, CreateKernelImpl (spec 4).  *)
(*  - onnx::ReshapeGather (src/ppl/nn/oputils/onnx/reshape_gather.cc), the *)
(*    InferDims of Gather, checked against the ONNX definition of Gather's *)
(*    output shape;                                                         *)
(*  - the infer_unsafe_dims_func_ of the CUDA ConcatOp                      *)
(*    (src/ppl/nn/engines/cuda/optimizer/ops/onnx/concat_op.cc), used when *)
(*    some inputs' shapes are marked illegal, with the op's Init,          *)
(*    Finalize and CreateKernelImpl;                                        *)
(*  - the arm ClipOp and SoftmaxOp (src/ppl/nn/engines/arm/optimizer/ops/  *)
(*    onnx/clip_op.cc, softmax_op.cc): Init, GenericInferDims, which their *)
(*    constructors register, SelectFormat and CreateKernelImpl.             *)
(* A tensor's data format is part of its TensorShape; the formats of the   *)
(* inputs are those their producers chose.  Data types are not kept.       *)
(* A shape is the sequence of its dims; the input and output counts of     *)
(* the InputOutputInfo are the lengths of the sequences.  Input indices   *)
(* are 1-based here, 0-based in the code.                                  *)
(***************************************************************************)
EXTENDS Integers, Sequences, FiniteSets, SequencesExt

CONSTANTS
  Dims,        \* the values a dim may take
  MaxRank,     \* largest rank of a data tensor
  ConcatShapes, \* the input shapes offered to Concat
  Formats       \* the data formats an input tensor may have

Shapes(n) == UNION {[1 .. k -> Dims] : k \in 0 .. n}

VARIABLES
  call,     \* [op, ins, illegal, axis, nOut, fmts, load, common]: the node
            \* and what the loaders it calls will return
  rc,       \* the RetCode of the last step, or "none" before the first
  outs,     \* the output shapes after inference
  phase,    \* how far the optimizer has taken the op object
  sel,      \* [in, out]: the formats SelectFormat chose
  param,    \* the op's param_: "unset" or "loaded"
  kernel    \* the kernel CreateKernelImpl made: its op ("none" before) and param

vars == <<call, rc, outs, phase, sel, param, kernel>>
Phases == {"created", "initialised", "inferred", "selected", "finalised", "kernel", "failed"}

-----------------------------------------------------------------------------
(* TensorShape::IsScalar: a scalar has no real dims. *)
IsScalar(s) == Len(s) = 0

(* The two branches of ReshapeGather once the checks have passed: the     *)
(* data dims before axis, the dims of indices, the data dims after axis.  *)
GatherDims(data, idx, a) ==
  LET r == Len(data)
      q == Len(idx)
  IN  IF IsScalar(idx)
      THEN [p \in 1 .. r - 1 |-> IF a # 0 /\ p <= a THEN data[p] ELSE data[p + 1]]
      ELSE [p \in 1 .. q + r - 1 |->
              IF p <= a THEN data[p]
              ELSE IF p <= a + q THEN idx[p - a]
              ELSE data[p - q + 1]]

(* Mutant: the non-scalar branch uses param->axis before normalising it. *)
ReshapeGather_RawAxis(ins, nOut, axis) ==
  LET r == Len(ins[1])
  IN  IF Len(ins) # 2 \/ nOut # 1 THEN [rc |-> "invalid", dims |-> <<>>]
      ELSE IF r < 1 \/ axis < -r \/ axis > r - 1 THEN [rc |-> "invalid", dims |-> <<>>]
      ELSE [rc |-> "success",
            dims |-> GatherDims(ins[1], ins[2],
                       IF IsScalar(ins[2]) /\ axis < 0 THEN axis + r ELSE axis)]

(* ReshapeGather(info, param): the count, rank and axis checks, then the  *)
(* output dims for the normalised axis.                                   *)
ReshapeGather(ins, nOut, axis) ==
  LET r == Len(ins[1])
  IN  IF Len(ins) # 2 \/ nOut # 1 THEN [rc |-> "invalid", dims |-> <<>>]
      ELSE IF r < 1 \/ axis < -r \/ axis > r - 1 THEN [rc |-> "invalid", dims |-> <<>>]
      ELSE [rc |-> "success",
            dims |-> GatherDims(ins[1], ins[2], IF axis < 0 THEN axis + r ELSE axis)]

(* Mutant: only output 0 is reshaped. *)
ConcatUnsafeDims_FirstOutput(ins, illegal, nOut) ==
  LET src == IF illegal = {} THEN 1 ELSE Min(illegal)
  IN  [o \in 1 .. 1 |-> ins[src]]

(* infer_unsafe_dims_func_: the first illegal input's shape, or input 0's *)
(* when none is illegal, is given to every output.                        *)
ConcatUnsafeDims(ins, illegal, nOut) ==
  LET src == IF illegal = {} THEN 1 ELSE Min(illegal)
  IN  [o \in 1 .. nOut |-> ins[src]]

-----------------------------------------------------------------------------
(* GenericInferDims, which the arm ops' constructors register: every     *)
(* output gets the shape of input 0.                                      *)
GenericInferDims(ins, nOut) == [o \in 1 .. nOut |-> ins[1]]

(* ClipOp::SelectFormat: input 0 and output 0 take input 0's format, the *)
(* min and max inputs NDARRAY.                                          *)
ClipSelectFormat(fmts) ==
  [in |-> [i \in DOMAIN fmts |-> IF i = 1 THEN fmts[1] ELSE "NDARRAY"], out |-> <<fmts[1]>>]

(* SoftmaxOp::SelectFormat: input 0 and output 0 take input 0's format. *)
SoftmaxSelectFormat(fmts) == [in |-> <<fmts[1]>>, out |-> <<fmts[1]>>]

-----------------------------------------------------------------------------
ArmOps == {"clip", "softmax"}

(* Every call also says what the loaders it reaches return: load for     *)
(* GenericLoadParam, common for SetCommonParam; Gather's op object and    *)
(* Clip call neither.                                                     *)
GatherCalls ==
  [op : {"gather"}, ins : {<<d>> : d \in Shapes(MaxRank)}
                           \cup {<<d, i>> : d \in Shapes(MaxRank), i \in Shapes(2)},
   illegal : {{}}, axis : -(MaxRank + 1) .. MaxRank, nOut : {1, 2},
   fmts : {<<>>}, load : {TRUE}, common : {TRUE}]

ConcatCalls ==
  {c \in [op : {"concat"}, ins : UNION {[1 .. n -> ConcatShapes] : n \in 1 .. 3},
          illegal : SUBSET (1 .. 3), axis : {0}, nOut : {1, 2},
          fmts : {<<>>}, load : BOOLEAN, common : BOOLEAN] :
     c.illegal \subseteq DOMAIN c.ins}

(* Clip has its data input and up to two optional bounds; Softmax one input. *)
ArmCalls ==
  UNION {[op : {"clip"}, ins : [1 .. n -> Shapes(1)], illegal : {{}}, axis : {0},
          nOut : {1}, fmts : [1 .. n -> Formats], load : {TRUE}, common : {TRUE}]
           : n \in 1 .. 3}
  \cup [op : {"softmax"}, ins : [1 .. 1 -> Shapes(1)], illegal : {{}}, axis : {0},
        nOut : {1}, fmts : [1 .. 1 -> Formats], load : BOOLEAN, common : {TRUE}]

Init ==
  /\ call \in GatherCalls \cup ConcatCalls \cup ArmCalls
  /\ rc = "none"
  /\ outs = <<>>
  /\ phase = "created"
  /\ sel = [in |-> <<>>, out |-> <<>>]
  /\ param = "unset"
  /\ kernel = [op |-> "none", param |-> "unset"]

(* Gather's InferDims: the output shape is written only on success. *)
InferGatherDims ==
  /\ phase = "created"
  /\ call.op = "gather"
  /\ LET res == ReshapeGather(call.ins, call.nOut, call.axis)
     IN  /\ rc' = res.rc
         /\ outs' = IF res.rc = "success" THEN <<res.dims>> ELSE outs
         /\ phase' = IF res.rc = "success" THEN "inferred" ELSE "failed"
  /\ UNCHANGED <<call, sel, param, kernel>>

(* ConcatOp::Init: load param_.param, returning the error if that fails, *)
(* then register the three inference callbacks.                          *)
ConcatInit ==
  /\ phase = "created"
  /\ call.op = "concat"
  /\ IF call.load
     THEN phase' = "initialised" /\ rc' = "success" /\ param' = "loaded"
     ELSE phase' = "failed" /\ rc' = "load_failed" /\ param' = param
  /\ UNCHANGED <<call, outs, sel, kernel>>

InferConcatUnsafeDims ==
  /\ phase = "initialised"
  /\ call.op = "concat"
  /\ rc' = "success"
  /\ outs' = ConcatUnsafeDims(call.ins, call.illegal, call.nOut)
  /\ phase' = "inferred"
  /\ UNCHANGED <<call, sel, param, kernel>>

(* ConcatOp::Finalize: SetCommonParam, returning its error. *)
ConcatFinalize ==
  /\ phase = "inferred"
  /\ call.op = "concat"
  /\ phase' = IF call.common THEN "finalised" ELSE "failed"
  /\ rc' = IF call.common THEN "success" ELSE "common_failed"
  /\ UNCHANGED <<call, outs, sel, param, kernel>>

(* ConcatOp::CreateKernelImpl: a ConcatKernel given &param_. *)
ConcatCreateKernel ==
  /\ phase = "finalised"
  /\ call.op = "concat"
  /\ kernel' = [op |-> "concat", param |-> param]
  /\ phase' = "kernel"
  /\ UNCHANGED <<call, rc, outs, sel, param>>

(* ClipOp::Init returns RC_SUCCESS and loads nothing. *)
ClipInit ==
  /\ phase = "created"
  /\ call.op = "clip"
  /\ phase' = "initialised"
  /\ rc' = "success"
  /\ UNCHANGED <<call, outs, sel, param, kernel>>

(* SoftmaxOp::Init: GenericLoadParam, returning its error. *)
SoftmaxInit ==
  /\ phase = "created"
  /\ call.op = "softmax"
  /\ IF call.load
     THEN phase' = "initialised" /\ rc' = "success" /\ param' = "loaded"
     ELSE phase' = "failed" /\ rc' = "load_failed" /\ param' = param
  /\ UNCHANGED <<call, outs, sel, kernel>>

(* The infer_dims_func_ the arm constructors register. *)
ArmInferDims ==
  /\ phase = "initialised"
  /\ call.op \in ArmOps
  /\ rc' = "success"
  /\ outs' = GenericInferDims(call.ins, call.nOut)
  /\ phase' = "inferred"
  /\ UNCHANGED <<call, sel, param, kernel>>

(* SelectFormat of ClipOp or SoftmaxOp. *)
ArmSelectFormat ==
  /\ phase = "inferred"
  /\ call.op \in ArmOps
  /\ sel' = IF call.op = "clip" THEN ClipSelectFormat(call.fmts)
            ELSE SoftmaxSelectFormat(call.fmts)
  /\ rc' = "success"
  /\ phase' = "selected"
  /\ UNCHANGED <<call, outs, param, kernel>>

(* CreateKernelImpl of ClipOp or SoftmaxOp: the kernel gets param_.get(). *)
ArmCreateKernel ==
  /\ phase = "selected"
  /\ call.op \in ArmOps
  /\ kernel' = [op |-> call.op, param |-> param]
  /\ phase' = "kernel"
  /\ UNCHANGED <<call, rc, outs, sel, param>>

Next ==
  \/ InferGatherDims
  \/ ConcatInit \/ InferConcatUnsafeDims \/ ConcatFinalize \/ ConcatCreateKernel
  \/ ClipInit \/ SoftmaxInit \/ ArmInferDims \/ ArmSelectFormat \/ ArmCreateKernel

Spec == Init /\ [][Next]_vars

-----------------------------------------------------------------------------
(* The outputs are shapes, and an op that has been inferred has shaped  *)
(* every one of the node's outputs.                                      *)
TypeOK ==
  /\ rc \in {"none", "success", "invalid", "load_failed", "common_failed"}
  /\ outs \in Seq(Seq(Dims))
  /\ phase \in Phases
  /\ param \in {"unset", "loaded"}
  /\ phase \in {"inferred", "selected", "finalised", "kernel"} => Len(outs) = call.nOut

(* ONNX Gather: with r = rank(data), q = rank(indices), the output is    *)
(* data[:axis] ++ indices.shape ++ data[axis+1:], of rank q + r - 1, for *)
(* axis in [-r, r-1] (negative counts from the back) and is rejected     *)
(* otherwise.  ReshapeGather's scalar and axis == 0 special cases and    *)
(* its range check must agree with it.                                   *)
OnnxGatherShape(data, idx, axis) ==
  LET a == IF axis < 0 THEN axis + Len(data) ELSE axis
  IN  SubSeq(data, 1, a) \o idx \o SubSeq(data, a + 2, Len(data))

GatherMatchesOnnx ==
  rc # "none" /\ call.op = "gather" =>
    IF Len(call.ins) = 2 /\ call.nOut = 1 /\ Len(call.ins[1]) >= 1
       /\ call.axis \in -Len(call.ins[1]) .. Len(call.ins[1]) - 1
    THEN rc = "success" /\ outs = <<OnnxGatherShape(call.ins[1], call.ins[2], call.axis)>>
    ELSE rc = "invalid"

(* Spec 9: when several inputs are illegal, the unsafe path of Concat    *)
(* copies the shape of the last illegal input to the outputs.            *)
ConcatTakesLastIllegal ==
  rc = "success" /\ call.op = "concat" /\ call.illegal # {} =>
    \A o \in DOMAIN outs : outs[o] = call.ins[Max(call.illegal)]
=============================================================================
