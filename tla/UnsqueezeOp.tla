----------------------------- MODULE UnsqueezeOp -----------------------------
(***************************************************************************)
(* The CUDA UnsqueezeOp (src/ppl/nn/engines/cuda/optimizer/ops/onnx/      *)
(* unsqueeze_op.cc) over its lifetime: Init loads the axes parameter and   *)
(* registers the inference callbacks, the optimizer infers the node's      *)
(* shapes, Finalize sets the common parameters, and every runtime built    *)
(* from the optimized graph creates a kernel bound to &param_ and infers   *)
(* the node again on each run (spec 4.2).                                  *)
(* infer_dims_func_ is two steps: when the node has an axes input, the     *)
(* copy of that tensor into param_.axes through a malloc'd host buffer;    *)
(* then ReshapeUnsqueeze(info, &param_), which reads param_.axes.          *)
(* ReshapeUnsqueeze is not under src/: only the axes it reads are kept.    *)
(***************************************************************************)
EXTENDS Integers, Sequences, SequencesExt

CONSTANTS
  AxisVals,  \* the values an axis may take
  MaxAxes,   \* longest axes list
  MaxInfer,  \* bound on the number of infer_dims_func_ calls
  Versions,  \* opset versions of the node
  Runtimes,  \* runtime instances created from the optimized graph
  ReqTypes   \* data types the optimizer may ask infer_type_func_ for

Optimizer == "optimizer"
Actors == {Optimizer} \cup Runtimes
AxesLists == SeqOf(AxisVals, MaxAxes)
NoAxes == <<-1>>   \* "not read yet"; no axes list holds -1

VARIABLES
  status,    \* "new", "ready", "finalized", or the step that failed:
             \* "failed" (Init) or "finalize_failed"
  version,   \* the node's opset version
  hasInput,  \* the node has a second (axes) input
  axes,      \* param_.axes, shared by the op and every kernel
  kernels,   \* runtimes whose UnsqueezeKernel holds &param_
  axesType,  \* data type of the axes input's shape
  pc,        \* actor -> "idle", "typed" (the optimizer, after
             \* infer_type_func_) or "copied" (between the two steps)
  mine,      \* actor -> the axes input of its current or last call
  copyOk,    \* actor -> its CopyToHost succeeded
  used,      \* actor -> the param_.axes its last ReshapeUnsqueeze read
  hostBufs,  \* host buffers malloc'd by infer_dims_func_, never freed
  infers     \* infer_dims_func_ calls so far

vars == <<status, version, hasInput, axes, axesType, kernels, pc,
          mine, copyOk, used, hostBufs, infers>>

(* Axes come from an attribute before opset 13 and may come from an      *)
(* input from 13 on.                                                     *)
Init ==
  /\ version \in Versions
  /\ hasInput \in IF version < 13 THEN {FALSE} ELSE BOOLEAN
  /\ status = "new"
  /\ axes = <<>>
  /\ axesType = "INT64"
  /\ kernels = {}
  /\ pc = [a \in Actors |-> "idle"]
  /\ mine = [a \in Actors |-> NoAxes]
  /\ copyOk = [a \in Actors |-> TRUE]
  /\ used = [a \in Actors |-> NoAxes]
  /\ hostBufs = 0
  /\ infers = 0

(* Mutant: a failed GenericLoadParam is fatal whatever the opset. *)
UnsqueezeInit_AlwaysFatal ==
  /\ status = "new"
  /\ \E loadOk \in BOOLEAN, loaded \in AxesLists :
       IF ~loadOk
       THEN /\ status' = "failed"
            /\ UNCHANGED axes
       ELSE /\ status' = "ready"
            /\ axes' = loaded
  /\ UNCHANGED <<version, hasInput, axesType, kernels, pc, mine, copyOk, used, hostBufs, infers>>

(* UnsqueezeOp::Init: a failed GenericLoadParam is fatal only before      *)
(* opset 13, where axes must be an attribute; from 13 on they may come   *)
(* from the second input and the failure is ignored.                     *)
UnsqueezeInit ==
  /\ status = "new"
  /\ \E loadOk \in BOOLEAN, loaded \in AxesLists :
       IF ~loadOk /\ version < 13
       THEN /\ status' = "failed"
            /\ UNCHANGED axes
       ELSE /\ status' = "ready"
            /\ axes' = IF loadOk THEN loaded ELSE axes
  /\ UNCHANGED <<version, hasInput, axesType, kernels, pc, mine, copyOk, used, hostBufs, infers>>

(* UnsqueezeOp::Finalize: SetCommonParam may fail. *)
Finalize ==
  /\ status = "ready"
  /\ pc[Optimizer] = "idle"
  /\ \E ok \in BOOLEAN : status' = IF ok THEN "finalized" ELSE "finalize_failed"
  /\ UNCHANGED <<version, hasInput, axes, axesType, kernels, pc, mine, copyOk, used,
                 hostBufs, infers>>

(* CreateKernelImpl for runtime r: the kernel keeps &param_. *)
CreateKernelImpl(r) ==
  /\ status = "finalized"
  /\ r \notin kernels
  /\ kernels' = kernels \cup {r}
  /\ UNCHANGED <<status, version, hasInput, axes, axesType, pc, mine, copyOk, used,
                 hostBufs, infers>>

(* What the type helpers may leave on the axes input: InferDefaultType    *)
(* gives every input and output the requested type; InferInheritedType   *)
(* types the outputs only; CopyQuantType's effect on the inputs is not   *)
(* fixed, so it may or may not retype the axes input to INT8.            *)
HelperAxesType(req, t) ==
  CASE req = "UNKNOWN" -> {t}
    [] req = "INT8"    -> {t, "INT8"}
    [] OTHER           -> {req}

(* infer_type_func_, called by the optimizer before InferDims (spec 4.2): *)
(* the type helper chosen by the requested type, then, when there is an  *)
(* axes input, its shape's data type set to INT64.                       *)
InferType ==
  /\ status = "ready"
  /\ pc[Optimizer] = "idle"
  /\ \E req \in ReqTypes : \E t \in HelperAxesType(req, axesType) :
       axesType' = IF hasInput THEN "INT64" ELSE t
  /\ pc' = [pc EXCEPT ![Optimizer] = "typed"]
  /\ UNCHANGED <<status, version, hasInput, axes, kernels, mine, copyOk, used,
                 hostBufs, infers>>

(* The call of infer_dims_func_ may start: the optimizer's once it has   *)
(* inferred the node's type, a runtime's at any time.                    *)
DimsReady(a) == pc[a] = IF a = Optimizer THEN "typed" ELSE "idle"

(* Who may infer the node: the optimizer before Finalize, a runtime once *)
(* it has its kernel.                                                    *)
MayInfer(a) ==
  IF a = Optimizer THEN status = "ready" ELSE a \in kernels

(* Mutant: param_.axes is not resized, so a shorter axes input leaves    *)
(* the tail of the previous list in place.                               *)
CopyAxes_NoResize(old, in, data) ==
  [i \in 1 .. Max({Len(old), Len(in)}) |-> IF i <= Len(in) THEN data[i] ELSE old[i]]

(* param_.axes.resize(size), then axes[i] = axes_data[i] for i < size. *)
CopyAxes(old, in, data) == [i \in 1 .. Len(in) |-> data[i]]

(* infer_dims_func_ with an axes input, up to ReshapeUnsqueeze: malloc   *)
(* the host buffer, CopyToHost into it (its RetCode is dropped: on       *)
(* failure the buffer keeps whatever malloc returned), copy it into      *)
(* param_.axes; the buffer is never freed.                               *)
CopyAxesInput(a) ==
  /\ MayInfer(a)
  /\ hasInput
  /\ DimsReady(a)
  /\ infers < MaxInfer
  /\ infers' = infers + 1
  /\ hostBufs' = hostBufs + 1
  /\ \E in \in AxesLists, ok \in BOOLEAN :
       /\ mine' = [mine EXCEPT ![a] = in]
       /\ copyOk' = [copyOk EXCEPT ![a] = ok]
       /\ IF ok THEN axes' = CopyAxes(axes, in, in)
          ELSE \E junk \in [1 .. Len(in) -> AxisVals] : axes' = CopyAxes(axes, in, junk)
  /\ pc' = [pc EXCEPT ![a] = "copied"]
  /\ UNCHANGED <<status, version, hasInput, axesType, kernels, used>>

(* return ReshapeUnsqueeze(info, &param_): after the copy, or as the     *)
(* whole call for a node without an axes input.                          *)
ReshapeUnsqueeze(a) ==
  /\ MayInfer(a)
  /\ \/ pc[a] = "copied" /\ UNCHANGED infers
     \/ /\ DimsReady(a) /\ ~hasInput
        /\ infers < MaxInfer /\ infers' = infers + 1
  /\ used' = [used EXCEPT ![a] = axes]
  /\ pc' = [pc EXCEPT ![a] = "idle"]
  /\ UNCHANGED <<status, version, hasInput, axes, axesType, kernels, mine, copyOk,
                 hostBufs>>

Next ==
  \/ UnsqueezeInit \/ InferType \/ Finalize
  \/ \E r \in Runtimes : CreateKernelImpl(r)
  \/ \E a \in Actors : CopyAxesInput(a) \/ ReshapeUnsqueeze(a)

Spec == Init /\ [][Next]_vars

-----------------------------------------------------------------------------
(* The variables have their types; Init fails only for a node before    *)
(* opset 13, and only a finalized op has kernels.                        *)
TypeOK ==
  /\ status \in {"new", "ready", "finalized", "failed", "finalize_failed"}
  /\ status = "failed" => version < 13
  /\ version \in Versions /\ hasInput \in BOOLEAN
  /\ axes \in Seq(AxisVals)
  /\ kernels \subseteq Runtimes
  /\ kernels # {} => status = "finalized"
  /\ axesType \in ReqTypes \cup {"INT64", "INT8"}
  /\ pc \in [Actors -> {"idle", "typed", "copied"}]
  /\ mine \in [Actors -> AxesLists \cup {NoAxes}]
  /\ copyOk \in [Actors -> BOOLEAN]
  /\ used \in [Actors -> Seq(AxisVals) \cup {NoAxes}]
  /\ hostBufs \in 0 .. MaxInfer /\ infers \in 0 .. MaxInfer

(* Every ReshapeUnsqueeze of a node with an axes input, by the optimizer *)
(* or by any runtime, reads exactly the axes input of its own call: not  *)
(* the tail of a longer list an earlier call left in param_.axes, and    *)
(* not the list another runtime's call copied into the shared param_     *)
(* (the compiled graph is read-only and shared by runtimes, spec 5).    *)
(* A call whose CopyToHost failed is left out.                           *)
ReshapeUsesOwnAxes ==
  \A a \in Actors :
    hasInput /\ pc[a] = "idle" /\ used[a] # NoAxes /\ copyOk[a] => used[a] = mine[a]
=============================================================================
