# TLA+ models of ppl.nn

These TLA+ modules model the parts of the ppl.nn inference engine that are under `src/`. The TLC configurations beside them model-check those modules. `PROJECT.json` is the machine-readable index of the project:
- the components and their status;
- the runs and what each one checks;
- one mutant per checked property;
- the map from each definition to the source lines it translates;
- the findings;
- the hazards each property covers.

## The system and its parts

ppl.nn loads a model (ONNX or PMX) into an IR graph, runs engine-specific optimizer rules over the graph, infers shapes and types, and executes per-node kernels. The kernels run on x86, ARM, RISC-V or CUDA.

The code under `src/` is a slice of that pipeline:

| Stage | Code under `src/` | Module |
|---|---|---|
| Model loading | `models/onnx/utils.cc`: turns TensorProtos into shapes and data bytes, and reads node attributes | `OnnxTensorProto` |
| Model loading | `models/onnx/parsers/onnx/parse_pad_param.cc`, `parse_gemm_param.cc`: Pad and Gemm parameters | `OnnxTensorProto` |
| Model loading | `models/onnx/utils.cc`: wires the free values of If/Loop bodies into their parent graphs (`ResolveExtraInputs`) | `SubgraphExtraInputs` |
| Optimization | `x86/optimizer/rules/fuse_conv_activation.cc`: the Conv + Relu/ReLU6 fusion rule | `FuseConvActivation`, refining `ConvFusion` |
| Shape inference | `oputils/onnx/reshape_gather.cc` | `ShapeInference` |
| Shape inference | CUDA `concat_op.cc`: `Init`, the unsafe dims callback, `Finalize` and `CreateKernelImpl` | `ShapeInference` |
| Format selection | ARM `clip_op.cc` and `softmax_op.cc`: `Init`, the registered dims callback, `SelectFormat` and `CreateKernelImpl` | `ShapeInference` |
| Shape inference | CUDA `unsqueeze_op.cc` | `UnsqueezeOp` |
| Execution | x86 GEMM packing routines and `gemm_fp32_apply_betas_avx` | `GemmPack` |
| Execution | the CUDA MMCV NMS kernel's scratch handling | `NmsTmpBuffer` |
| Execution | the ARM cast dispatcher and `cast_kernel`, and the RISC-V reduce, arithmetic and relation dispatchers | `KernelDispatch` |

The stages interact through shared state:
- The loader fills the graph that the rules rewrite.
- The rules delete nodes and edges that the optimizer's `tensors` map and `info->kernels` also index.
- Shape inference callbacks run repeatedly on an op object whose `param_` every kernel created from it points to. The optimizer and every runtime built from the optimized graph call them.
- Kernels of concurrent runs share the device's scratch pool.
- Each op's `SelectFormat` chooses its input layouts from the formats its producers chose. An op's kernel is wired to the `param_` its `Init` parsed.

## Modules

Every module is a state machine (`Init`, one action per operation, `Next`, `Spec`). `MC_<M>.tla` instantiates module `M` with small constants, and `MC_<M>*.cfg` names the properties TLC checks.

### FuseConvActivation

**State.** The rule's view of the graph, kept as the id-indexed tables GraphTopo keeps:
- live nodes and edges;
- each node's inputs and output;
- each edge's producer, and a per-consumer reference count;
- `graph_data->constants`, the `tensors` map and its reserved entries;
- `info->kernels`;
- the activations each ConvOp has accepted, and how many it can accept (`capacity`, fixed when the ConvOp is created);
- the node iterator `cursor` and the local `graphchanged`;
- a history variable `initExpr`, the value every edge computed before any rewriting.

**Actions.** One step is one iteration of the node loop (lines 76-139):
- `Skip` covers every `continue`.
- `FuseReLU` and `FuseReLU6` are the two branches. Each includes its rewiring (`Rewire`, lines 123-137) and, for ReLU6, the min/max edge detachment (lines 104-117).
- `EndOfPass` is `return graphchanged` together with the optimizer's rule driver, which reruns the rule until it reports no change. The driver is not under `src/`, so it is modelled from the spec.

**Bounds.** The initial graphs are every acyclic graph of 3 nodes over Conv, Relu, Clip and a one- or two-input "Other" operator:
- Clips have constant or attribute bounds, including bounds that are not 0/6 and a float16 bound.
- Some edges are shared or reserved. The float32 6 constant may also be a graph output (`ReservableConsts`), so a ReLU6 bound that loses its last consumer is sometimes reserved and must survive.
- Each Conv's ConvOp accepts 1 or 2 activations, chosen per Conv in `Init`. `TryFuseReLU*` is a capability the kernel reports (spec §4.3), and both outcomes occur:
  - with capacity 2, a chain Conv → Relu → Relu needs a second pass of the rule;
  - with capacity 1, the second activation is refused, and the loop must `continue` without touching the Clip's bounds or marking the pass changed.

**Refinement.** `FuseConvActivation` implements `ConvFusion` (below). The mapping:
- `SrcMap` gives each live node its inputs as nodes: an edge with a producer maps to that node, and a graph input or constant edge stays a leaf.
- `PinnedMap` is the set of live nodes whose output edge is reserved.
- `nodes`, `optype`, `attrs`, `fused`, `capacity` and `done` map to `live`, `op`, `attr`, `absorbed`, `room` and `stopped`.

`ConvFusionRefined` checks `ConvFusion`'s `ASpec`, including its weak fairness, as a temporal property. Each `Skip` step and each new pass is a stuttering step of the abstract spec. Each fusion is one `Absorb`, and the final `EndOfPass` is `Stop`.

### ConvFusion

The abstract specification of the rewrite (spec §4.3), on a node-level dataflow graph with no edge tables. A live Conv absorbs its activation reader when all of these hold:
- the reader is a Relu, or a Clip to the float32 constants 0 and 6;
- that reader is the Conv's only reader;
- the Conv's output is not pinned;
- its kernel has room for another activation.

The activation's readers then read the Conv, and the Conv takes over the activation's pin. `Stop` is allowed only when no pair is left. The node iterator, the consumer counts, the `constants` and `tensors` tables and the pass structure are implementation detail that the refinement mapping hides.

### GemmPack

A packing routine is modelled as the set of element writes it performs, `<<packed offset, source offset>>`:
- Each loop is a RECURSIVE operator that carries the loop counter and the `l_src`/`l_dst` pointers.
- Each unrolled step or tail macro is the set of elements it copies.
- A call with its template arguments (trans, `ldpacked_b`, `kN`) and run-time arguments is one action: `CallPackB` or `CallPackA`.
- The references `RefPackB` and `RefPackA` state the layout the micro-kernels read.

`gemm_fp32_apply_betas_avx` is modelled the same way. Each write is the C offset and the elements its value sums: the bias element, the sum element and the old C element, with `NoTerm` for a term that is absent. The row loop, the 16-wide step and the scalar tail are RECURSIVE operators that carry `l_bias`, `l_sum` and `l_c`.

**Bounds.** The bounds are M and N ≤ 17, K ≤ 13, and kN ∈ {0, 5, 8, 16}. They reach:
- every branch of the 8/4/2/1 tail splits of both dimensions;
- two full 8-blocks plus a tail;
- both the aligned-kN and memcpy paths.

For apply_betas, M ≤ 2 and N ≤ 17, which covers a 16-wide step followed by a one-element tail. The bounds also cover padded ldc and ldsum, every bias type, both sum types and beta zero or not.

### ShapeInference

`ReshapeGather` is translated check by check:
- the input and output counts;
- the rank;
- the axis range;
- the scalar-indices and general branches.

It is compared with an independent statement of the ONNX Gather shape rule. `ConcatUnsafeDims` is the CUDA Concat `infer_unsafe_dims_func_`.

The CUDA Concat op and the ARM Clip and Softmax ops are also followed through the optimizer's steps (spec §4). `phase` records how far the op has got:
- `ConcatInit` and `SoftmaxInit` load `param_` with `GenericLoadParam`. On failure they return the error, and the op goes no further. `ClipInit` loads nothing.
- `InferConcatUnsafeDims` is the Concat step above. `ArmInferDims` is the `GenericInferDims` that the ARM constructors register: each output gets input 0's shape. `GenericInferDims` is not under `src/`, so it is written from the specification.
- `ArmSelectFormat` runs `ClipSelectFormat` or `SoftmaxSelectFormat`. Input 0 and output 0 take input 0's format, and Clip's min and max inputs get NDARRAY. Input formats are the ones their producers chose.
- `ConcatFinalize` calls `SetCommonParam`, which may fail.
- `ConcatCreateKernel` and `ArmCreateKernel` record the `param_` the kernel is given.

Data types are not kept, so the type callbacks are left out.

No property is stated about these steps. That a kernel is only made after a successful `Init`, and that SelectFormat gives the formats it assigns, can each be read off one line. They are kept so that the component's operations are all actions.

`ClipOp::Init` loads no parameter, yet `CreateKernelImpl` passes `param_.get()`. The declaration of `param_` and `ClipKernel` are not under `src/`, so what that pointer holds is not modelled.

The instance covers, besides the calls above:
- Clip with 1 to 3 inputs and Softmax with one input, each input in NDARRAY or N4CX;
- every outcome of `GenericLoadParam` and `SetCommonParam`.

### UnsqueezeOp

The op's lifetime, with several actors calling its callbacks:
- `UnsqueezeInit` is `UnsqueezeOp::Init`: a failed parameter load is fatal only before opset 13. Whether the node has an axes input is fixed in `Init`, and only from opset 13.
- The optimizer infers the node while the op is `ready`.
- `InferType` is `infer_type_func_` (lines 37-51), which the optimizer calls before the dims on each visit (spec §4.2). The type helpers are not under `src/`. `HelperAxesType` gives what each may leave on the axes input:
  - `InferDefaultType` gives every input the requested type;
  - `InferInheritedType` types the outputs only;
  - `CopyQuantType` may or may not retype the axes input to INT8.

  Line 48 then sets the axes input to INT64.
- `Finalize` is `UnsqueezeOp::Finalize`, and `SetCommonParam` may fail.
- `CreateKernelImpl(r)` gives runtime `r` a kernel holding `&param_`. From then on `r` infers the node on its runs (spec §4.2).

`infer_dims_func_` is two steps, because another actor can run between them:
- `CopyAxesInput(a)` is lines 54-62. It copies the axes input into the shared `param_.axes` through a malloc'd buffer that is never freed (`hostBufs`). The status of `CopyToHost` is ignored. On failure the copied values are a nondeterministic choice, because malloc'd memory is uninitialised.
- `ReshapeUnsqueeze(a)` is line 64, which reads `param_.axes`. `used[a]` records what it read.

`MaxInfer` bounds the number of calls.

### NmsTmpBuffer

Several requests run `MMCVNonMaxSuppressionKernel::DoExecute`. Their devices share one scratch pool, whose `AllocTmpBuffer` and `FreeTmpBuffer` are serialised by the pool's lock (spec §5), so each is atomic.
- `AllocTmpBuffer(r)` is lines 31-40. It fails when the pool lacks the bytes, and then returns before a guard exists.
- `Forward(r)` is lines 41-53. The forward succeeds or fails, and the Destructor guard frees the scratch on return.

### OnnxTensorProto

One parser call per behaviour: `ParseTensorProto` on a TensorProto, or `ParsePadParam`/`ParseGemmParam` on a NodeProto.

`ParseTensorProto`:
- `proto` is abstracted to its `data_type`, its dims, the field holding its values, and, for external data, the key list and the outcomes of the file mapping.
- Values are abstracted to byte counts.
- `DataMatchesShape` (loaded bytes = elements × element size) is checked only by the `tensor_proto_int32` run, where it fails.
- `ConvertOnnxDataType` returns, for a negative type, every word the out-of-bounds read can produce.
- `ShapeTypeMatchesOnnx` checks the shape's type against the ONNX `TensorProto.DataType` enum, written out by name, independently of `dt_map`'s order. The instance has every `data_type` from 0 to 17, the first past `dt_map`.

The parameter parsers:
- A NodeProto is its op type and a sequence of attributes. An attribute is its name and the one field its writer set.
- A protobuf accessor of any other field reads that field's default (`Field`).
- `GetIntsByKey` and `GetNodeAttrByKey` take the first attribute with the key. `GetNodeAttrByKey` is declared outside `src/` and is modelled as `GetAttrValue` of that attribute, or the default.
- `Int32` is the int64 → int32 assignment.
- The MC instance has every Pad and Gemm node that carries any subset of its attributes in any order. It includes the ONNX Pad mode `wrap`, which ppl.nn lacks.

### SubgraphExtraInputs

**State.** Per graph: its edges, its ordered extra inputs, per-node consumer counts, and each node's extra inputs.

**Actions.** `ResolveExtraInputs(s)` applies the code's loop (`ResolveLoop`, `AddExtraInputEdge`) to sub-graph `s`. Its guard is that every sub-graph nested in `s` is already resolved, which is the bottom-up order of the graph parser.

**Instance.** A main graph with two bodies owned by one node, and a third body nested in one of them. Every graph reads every subset of three names.

**Fairness.** Weak fairness on `Next`: the graph parser resolves each sub-graph right after parsing it, so no resolution step is postponed forever. `ExtraInputsAreFreeNames` is a liveness property under this fairness: every sub-graph is eventually resolved, and every graph keeps exactly its free names from then on.

### KernelDispatch

One call per behaviour:
- `CallCast`: an ARM cast between two of ten datatypes, with the FP16 cases compiled in, of one element. `CastKernel` is `cast_kernel`'s `dst_bool` branch and the C++ conversion. Values are counted in halves, so that 0.5, -1.5 and 2 occur. The OpenMP loop converts each element independently, so one element stands for the tensor.
- `CallReduce`: a RISC-V reduce over a shape of rank ≤ 3, with any legal axes list (distinct after normalisation, negative axes included), keepdims or not, and three formats. `PPL_RISCV_TENSOR_MAX_DIMS` is 2, so rank-3 shapes reach the rank check. `Reduce` also records how many `real_axes` entries its loop writes.
- `CallArithmetic` and `CallRelation`: arithmetic or relation ops on any two broadcastable shapes.

The `datatype_t` values are ppl.common's, which are not under `src/`. `MaxDims` is 2, below the rank bound, so that the rank check fires.

## Runs

| run | cfg | expect | what it shows |
|---|---|---|---|
| fuse | MC_FuseConvActivation.cfg | pass | The fusion keeps the topology tables consistent. It keeps every reserved edge, including a constant that is a graph output, preserves the value of every surviving edge, and terminates. It also implements `ConvFusion` under the refinement mapping. |
| fuse_tensors | MC_FuseConvActivation_tensors.cfg | violation | A deleted ReLU6 bound edge keeps its `tensors` entry. |
| gemm_pack | MC_GemmPack.cfg | pass | pack_b and pack_a write exactly the reference layout, in bounds. apply_betas computes every C element from the right bias, sum and old C elements, and reads old C only when beta ≠ 0. |
| shape | MC_ShapeInference.cfg | pass | ReshapeGather agrees with ONNX Gather for every valid axis, negative ones included, and rejects invalid calls. |
| shape_concat | MC_ShapeInference_concat.cfg | violation | Unsafe Concat inference takes the first illegal input, not the last (spec §9). |
| unsqueeze | MC_UnsqueezeOp.cfg | pass | With the optimizer and one runtime, every ReshapeUnsqueeze reads its own call's axes input. |
| unsqueeze_shared | MC_UnsqueezeOp_shared.cfg | violation | Two runtimes share the op's `param_`. One runtime's ReshapeUnsqueeze reads the axes the other runtime copied in, against spec §5's read-only compiled graph. |
| nms | MC_NmsTmpBuffer.cfg | pass | Scratch is held exactly while running and freed on every exit. The pool never overdraws. |
| tensor_proto | MC_OnnxTensorProto.cfg | pass | Every `data_type` from 0 to 17 gives the PPL type of the same meaning. Pad and Gemm nodes give the parameters their ONNX definition means, whatever the order of their attributes. |
| tensor_proto_int32 | MC_OnnxTensorProto_int32.cfg | violation | BOOL or INT8 data stored in `int32_data` has the wrong length. |
| extra_inputs | MC_SubgraphExtraInputs.cfg | pass | Every sub-graph is eventually composed, and every graph then keeps extra inputs that are exactly its free names. They are distinct, and consumer counts match. |
| dispatch | MC_KernelDispatch.cfg | pass | Cast, reduce and eltwise dispatch reach the right kernel with normalised arguments. The reduce rank check keeps the `real_axes` writes inside the array, for ranks above `PPL_RISCV_TENSOR_MAX_DIMS` too. |

Every property of a passing run has a mutant in `PROJECT.json`: a plausible bug in the definition it is about, and TLC finds the property violated under that mutant. Each mutant is written next to its original definition.

Some defects are recorded as hazards without a run of their own, because each can be read off a single line of the code:
- **Unsqueeze leak** (`unsqueeze_op.cc:58`): the axes host buffer is never freed. The model counts the buffers in `hostBufs`.
- **Unsqueeze uninitialised axes** (`unsqueeze_op.cc:59`): the status of `CopyToHost` is dropped. The model lets a failed copy write any values.
- **Negative `data_type`** (`utils.cc:142`): a negative value is not rejected and reads before `dt_map`. `ConvertOnnxDataType` models the read's outcomes.
- **int64 → int32 attributes** (`utils.cc:35`): an out-of-range pad or transpose flag wraps. `Int32` states the wrap, but TLC's 32-bit integers cannot enumerate such values.

Other hazards have no property because the model does not reach them:
- **`stoll` in `LoadExternalData`** (`utils.cc:164`): a non-numeric offset throws out of the loader, and the model records this as an "exception" outcome. The error taxonomy (spec §7) names the kinds of errors but not this case, and the property would need a violation run of its own.
- **External data size** (`utils.cc:260`): the size of the mapped file is never compared with the shape. The file is outside the model.
- **`real_axes` overflow** (`reduce_fp32.cpp:45`): duplicate axes overflow `real_axes`. The model only passes the legal, distinct axes. `RealAxesInBounds` checks the part the code controls: with distinct axes, the rank check before the loop bounds the writes.

## Fairness

- **FuseConvActivation:** weak fairness on `Next`. The optimizer runs its rules on one thread until they stop. `ConvFusion` asks for weak fairness on its `ANext`. The detailed spec provides it, because a disabled abstract step corresponds to `done`.
- **SubgraphExtraInputs:** weak fairness on `Next`. The graph parser composes each sub-graph as soon as it has parsed it, on one thread.
- **Other modules:** they check safety only, and their runs stop after one call or at a bound. Their cfgs turn deadlock checking off for that reason.

## Not modelled

- **GEMM:** the float products of apply_betas. The model keeps which elements each output sums, not their values.
- **Attribute getters:** `GetNodeAttrsByKey<uint32_t/float/string>` and `GetTensorProtoByKey`. No modelled parser calls them.
- **ARM ops:** the type callback (`GenericInferType`) and the kernels, which are not under `src/`.
- **CUDA Concat:** `infer_type_func_` and `infer_dims_func_`. They only hand over to helpers that are not under `src/`: `InferHighestType`, `UnifyToOutputQuant`, `InferDefaultType` and `ReshapeConcat`. Unlike Unsqueeze's, Concat's callbacks never write `param_` or retype an input that a later step reads, so no property would tell a faithful model from a wrong one.
- **Serialisation and declarations:** PMX Slice (de)serialisation (generated flatbuffers code), and the headers.
- **Bindings:** the Python and Lua bindings (glue only).
- **Code outside `src/`:** the scheduler, the memory planner, the graph parser and the engines' remaining code. The model includes only the parts of them that the code under `src/` depends on, written from the specification: the rule driver, the IR graph, the scratch pool and `IsReservedEdge`.

## Plan for further work

- Model the duplicate-axes overflow of `reduce_fp32`'s `real_axes` by widening the axes input. This needs a model of what the parser passes.
- Give `LoadExternalData`'s exception path a property once the error taxonomy is settled.
- Check the fusion on 4 nodes, where a refused activation sits between two fusable ones. This is out of TLC's reach with the full enumeration of initial graphs.
