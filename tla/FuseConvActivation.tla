------------------------- MODULE FuseConvActivation -------------------------
(***************************************************************************)
(* The x86 graph rewrite FuseConvActivation                                *)
(* (src/ppl/nn/engines/x86/optimizer/rules/fuse_conv_activation.cc) run    *)
(* to a fixpoint by the optimizer's rule driver.                           *)
(*                                                                         *)
(* The IR graph is kept as id-indexed tables, as GraphTopo keeps it: live  *)
(* node and edge ids, each node's ordered input edges and its output edge, *)
(* each edge's producer and its consumers with a reference count per       *)
(* consumer.  Beside the topology the rule touches the tables of the x86   *)
(* optimizer: graph_data->constants, the tensors map and info->kernels.    *)
(*                                                                         *)
(* One step of the model is one iteration of the rule's node loop (the     *)
(* loop body runs to its `continue` or to its end without interruption);   *)
(* EndOfPass is the rule's `return graphchanged` together with the         *)
(* driver's decision to run the rule again.                                *)
(*                                                                         *)
(* Every node has exactly one output edge; the rule only looks at output  *)
(* 0, so further outputs would not change what it does.  Operator domains  *)
(* are all the default domain "".                                          *)
(***************************************************************************)
EXTENDS Integers, Sequences, FiniteSets, SequencesExt

CONSTANTS
  N,              \* number of nodes; node n has id n and output edge n
  GraphInput,     \* id of the graph's input edge (no producer)
  ConstEdges,     \* ids of the constant (initializer) edges
  ReservableConsts, \* constant edges that may also be graph outputs
  CVal,           \* CVal[e]: the float stored in constant e
  CType,          \* CType[e]: the data type of constant e
  ClipConstPairs, \* <<min edge, max edge>> choices of a 3-input Clip
  ClipAttrs,      \* <<min_value, max_value>> choices of an attribute Clip
  Capacities      \* how many activations a ConvOp may accept (TryFuseReLU*)

NodeIds == 1 .. N
EdgeIds == {GraphInput} \cup NodeIds \cup ConstEdges
NoNode == 0

ASSUME /\ N \in Nat \ {0}
       /\ GraphInput \notin NodeIds \cup ConstEdges
       /\ ConstEdges \cap NodeIds = {}
       /\ ReservableConsts \subseteq ConstEdges
       /\ NoNode \notin NodeIds
       /\ Capacities \subseteq Nat

VARIABLES
  nodes,      \* live node ids (GraphTopo nodes)
  optype,     \* node -> operator type name (never rewritten)
  attrs,      \* node -> <<min_value, max_value>> of a ClipParam, if any
  inputs,     \* node -> ordered sequence of input edge ids
  outputs,    \* node -> output edge id (output 0)
  edges,      \* live edge ids
  producer,   \* edge -> producing node id, or NoNode
  consumers,  \* edge -> node -> reference count of that consumer
  constants,  \* graph_data->constants: edges holding constant data
  tensors,    \* keys of the optimizer's tensors map
  reserved,   \* edges whose TensorImpl is reserved (graph outputs, ...)
  kernels,    \* keys of info->kernels (one OptKernel per node)
  fused,      \* node -> activations a ConvOp has accepted, in order
  capacity,   \* node -> how many activations its ConvOp accepts
  cursor,     \* the node iterator of the current pass
  changed,    \* the rule's local `graphchanged`
  done,       \* the driver has reached its fixpoint
  initExpr    \* history: the value each edge computed before rewriting

vars == <<nodes, optype, attrs, inputs, outputs, edges, producer, consumers,
          constants, tensors, reserved, kernels, fused, capacity, cursor,
          changed, done, initExpr>>

-----------------------------------------------------------------------------
(* The initial graphs: node n reads edges of earlier nodes, the graph      *)
(* input and (Clip) constant edges, so every graph is acyclic and in       *)
(* topological id order, as a loaded ONNX graph is.                        *)
Earlier(n) == {GraphInput} \cup 1 .. (n - 1)

NoAttr == <<>>

NodeChoices(n) ==
  {[type |-> t, ins |-> <<x>>, attr |-> NoAttr] :
      t \in {"Conv", "Relu"}, x \in Earlier(n)}
  \cup {[type |-> "Clip", ins |-> <<x, p[1], p[2]>>, attr |-> NoAttr] :
          x \in Earlier(n), p \in ClipConstPairs}
  \cup {[type |-> "Clip", ins |-> <<x>>, attr |-> a] :
          x \in Earlier(n), a \in ClipAttrs}
  \cup {[type |-> "Other", ins |-> s, attr |-> NoAttr] :
          s \in {<<x>> : x \in Earlier(n)} \cup (Earlier(n) \X Earlier(n))}

RECURSIVE GraphsUpTo(_)
GraphsUpTo(k) ==
  IF k = 0 THEN {<<>>}
  ELSE {Append(g, c) : g \in GraphsUpTo(k - 1), c \in NodeChoices(k)}

Occurrences(s, e) == Cardinality({i \in DOMAIN s : s[i] = e})

-----------------------------------------------------------------------------
(* The value an edge computes, as a term.  A Conv applies the activations *)
(* fused into it in order; a ReLU6 is a Clip to the float32 constants 0   *)
(* and 6.  A reference to a deleted node or edge is "dangling".           *)
F32(v) == <<"const", v, "f32">>

ApplyAct(v, act) == IF act = "relu" THEN <<"relu", v>>
                    ELSE <<"clip", v, F32(0), F32(6)>>

NodeValue(n, args) ==
  CASE optype[n] = "Conv"  -> FoldLeft(ApplyAct, <<"conv", args[1]>>, fused[n])
    [] optype[n] = "Relu"  -> <<"relu", args[1]>>
    [] optype[n] = "Clip"  ->
         IF Len(args) = 3 THEN <<"clip", args[1], args[2], args[3]>>
         ELSE <<"clip", args[1], F32(attrs[n][1]), F32(attrs[n][2])>>
    [] OTHER               -> <<"op", n, args>>

RECURSIVE Expr(_)
Expr(e) ==
  IF e \notin edges THEN "dangling"
  ELSE IF e = GraphInput THEN "input"
  ELSE IF e \in ConstEdges THEN <<"const", CVal[e], CType[e]>>
  ELSE IF producer[e] \notin nodes THEN "dangling"
  ELSE NodeValue(producer[e],
                 [i \in DOMAIN inputs[producer[e]] |->
                    Expr(inputs[producer[e]][i])])

-----------------------------------------------------------------------------
(* The ConvOp of each Conv is created with what its algorithm can absorb; *)
(* the other nodes' kernels are never asked.                             *)
Init ==
  \E g \in GraphsUpTo(N), outs \in SUBSET (NodeIds \cup ReservableConsts), k \in [NodeIds -> Capacities] :
    /\ nodes = NodeIds
    /\ optype = [n \in NodeIds |-> g[n].type]
    /\ attrs = [n \in NodeIds |-> g[n].attr]
    /\ inputs = [n \in NodeIds |-> g[n].ins]
    /\ outputs = [n \in NodeIds |-> n]
    /\ edges = EdgeIds
    /\ producer = [e \in EdgeIds |-> IF e \in NodeIds THEN e ELSE NoNode]
    /\ consumers = [e \in EdgeIds |->
                      [n \in NodeIds |-> Occurrences(g[n].ins, e)]]
    /\ constants = ConstEdges
    /\ tensors = EdgeIds
    /\ reserved = {GraphInput} \cup outs
    /\ kernels = NodeIds
    /\ fused = [n \in NodeIds |-> <<>>]
    /\ capacity = [n \in NodeIds |-> IF g[n].type = "Conv" THEN k[n] ELSE 0]
    /\ cursor = 1
    /\ changed = FALSE
    /\ done = FALSE
    /\ initExpr = [e \in EdgeIds |-> Expr(e)]


-----------------------------------------------------------------------------
(* Edge::CalcConsumerCount: the number of distinct consumers.             *)
ConsumerCount(cs, e) == Cardinality({n \in NodeIds : cs[e][n] > 0})

(* IsReservedEdge(tensors, eid) of rules/utils: the edge has a tensor and *)
(* that tensor is reserved.                                               *)
IsReservedEdge(e) == e \in tensors /\ e \in reserved

(* ConvOp::TryFuseReLU / TryFuseReLU6: the kernel accepts the activation  *)
(* while it has room for it, and refuses it otherwise.                    *)
TryFuse(c) == Len(fused[c]) < capacity[c]

(* Mutant: the bound constants' data type is not checked. *)
IsReLU6_AnyType(n) ==
  /\ optype[n] = "Clip"
  /\ IF Len(inputs[n]) = 3
     THEN LET mn == inputs[n][2]
              mx == inputs[n][3]
          IN  /\ mn \in constants /\ mx \in constants
              /\ CVal[mn] = 0 /\ CVal[mx] = 6
     ELSE /\ attrs[n] # NoAttr
          /\ attrs[n] = <<0, 6>>

(* IsReLU6: a Clip whose bounds are float32 constants 0 and 6 (3 inputs), *)
(* or whose ClipParam attributes are 0 and 6 (any other input count).     *)
IsReLU6(n) ==
  /\ optype[n] = "Clip"
  /\ IF Len(inputs[n]) = 3
     THEN LET mn == inputs[n][2]
              mx == inputs[n][3]
          IN  /\ mn \in constants /\ mx \in constants
              /\ CType[mn] = "f32" /\ CType[mx] = "f32"
              /\ CVal[mn] = 0 /\ CVal[mx] = 6
     ELSE /\ attrs[n] # NoAttr
          /\ attrs[n] = <<0, 6>>

(* Mutant: the loop head forgets IsReservedEdge on the Conv output. *)
Candidate_IgnoreReserved(c) ==
  /\ c \in nodes
  /\ optype[c] = "Conv"
  /\ ConsumerCount(consumers, outputs[c]) = 1

(* The loop head of FuseConvActivation for node c: a live Conv whose      *)
(* output edge has exactly one consumer and is not reserved.              *)
Candidate(c) ==
  /\ c \in nodes
  /\ optype[c] = "Conv"
  /\ ConsumerCount(consumers, outputs[c]) = 1
  /\ ~IsReservedEdge(outputs[c])

(* conv_output_edge->CreateConsumerIter().Get() *)
Successor(c) == CHOOSE s \in NodeIds : consumers[outputs[c]][s] > 0

(* The activation the successor stands for, or "none". *)
ActivationOf(s) == IF optype[s] = "Relu" THEN "relu"
                   ELSE IF IsReLU6(s) THEN "relu6" ELSE "none"

Fusable(c) == Candidate(c) /\ ActivationOf(Successor(c)) # "none"

-----------------------------------------------------------------------------
(* Mutant: `graphchanged = true` set before the checks that `continue`. *)
Skip_MarksChanged ==
  /\ ~done
  /\ cursor \in NodeIds
  /\ ~(Fusable(cursor) /\ TryFuse(cursor))
  /\ cursor' = cursor + 1
  /\ changed' = TRUE
  /\ UNCHANGED <<nodes, optype, attrs, inputs, outputs, edges, producer,
                 consumers, constants, tensors, reserved, kernels, fused,
                 capacity, done, initExpr>>

(* A loop iteration that ends in `continue`: not a Conv (or a deleted id  *)
(* the iterator skips), a shared or reserved output, a successor that is  *)
(* no activation, or a ConvOp that refuses it.                            *)
Skip ==
  /\ ~done
  /\ cursor \in NodeIds
  /\ ~(Fusable(cursor) /\ TryFuse(cursor))
  /\ cursor' = cursor + 1
  /\ UNCHANGED <<nodes, optype, attrs, inputs, outputs, edges, producer,
                 consumers, constants, tensors, reserved, kernels, fused,
                 capacity, changed, done, initExpr>>

(* The rewiring shared by both fusions (lines 123-139):                   *)
(* conv -> conv_out -> act -> act_out  becomes  conv -> act_out.          *)
Rewire(c, a, deadEdges, cs) ==
  LET ce == outputs[c]
      ae == outputs[a]
  IN  /\ outputs' = [outputs EXCEPT ![c] = ae]
      /\ producer' = [producer EXCEPT ![ae] = c]
      /\ kernels' = kernels \ {a}
      /\ tensors' = tensors \ {ce}
      /\ nodes' = nodes \ {a}
      /\ edges' = edges \ ({ce} \cup deadEdges)
      /\ constants' = constants \ deadEdges
      /\ consumers' = cs
      /\ changed' = TRUE
      /\ cursor' = cursor + 1

(* Conv followed by Relu. *)
FuseReLU ==
  LET c == cursor
      a == Successor(c)
  IN  /\ ~done
      /\ cursor \in NodeIds
      /\ Fusable(c)
      /\ ActivationOf(a) = "relu"
      /\ TryFuse(c)
      /\ fused' = [fused EXCEPT ![c] = Append(@, "relu")]
      /\ Rewire(c, a, {}, consumers)
      /\ UNCHANGED <<optype, attrs, inputs, reserved, capacity, done, initExpr>>

(* Mutant: the Clip is removed from the min edge's consumers only. *)
FuseReLU6_KeepMaxConsumer ==
  LET c == cursor
      a == Successor(c)
      mn == inputs[a][2]
      mx == inputs[a][3]
      cs1 == [consumers EXCEPT ![mn][a] = @ - 1]
      Dead(e) == ConsumerCount(cs1, e) = 0 /\ ~IsReservedEdge(e)
  IN  /\ ~done
      /\ cursor \in NodeIds
      /\ Fusable(c)
      /\ ActivationOf(a) = "relu6"
      /\ TryFuse(c)
      /\ fused' = [fused EXCEPT ![c] = Append(@, "relu6")]
      /\ IF Len(inputs[a]) = 3
         THEN Rewire(c, a, {e \in {mn, mx} : Dead(e)}, cs1)
         ELSE Rewire(c, a, {}, consumers)
      /\ UNCHANGED <<optype, attrs, inputs, reserved, capacity, done, initExpr>>

(* Conv followed by a ReLU6 Clip.  With 3 inputs the Clip first leaves    *)
(* the consumer lists of its min/max edges, and each of them is deleted   *)
(* (with its constant) once it has no consumer and is not reserved.       *)
FuseReLU6 ==
  LET c == cursor
      a == Successor(c)
      three == Len(inputs[a]) = 3
      mn == inputs[a][2]
      mx == inputs[a][3]
      cs1 == [consumers EXCEPT ![mn][a] = @ - 1]
      cs2 == [cs1 EXCEPT ![mx][a] = @ - 1]
      Dead(e) == ConsumerCount(cs2, e) = 0 /\ ~IsReservedEdge(e)
  IN  /\ ~done
      /\ cursor \in NodeIds
      /\ Fusable(c)
      /\ ActivationOf(a) = "relu6"
      /\ TryFuse(c)
      /\ fused' = [fused EXCEPT ![c] = Append(@, "relu6")]
      /\ IF three
         THEN Rewire(c, a, {e \in {mn, mx} : Dead(e)}, cs2)
         ELSE Rewire(c, a, {}, consumers)
      /\ UNCHANGED <<optype, attrs, inputs, reserved, capacity, done, initExpr>>

(* Mutant: the node iterator of a new pass starts below the first id. *)
EndOfPass_StartAtZero ==
  /\ ~done
  /\ cursor = N + 1
  /\ IF changed
     THEN /\ cursor' = 0
          /\ changed' = FALSE
          /\ done' = FALSE
     ELSE /\ done' = TRUE
          /\ UNCHANGED <<cursor, changed>>
  /\ UNCHANGED <<nodes, optype, attrs, inputs, outputs, edges, producer,
                 consumers, constants, tensors, reserved, kernels, fused,
                 capacity, initExpr>>

(* `return graphchanged` and the optimizer's rule driver: run the rule    *)
(* again while it reports a change, stop at the first unchanged pass.     *)
EndOfPass ==
  /\ ~done
  /\ cursor = N + 1
  /\ IF changed
     THEN /\ cursor' = 1
          /\ changed' = FALSE
          /\ done' = FALSE
     ELSE /\ done' = TRUE
          /\ UNCHANGED <<cursor, changed>>
  /\ UNCHANGED <<nodes, optype, attrs, inputs, outputs, edges, producer,
                 consumers, constants, tensors, reserved, kernels, fused,
                 capacity, initExpr>>

Next == Skip \/ FuseReLU \/ FuseReLU6 \/ EndOfPass

(* The optimizer runs the rules on one thread until they are done. *)
Spec == Init /\ [][Next]_vars /\ WF_vars(Next)

-----------------------------------------------------------------------------
TypeOK ==
  /\ nodes \subseteq NodeIds
  /\ edges \subseteq EdgeIds
  /\ inputs \in [NodeIds -> Seq(EdgeIds)]
  /\ outputs \in [NodeIds -> EdgeIds]
  /\ producer \in [EdgeIds -> NodeIds \cup {NoNode}]
  /\ consumers \in [EdgeIds -> [NodeIds -> Nat]]
  /\ constants \subseteq ConstEdges
  /\ tensors \subseteq EdgeIds
  /\ kernels \subseteq NodeIds
  /\ fused \in [NodeIds -> Seq({"relu", "relu6"})]
  /\ capacity \in [NodeIds -> Capacities \cup {0}]
  /\ cursor \in 1 .. N + 1
  /\ changed \in BOOLEAN
  /\ done \in BOOLEAN



(* Topology integrity (spec 8): after every loop iteration each live      *)
(* edge's consumer counts are exactly the number of times each live node  *)
(* lists it as an input, no live node reads or writes a deleted edge,     *)
(* producers and outputs agree, and the constants and kernels tables      *)
(* have no entry for a deleted edge or node.  The ReLU6 path edits the    *)
(* consumer lists of constants shared with other Clips by hand and the    *)
(* rewiring moves an edge between producers, so this takes several        *)
(* fusions over shared constants to break.                                *)
TopologyIntegrity ==
  /\ \A e \in edges, n \in NodeIds :
       consumers[e][n] = IF n \in nodes THEN Occurrences(inputs[n], e) ELSE 0
  /\ \A n \in nodes :
       /\ ToSet(inputs[n]) \subseteq edges
       /\ outputs[n] \in edges
       /\ producer[outputs[n]] = n
  /\ \A e \in edges :
       producer[e] # NoNode => /\ producer[e] \in nodes
                               /\ outputs[producer[e]] = e
  /\ constants \subseteq edges
  /\ kernels = nodes

(* Fusion soundness (spec 4.3, 8): every reserved edge (graph input and   *)
(* outputs) survives, and every edge still in the graph computes the same *)
(* value as in the unfused graph: the fused Conv applies the removed      *)
(* activations, and no other consumer lost the edge it read.             *)
ValuesPreserved ==
  /\ reserved \subseteq edges
  /\ \A e \in edges : Expr(e) = initExpr[e]

(* The driver's loop ends (spec 4.3: passes bounded by the graph size). *)
Termination == <>done

-----------------------------------------------------------------------------
(* Refinement mapping to the node-level rewrite of spec 4.3: a node's     *)
(* inputs are the producers of its input edges (or the leaf edges        *)
(* themselves), and a node is pinned when its output edge is reserved.   *)
SrcMap ==
  [n \in NodeIds |->
     IF n \in nodes
     THEN [i \in DOMAIN inputs[n] |->
             IF producer[inputs[n][i]] # NoNode THEN producer[inputs[n][i]]
             ELSE inputs[n][i]]
     ELSE <<>>]

PinnedMap == {n \in nodes : IsReservedEdge(outputs[n])}

Abstract == INSTANCE ConvFusion
              WITH live <- nodes, op <- optype, attr <- attrs, src <- SrcMap,
                   pinned <- PinnedMap, absorbed <- fused, room <- capacity,
                   stopped <- done

(* FuseConvActivation, driven to its fixpoint, implements the rewrite of  *)
(* spec 4.3: every fusion it performs absorbs an activation that is the   *)
(* Conv's only reader, unpinned and accepted by the kernel, into that     *)
(* Conv in the node-level graph; loop iterations that `continue` and      *)
(* passes that end with a change are invisible; the driver stops only     *)
(* when no absorbable pair is left, and it does stop.                     *)
ConvFusionRefined == Abstract!ASpec

(* Every tensor in the optimizer's tensors map belongs to a live edge:   *)
(* the rule erases the tensor of the Conv output edge it deletes, and   *)
(* the spec says dangling references are never observable.              *)
TensorsMatchEdges == tensors = edges
=============================================================================
