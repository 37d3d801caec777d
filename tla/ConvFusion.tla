------------------------------ MODULE ConvFusion ------------------------------
(***************************************************************************)
(* What the Conv + activation rewrite promises (spec 4.3), on a node-level *)
(* dataflow graph without edge tables: a live Conv whose only reader is a  *)
(* Relu, or a Clip to the float32 constants 0 and 6, absorbs it when its   *)
(* output is not pinned (reserved) and its kernel has room for another     *)
(* activation; the absorbed node's readers then read the Conv, and the     *)
(* Conv's output takes over the absorbed node's pin.  The rewrite stops    *)
(* once no such pair is left.  Edges, consumer counts, the constants and   *)
(* tensors tables and the node iterator are implementation detail.         *)
(***************************************************************************)
EXTENDS Integers, Sequences, SequencesExt

CONSTANTS
  N,           \* nodes are 1 .. N
  GraphInput,  \* the graph's input, a leaf of the dataflow graph
  ConstEdges,  \* constant leaves
  CVal,        \* CVal[e]: the float stored in constant e
  CType        \* CType[e]: its data type

VARIABLES
  live,      \* nodes still in the graph
  op,        \* node -> operator type
  attr,      \* node -> Clip attribute bounds, <<>> if none
  src,       \* live node -> its inputs, each a node or a leaf
  pinned,    \* live nodes whose output is reserved
  absorbed,  \* node -> activations absorbed, in order
  room,      \* node -> how many activations its kernel can absorb
  stopped    \* the rewrite has reached its fixpoint

avars == <<live, op, attr, src, pinned, absorbed, room, stopped>>

Nodes == 1 .. N
Leaves == {GraphInput} \cup ConstEdges

Readers(c) == {n \in live : c \in Range(src[n])}

IsConstF32(e, v) == e \in ConstEdges /\ CType[e] = "f32" /\ CVal[e] = v

Activation(a) ==
  IF op[a] = "Relu" THEN "relu"
  ELSE IF /\ op[a] = "Clip"
          /\ IF Len(src[a]) = 3
             THEN IsConstF32(src[a][2], 0) /\ IsConstF32(src[a][3], 6)
             ELSE attr[a] = <<0, 6>>
       THEN "relu6"
  ELSE "none"

CanAbsorb(c, a) ==
  /\ c \in live /\ op[c] = "Conv"
  /\ c \notin pinned
  /\ Readers(c) = {a}
  /\ Activation(a) # "none"
  /\ Len(absorbed[c]) < room[c]

AInit ==
  /\ live = Nodes
  /\ src \in [Nodes -> Seq(Nodes \cup Leaves)]
  /\ pinned \subseteq Nodes
  /\ absorbed = [n \in Nodes |-> <<>>]
  /\ room \in [Nodes -> Nat]
  /\ stopped = FALSE

Absorb(c, a) ==
  /\ ~stopped
  /\ CanAbsorb(c, a)
  /\ live' = live \ {a}
  /\ src' = [n \in Nodes |->
               IF n = a THEN <<>>
               ELSE [i \in DOMAIN src[n] |-> IF src[n][i] = a THEN c ELSE src[n][i]]]
  /\ pinned' = IF a \in pinned THEN (pinned \ {a}) \cup {c} ELSE pinned
  /\ absorbed' = [absorbed EXCEPT ![c] = Append(@, Activation(a))]
  /\ UNCHANGED <<op, attr, room, stopped>>

Stop ==
  /\ ~stopped
  /\ \A c, a \in Nodes : ~CanAbsorb(c, a)
  /\ stopped' = TRUE
  /\ UNCHANGED <<live, op, attr, src, pinned, absorbed, room>>

ANext == (\E c, a \in Nodes : Absorb(c, a)) \/ Stop

ASpec == AInit /\ [][ANext]_avars /\ WF_avars(ANext)
=============================================================================
