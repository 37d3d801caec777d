------------------------- MODULE SubgraphExtraInputs -------------------------
(***************************************************************************)
(* ResolveExtraInputs (src/ppl/nn/models/onnx/utils.cc) composes a         *)
(* sub-graph with the graph of the node that owns it (If/Loop bodies):     *)
(* every extra input of the sub-graph, a value it reads but does not      *)
(* define, becomes an edge of the parent graph consumed by the owning     *)
(* node, and an extra input of the parent graph when the parent does not  *)
(* have that edge either.  The ONNX graph parser (not under src/) builds  *)
(* each graph's edges and its own extra inputs and resolves sub-graphs    *)
(* bottom-up: a sub-graph is composed into its parent once its own        *)
(* sub-graphs have been.  Edges are identified by their names.            *)
(***************************************************************************)
EXTENDS Integers, Sequences, FiniteSets, SequencesExt, Folds

CONSTANTS
  Names,     \* value names
  Graphs,    \* the main graph and its sub-graphs
  Nodes,     \* the nodes owning sub-graphs
  Owner,     \* Owner[s] = <<parent graph, owning node>> for a sub-graph s
  Defined    \* Defined[g]: names g defines (inputs, initializers, outputs)

Subs == DOMAIN Owner
Children(g) == {s \in Subs : Owner[s][1] = g}

VARIABLES
  uses,       \* uses[g]: names g's own nodes read (fixed by the model)
  edges,      \* edges[g]: names of g's edges (GraphTopo::AddEdge)
  extra,      \* extra[g]: g's extra inputs, in order (MarkAsExtraInput)
  consumers,  \* consumers[g][x][n]: refcount of node n on g's edge x
  nodeExtra,  \* nodeExtra[n]: the node's extra inputs (Node::AddExtraInput)
  resolved    \* sub-graphs already composed into their parents

vars == <<uses, edges, extra, consumers, nodeExtra, resolved>>

(* The graph parser's result for one graph: an edge for every name it    *)
(* defines or reads, and the names it reads but does not define marked   *)
(* as its extra inputs.                                                  *)
Init ==
  /\ uses \in [Graphs -> SUBSET Names]
  /\ edges = [g \in Graphs |-> Defined[g] \cup uses[g]]
  /\ extra = [g \in Graphs |-> SetToSeq(uses[g] \ Defined[g])]
  /\ consumers = [g \in Graphs |-> [x \in Names |-> [n \in Nodes |-> 0]]]
  /\ nodeExtra = [n \in Nodes |-> <<>>]
  /\ resolved = {}

(* Mutant: the parent's edge is marked as an extra input whether or not  *)
(* AddEdge created it.                                                   *)
AddExtraInputEdge_AlwaysMark(n, st, x) ==
  [edges |-> st.edges \cup {x},
   extra |-> Append(st.extra, x),
   cons  |-> [st.cons EXCEPT ![x][n] = @ + 1],
   nx    |-> Append(st.nx, x)]

(* Mutant: AddConsumer moved inside `if (ret_pair.second)`. *)
AddExtraInputEdge_ConsumerIfCreated(n, st, x) ==
  LET created == x \notin st.edges
  IN  [edges |-> st.edges \cup {x},
       extra |-> IF created THEN Append(st.extra, x) ELSE st.extra,
       cons  |-> IF created THEN [st.cons EXCEPT ![x][n] = @ + 1] ELSE st.cons,
       nx    |-> Append(st.nx, x)]

(* One iteration of the loop: AddEdge(name) returns the parent's edge of *)
(* that name, creating it if needed; only a created edge is marked as an *)
(* extra input of the parent; the owning node is added as a consumer and *)
(* gets the edge as an extra input.                                      *)
AddExtraInputEdge(n, st, x) ==
  LET created == x \notin st.edges
  IN  [edges |-> st.edges \cup {x},
       extra |-> IF created THEN Append(st.extra, x) ELSE st.extra,
       cons  |-> [st.cons EXCEPT ![x][n] = @ + 1],
       nx    |-> Append(st.nx, x)]

(* Mutant: the loop stops after the first extra input. *)
ResolveLoop_FirstOnly(n, st0, xs) ==
  IF xs = <<>> THEN st0 ELSE AddExtraInputEdge(n, st0, xs[1])

ResolveLoop(n, st0, xs) ==
  FoldLeft(LAMBDA st, x : AddExtraInputEdge(n, st, x), st0, xs)

(* ResolveExtraInputs(current = s, parent_node, parent_graph), called     *)
(* once s and the sub-graphs inside it have been parsed.                 *)
ResolveExtraInputs(s) ==
  /\ s \notin resolved
  /\ Children(s) \subseteq resolved
  /\ LET g  == Owner[s][1]
         n  == Owner[s][2]
         st == ResolveLoop(n, [edges |-> edges[g], extra |-> extra[g],
                               cons |-> consumers[g], nx |-> nodeExtra[n]], extra[s])
     IN  /\ edges' = [edges EXCEPT ![g] = st.edges]
         /\ extra' = [extra EXCEPT ![g] = st.extra]
         /\ consumers' = [consumers EXCEPT ![g] = st.cons]
         /\ nodeExtra' = [nodeExtra EXCEPT ![n] = st.nx]
  /\ resolved' = resolved \cup {s}
  /\ UNCHANGED uses

Next == \E s \in Subs : ResolveExtraInputs(s)

(* The graph parser composes each sub-graph as soon as it has parsed it. *)
Spec == Init /\ [][Next]_vars /\ WF_vars(Next)

-----------------------------------------------------------------------------
(* Count of x in a sequence. *)
Occurrences(xs, x) == Cardinality({i \in DOMAIN xs : xs[i] = x})

(* Spec 8, topology integrity, for the references ResolveExtraInputs     *)
(* creates: a node's consumer count on an edge of its graph equals the   *)
(* number of times the edge is among the node's extra inputs, and every  *)
(* extra input of a node is an edge of the node's graph.                 *)
ExtraConsumersMatch ==
  \A s \in Subs :
    LET g == Owner[s][1]
        n == Owner[s][2]
    IN  /\ \A x \in Names : consumers[g][x][n] = Occurrences(nodeExtra[n], x)
        /\ Range(nodeExtra[n]) \subseteq edges[g]

(* A graph's extra inputs never repeat and never name a value the graph  *)
(* defines itself: a value defined in the parent is consumed, not pulled *)
(* in again from outside.                                                *)
ExtraInputsFreeAndDistinct ==
  \A g \in Graphs :
    /\ IsInjective(extra[g])
    /\ Range(extra[g]) \cap Defined[g] = {}

(* Reference: the free names of a graph, the names it or any graph       *)
(* nested in it reads and it does not define.                            *)
RECURSIVE FreeNames(_)
FreeNames(g) ==
  (uses[g] \cup UNION {FreeNames(c) : c \in Children(g)}) \ Defined[g]

(* The parser composes every sub-graph into its parent, bottom-up, and  *)
(* the graphs then stay with extra inputs that are exactly their free   *)
(* names: nothing a nested body reads is lost on the way up, nothing    *)
(* resolvable is left unresolved, and no graph waits forever on a       *)
(* sub-graph that cannot be composed.                                   *)
ExtraInputsAreFreeNames ==
  <>[](resolved = Subs /\ \A g \in Graphs : Range(extra[g]) = FreeNames(g))
=============================================================================
