----------------------- MODULE MC_SubgraphExtraInputs -----------------------
(* main has an If node n1 with branches s1 and s2; s1 has a Loop node n2 *)
(* with body s3.  main defines a, s1 defines c; every graph reads any    *)
(* subset of {a, c, d}, so names resolve at every depth, two              *)
(* branches of one node can pull in the same name, and d is free          *)
(* everywhere.                                                            *)
EXTENDS SubgraphExtraInputs

CONSTANTS main, s1, s2, s3, n1, n2, a, c, d

MC_Names == {a, c, d}
MC_Graphs == {main, s1, s2, s3}
MC_Nodes == {n1, n2}
MC_Owner == (s1 :> <<main, n1>>) @@ (s2 :> <<main, n1>>) @@ (s3 :> <<s1, n2>>)
MC_Defined == (main :> {a}) @@ (s1 :> {c}) @@ (s2 :> {}) @@ (s3 :> {})
=============================================================================
