----------------------- MODULE MC_FuseConvActivation -----------------------
(* Three nodes over every graph shape FuseConvActivation distinguishes,    *)
(* with three constant edges: float32 0, float32 6 and float16 6; the    *)
(* float32 6 may also be a graph output, and so reserved.               *)
EXTENDS FuseConvActivation

MC_N == 3
MC_GraphInput == 0
MC_ConstEdges == {4, 5, 6}
MC_ReservableConsts == {5}
MC_CVal == (4 :> 0) @@ (5 :> 6) @@ (6 :> 6)
MC_CType == (4 :> "f32") @@ (5 :> "f32") @@ (6 :> "f16")
MC_ClipConstPairs == {<<4, 5>>, <<4, 6>>}
MC_ClipAttrs == {<<0, 6>>, <<0, 1>>}
MC_Capacities == {1, 2}
=============================================================================
