---------------------------- MODULE MC_GemmPack ----------------------------
(* M and N up to 17 reach two 8-row blocks plus every tail bit; K up to   *)
(* 13 reaches a full 8-column step followed by the k & 4 and k & 1 tails. *)
EXTENDS GemmPack

MC_MaxM == 17
MC_MaxK == 13
MC_KNs == {5, 8, 16}
=============================================================================
