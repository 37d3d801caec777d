-------------------------- MODULE MC_NmsTmpBuffer --------------------------
(* Three requests of one, two or four bytes on a three-byte pool: two    *)
(* can hold scratch at once, a third may find the pool exhausted, and a  *)
(* four-byte request can never be served.                                *)
EXTENDS NmsTmpBuffer

CONSTANTS r1, r2, r3

MC_Requests == {r1, r2, r3}
MC_PoolSize == 3
MC_Sizes == {1, 2, 4}
=============================================================================
