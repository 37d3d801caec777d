------------------------------ MODULE GemmPack ------------------------------
(***************************************************************************)
(* The packing routines of the x86 fp32 GEMM                               *)
(* (src/.../x86/fp32/gemm/common/gemm_base_operation_fp32_avx.h):          *)
(* gemm_pack_b_operation_fp32_avx and gemm_pack_a_m8/m4_operation_fp32_avx *)
(* copy a matrix into the blocked layout the micro-kernels read, and      *)
(* gemm_fp32_apply_betas_avx initialises C from bias, sum and C itself.   *)
(*                                                                         *)
(* A routine is modelled by the set of its element writes <<dst, src>>:    *)
(* offsets into packedB/packedA and into B/A.  Every loop of the code is   *)
(* a RECURSIVE operator carrying the loop's counter and its l_src/l_dst    *)
(* pointers, and each unrolled step, vector load/store and tail macro is   *)
(* the set of elements it copies.  Float values are not modelled: a write  *)
(* is identified by the two offsets it connects; a write of              *)
(* apply_betas by the C offset and the terms it sums (below).             *)
(***************************************************************************)
EXTENDS Integers, FiniteSets, Bitwise

(* _mm256_storeu_ps(d, _mm256_loadu_ps(s)), _mm_storeu_ps, the int64 and   *)
(* scalar moves of the M_TAIL_* macros and memcpy32_avx(d, s, len).        *)
Copy(d, s, len) == {<<d + i, s + i>> : i \in 0 .. len - 1}

(* transpose_8x8_fp32_avx / transpose_4x4_fp32_sse(src, lds, ldd, dst):   *)
(* row j of dst is column j of the n x n block of src.                    *)
Transpose(s, lds, ldd, d, n) ==
  {<<d + j * ldd + i, s + i * lds + j>> : i, j \in 0 .. n - 1}

Bit(k, b) == (k & b) # 0

(* ppl::kernel round(x, a): x rounded down to a multiple of a. *)
Round(x, a) == (x \div a) * a

-----------------------------------------------------------------------------
(*************************** gemm_pack_b, TRANS ****************************)
(* K_TRANS_B_STEP(j) for a block of r rows of B(N, K):                     *)
(* l_dst[j * ldpacked_b + i] = l_src[j + ldb * i], i < r.                  *)
KStepB(s, d, js, r, ldb, ldp) ==
  {<<d + j * ldp + i, s + j + ldb * i>> : j \in js, i \in 0 .. r - 1}

RECURSIVE TransBK(_, _, _, _, _, _)

(* Mutant: the k & 4 tail forgets `l_dst += 4 * ldpacked_b`. *)
TransBK_NoDstAdvance(k, s, d, r, ldb, ldp) ==
  IF k >= 8
  THEN (IF r = 8 THEN Transpose(s, ldb, ldp, d, 8)
                 ELSE KStepB(s, d, 0 .. 7, r, ldb, ldp))
       \cup TransBK(k - 8, s + 8, d + 8 * ldp, r, ldb, ldp)
  ELSE LET s1 == IF Bit(k, 4) THEN s + 4 ELSE s
           s2 == IF Bit(k, 2) THEN s1 + 2 ELSE s1
           d2 == IF Bit(k, 2) THEN d + 2 * ldp ELSE d
       IN  (IF Bit(k, 4) THEN KStepB(s, d, 0 .. 3, r, ldb, ldp) ELSE {})
           \cup (IF Bit(k, 2) THEN KStepB(s1, d, 0 .. 1, r, ldb, ldp) ELSE {})
           \cup (IF Bit(k, 1) THEN KStepB(s2, d2, {0}, r, ldb, ldp) ELSE {})

(* The k loop of one block of r rows: 8 columns at a time (an 8 x 8       *)
(* transpose for a full block), then the k & 4, k & 2, k & 1 tails.       *)
TransBK(k, s, d, r, ldb, ldp) ==
  IF k >= 8
  THEN (IF r = 8 THEN Transpose(s, ldb, ldp, d, 8)
                 ELSE KStepB(s, d, 0 .. 7, r, ldb, ldp))
       \cup TransBK(k - 8, s + 8, d + 8 * ldp, r, ldb, ldp)
  ELSE LET s1 == IF Bit(k, 4) THEN s + 4 ELSE s
           d1 == IF Bit(k, 4) THEN d + 4 * ldp ELSE d
           s2 == IF Bit(k, 2) THEN s1 + 2 ELSE s1
           d2 == IF Bit(k, 2) THEN d1 + 2 * ldp ELSE d1
       IN  (IF Bit(k, 4) THEN KStepB(s, d, 0 .. 3, r, ldb, ldp) ELSE {})
           \cup (IF Bit(k, 2) THEN KStepB(s1, d1, 0 .. 1, r, ldb, ldp) ELSE {})
           \cup (IF Bit(k, 1) THEN KStepB(s2, d2, {0}, r, ldb, ldp) ELSE {})

(* The n loop: blocks of 8 rows, then the n & 4, n & 2, n & 1 blocks. *)
RECURSIVE TransBN(_, _, _, _, _, _)
TransBN(n, s, d, K, ldb, ldp) ==
  IF n >= 8
  THEN TransBK(K, s, d, 8, ldb, ldp)
       \cup TransBN(n - 8, s + 8 * ldb, d + 8, K, ldb, ldp)
  ELSE LET s1 == IF Bit(n, 4) THEN s + 4 * ldb ELSE s
           d1 == IF Bit(n, 4) THEN d + 4 ELSE d
           s2 == IF Bit(n, 2) THEN s1 + 2 * ldb ELSE s1
           d2 == IF Bit(n, 2) THEN d1 + 2 ELSE d1
       IN  (IF Bit(n, 4) THEN TransBK(K, s, d, 4, ldb, ldp) ELSE {})
           \cup (IF Bit(n, 2) THEN TransBK(K, s1, d1, 2, ldb, ldp) ELSE {})
           \cup (IF Bit(n, 1) THEN TransBK(K, s2, d2, 1, ldb, ldp) ELSE {})

KPackStep(s, d, js, kN, ldb, ldp) ==
  UNION {Copy(d + j * ldp + b * 8, s + j * ldb + b * 8, 8) :
           j \in js, b \in {b \in 0 .. 7 : kN > b * 8}}

RECURSIVE NoTransBAligned(_, _, _, _, _, _)
NoTransBAligned(k, s, d, kN, ldb, ldp) ==
  IF k >= 4
  THEN KPackStep(s, d, 0 .. 3, kN, ldb, ldp)
       \cup NoTransBAligned(k - 4, s + 4 * ldb, d + 4 * ldp, kN, ldb, ldp)
  ELSE LET s1 == IF Bit(k, 2) THEN s + 2 * ldb ELSE s
           d1 == IF Bit(k, 2) THEN d + 2 * ldp ELSE d
       IN  (IF Bit(k, 2) THEN KPackStep(s, d, 0 .. 1, kN, ldb, ldp) ELSE {})
           \cup (IF Bit(k, 1) THEN KPackStep(s1, d1, {0}, kN, ldb, ldp) ELSE {})

(* memcpy32_avx of lN floats per row, four rows at a time, then one. *)
RECURSIVE NoTransBCopy(_, _, _, _, _, _)
NoTransBCopy(k, s, d, lN, ldb, ldp) ==
  IF k >= 4
  THEN UNION {Copy(d + j * ldp, s + j * ldb, lN) : j \in 0 .. 3}
       \cup NoTransBCopy(k - 4, s + 4 * ldb, d + 4 * ldp, lN, ldb, ldp)
  ELSE IF k > 0
  THEN Copy(d, s, lN) \cup NoTransBCopy(k - 1, s + ldb, d + ldp, lN, ldb, ldp)
  ELSE {}

(* Mutant: the vector path taken for any compile-time kN, multiple of 8  *)
(* or not.                                                                *)
PackB_AnyKN(trans, ldp, kN, N, K, ldb) ==
  LET lN == IF kN # 0 THEN kN ELSE N
  IN  IF trans THEN TransBN(lN, 0, 0, K, ldb, ldp)
      ELSE IF kN # 0 /\ kN <= 8 * 8
      THEN NoTransBAligned(K, 0, 0, kN, ldb, ldp)
      ELSE NoTransBCopy(K, 0, 0, lN, ldb, ldp)

(* gemm_pack_b_operation_fp32_avx<typeB, ldpacked_b, kN>(B, N, K, ldb). *)
PackB(trans, ldp, kN, N, K, ldb) ==
  LET lN == IF kN # 0 THEN kN ELSE N
      alignedKN == kN # 0 /\ kN % 8 = 0
  IN  IF trans THEN TransBN(lN, 0, 0, K, ldb, ldp)
      ELSE IF alignedKN /\ kN <= 8 * 8
      THEN NoTransBAligned(K, 0, 0, kN, ldb, ldp)
      ELSE NoTransBCopy(K, 0, 0, lN, ldb, ldp)


-----------------------------------------------------------------------------
(********************** gemm_pack_a_m8 / m4, TRANS *************************)
(* A is (K, M); packedA is (M/u, K, u) for the first Round(M, u) columns   *)
(* followed by a (K, m_tail) block.  u is unroll_m: 8 or 4.               *)

(* The m loop of one group of 4 k rows: one vector move per k row. *)
RECURSIVE ABodyRows4(_, _, _, _, _, _)
ABodyRows4(m, s, d, u, K, lda) ==
  IF m >= u
  THEN UNION {Copy(d + j * u, s + j * lda, u) : j \in 0 .. 3}
       \cup ABodyRows4(m - u, s + u, d + K * u, u, K, lda)
  ELSE {}

(* The m loop of one k row: two vector moves while m >= 2u, then one. *)
RECURSIVE ABodyRow1(_, _, _, _, _)
ABodyRow1(m, s, d, u, K) ==
  IF m >= 2 * u
  THEN Copy(d, s, u) \cup Copy(d + K * u, s + u, u)
       \cup ABodyRow1(m - 2 * u, s + 2 * u, d + K * u * 2, u, K)
  ELSE IF m > 0 THEN Copy(d, s, u) ELSE {}

(* The m_tail & 4, & 2, & 1 moves of one k row. *)
TailBits(m, s, d) ==
  LET s1 == IF Bit(m, 4) THEN s + 4 ELSE s
      d1 == IF Bit(m, 4) THEN d + 4 ELSE d
      s2 == IF Bit(m, 2) THEN s1 + 2 ELSE s1
      d2 == IF Bit(m, 2) THEN d1 + 2 ELSE d1
  IN  (IF Bit(m, 4) THEN Copy(d, s, 4) ELSE {})
      \cup (IF Bit(m, 2) THEN Copy(d1, s1, 2) ELSE {})
      \cup (IF Bit(m, 1) THEN Copy(d2, s2, 1) ELSE {})

(* The single-k-row loop `while (k > 0)` after the groups of four. *)
RECURSIVE ATransK1(_, _, _, _, _, _, _, _, _)
ATransK1(k, s, db, dt, u, mb, mt, K, lda) ==
  IF k > 0
  THEN (IF mb # 0 THEN ABodyRow1(mb, s, db, u, K) ELSE {})
       \cup (IF mt # 0 THEN TailBits(mt, s + mb, dt) ELSE {})
       \cup ATransK1(k - 1, s + lda, db + u, dt + mt, u, mb, mt, K, lda)
  ELSE {}

(* The k loop in groups of four rows: the body columns, then the          *)
(* `switch (m_tail)` whose case n moves n floats of each of the 4 rows.   *)
RECURSIVE ATransK(_, _, _, _, _, _, _, _, _)
ATransK(k, s, db, dt, u, mb, mt, K, lda) ==
  IF k >= 4
  THEN (IF mb # 0 THEN ABodyRows4(mb, s, db, u, K, lda) ELSE {})
       \cup (IF mt # 0
             THEN UNION {Copy(dt + j * mt, s + mb + j * lda, mt) : j \in 0 .. 3}
             ELSE {})
       \cup ATransK(k - 4, s + 4 * lda, db + 4 * u, dt + 4 * mt, u, mb, mt, K, lda)
  ELSE ATransK1(k, s, db, dt, u, mb, mt, K, lda)

(************************ gemm_pack_a_m8 / m4, NOTRANS *********************)
(* A is (M, K).  K_TRANS_A_STEP(j) of a full block of u rows. *)
KStepA(s, d, js, u, lda) ==
  {<<d + j * u + i, s + j + lda * i>> : j \in js, i \in 0 .. u - 1}

(* m8: 8 x 8 transposes along k, then the k & 4, & 2, & 1 steps. *)
RECURSIVE A8BodyK(_, _, _, _)
A8BodyK(k, s, d, lda) ==
  IF k >= 8
  THEN Transpose(s, lda, 8, d, 8) \cup A8BodyK(k - 8, s + 8, d + 8 * 8, lda)
  ELSE LET s1 == IF Bit(k, 4) THEN s + 4 ELSE s
           d1 == IF Bit(k, 4) THEN d + 4 * 8 ELSE d
           s2 == IF Bit(k, 2) THEN s1 + 2 ELSE s1
           d2 == IF Bit(k, 2) THEN d1 + 2 * 8 ELSE d1
       IN  (IF Bit(k, 4) THEN KStepA(s, d, 0 .. 3, 8, lda) ELSE {})
           \cup (IF Bit(k, 2) THEN KStepA(s1, d1, 0 .. 1, 8, lda) ELSE {})
           \cup (IF Bit(k, 1) THEN KStepA(s2, d2, {0}, 8, lda) ELSE {})

(* m4: two 4 x 4 transposes per 8 columns, one for k & 4, then steps. *)
RECURSIVE A4BodyK(_, _, _, _)
A4BodyK(k, s, d, lda) ==
  IF k >= 8
  THEN Transpose(s, lda, 4, d, 4) \cup Transpose(s + 4, lda, 4, d + 4 * 4, 4)
       \cup A4BodyK(k - 8, s + 8, d + 8 * 4, lda)
  ELSE LET s1 == IF Bit(k, 4) THEN s + 4 ELSE s
           d1 == IF Bit(k, 4) THEN d + 4 * 4 ELSE d
           s2 == IF Bit(k, 2) THEN s1 + 2 ELSE s1
           d2 == IF Bit(k, 2) THEN d1 + 2 * 4 ELSE d1
       IN  (IF Bit(k, 4) THEN Transpose(s, lda, 4, d, 4) ELSE {})
           \cup (IF Bit(k, 2) THEN KStepA(s1, d1, 0 .. 1, 4, lda) ELSE {})
           \cup (IF Bit(k, 1) THEN KStepA(s2, d2, {0}, 4, lda) ELSE {})

(* K_TRANS_A_STEP(j) of the last m < u rows, split by the bits of m. *)
MStep(s, d, j, m, lda) ==
  LET s1 == IF Bit(m, 4) THEN s + 4 * lda ELSE s
      d1 == IF Bit(m, 4) THEN d + 4 ELSE d
      s2 == IF Bit(m, 2) THEN s1 + 2 * lda ELSE s1
      d2 == IF Bit(m, 2) THEN d1 + 2 ELSE d1
  IN  (IF Bit(m, 4) THEN {<<d + j * m + i, s + j + lda * i>> : i \in 0 .. 3}
                    ELSE {})
      \cup (IF Bit(m, 2) THEN {<<d1 + j * m + i, s1 + j + lda * i>> : i \in 0 .. 1}
                         ELSE {})
      \cup (IF Bit(m, 1) THEN {<<d2 + j * m, s2 + j>>} ELSE {})

MSteps(s, d, js, m, lda) == UNION {MStep(s, d, j, m, lda) : j \in js}

(* The k loop of the last m rows: 8 steps at a time, then k & 4, 2, 1. *)
RECURSIVE ATailK(_, _, _, _, _)
ATailK(k, s, d, m, lda) ==
  IF k >= 8
  THEN MSteps(s, d, 0 .. 7, m, lda) \cup ATailK(k - 8, s + 8, d + 8 * m, m, lda)
  ELSE LET s1 == IF Bit(k, 4) THEN s + 4 ELSE s
           d1 == IF Bit(k, 4) THEN d + 4 * m ELSE d
           s2 == IF Bit(k, 2) THEN s1 + 2 ELSE s1
           d2 == IF Bit(k, 2) THEN d1 + 2 * m ELSE d1
       IN  (IF Bit(k, 4) THEN MSteps(s, d, 0 .. 3, m, lda) ELSE {})
           \cup (IF Bit(k, 2) THEN MSteps(s1, d1, 0 .. 1, m, lda) ELSE {})
           \cup (IF Bit(k, 1) THEN MSteps(s2, d2, {0}, m, lda) ELSE {})

(* The m loop: blocks of u rows, then the remaining m > 0 rows. *)
RECURSIVE ANoTransM(_, _, _, _, _, _)
ANoTransM(m, s, d, u, K, lda) ==
  IF m >= u
  THEN (IF u = 8 THEN A8BodyK(K, s, d, lda) ELSE A4BodyK(K, s, d, lda))
       \cup ANoTransM(m - u, s + u * lda, d + u * K, u, K, lda)
  ELSE IF m > 0 THEN ATailK(K, s, d, m, lda) ELSE {}

(* Mutant: dst_tail = packedA + m_body, the K factor dropped. *)
PackA_TailAtMBody(u, trans, M, K, lda) ==
  LET mb == Round(M, u)
  IN  IF trans THEN ATransK(K, 0, 0, mb, u, mb, M - mb, K, lda)
      ELSE ANoTransM(M, 0, 0, u, K, lda)

(* gemm_pack_a_m8_operation_fp32_avx (u = 8) and                         *)
(* gemm_pack_a_m4_operation_fp32_avx (u = 4) of A(M, K) or A(K, M).      *)
PackA(u, trans, M, K, lda) ==
  LET mb == Round(M, u)
  IN  IF trans THEN ATransK(K, 0, 0, K * mb, u, mb, M - mb, K, lda)
      ELSE ANoTransM(M, 0, 0, u, K, lda)


-----------------------------------------------------------------------------
(* One call of a packing routine with its arguments.  ld is ldb or lda,   *)
(* at least the length of a source row; ldp is the template argument     *)
(* ldpacked_b, at least the packed row length lN; kN is the template      *)
(* argument fixing N at compile time (0: N is a run-time argument).       *)
-----------------------------------------------------------------------------
(* gemm_fp32_apply_betas_avx<typesum, typebias>.  The value written to C  *)
(* at an offset is the sum of up to three terms, kept as the elements     *)
(* they read: b, the bias element times beta_bias; s, the sum element     *)
(* times beta_sum; c, the old C element times beta; -1 for a term that is *)
(* absent.                                                                *)
NoTerm == -1

(* One lane: y from the bias (SCALAR: bias[0], ROW_VEC: l_bias, COL_VEC: *)
(* bias[m]), plus l_sum for NOTRANS, plus l_c when beta != 0.            *)
Lane(tsum, tbias, hasBeta, m, lb, ls, lc) ==
  <<lc, [b |-> CASE tbias = "EMPTY"   -> NoTerm
                 [] tbias = "SCALAR"  -> 0
                 [] tbias = "ROW_VEC" -> lb
                 [] tbias = "COL_VEC" -> m,
         s |-> IF tsum = "NOTRANS" THEN ls ELSE NoTerm,
         c |-> IF hasBeta THEN lc ELSE NoTerm]>>

(* The 16-wide step: two 8-lane vectors at l_c + 0 and l_c + 8. *)
BetasVec(tsum, tbias, hasBeta, m, lb, ls, lc) ==
  {Lane(tsum, tbias, hasBeta, m, lb + v + i, ls + v + i, lc + v + i) :
     v \in {0, 8}, i \in 0 .. 7}

(* Mutant: the scalar tail does not advance l_sum. *)
RECURSIVE BetasTail_NoSumAdvance(_, _, _, _, _, _, _, _)
BetasTail_NoSumAdvance(tsum, tbias, hasBeta, m, n, lb, ls, lc) ==
  IF n > 0
  THEN {Lane(tsum, tbias, hasBeta, m, lb, ls, lc)}
       \cup BetasTail_NoSumAdvance(tsum, tbias, hasBeta, m, n - 1,
              IF tbias = "ROW_VEC" THEN lb + 1 ELSE lb, ls, lc + 1)
  ELSE {}

(* while (n > 0): one element, then l_bias, l_sum and l_c advance by 1. *)
RECURSIVE BetasTail(_, _, _, _, _, _, _, _)
BetasTail(tsum, tbias, hasBeta, m, n, lb, ls, lc) ==
  IF n > 0
  THEN {Lane(tsum, tbias, hasBeta, m, lb, ls, lc)}
       \cup BetasTail(tsum, tbias, hasBeta, m, n - 1,
              IF tbias = "ROW_VEC" THEN lb + 1 ELSE lb,
              IF tsum = "NOTRANS" THEN ls + 1 ELSE ls, lc + 1)
  ELSE {}

(* while (n >= unroll_n): a 16-wide step, the pointers advance by 16;    *)
(* then the scalar tail.                                                 *)
RECURSIVE BetasBody(_, _, _, _, _, _, _, _)
BetasBody(tsum, tbias, hasBeta, m, n, lb, ls, lc) ==
  IF n >= 16
  THEN BetasVec(tsum, tbias, hasBeta, m, lb, ls, lc)
       \cup BetasBody(tsum, tbias, hasBeta, m, n - 16,
              IF tbias = "ROW_VEC" THEN lb + 16 ELSE lb,
              IF tsum = "NOTRANS" THEN ls + 16 ELSE ls, lc + 16)
  ELSE BetasTail(tsum, tbias, hasBeta, m, n, lb, ls, lc)

(* The row loop: l_bias = bias for ROW_VEC, l_sum = sum + m * ldsum for  *)
(* NOTRANS (nullptr otherwise, never read), l_c = C + m * ldc.           *)
ApplyBetas(tsum, tbias, beta, M, N, ldc, ldsum) ==
  UNION {BetasBody(tsum, tbias, beta # 0, m, N, 0,
                   IF tsum = "NOTRANS" THEN m * ldsum ELSE 0, m * ldc) :
           m \in 0 .. M - 1}

CONSTANTS
  MaxM,   \* largest M (pack_a) and N (pack_b)
  MaxK,   \* largest K
  KNs     \* template values of kN other than 0

VARIABLES
  call,      \* the routine and its arguments
  writes,    \* the element writes the call made
  returned   \* the call has returned

vars == <<call, writes, returned>>

LN(c) == IF c.kN # 0 THEN c.kN ELSE c.N
SrcRow(c) == IF c.fn = "pack_b" THEN (IF c.trans THEN c.K ELSE LN(c))
             ELSE (IF c.trans THEN c.M ELSE c.K)

PackBCalls ==
  {c \in [fn : {"pack_b"}, trans : BOOLEAN, kN : {0} \cup KNs, N : 0 .. MaxM,
          K : 0 .. MaxK, ld : 0 .. MaxM + 1, ldp : 0 .. MaxM + 3,
          M : {0}, u : {0}] :
     /\ c.kN # 0 => c.N = c.kN
     /\ c.ld \in {SrcRow(c), SrcRow(c) + 1}
     /\ c.ldp \in {LN(c), LN(c) + 3}}

PackACalls ==
  {c \in [fn : {"pack_a"}, trans : BOOLEAN, u : {4, 8}, M : 0 .. MaxM,
          K : 0 .. MaxK, ld : 0 .. MaxM + 1, kN : {0}, N : {0}, ldp : {0}] :
     c.ld \in {SrcRow(c), SrcRow(c) + 1}}

(* C is M x N with row stride ldc (N or N + 1), sum M x N with stride    *)
(* ldsum (N or N + 2) when typesum is NOTRANS; beta is zero or not.       *)
BetasCalls ==
  {c \in [fn : {"betas"}, tsum : {"EMPTY", "NOTRANS"},
          tbias : {"EMPTY", "SCALAR", "ROW_VEC", "COL_VEC"}, beta : {0, 1},
          M : 0 .. 2, N : 0 .. MaxM, ld : 0 .. MaxM + 1, ldp : 0 .. MaxM + 2] :
     c.ld \in {c.N, c.N + 1} /\ c.ldp \in {c.N, c.N + 2}}

Init ==
  /\ call \in PackBCalls \cup PackACalls \cup BetasCalls
  /\ writes = {}
  /\ returned = FALSE

CallPackB ==
  /\ ~returned
  /\ call.fn = "pack_b"
  /\ writes' = PackB(call.trans, call.ldp, call.kN, call.N, call.K, call.ld)
  /\ returned' = TRUE
  /\ UNCHANGED call

CallPackA ==
  /\ ~returned
  /\ call.fn = "pack_a"
  /\ writes' = PackA(call.u, call.trans, call.M, call.K, call.ld)
  /\ returned' = TRUE
  /\ UNCHANGED call

CallApplyBetas ==
  /\ ~returned
  /\ call.fn = "betas"
  /\ writes' = ApplyBetas(call.tsum, call.tbias, call.beta, call.M, call.N, call.ld, call.ldp)
  /\ returned' = TRUE
  /\ UNCHANGED call

Next == CallPackB \/ CallPackA \/ CallApplyBetas

Spec == Init /\ [][Next]_vars

-----------------------------------------------------------------------------
(* Sizes of the source matrix and of the packed buffer, in floats. *)
SrcSize(c) == IF c.fn = "pack_b" THEN (IF c.trans THEN LN(c) ELSE c.K) * c.ld
              ELSE (IF c.trans THEN c.K ELSE c.M) * c.ld
DstSize(c) == IF c.fn = "pack_b" THEN c.K * c.ldp ELSE c.M * c.K

(* The number of bias elements apply_betas may read. *)
BiasSize(c) == CASE c.tbias = "SCALAR" -> 1 [] c.tbias = "ROW_VEC" -> c.N
                 [] c.tbias = "COL_VEC" -> c.M [] OTHER -> 0
(* Reference layout of packedB: row k of length ldpacked_b holds B(k, n) *)
(* (NOTRANS) or B(n, k) (TRANS) for n < lN.                              *)
RefPackB(c) ==
  {<<k * c.ldp + n, IF c.trans THEN n * c.ld + k ELSE k * c.ld + n>> :
     n \in 0 .. LN(c) - 1, k \in 0 .. c.K - 1}

(* Reference layout of packedA: column blocks of u rows of A as (K, u)   *)
(* panels, then the last M mod u rows as one (K, M mod u) panel.         *)
RefPackA(c) ==
  LET body == (c.M \div c.u) * c.u
      tail == c.M - body
      Dst(m, k) == IF m < body THEN (m \div c.u) * c.K * c.u + k * c.u + (m % c.u)
                   ELSE c.K * body + k * tail + (m - body)
  IN  {<<Dst(m, k), IF c.trans THEN k * c.ld + m ELSE m * c.ld + k>> :
         m \in 0 .. c.M - 1, k \in 0 .. c.K - 1}

(* gemm_pack_b writes exactly the reference layout: every element of the *)
(* packed block comes from the right element of B, through the 8-row     *)
(* transposes, the 4/2/1-row blocks and the k tails alike.               *)
PackBLayout == returned /\ call.fn = "pack_b" => writes = RefPackB(call)

(* gemm_pack_a_m8/m4 write exactly the reference layout, through the     *)
(* body panels, the m_tail switch and the single-row k loop.             *)
PackALayout == returned /\ call.fn = "pack_a" => writes = RefPackA(call)

(* GEMM's C = beta * C + beta_bias * bias + beta_sum * sum, element by   *)
(* element: every C(m, n) is stored once it has been computed from the   *)
(* old C(m, n) exactly when beta is not zero, from sum(m, n) for a        *)
(* NOTRANS sum, and from the bias element the bias type names (bias[0],  *)
(* bias[n] or bias[m]); nothing outside the M x N block is written, in   *)
(* the 16-wide steps and the scalar tail alike.                           *)
RefBetas(c) ==
  {<<m * c.ld + n,
     [b |-> CASE c.tbias = "EMPTY" -> NoTerm [] c.tbias = "SCALAR" -> 0
              [] c.tbias = "ROW_VEC" -> n [] c.tbias = "COL_VEC" -> m,
      s |-> IF c.tsum = "NOTRANS" THEN m * c.ldp + n ELSE NoTerm,
      c |-> IF c.beta # 0 THEN m * c.ld + n ELSE NoTerm]>> :
     m \in 0 .. c.M - 1, n \in 0 .. c.N - 1}

BetasApplied == returned /\ call.fn = "betas" => writes = RefBetas(call)
=============================================================================
