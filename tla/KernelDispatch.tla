---------------------------- MODULE KernelDispatch ----------------------------
(***************************************************************************)
(* The dispatch layers in front of the numeric kernels: which kernel a     *)
(* call reaches, with which arguments, or RC_UNSUPPORTED.                  *)
(*  - arm_server neon cast (arm/.../cast/neon/cast.cpp): a switch on       *)
(*    CAST_TYPE(idt, odt) = idt << 16 | (odt & 0x0F);                      *)
(*  - riscv reduce_fp32 (riscv/.../fp32/reduce/reduce_fp32.cpp): the      *)
(*    no-op copy, the rank check, axis normalisation and sorting, the     *)
(*    contiguity test and the per-format kernel choice;                   *)
(*  - riscv arithmetic_fp32 and relation_int64: the eltwise shortcut and  *)
(*    the per-format broadcast kernels.                                   *)
(* Of the kernels, only cast_kernel's element conversion is modelled.     *)
(* Shapes are sequences of dims; datatypes are the datatype_t values of   *)
(* ppl.common; element values are counted in halves (v stands for v/2),   *)
(* so that fractions, truncation and truthiness all occur.                *)
(***************************************************************************)
EXTENDS Integers, Sequences, FiniteSets, SequencesExt, Folds, Bitwise

CONSTANTS
  DT,          \* DT[name]: the datatype_t value of a ppl.common datatype
  CastCases,   \* the <<idt, odt>> pairs of the switch's cases in this build
  Dims,        \* values a dim may take
  MaxRank,     \* largest rank of the inputs
  MaxDims      \* PPL_RISCV_TENSOR_MAX_DIMS()

Elements(s) == FoldLeft(LAMBDA a, b : a * b, 1, s)
Shapes == UNION {[1 .. k -> Dims] : k \in 1 .. MaxRank}

-----------------------------------------------------------------------------
(* CAST_TYPE(idt, odt). *)
CastType(idt, odt) == idt * 65536 + (odt & 15)

(* Mutant: no `idt == odt` memcpy shortcut ahead of the switch. *)
Cast_NoSameTypeCopy(idt, odt) ==
  LET hits == {c \in CastCases : CastType(DT[c[1]], DT[c[2]]) = CastType(DT[idt], DT[odt])}
  IN  IF hits = {} THEN "unsupported" ELSE CHOOSE c \in hits : TRUE

(* cast(src_shape, dst_shape, src, dst): memcpy when the types agree,    *)
(* else the cast_kernel of the case whose label equals CAST_TYPE of the *)
(* pair (labels are distinct, or the switch would not compile), else    *)
(* RC_UNSUPPORTED.                                                      *)
Cast(idt, odt) ==
  LET hits == {c \in CastCases : CastType(DT[c[1]], DT[c[2]]) = CastType(DT[idt], DT[odt])}
  IN  IF DT[idt] = DT[odt] THEN "memcpy"
      ELSE IF hits = {} THEN "unsupported"
      ELSE CHOOSE c \in hits : TRUE

-----------------------------------------------------------------------------
(* The element values a tensor of type t holds, in halves. *)
IntTypes == {"UINT8", "UINT16", "INT8", "INT64", "BOOL"}
Values(t) ==
  CASE t = "BOOL"                   -> {0, 2}
    [] t \in {"UINT8", "UINT16"}    -> {0, 2, 6}
    [] t \in {"INT8", "INT64"}      -> {-4, 0, 2}
    [] t \in {"FLOAT16", "FLOAT32", "FLOAT64"} -> {-3, -1, 0, 1, 4}
    [] OTHER                        -> {0}

(* The C++ conversion of `dst[i] = src[i]` to type t: a floating value   *)
(* is truncated toward zero when t is an integer type, every value here  *)
(* being in t's range; floating types hold these values exactly.        *)
Convert(t, v) ==
  IF t \in IntTypes THEN 2 * (IF v >= 0 THEN v \div 2 ELSE -((-v) \div 2))
  ELSE v

(* cast_kernel<srcT, dstT>, one element: a BOOL destination gets         *)
(* src != 0 ? 1 : 0, any other the converted value.                      *)
CastKernel(odt, v) ==
  IF odt = "BOOL" THEN (IF v # 0 THEN 2 ELSE 0) ELSE Convert(odt, v)

-----------------------------------------------------------------------------
(* The kernel of a format once real_axes are known. *)
ReduceKernel(fmt, cont) ==
  CASE fmt = "NDARRAY" -> IF cont THEN "single_axis_ndarray" ELSE "ndarray"
    [] fmt = "N4CX"    -> "n4cx"
    [] OTHER           -> "unsupported"

(* Mutant: the no-op test compares dim counts instead of element counts. *)
Reduce_RankCopy(src, dst, axes, fmt) ==
  LET r    == Len(src)
      real == SortSeq([i \in DOMAIN axes |-> IF axes[i] >= 0 THEN axes[i] ELSE axes[i] + r], <)
      cont == \A i \in 1 .. Len(real) - 1 : real[i + 1] - real[i] = 1
      k    == ReduceKernel(fmt, cont)
  IN  IF Len(src) = Len(dst) THEN [kernel |-> "memcpy", axes |-> <<>>, written |-> 0]
      ELSE IF r > MaxDims THEN [kernel |-> "unsupported", axes |-> <<>>, written |-> 0]
      ELSE [kernel |-> k, axes |-> IF k = "unsupported" THEN <<>> ELSE real, written |-> Len(axes)]

(* Mutant: the rank check comes after the loop that fills real_axes. *)
Reduce_LateRankCheck(src, dst, axes, fmt) ==
  LET r    == Len(src)
      real == SortSeq([i \in DOMAIN axes |-> IF axes[i] >= 0 THEN axes[i] ELSE axes[i] + r], <)
      cont == \A i \in 1 .. Len(real) - 1 : real[i + 1] - real[i] = 1
      k    == ReduceKernel(fmt, cont)
  IN  IF Elements(src) = Elements(dst) THEN [kernel |-> "memcpy", axes |-> <<>>, written |-> 0]
      ELSE IF r > MaxDims THEN [kernel |-> "unsupported", axes |-> <<>>, written |-> Len(axes)]
      ELSE [kernel |-> k, axes |-> IF k = "unsupported" THEN <<>> ELSE real, written |-> Len(axes)]

(* reduce_fp32<op>(src, dst, src_shape, dst_shape, axes, num_axes): the  *)
(* kernel reached, the axes passed to it, and how many entries of the    *)
(* real_axes array the normalising loop wrote.                           *)
Reduce(src, dst, axes, fmt) ==
  LET r    == Len(src)
      real == SortSeq([i \in DOMAIN axes |-> IF axes[i] >= 0 THEN axes[i] ELSE axes[i] + r], <)
      cont == \A i \in 1 .. Len(real) - 1 : real[i + 1] - real[i] = 1
      k    == ReduceKernel(fmt, cont)
  IN  IF Elements(src) = Elements(dst) THEN [kernel |-> "memcpy", axes |-> <<>>, written |-> 0]
      ELSE IF r > MaxDims THEN [kernel |-> "unsupported", axes |-> <<>>, written |-> 0]
      ELSE [kernel |-> k, axes |-> IF k = "unsupported" THEN <<>> ELSE real, written |-> Len(axes)]

-----------------------------------------------------------------------------
(* Mutant: the eltwise test looks at src0 only. *)
IsEltwise_Src0Only(s0, s1, d) == Elements(s0) = Elements(d)

(* is_eltwise: both sources have as many elements as the destination. *)
IsEltwise(s0, s1, d) == Elements(s0) = Elements(d) /\ Elements(s1) = Elements(d)

(* arithmetic_fp32<op, fuse_relu>: chooses by the destination's format. *)
Arithmetic(s0, s1, d, fmt) ==
  IF IsEltwise(s0, s1, d) THEN "eltwise"
  ELSE IF fmt = "NDARRAY" THEN "broadcast_ndarray"
  ELSE IF fmt = "N4CX" THEN "broadcast_n4cx"
  ELSE "unsupported"

(* relation_int64<op, vlen>: chooses by src0's format. *)
Relation(s0, s1, d, fmt) ==
  IF IsEltwise(s0, s1, d) THEN "eltwise"
  ELSE IF fmt = "NDARRAY" THEN "broadcast_ndarray"
  ELSE IF fmt = "N8CX" THEN "broadcast_nbcx"
  ELSE "unsupported"

-----------------------------------------------------------------------------
(* The calls a kernel wrapper can make.  Reduce is called with the        *)
(* reduced axes of the ONNX operator, distinct once normalised, each one   *)
(* in [-r, r); its dst shape is src with those dims set to 1 (keepdims)   *)
(* or dropped.                                                            *)
Norm(a, r) == IF a >= 0 THEN a ELSE a + r
AxesOf(r) ==
  {ax \in SeqOf(-r .. r - 1, r) :
     Len(ax) > 0 /\ IsInjective([i \in DOMAIN ax |-> Norm(ax[i], r)])}
ReduceDst(src, ax, keep) ==
  LET red == {Norm(ax[i], Len(src)) + 1 : i \in DOMAIN ax}
  IN  IF keep THEN [d \in DOMAIN src |-> IF d \in red THEN 1 ELSE src[d]]
      ELSE SelectSeq([d \in DOMAIN src |-> IF d \in red THEN 0 ELSE src[d]], LAMBDA v : v # 0)

(* dst = the ONNX broadcast of s0 and s1, when they broadcast. *)
Pad1(s, n) == [i \in 1 .. n |-> IF i <= n - Len(s) THEN 1 ELSE s[i - (n - Len(s))]]
Broadcast(s0, s1) ==
  LET n == IF Len(s0) >= Len(s1) THEN Len(s0) ELSE Len(s1)
      a == Pad1(s0, n)
      b == Pad1(s1, n)
  IN  IF \A i \in 1 .. n : a[i] = b[i] \/ a[i] = 1 \/ b[i] = 1
      THEN {[i \in 1 .. n |-> IF a[i] = 1 THEN b[i] ELSE a[i]]} ELSE {}

VARIABLES
  call,    \* the call made, or [op |-> "none"] before it
  result,  \* the kernel it reached (and, for reduce, the axes passed)
  value    \* for a cast: the element written to dst, "none" if none is

vars == <<call, result, value>>

Init == call = [op |-> "none"] /\ result = "none" /\ value = "none"

(* cast() on a tensor of one element v: memcpy copies it, a cast_kernel *)
(* converts it, RC_UNSUPPORTED writes nothing.                          *)
CallCast ==
  /\ call.op = "none"
  /\ \E idt, odt \in DOMAIN DT :
     \E v \in Values(idt) :
       /\ call' = [op |-> "cast", idt |-> idt, odt |-> odt, v |-> v]
       /\ result' = Cast(idt, odt)
       /\ value' = CASE Cast(idt, odt) = "memcpy"      -> v
                    [] Cast(idt, odt) = "unsupported" -> "none"
                    [] OTHER -> CastKernel(Cast(idt, odt)[2], v)

(* A call of one reduce_<op>_fp32 wrapper, which forwards to reduce_fp32; *)
(* the axes are those an ONNX Reduce node may carry (AxesOf), a premise   *)
(* of the caller and not a check made by this code.                      *)
CallReduce ==
  /\ call.op = "none"
  /\ \E src \in Shapes, keep \in BOOLEAN, fmt \in {"NDARRAY", "N4CX", "NHWC"} :
     \E ax \in AxesOf(Len(src)) :
       /\ call' = [op |-> "reduce", src |-> src, axes |-> ax, keep |-> keep, fmt |-> fmt]
       /\ result' = Reduce(src, ReduceDst(src, ax, keep), ax, fmt)
       /\ UNCHANGED value

CallArithmetic ==
  /\ call.op = "none"
  /\ \E s0, s1 \in Shapes, fmt \in {"NDARRAY", "N4CX", "NHWC"} :
     \E d \in Broadcast(s0, s1) :
       /\ call' = [op |-> "arithmetic", s0 |-> s0, s1 |-> s1, dst |-> d]
       /\ result' = Arithmetic(s0, s1, d, fmt)
       /\ UNCHANGED value

CallRelation ==
  /\ call.op = "none"
  /\ \E s0, s1 \in Shapes, fmt \in {"NDARRAY", "N8CX", "NHWC"} :
     \E d \in Broadcast(s0, s1) :
       /\ call' = [op |-> "relation", s0 |-> s0, s1 |-> s1, dst |-> d]
       /\ result' = Relation(s0, s1, d, fmt)
       /\ UNCHANGED value

Next == CallCast \/ CallReduce \/ CallArithmetic \/ CallRelation

Spec == Init /\ [][Next]_vars

-----------------------------------------------------------------------------
(* The cast of idt to odt reaches memcpy when the types agree and        *)
(* otherwise exactly the cast_kernel written for <<idt, odt>>: the packed *)
(* switch key, which keeps only four bits of odt, never sends a pair to   *)
(* another pair's kernel or an uncovered pair to a kernel.               *)
CastDispatchExact ==
  call.op = "cast" =>
    result = IF call.idt = call.odt THEN "memcpy"
             ELSE IF <<call.idt, call.odt>> \in CastCases THEN <<call.idt, call.odt>>
             ELSE "unsupported"

(* Reduce copies src unchanged only when the reduction is a no-op, every *)
(* reduced dim being 1; otherwise a supported format reaches a kernel    *)
(* given the reduced axes normalised into [0, r), sorted and distinct,   *)
(* and the single-axis NDARRAY kernel exactly when they are contiguous.  *)
ReduceDispatchSound ==
  call.op = "reduce" /\ Len(call.src) <= MaxDims /\ call.fmt # "NHWC" =>
    LET r   == Len(call.src)
        red == {Norm(call.axes[i], r) : i \in DOMAIN call.axes}
        ax  == result.axes
    IN  IF \A a \in red : call.src[a + 1] = 1
        THEN result.kernel = "memcpy"
        ELSE /\ Range(ax) = red
             /\ \A i \in 1 .. Len(ax) - 1 : ax[i] < ax[i + 1]
             /\ (result.kernel = "single_axis_ndarray") <=>
                  (call.fmt = "NDARRAY" /\ red = Min(red) .. Max(red))

(* reduce_fp32 writes num_axes entries into real_axes, an array of       *)
(* PPL_RISCV_TENSOR_MAX_DIMS entries.  For every call a kernel wrapper    *)
(* makes, the rank check ahead of the loop keeps those writes inside the  *)
(* array, whatever the shape's rank.                                      *)
RealAxesInBounds ==
  call.op = "reduce" => result.written <= MaxDims

(* The eltwise kernel, which indexes both sources by the dst's flat      *)
(* index, is chosen only when both sources have the dst's shape up to    *)
(* leading 1s; any real broadcast goes to a broadcast kernel.            *)
EltwiseOnlyWithoutBroadcast ==
  call.op \in {"arithmetic", "relation"} /\ result = "eltwise" =>
    Pad1(call.s0, Len(call.dst)) = call.dst /\ Pad1(call.s1, Len(call.dst)) = call.dst
=============================================================================
