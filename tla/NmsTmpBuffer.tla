---------------------------- MODULE NmsTmpBuffer ----------------------------
(***************************************************************************)
(* MMCVNonMaxSuppressionKernel::DoExecute (src/ppl/nn/engines/cuda/        *)
(* kernels/mmcv/mmcv_non_max_suppression_kernel.cc) run by several         *)
(* requests whose devices share one scratch pool (spec 5: the pool owner   *)
(* serialises AllocTmpBuffer/FreeTmpBuffer, kernel execution is not        *)
(* locked).  Each call sizes its scratch with CalcTmpBufferSize, allocates *)
(* it, installs a Destructor guard that frees it, runs the CUDA NMS and    *)
(* returns the forward's status; the guard fires on that return.           *)
(***************************************************************************)
EXTENDS Integers, FiniteSets, Functions

CONSTANTS
  Requests,   \* the concurrent runs executing the kernel
  PoolSize,   \* bytes of scratch the shared pool can hand out
  Sizes       \* the CalcTmpBufferSize values the boxes shapes give

VARIABLES
  pc,        \* per request: "start", "running" or "done"
  need,      \* per request: the bytes CalcTmpBufferSize returned
  held,      \* per request: bytes of scratch it holds
  used,      \* bytes of the pool handed out
  rc         \* per request: the RetCode DoExecute returned, or "none"

vars == <<pc, need, held, used, rc>>

Init ==
  /\ pc = [r \in Requests |-> "start"]
  /\ need \in [Requests -> Sizes]
  /\ held = [r \in Requests |-> 0]
  /\ used = 0
  /\ rc = [r \in Requests |-> "none"]

(* Mutant: the capacity check is missing. *)
AllocTmpBuffer_NoCheck(r) ==
  /\ pc[r] = "start"
  /\ held' = [held EXCEPT ![r] = need[r]]
  /\ used' = used + need[r]
  /\ pc' = [pc EXCEPT ![r] = "running"]
  /\ UNCHANGED <<rc, need>>

(* AllocTmpBuffer under the pool lock: it fails when the pool cannot      *)
(* provide the bytes, and DoExecute returns that status before a guard    *)
(* exists.                                                                *)
AllocTmpBuffer(r) ==
  /\ pc[r] = "start"
  /\ IF used + need[r] <= PoolSize
     THEN /\ held' = [held EXCEPT ![r] = need[r]]
          /\ used' = used + need[r]
          /\ pc' = [pc EXCEPT ![r] = "running"]
          /\ UNCHANGED rc
     ELSE /\ pc' = [pc EXCEPT ![r] = "done"]
          /\ rc' = [rc EXCEPT ![r] = "out_of_memory"]
          /\ UNCHANGED <<held, used>>
  /\ UNCHANGED need

(* Mutant: the guard is installed only on the forward's success path. *)
Forward_GuardOnSuccess(r) ==
  /\ pc[r] = "running"
  /\ \E ok \in BOOLEAN :
       /\ rc' = [rc EXCEPT ![r] = IF ok THEN "success" ELSE "forward_failed"]
       /\ held' = [held EXCEPT ![r] = IF ok THEN 0 ELSE held[r]]
       /\ used' = IF ok THEN used - held[r] ELSE used
  /\ pc' = [pc EXCEPT ![r] = "done"]
  /\ UNCHANGED need

(* PPLCUDAMMCVNMSForwardImp succeeds or fails; whichever, DoExecute       *)
(* returns its status and the Destructor guard frees the scratch.         *)
Forward(r) ==
  /\ pc[r] = "running"
  /\ \E ok \in BOOLEAN :
       rc' = [rc EXCEPT ![r] = IF ok THEN "success" ELSE "forward_failed"]
  /\ held' = [held EXCEPT ![r] = 0]
  /\ used' = used - held[r]
  /\ pc' = [pc EXCEPT ![r] = "done"]
  /\ UNCHANGED need

Next == \E r \in Requests : AllocTmpBuffer(r) \/ Forward(r)

(* Requests interleave freely; only safety is checked. *)
Spec == Init /\ [][Next]_vars

-----------------------------------------------------------------------------
HeldTotal == SumFunction(held)

TypeOK ==
  /\ pc \in [Requests -> {"start", "running", "done"}]
  /\ need \in [Requests -> Sizes]
  /\ held \in [Requests -> 0 .. PoolSize]
  /\ used \in 0 .. PoolSize
  /\ rc \in [Requests -> {"none", "success", "forward_failed", "out_of_memory"}]

(* Scratch is scoped to one invocation (spec 4.6): a request holds its   *)
(* CalcTmpBufferSize bytes exactly while its kernel runs, holds nothing  *)
(* once DoExecute has returned, success or failure, and the pool's count *)
(* is the sum of what the running requests hold.                         *)
ScratchScopedToInvocation ==
  /\ \A r \in Requests : held[r] = IF pc[r] = "running" THEN need[r] ELSE 0
  /\ used = HeldTotal
=============================================================================
