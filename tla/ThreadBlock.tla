----------------------------- MODULE ThreadBlock -----------------------------
(***************************************************************************)
(* How a kernel runs on the device: external to the repository, modelled   *)
(* from what the kernels in kernels/*.cu rely on.  Every thread of a block *)
(* runs the kernel's program; threads interleave freely between barriers,  *)
(* the lanes of a warp take a shuffle together, and nobody passes a        *)
(* __syncthreads before everybody has reached it.  The lanes of a warp     *)
(* also take together what touches no shared memory, or what only one of   *)
(* them does: one by one they would come to the same state.                *)
(*                                                                         *)
(* An operation of a program is a record whose field do names it.  What it *)
(* does for a thread is an effect: the registers it leaves, the shared     *)
(* cells it reads, the shared cells it writes, and what it writes to       *)
(* global memory.  Numbers are symbolic: a value is the sequence of the    *)
(* terms that were added up, in the order of the additions.                *)
(***************************************************************************)
EXTENDS Config, SequencesExt, FiniteSetsExt, TLC

CONSTANT kThreads   (* threads of a block of the row and flat kernels (256) *)

VARIABLES
  launch,   (* the arguments of the launch                                  *)
  block,    (* the coordinates of the block that runs                       *)
  pc,       (* for each thread, the index of its next operation             *)
  smem,     (* the shared memory of the block: a function of its cells      *)
  local,    (* for each thread, its registers                               *)
  out       (* global memory the launch may write: a function of its cells  *)

Thread == 0 .. launch.threads - 1
lane(t) == t % kWarpSize
warp(t) == t \div kWarpSize
LanesOf(w) == {t \in Thread : warp(t) = w}
n_warps == (launch.threads + kWarpSize - 1) \div kWarpSize

Garbage == <<"garbage">>   \* memory that nobody wrote
Shared(cell) == IF cell \in DOMAIN smem THEN smem[cell] ELSE Garbage

Nothing == <<>>            \* the function that writes no cell
Effect(regs, reads, stores, outs) ==
  [regs |-> regs, reads |-> reads, stores |-> stores, outs |-> outs]
Idle(t) == Effect(local[t], {}, Nothing, Nothing)

Sync == [do |-> "sync"]
CeilDiv(a, b) == (a + b - 1) \div b
Permutes(s, S) == Len(s) = Cardinality(S) /\ ToSet(s) = S
=============================================================================
