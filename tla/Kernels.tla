------------------------------ MODULE Kernels ------------------------------
(***************************************************************************)
(* A launch of any kernel of the repository: the launcher accepts or       *)
(* refuses its arguments, then the blocks of its grids run, thread by      *)
(* thread.  The blocks of a grid share only the memory they write, each    *)
(* its own part of it, and run one after the other in any order; a second  *)
(* grid (the second pass of a reduction) follows the first on its stream.  *)
(***************************************************************************)
EXTENDS GemmKernels, RowKernels, ElementwiseKernels

CONSTANT Launches   (* the launches that are tried; one of family          *)
                    (* "occupancy" is only asked about, and never made      *)

VARIABLE todo       (* the grids, each the blocks that have not started yet *)

kernelVars == <<launch, block, pc, smem, local, out, todo>>

(* A launch is a record whose field family picks the launcher.             *)
Specs(l) == IF l.family = "gemm" THEN launch_gemm(l) ELSE {}
Accepted(l) ==
  CASE l.family = "gemm" -> Specs(l) # {}
    [] l.family = "reduce" -> launch_row_reduce(l)
    [] l.family = "softmax" -> TRUE
    [] l.family = "bias_act" -> launch_bias_act(l)
    [] l.family = "flat" -> launch_activation(l)
    [] l.family = "occupancy" -> FALSE
WithSpec(l) ==
  IF Specs(l) = {} THEN l @@ [threads |-> kThreads]
  ELSE LET s == CHOOSE s \in Specs(l) : TRUE IN [spec |-> s, threads |-> s.threads] @@ l

Grids(l) ==
  CASE l.family = "gemm" -> <<GemmGrid(WithSpec(l))>>
    [] l.family = "reduce" -> ReduceGrids(l)
    [] l.family = "softmax" -> SoftmaxGrids(l)
    [] l.family = "bias_act" -> <<grid_2d(l)>>
    [] l.family = "flat" -> <<FlatGrid(l)>>
Memory(l) ==
  CASE l.family = "gemm" -> GemmOut(l)
    [] l.family = "reduce" -> ReduceOut(l)
    [] l.family = "softmax" -> SoftmaxOut(l)
    [] l.family = "occupancy" -> Nothing
    [] OTHER -> ElementwiseOut(l)

Program ==
  CASE launch.family = "gemm" -> GemmProgram
    [] launch.family = "reduce" -> ReduceProgram
    [] launch.family = "softmax" -> SoftmaxProgram
    [] OTHER -> <<[do |-> launch.family]>>
Registers ==
  CASE launch.family = "gemm" -> GemmRegs
    [] launch.family \in {"reduce", "softmax"} -> RowRegs
    [] OTHER -> <<>>
Do(op, t) ==
  CASE launch.family = "gemm" -> GemmDo(op, t)
    [] launch.family \in {"reduce", "softmax"} -> RowDo(op, t)
    [] OTHER -> ElementwiseDo(op, t)

-----------------------------------------------------------------------------
NoBlock == [none |-> TRUE]

Init ==
  /\ launch \in {WithSpec(l) : l \in Launches}
  /\ out = Memory(launch)
  /\ todo = IF Accepted(launch) THEN Grids(launch) ELSE <<>>
  /\ block = NoBlock /\ pc = <<>> /\ smem = Nothing /\ local = <<>>

Running == block # NoBlock
AtEnd(t) == pc[t] > Len(Program)
Op(t) == Program[pc[t]]

StartBlock(b) ==
  /\ ~Running /\ todo # <<>> /\ b \in Head(todo)
  /\ todo' = [todo EXCEPT ![1] = @ \ {b}]
  /\ block' = b
  /\ pc' = [t \in Thread |-> 1]
  /\ local' = [t \in Thread |-> Registers]
  /\ smem' = Nothing
  /\ UNCHANGED <<launch, out>>

EndBlock ==
  /\ Running /\ \A t \in Thread : AtEnd(t)
  /\ todo' = IF Head(todo) = {} THEN Tail(todo) ELSE todo
  /\ block' = NoBlock /\ pc' = <<>> /\ smem' = Nothing /\ local' = <<>>
  /\ UNCHANGED <<launch, out>>

(* A barrier lets all threads on when every thread has come to it.         *)
PassBarrier ==
  /\ Running /\ \A t \in Thread : ~AtEnd(t) /\ Op(t) = Sync /\ pc[t] = pc[0]
  /\ pc' = [t \in Thread |-> pc[t] + 1]
  /\ UNCHANGED <<launch, block, smem, local, out, todo>>

(* The threads of S take their next operation.                             *)
Take(S) ==
  LET did == [t \in S |-> Do(Op(t), t)]
  IN  /\ pc' = [t \in Thread |-> IF t \in S THEN pc[t] + 1 ELSE pc[t]]
      /\ local' = [t \in Thread |-> IF t \in S THEN did[t].regs ELSE local[t]]
      /\ smem' = FoldSet(LAMBDA t, m : did[t].stores @@ m, smem, S)
      /\ out' = FoldSet(LAMBDA t, m : did[t].outs @@ m, out, S)
      /\ UNCHANGED <<launch, block, todo>>

TakenByWarp(op) ==
  \/ RowTakenByWarp(op)
  \/ op.do \in {"naive", "tiled_store", "prefetch", "epilogue", "bias_act", "flat"}
Computes(t) == ~AtEnd(t) /\ Op(t) # Sync

Step(t) == Running /\ Computes(t) /\ ~TakenByWarp(Op(t)) /\ Take({t})

WarpStep(w) ==
  /\ Running
  /\ \A t \in LanesOf(w) : Computes(t) /\ TakenByWarp(Op(t))
  /\ \A t, u \in LanesOf(w) : pc[t] = pc[u]
  /\ Take(LanesOf(w))

Finished == ~Running /\ todo = <<>>
Done == Finished /\ UNCHANGED kernelVars

Next ==
  \/ \E b \in UNION {todo[i] : i \in DOMAIN todo} : StartBlock(b)
  \/ EndBlock
  \/ PassBarrier
  \/ \E t \in Thread : Step(t)
  \/ \E w \in 0 .. n_warps - 1 : WarpStep(w)
  \/ Done

Spec == Init /\ [][Next]_kernelVars

-----------------------------------------------------------------------------
(* Two threads that may both take their next operation now do not touch    *)
(* the same cell, unless both only read it: no shared memory is reused and *)
(* no patch of C is stored twice without a barrier in between (the second  *)
(* barrier of the single-buffered GEMM, the disjoint buffers of the other, *)
(* the one barrier of block_reduce, the lane maps).                        *)
MayCompute(t) ==
  /\ Computes(t)
  /\ TakenByWarp(Op(t)) => \A u \in LanesOf(warp(t)) : pc[u] = pc[t]
NoDataRace ==
  Running =>
    LET turns == {[thread |-> t, did |-> Do(Op(t), t)] : t \in {v \in Thread : MayCompute(v)}}
    IN  \A a, b \in turns : a.thread = b.thread \/
          /\ DOMAIN a.did.stores \cap (b.did.reads \cup DOMAIN b.did.stores) = {}
          /\ DOMAIN a.did.outs \cap DOMAIN b.did.outs = {}

(* A launch that is accepted leaves the result of its operator in every    *)
(* element of the output, once all blocks are done, and nothing anywhere   *)
(* else; whatever the shape, the split of the work and the interleaving.   *)
(* A refused launch writes nothing; a GEMM is accepted exactly when the    *)
(* graph accepted its tile (gemm_tile_is_supported), and a vector width    *)
(* that the operator picked itself always is.                              *)
Exact ==
  CASE launch.family = "gemm" -> out = GemmExact(launch)
    [] launch.family = "reduce" -> ReduceExact(launch, out)
    [] launch.family = "softmax" -> SoftmaxExact(launch, out)
    [] launch.family = "bias_act" -> BiasActExact(launch, out)
    [] launch.family = "flat" -> FlatExact(launch, out)
ResultIsExact ==
  Finished =>
    /\ DOMAIN out = DOMAIN Memory(launch)
    /\ IF Accepted(launch) THEN Exact ELSE out = Memory(launch)
    /\ launch.family = "gemm" =>
         (Accepted(launch) <=> gemm_tile_is_supported(launch.variant, launch.tile))
    /\ launch.family = "bias_act" => (launch.vector_width = 0 => Accepted(launch))

(* The occupancy calculator against the device's own accounting: the       *)
(* blocks it reports fit an SM together, one more would not for lack of    *)
(* the resource it blames, and a tie is told exactly when another resource *)
(* would refuse that block too.                                            *)
Needs(d, n, threads, regs, bytes) ==
  LET warps == n * CeilDiv(threads, kWarpSize)
  IN  [kThreadsPerSm |-> n * threads <= d.max_threads_per_sm,
       kBlocksPerSm |-> n <= d.max_blocks_per_sm,
       kSharedMemory |-> n * round_up_to(bytes, kSmemAllocUnit) <= d.shared_mem_per_sm,
       kRegisters |-> round_up_to(warps, kWarpAllocGranularity)
                        * round_up_to(regs * kWarpSize, kRegAllocUnit) <= d.regs_per_sm]
OccupancyIsMostThatFits ==
  launch.family = "occupancy"
    /\ Launchable(launch.device, launch.threads, launch.regs, launch.smem) =>
      LET e == occupancy_blocks_per_sm(launch.device, launch.threads, launch.regs, launch.smem)
          fits(n) == Needs(launch.device, n, launch.threads, launch.regs, launch.smem)
          short == {r \in DOMAIN fits(1) : ~fits(e.blocks_per_sm + 1)[r]}
      IN  /\ \A r \in DOMAIN fits(1) : fits(e.blocks_per_sm)[r]
          /\ short # {}
          /\ e.blocks_per_sm > 0 => e.limiter \in short /\ (e.tied <=> Cardinality(short) > 1)
=============================================================================
