------------------------------ MODULE GemmTile ------------------------------
(***************************************************************************)
(* The host side of the GEMM kernels: include/mcke/kernels/gemm_tile.hpp.  *)
(* A tile is a record [bm, bn, bk, tm, tn].  The two instantiated tiles    *)
(* and the units of the hardware are parameters; in the code they are      *)
(* (32,32,32,1,1), (128,128,8,8,8), warps of 32 and the numbers of a T4.   *)
(***************************************************************************)
EXTENDS Config, FiniteSetsExt, Sequences

CONSTANTS
  SmemTile,              (* the tile kTiledSmem is instantiated for         *)
  RegTile,               (* the tile of the register-blocked variants       *)
  MaxThreads,            (* 1024: threads of a block                        *)
  kRegAllocUnit,         (* registers are given to a warp in these units    *)
  kWarpAllocGranularity, (* ... and to this many warps at a time            *)
  kMaxRegsPerThread,
  kSmemAllocUnit         (* shared memory is given to a block in these      *)

ASSUME TileAssumption ==
  {MaxThreads, kRegAllocUnit, kWarpAllocGranularity,
   kMaxRegsPerThread, kSmemAllocUnit} \subseteq Nat \ {0}

-----------------------------------------------------------------------------
(* The tile descriptor.                                                    *)

threads_per_block(t) == (t.bm \div t.tm) * (t.bn \div t.tn)

tile_is_self_consistent(t) ==
  /\ t.bm > 0 /\ t.bn > 0 /\ t.bk > 0 /\ t.tm > 0 /\ t.tn > 0
  /\ t.bm % t.tm = 0 /\ t.bn % t.tn = 0
  /\ threads_per_block(t) \in 1 .. MaxThreads
  /\ threads_per_block(t) % kWarpSize = 0
  /\ (t.bm * t.bk) % threads_per_block(t) = 0
  /\ (t.bk * t.bn) % threads_per_block(t) = 0

(* The loop of the double-buffered kernel: pairs of tiles, then one more   *)
(* tile, from buffer 0, when their number is odd.                          *)
MutDbufSchedule(k_tiles) == [pair_iters |-> k_tiles \div 2, has_tail |-> FALSE]

dbuf_schedule(k_tiles) ==
  [pair_iters |-> k_tiles \div 2, has_tail |-> k_tiles % 2 # 0]

-----------------------------------------------------------------------------
(* Runtime tile to instantiation.                                          *)

GemmVariant == {"kNaive", "kNaiveUncoalesced", "kTiledSmem", "kTiledRegBlock",
                "kWarpTileNoDbuf", "kWarpTile", "kWarpTileVec4"}

gemm_variant_uses_tile(v) == v \notin {"kNaive", "kNaiveUncoalesced"}

select_tile_config(t) ==
  CASE t = SmemTile -> "kSmem" [] t = RegTile -> "kReg" [] OTHER -> "kUnsupported"

gemm_required_config(v) == IF v = "kTiledSmem" THEN "kSmem" ELSE "kReg"

gemm_tile_is_supported(v, t) ==
  gemm_variant_uses_tile(v) =>
    tile_is_self_consistent(t) /\ select_tile_config(t) = gemm_required_config(v)

-----------------------------------------------------------------------------
(* Occupancy: how many blocks of a kernel an SM of device d holds at once. *)

round_up_div(a, b) == (a + b - 1) \div b
round_up_to(a, unit) == round_up_div(a, unit) * unit
round_down(a, unit) == (a \div unit) * unit

kNoLimit == 2 ^ 24

(* A device with a field of zero launches nothing, except that a bound of  *)
(* zero on a block says that it has none.                                  *)
Launchable(d, threads, regs, smem) ==
  /\ \A n \in {threads, d.sm_count, d.max_threads_per_sm, d.regs_per_sm,
                d.max_blocks_per_sm, d.shared_mem_per_sm} : n > 0
  /\ d.max_threads_per_block > 0 => threads <= d.max_threads_per_block
  /\ regs <= kMaxRegsPerThread /\ smem <= d.shared_mem_per_sm
  /\ d.regs_per_block > 0 => regs * threads <= d.regs_per_block

(* The blocks that each resource alone would allow.                        *)
Caps(d, threads, regs, smem) ==
  [kRegisters |->
     IF regs <= 0 THEN kNoLimit
     ELSE round_down(d.regs_per_sm \div round_up_to(regs * kWarpSize, kRegAllocUnit),
                     kWarpAllocGranularity) \div round_up_div(threads, kWarpSize),
   kSharedMemory |->
     IF smem = 0 THEN kNoLimit
     ELSE d.shared_mem_per_sm \div round_up_to(smem, kSmemAllocUnit),
   kThreadsPerSm |-> d.max_threads_per_sm \div threads,
   kBlocksPerSm |-> d.max_blocks_per_sm]

(* Ties are named after the bounds that no kernel can buy its way out of.  *)
TieOrder == <<"kThreadsPerSm", "kBlocksPerSm", "kRegisters", "kSharedMemory">>

NoOccupancy == [blocks_per_sm |-> 0, warps_per_sm |-> 0, limiter |-> "kInvalid", tied |-> FALSE]

Occupancy(caps, threads) ==
  LET best == Min({caps[r] : r \in DOMAIN caps})
      at_best == SelectSeq(TieOrder, LAMBDA r : caps[r] = best)
  IN  IF best <= 0 THEN NoOccupancy
      ELSE [blocks_per_sm |-> best, warps_per_sm |-> best * round_up_div(threads, kWarpSize),
            limiter |-> Head(at_best), tied |-> Len(at_best) > 1]

(* Registers divided among threads instead of warps.                       *)
MutOccupancy(d, threads, regs, smem) ==
  IF ~Launchable(d, threads, regs, smem) THEN NoOccupancy
  ELSE Occupancy([Caps(d, threads, regs, smem) EXCEPT
         !.kRegisters = IF regs <= 0 THEN kNoLimit ELSE d.regs_per_sm \div (regs * threads)],
         threads)

occupancy_blocks_per_sm(d, threads, regs, smem) ==
  IF ~Launchable(d, threads, regs, smem) THEN NoOccupancy
  ELSE Occupancy(Caps(d, threads, regs, smem), threads)
=============================================================================
