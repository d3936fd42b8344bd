------------------------------ MODULE MCKernels ------------------------------
(* A small device and the launches tried on it; see Kernels.cfg.           *)
EXTENDS Kernels

MCSmemTile == [bm |-> 2, bn |-> 2, bk |-> 2, tm |-> 1, tn |-> 1]
MCRegTile  == [bm |-> 8, bn |-> 8, bk |-> 2, tm |-> 2, tn |-> 4]
(* Self-consistent, but no kernel is compiled for it.                      *)
OtherTile  == [bm |-> 4, bn |-> 4, bk |-> 2, tm |-> 1, tn |-> 1]

GemmAt(variants, shapes, tiles, betas, addresses) ==
  {[family |-> "gemm", variant |-> v, m |-> s[1], n |-> s[2], k |-> s[3],
    tile |-> tile, beta |-> b, a_at |-> at[1], b_at |-> at[2]] :
     v \in variants, s \in shapes, tile \in tiles, b \in betas, at \in addresses}
Gemm(variants, shapes, tiles, betas) == GemmAt(variants, shapes, tiles, betas, {<<0, 0>>})

(* A tile that its threads do not cover.                                   *)
UnevenTile == [bm |-> 3, bn |-> 4, bk |-> 2, tm |-> 2, tn |-> 1]

(* Shapes that are and are not multiples of the tiles, from no k-tile to   *)
(* three, one block and several, with C read and not.                      *)
GemmLaunches ==
  Gemm({"kNaive", "kNaiveUncoalesced"}, {<<3, 1, 2>>, <<1, 3, 0>>}, {OtherTile}, BOOLEAN)
    \cup Gemm({"kTiledSmem"}, {<<3, 3, 3>>, <<1, 2, 4>>, <<2, 1, 0>>}, {MCSmemTile}, {FALSE})
    \cup Gemm({"kTiledRegBlock", "kWarpTileNoDbuf"}, {<<5, 9, 3>>}, {MCRegTile}, {TRUE})
    \cup Gemm({"kWarpTile"}, {<<3, 5, 1>>, <<5, 2, 3>>}, {MCRegTile}, {FALSE})
    \cup Gemm({"kWarpTileVec4"}, {<<7, 6, 6>>}, {MCRegTile}, {FALSE})
    \cup GemmAt({"kWarpTileVec4"}, {<<2, 4, 2>>}, {MCRegTile}, {FALSE}, {<<1, 0>>, <<2, 1>>})
    \cup Gemm(GemmVariant, {<<1, 1, 0>>}, {MCSmemTile, MCRegTile, OtherTile, UnevenTile}, BOOLEAN)

Reduce(variants, rows, columns, workspaces) ==
  {[family |-> "reduce", variant |-> v, rows |-> r, cols |-> c, workspace |-> w] :
     v \in variants, r \in rows, c \in columns, w \in workspaces}
ReduceLaunches ==
  Reduce({"kSmemTree", "kWarpShuffle"}, {2}, {1, 3, 8, 11}, {0})
    \cup Reduce({"kTwoPass"}, {1, 2}, {1, 9, 20}, {4})
    \cup Reduce({"kTwoPass"}, {2, 4}, {3}, {3})

(* Rows that grow, that fall and that repeat their maximum.                *)
SoftmaxLaunches ==
  {[family |-> "softmax", variant |-> v, rows |-> 2, cols |-> Len(x), x |-> x] :
     v \in {"kThreePass", "kOnlineOnePass"},
     x \in {<<5>>, <<1, 4, 9>>, <<9, 9, 4, 1, 2, 8, 9, 3, 7, 9>>, <<0, 1, 2, 3, 4, 5, 6, 7, 8>>}}

BiasActLaunches ==
  {[family |-> "bias_act", rows |-> r, cols |-> c, vector_width |-> w[1],
    max_row_blocks |-> cap, x_at |-> 0, y_at |-> y, bias_at |-> w[2]] :
     r \in {1, 5}, c \in {3, 6, 12}, w \in {<<0, 0>>, <<1, 1>>, <<2, 0>>, <<2, 1>>},
     cap \in {0, 2}, y \in {0, 2}}
FlatLaunches ==
  {[family |-> "flat", rows |-> 1, cols |-> n, vector_width |-> vw, x_at |-> 0, y_at |-> y] :
     n \in {1, 6, 40}, vw \in {1, 2}, y \in {0, 1}}

Devices ==
  {[sm_count |-> 1, max_threads_per_sm |-> 16, regs_per_sm |-> r, max_blocks_per_sm |-> b,
    shared_mem_per_sm |-> s, max_threads_per_block |-> t, regs_per_block |-> p] :
     r \in {48, 60, 128}, b \in {0, 2, 5}, s \in {15, 40}, t \in {0, 12}, p \in {0, 64}}
OccupancyLaunches ==
  {[family |-> "occupancy", device |-> d, threads |-> t, regs |-> r, smem |-> s] :
     d \in Devices, t \in {0, 3, 4, 5, 8}, r \in {0, 1, 3, 5, 17}, s \in {0, 1, 9, 16}}

MCLaunches ==
  GemmLaunches \cup ReduceLaunches \cup SoftmaxLaunches \cup BiasActLaunches \cup FlatLaunches
    \cup OccupancyLaunches
=============================================================================
