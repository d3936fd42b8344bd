----------------------------- MODULE GemmKernels -----------------------------
(***************************************************************************)
(* C = alpha A B + beta C in the seven hand-written variants of            *)
(* kernels/gemm.cu.  An element of A, B or C is named by its matrix, row   *)
(* and column, a product by its two factors, and an accumulator is the     *)
(* sequence of its products.  The thread grid, the tiles and the width of  *)
(* a vector load are parameters (16x16 threads, float4 in the code).       *)
(***************************************************************************)
EXTENDS ThreadBlock, GemmTile

CONSTANTS
  kNaiveTile,  (* side of the block of the naive kernels                    *)
  VecWidth,    (* floats of a vector load                                   *)
  WarpCols,    (* kWarp4x8: warps are laid out in rows of this many ...     *)
  LaneRows, LaneCols   (* ... and the lanes of a warp in such a grid        *)

RegThreads == threads_per_block(RegTile)

ASSUME GemmAssumption ==
  /\ LaneRows * LaneCols = kWarpSize
  /\ RegTile.bm * RegTile.bk = VecWidth * RegThreads
  /\ RegTile.bk * RegTile.bn = VecWidth * RegThreads

Zero == <<"zero">>
Element(name, r, rows, c, cols) ==
  IF r < rows /\ c < cols THEN <<name, r, c>> ELSE Zero
Fma(acc, x, y) ==
  IF Zero \in {x, y} /\ Garbage \notin {x, y} THEN acc ELSE Append(acc, <<x, y>>)

(* store_c: C is read only when beta is not zero.                          *)
store_c(cell, acc) == [sum |-> acc, prev |-> IF launch.beta THEN out[cell] ELSE Zero]

InRange(r, c) == r < launch.m /\ c < launch.n

-----------------------------------------------------------------------------
(* gemm_naive_kernel and gemm_naive_uncoalesced_kernel.                    *)

NaiveCell(t) ==
  LET x == t % kNaiveTile  y == t \div kNaiveTile
  IN  IF launch.variant = "kNaive"
        THEN <<(block.y * kNaiveTile) + y, (block.x * kNaiveTile) + x>>
        ELSE <<block.y * kNaiveTile + x, block.x * kNaiveTile + y>>

Naive(t) ==
  LET row == NaiveCell(t)[1]  col == NaiveCell(t)[2]
      acc == [p \in 1 .. launch.k |-> <<<<"A", row, p - 1>>, <<"B", p - 1, col>>>>]
  IN  IF ~InRange(row, col) THEN Idle(t)
      ELSE Effect(local[t], {}, Nothing, <<row, col>> :> store_c(<<row, col>>, acc))

-----------------------------------------------------------------------------
(* gemm_tiled_smem_kernel: one element for each thread.                    *)

BS == SmemTile.bm
TiledCell(t) == <<block.y * BS + (t \div BS), block.x * BS + (t % BS)>>

TiledStage(t, k0) ==
  LET tx == t % BS  ty == t \div BS
  IN  Effect(local[t], {},
        (<<"A", 0, ty, tx>> :> Element("A", TiledCell(t)[1], launch.m, k0 + tx, launch.k))
        @@ (<<"B", 0, ty, tx>> :> Element("B", k0 + ty, launch.k, TiledCell(t)[2], launch.n)),
        Nothing)

TiledMultiply(t) ==
  LET a(p) == <<"A", 0, t \div BS, p>>
      b(p) == <<"B", 0, p, t % BS>>
      sum[p \in 0 .. BS] ==
        IF p = 0 THEN local[t].acc
        ELSE Fma(sum[p - 1], Shared(a(p - 1)), Shared(b(p - 1)))
  IN  Effect([local[t] EXCEPT !.acc = sum[BS]],
             UNION {{a(p), b(p)} : p \in 0 .. BS - 1}, Nothing, Nothing)

TiledStore(t) ==
  IF ~InRange(TiledCell(t)[1], TiledCell(t)[2]) THEN Idle(t)
  ELSE Effect(local[t], {}, Nothing, TiledCell(t) :> store_c(TiledCell(t), local[t].acc))

TiledProgram ==
  FlattenSeq([t \in 1 .. CeilDiv(launch.k, BS) |->
    <<[do |-> "tiled_stage", k0 |-> (t - 1) * BS], Sync, [do |-> "tiled_multiply"], Sync>>])
  \o <<[do |-> "tiled_store"]>>

-----------------------------------------------------------------------------
(* gemm_regblock_kernel.  The code picks an instantiation; here the record *)
(* the launcher chose, in launch.spec, has the template arguments: the     *)
(* lane map lm, the double buffering dbuf and the load width vw.           *)

BM == RegTile.bm
BN == RegTile.bn
BK == RegTile.bk
TM == RegTile.tm
TN == RegTile.tn
ThreadCols == BN \div TN
RowsPerStep == RegThreads \div BK

(* The patch of C a thread owns, by the row and the column of the thread.  *)
Patch(t) ==
  IF launch.spec.lm = "kRowMajor" THEN <<t \div ThreadCols, t % ThreadCols>>
  ELSE <<(warp(t) \div WarpCols) * LaneRows + (lane(t) \div LaneCols),
         (warp(t) % WarpCols) * LaneCols + (lane(t) % LaneCols)>>

(* The elements of the A and B tiles that a thread loads, each a pair of   *)
(* the row and the column in the tile.                                     *)
ASlots(t) ==
  IF launch.spec.vw = 1
    THEN [i \in 1 .. (BM * BK) \div RegThreads |-> <<(t \div BK) + (i - 1) * RowsPerStep, t % BK>>]
    ELSE LET wide == BK \div VecWidth
         IN  [i \in 1 .. VecWidth |-> <<t \div wide, ((t % wide) * VecWidth) + i - 1>>]
BSlots(t) ==
  IF launch.spec.vw = 1
    THEN [j \in 1 .. (BK * BN) \div RegThreads |->
            <<t \div RowsPerStep, (t % RowsPerStep) + (j - 1) * RowsPerStep>>]
    ELSE LET wide == BN \div VecWidth
         IN  [j \in 1 .. VecWidth |-> <<t \div wide, ((t % wide) * VecWidth) + j - 1>>]

Prefetch(t, k0) ==
  LET A == ASlots(t)  B == BSlots(t)
  IN  Effect([local[t] EXCEPT
        !.ra = [i \in DOMAIN A |->
                  Element("A", block.y * BM + A[i][1], launch.m, k0 + A[i][2], launch.k)],
        !.rb = [j \in DOMAIN B |->
                  Element("B", k0 + B[j][1], launch.k, block.x * BN + B[j][2], launch.n)]],
        {}, Nothing, Nothing)

(* A is transposed on its way to shared memory.                            *)
ACell(buf, slot) == <<"A", buf, slot[2], slot[1]>>
BCell(buf, slot) == <<"B", buf, slot[1], slot[2]>>

Publish(t, buf) ==
  LET A == ASlots(t)  B == BSlots(t)
      cell[c \in {ACell(buf, A[i]) : i \in DOMAIN A} \cup {BCell(buf, B[j]) : j \in DOMAIN B}] ==
        IF c[1] = "A" THEN local[t].ra[CHOOSE i \in DOMAIN A : ACell(buf, A[i]) = c]
                      ELSE local[t].rb[CHOOSE j \in DOMAIN B : BCell(buf, B[j]) = c]
  IN  Effect(local[t], {}, cell, Nothing)

Compute(t, buf) ==
  LET af(p, i) == <<"A", buf, p, Patch(t)[1] * TM + i>>
      bf(p, j) == <<"B", buf, p, Patch(t)[2] * TN + j>>
      sum[ij \in DOMAIN local[t].acc, p \in 0 .. BK] ==
        IF p = 0 THEN local[t].acc[ij]
        ELSE Fma(sum[ij, p - 1], Shared(af(p - 1, ij[1])), Shared(bf(p - 1, ij[2])))
  IN  Effect([local[t] EXCEPT !.acc = [ij \in DOMAIN local[t].acc |-> sum[ij, BK]]],
             {af(p, i) : p \in 0 .. BK - 1, i \in 0 .. TM - 1}
               \cup {bf(p, j) : p \in 0 .. BK - 1, j \in 0 .. TN - 1},
             Nothing, Nothing)

Epilogue(t) ==
  LET cell(ij) == <<block.y * BM + Patch(t)[1] * TM + ij[1],
                    block.x * BN + Patch(t)[2] * TN + ij[2]>>
      mine == {ij \in DOMAIN local[t].acc : InRange(cell(ij)[1], cell(ij)[2])}
      at(c) == CHOOSE ij \in mine : cell(ij) = c
  IN  Effect(local[t], {}, Nothing,
             [c \in {cell(ij) : ij \in mine} |-> store_c(c, local[t].acc[at(c)])])

prefetch(tile) == [do |-> "prefetch", k0 |-> tile * BK]
publish(buf) == [do |-> "publish", buf |-> buf]
compute(buf) == [do |-> "compute", buf |-> buf]

(* One buffer and two barriers a tile, or two buffers and one.             *)
MutSingleBuffer(kt) ==
  FlattenSeq([t \in 1 .. kt |-> <<prefetch(t - 1), publish(0), Sync, compute(0)>>])
SingleBuffer(kt) ==
  FlattenSeq([t \in 1 .. kt |-> <<prefetch(t - 1), publish(0), Sync, compute(0), Sync>>])

DoubleBuffer(kt) ==
  LET sch == dbuf_schedule(kt)
  IN  <<prefetch(0), publish(0), Sync>>
      \o FlattenSeq([it \in 1 .. sch.pair_iters |->
           <<prefetch(2 * it - 1), compute(0), publish(1), Sync,
             prefetch(2 * it), compute(1), publish(0), Sync>>])
      \o (IF sch.has_tail THEN <<compute(0)>> ELSE <<>>)

RegBlockProgram ==
  LET kt == CeilDiv(launch.k, BK)
  IN  (IF launch.spec.dbuf THEN DoubleBuffer(kt) ELSE SingleBuffer(kt))
      \o <<[do |-> "epilogue"]>>

-----------------------------------------------------------------------------
(* gemm_launch_spec and launch_gemm_f32.                                   *)

RegBlock(lm, dbuf, vw) ==
  [lm |-> lm, dbuf |-> dbuf, vw |-> vw, tile_m |-> BM, tile_n |-> BN, threads |-> RegThreads]

(* The launch record's spec, in a set; empty when the launch is refused.   *)
gemm_launch_spec(variant, tile, allow_vec) ==
  CASE variant \in {"kNaive", "kNaiveUncoalesced"} ->
         {[tile_m |-> kNaiveTile, tile_n |-> kNaiveTile, threads |-> kNaiveTile * kNaiveTile]}
    [] variant = "kTiledSmem" ->
         IF tile_is_self_consistent(tile) /\ select_tile_config(tile) = "kSmem"
           THEN {[tile_m |-> BS, tile_n |-> BS, threads |-> BS * BS]} ELSE {}
    [] OTHER ->
         IF ~tile_is_self_consistent(tile) \/ select_tile_config(tile) # "kReg" THEN {}
         ELSE {CASE variant = "kTiledRegBlock" -> RegBlock("kRowMajor", FALSE, 1)
                 [] variant = "kWarpTileNoDbuf" -> RegBlock("kWarp4x8", FALSE, 1)
                 [] variant = "kWarpTile" -> RegBlock("kWarp4x8", TRUE, 1)
                 [] variant = "kWarpTileVec4" ->
                      RegBlock("kWarp4x8", TRUE, IF allow_vec THEN VecWidth ELSE 1)}

(* Addresses are counted in floats.                                        *)
allow_vec4(l) ==
  l.k % VecWidth = 0 /\ l.n % VecWidth = 0 /\ \A at \in {l.a_at, l.b_at} : at % VecWidth = 0

(* The spec the launcher would pick for launch l.                          *)
launch_gemm(l) == gemm_launch_spec(l.variant, l.tile, allow_vec4(l))

GemmGrid(l) ==
  {[x |-> x, y |-> y] : x \in 0 .. CeilDiv(l.n, l.spec.tile_n) - 1,
                        y \in 0 .. CeilDiv(l.m, l.spec.tile_m) - 1}

GemmRegs ==
  IF launch.variant = "kTiledSmem" THEN [acc |-> <<>>]
  ELSE [acc |-> [ij \in (0 .. TM - 1) \X (0 .. TN - 1) |-> <<>>], ra |-> <<>>, rb |-> <<>>]

GemmProgram ==
  CASE ~gemm_variant_uses_tile(launch.variant) -> <<[do |-> "naive"]>>
    [] launch.variant = "kTiledSmem" -> TiledProgram
    [] OTHER -> RegBlockProgram

GemmDo(op, t) ==
  CASE op.do = "naive" -> Naive(t)
    [] op.do = "tiled_stage" -> TiledStage(t, op.k0)
    [] op.do = "tiled_multiply" -> TiledMultiply(t)
    [] op.do = "tiled_store" -> TiledStore(t)
    [] op.do = "prefetch" -> Prefetch(t, op.k0)
    [] op.do = "publish" -> Publish(t, op.buf)
    [] op.do = "compute" -> Compute(t, op.buf)
    [] op.do = "epilogue" -> Epilogue(t)

(* What the launch promises.  Naive and tiled variants add in the same     *)
(* order, so the sums are equal and not only their sets of products.       *)
Poison == <<"poison">>
GemmOut(l) == [cell \in (0 .. l.m - 1) \X (0 .. l.n - 1) |-> Poison]
GemmExact(l) ==
  [cell \in (0 .. l.m - 1) \X (0 .. l.n - 1) |->
     [sum |-> [p \in 1 .. l.k |-> <<<<"A", cell[1], p - 1>>, <<"B", p - 1, cell[2]>>>>],
      prev |-> IF l.beta THEN Poison ELSE Zero]]
=============================================================================
