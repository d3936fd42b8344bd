----------------------------- MODULE RowKernels -----------------------------
(***************************************************************************)
(* The kernels that reduce each row of a matrix: kernels/reduce_ops.cuh,   *)
(* kernels/reduce.cu, kernels/softmax.cu and the running state of          *)
(* include/mcke/kernels/softmax_online.hpp.                                *)
(*                                                                         *)
(* A partial sum (or maximum) of a reduction is the sequence of the        *)
(* elements it covers.  Softmax needs numbers: launch.x gives the elements *)
(* of a row, and a sum of exponentials is the sequence of its terms, each  *)
(* a column and the exponent its exponential has now.                      *)
(***************************************************************************)
EXTENDS ThreadBlock

CONSTANTS kTargetBlocks,   (* kTwoPass: blocks that fill the device (160)   *)
          kMaxSplit        (* ... and the most blocks for one row (64)      *)

ASSUME RowAssumption == kTargetBlocks \in Nat \ {0} /\ kMaxSplit \in Nat \ {0}

two_pass_split(rows) ==
  IF rows <= 0 THEN 1 ELSE Min({CeilDiv(kTargetBlocks, rows), kMaxSplit})
row_reduce_workspace_bytes(l) ==
  IF l.variant = "kTwoPass" THEN l.rows * two_pass_split(l.rows) ELSE 0

(* The columns of a row that the thread at position p of a grid with the   *)
(* given stride visits, in order.                                          *)
Strided(p, stride, cols) ==
  SelectSeq([i \in 1 .. cols |-> i - 1], LAMBDA c : c % stride = p % stride /\ c >= p)

-----------------------------------------------------------------------------
(* Combining.  Reductions concatenate; the online state has its maximum m  *)
(* and its terms d, whose exponents follow the maximum.                    *)

Concat(a, b) == a \o b

fmaxf(a, b) == IF a > b THEN a ELSE b
Lowest == -1000    \* -FLT_MAX
Rescaled(d, by) == [i \in DOMAIN d |-> <<d[i][1], d[i][2] + by>>]

online_identity == [m |-> Lowest, d |-> <<>>]

online_update(s, c) ==
  LET m_new == fmaxf(s.m, launch.x[c + 1])
  IN  [m |-> m_new, d |-> Append(Rescaled(s.d, s.m - m_new), <<c, launch.x[c + 1] - m_new>>)]

online_combine(a, b) ==
  IF b.d = <<>> THEN a ELSE IF a.d = <<>> THEN b
  ELSE LET m == fmaxf(a.m, b.m)
       IN  [m |-> m, d |-> Rescaled(a.d, a.m - m) \o Rescaled(b.d, b.m - m)]

(* The operation a kernel passes to its block_reduce, and its identity.    *)
Combine(op, a, b) ==
  CASE op = "SumOp" -> Concat(a, b) [] op = "MaxOp" -> fmaxf(a, b)
    [] op = "online" -> online_combine(a, b)
identity(op) ==
  CASE op = "SumOp" -> <<>> [] op = "MaxOp" -> Lowest [] op = "online" -> online_identity

(* warp_reduce: rounds of __shfl_down_sync, in which a lane without a      *)
(* partner gets its own value back.                                        *)
warp_reduce(op, v) ==
  LET Round(u, off) ==
        [i \in DOMAIN u |->
           Combine(op, u[i], IF i + off < kWarpSize THEN u[i + off] ELSE u[i])]
      rounds == SelectSeq([i \in 1 .. kWarpSize |-> kWarpSize \div (2 ^ i)], LAMBDA o : o > 0)
  IN  FoldLeft(Round, v, rounds)

-----------------------------------------------------------------------------
(* block_reduce: every warp reduces and its lane 0 publishes; after the    *)
(* barrier warp 0 reduces what was published.  Both are taken by all the   *)
(* lanes of a warp together.                                               *)

OfLanes(w) == [i \in 0 .. kWarpSize - 1 |-> local[w * kWarpSize + i].v]

StageA(op, t) ==
  LET r == warp_reduce(op, OfLanes(warp(t)))
  IN  Effect([local[t] EXCEPT !.v = r[lane(t)]], {},
             IF lane(t) = 0 THEN <<"smem", warp(t)>> :> r[0] ELSE Nothing, Nothing)

StageB(op, t) ==
  LET u == [i \in 0 .. kWarpSize - 1 |->
              IF i < n_warps THEN Shared(<<"smem", i>>) ELSE identity(op)]
  IN  IF warp(t) # 0 THEN Idle(t)
      ELSE Effect([local[t] EXCEPT !.v = warp_reduce(op, u)[lane(t)]],
                  IF lane(t) < n_warps THEN {<<"smem", lane(t)>>} ELSE {}, Nothing, Nothing)

block_reduce(op) == <<[do |-> "stage_a", op |-> op], Sync, [do |-> "stage_b", op |-> op]>>

-----------------------------------------------------------------------------
(* reduce.cu.  A grid of one block a row; kTwoPass has a grid of slices    *)
(* first, and a second launch that reduces the partial results.            *)

Index(c) == block.row * launch.cols + c

Accumulate(t) ==
  LET mine == Strided(t, kThreads, launch.cols)
  IN  Effect([local[t] EXCEPT !.v = [i \in DOMAIN mine |-> Index(mine[i])]],
             {}, Nothing, Nothing)

TreePublish(t) == Effect(local[t], {}, <<"smem", t>> :> local[t].v, Nothing)

TreeCombine(t, s) ==
  IF t >= s THEN Idle(t)
  ELSE Effect(local[t], {<<"smem", t>>, <<"smem", t + s>>},
              <<"smem", t>> :> Concat(Shared(<<"smem", t>>), Shared(<<"smem", t + s>>)), Nothing)

TreeStore(t) ==
  IF t # 0 THEN Idle(t)
  ELSE Effect(local[t], {<<"smem", 0>>}, Nothing, <<"out", block.row>> :> Shared(<<"smem", 0>>))

ReduceStore(t) ==
  IF t # 0 THEN Idle(t)
  ELSE Effect(local[t], {}, Nothing, <<"out", block.row>> :> local[t].v)

Pass1(t) ==
  LET mine == Strided(block.slice * kThreads + t,
                      two_pass_split(launch.rows) * kThreads, launch.cols)
  IN  Effect([local[t] EXCEPT !.v = [i \in DOMAIN mine |-> Index(mine[i])]],
             {}, Nothing, Nothing)

PartialSlot(row, slice) == <<"partial", row * two_pass_split(launch.rows) + slice>>

Pass1Store(t) ==
  IF t # 0 THEN Idle(t)
  ELSE Effect(local[t], {}, Nothing, PartialSlot(block.row, block.slice) :> local[t].v)

Pass2(t) ==
  LET mine == Strided(t, kThreads, two_pass_split(launch.rows))
  IN  Effect([local[t] EXCEPT !.v =
                FlattenSeq([i \in DOMAIN mine |-> out[PartialSlot(block.row, mine[i])]])],
             {}, Nothing, Nothing)

TreeProgram ==
  LET halving == SelectSeq([i \in 1 .. kThreads |-> kThreads \div (2 ^ i)], LAMBDA s : s > 0)
  IN  <<[do |-> "accumulate"], [do |-> "tree_publish"], Sync>>
      \o FlattenSeq([i \in DOMAIN halving |->
           <<[do |-> "tree_combine", s |-> halving[i]], Sync>>])
      \o <<[do |-> "tree_store"]>>

ReduceProgram ==
  CASE launch.variant = "kSmemTree" -> TreeProgram
    [] launch.variant = "kWarpShuffle" ->
         <<[do |-> "accumulate"]>> \o block_reduce("SumOp") \o <<[do |-> "reduce_store"]>>
    [] block.pass = 1 ->
         <<[do |-> "pass1"]>> \o block_reduce("SumOp") \o <<[do |-> "pass1_store"]>>
    [] OTHER ->
         <<[do |-> "pass2"]>> \o block_reduce("SumOp") \o <<[do |-> "reduce_store"]>>

-----------------------------------------------------------------------------
(* softmax.cu.                                                             *)

X(c) == launch.x[c + 1]
Mine(t) == Strided(t, kThreads, launch.cols)

MaxPass(t) ==
  Effect([local[t] EXCEPT !.v = FoldLeft(LAMBDA m, c : fmaxf(m, X(c)), Lowest, Mine(t))],
         {}, Nothing, Nothing)

(* bcast: thread 0 shares the result of the block.                         *)
Broadcast(t) ==
  IF t # 0 THEN Idle(t) ELSE Effect(local[t], {}, <<"bcast">> :> local[t].v, Nothing)
TakeMax(t) == Effect([local[t] EXCEPT !.m = Shared(<<"bcast">>)], {<<"bcast">>}, Nothing, Nothing)

SumPass(t) ==
  Effect([local[t] EXCEPT !.v = [i \in DOMAIN Mine(t) |-> <<Mine(t)[i], X(Mine(t)[i]) - local[t].m>>]],
         {}, Nothing, Nothing)

OnlinePass(t) ==
  Effect([local[t] EXCEPT !.v = FoldLeft(online_update, online_identity, Mine(t))],
         {}, Nothing, Nothing)

(* The last pass divides by the sum, or multiplies by its inverse.         *)
Normalized(t, m, d) ==
  [cell \in {<<"out", Index(c)>> : c \in ToSet(Mine(t))} |->
     [exponent |-> X(cell[2] - Index(0)) - m, sum |-> d]]
WritePass(t) ==
  Effect(local[t], {<<"bcast">>}, Nothing, Normalized(t, local[t].m, Shared(<<"bcast">>)))
OnlineWrite(t) ==
  Effect(local[t], {<<"bcast">>}, Nothing,
         Normalized(t, Shared(<<"bcast">>).m, Shared(<<"bcast">>).d))

SoftmaxProgram ==
  IF launch.variant = "kThreePass"
    THEN <<[do |-> "max_pass"]>> \o block_reduce("MaxOp")
         \o <<[do |-> "broadcast"], Sync, [do |-> "take_max"], Sync, [do |-> "sum_pass"]>>
         \o block_reduce("SumOp")
         \o <<[do |-> "broadcast"], Sync, [do |-> "write_pass"]>>
    ELSE <<[do |-> "online_pass"]>> \o block_reduce("online")
         \o <<[do |-> "broadcast"], Sync, [do |-> "online_write"]>>

-----------------------------------------------------------------------------
RowDo(op, t) ==
  CASE op.do = "accumulate" -> Accumulate(t)
    [] op.do = "stage_a" -> StageA(op.op, t)
    [] op.do = "stage_b" -> StageB(op.op, t)
    [] op.do = "tree_publish" -> TreePublish(t)
    [] op.do = "tree_combine" -> TreeCombine(t, op.s)
    [] op.do = "tree_store" -> TreeStore(t)
    [] op.do = "reduce_store" -> ReduceStore(t)
    [] op.do = "pass1" -> Pass1(t)
    [] op.do = "pass1_store" -> Pass1Store(t)
    [] op.do = "pass2" -> Pass2(t)
    [] op.do = "max_pass" -> MaxPass(t)
    [] op.do = "broadcast" -> Broadcast(t)
    [] op.do = "take_max" -> TakeMax(t)
    [] op.do = "sum_pass" -> SumPass(t)
    [] op.do = "write_pass" -> WritePass(t)
    [] op.do = "online_pass" -> OnlinePass(t)
    [] op.do = "online_write" -> OnlineWrite(t)

RowRegs == [v |-> <<>>, m |-> Lowest]
RowTakenByWarp(op) ==
  op.do \in {"stage_a", "stage_b", "accumulate", "pass1", "pass1_store", "pass2", "max_pass",
            "sum_pass", "online_pass", "broadcast", "reduce_store", "tree_store"}

Rows(l) == 0 .. l.rows - 1
Columns(l) == 0 .. l.cols - 1

(* launch_row_reduce_f32 and launch_row_softmax_f32: whether the arguments *)
(* are accepted, and the grids that are launched one after the other.      *)
launch_row_reduce(l) ==
  l.variant = "kTwoPass" => l.workspace >= row_reduce_workspace_bytes(l)

ReduceGrids(l) ==
  LET blocks == {[row |-> r] : r \in Rows(l)}
  IN  IF l.variant # "kTwoPass" THEN <<blocks>>
      ELSE << {[row |-> r, slice |-> s, pass |-> 1] :
                 r \in Rows(l), s \in 0 .. two_pass_split(l.rows) - 1},
              {[row |-> r, pass |-> 2] : r \in Rows(l)} >>
SoftmaxGrids(l) == <<{[row |-> r] : r \in Rows(l)}>>

ReduceOut(l) ==
  [cell \in {<<"out", r>> : r \in Rows(l)} \cup {<<"partial", i>> : i \in 0 .. l.workspace - 1}
     |-> Garbage]
SoftmaxOut(l) == [cell \in {<<"out", i>> : i \in 0 .. l.rows * l.cols - 1} |-> Garbage]

ReduceExact(l, o) ==
  \A r \in Rows(l) : Permutes(o[<<"out", r>>], {r * l.cols + c : c \in Columns(l)})

SoftmaxExact(l, o) ==
  LET top == Max(ToSet(l.x))
  IN  \A r \in Rows(l), c \in Columns(l) :
        LET y == o[<<"out", r * l.cols + c>>]
        IN  /\ y.exponent = l.x[c + 1] - top
            /\ Permutes(y.sum, {<<i, l.x[i + 1] - top>> : i \in Columns(l)})
=============================================================================
