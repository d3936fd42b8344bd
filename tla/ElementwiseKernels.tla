------------------------- MODULE ElementwiseKernels -------------------------
(***************************************************************************)
(* The kernels without a barrier: kernels/bias_act.cu and                  *)
(* kernels/elementwise.cu.  The value of an element of the output is the   *)
(* tuple of the elements it was computed from.                             *)
(***************************************************************************)
EXTENDS ThreadBlock

CONSTANTS kMaxGridY,     (* the hardware's bound on gridDim.y (65535)       *)
          kMaxBlocks,    (* blocks a flat launch has at most (4096)         *)
          Widths         (* vector widths: powers of two with 1 ({1,2,4})   *)

ASSUME ElementwiseAssumption ==
  kMaxGridY \in Nat \ {0} /\ kMaxBlocks \in Nat \ {0} /\ 1 \in Widths

Least(a, b) == IF a < b THEN a ELSE b

(* The widest legal vector at an address, counted in floats.               *)
max_vector_width_f32(address, cols) ==
  Max({w \in Widths : cols % w = 0 /\ address % w = 0})

(* BiasActOp::launch: a width of 0 means the widest both x and y allow; it *)
(* does not ask the bias, which the arena of the executor always aligns.   *)
width(l) ==
  IF l.vector_width # 0 THEN l.vector_width
  ELSE Least(max_vector_width_f32(l.x_at, l.cols), max_vector_width_f32(l.y_at, l.cols))

launch_bias_act(l) ==
  l.cols % width(l) = 0 /\ \A at \in {l.x_at, l.y_at, l.bias_at} : at % width(l) = 0
launch_activation(l) ==
  l.cols % l.vector_width = 0 /\ \A at \in {l.x_at, l.y_at} : at % l.vector_width = 0

gridDim_y(l) ==
  LET gy == Least(l.rows, kMaxGridY)
  IN  IF l.max_row_blocks > 0 THEN Least(gy, l.max_row_blocks) ELSE gy
grid_2d(l) ==
  {[x |-> x, y |-> y] : x \in 0 .. CeilDiv(l.cols \div width(l), kThreads) - 1,
                        y \in 0 .. gridDim_y(l) - 1}

gridDim_x(l) == Least(CeilDiv(l.cols \div l.vector_width, kThreads), kMaxBlocks)
FlatGrid(l) == {[x |-> x] : x \in 0 .. gridDim_x(l) - 1}

(* The rows of a block of the 2-D grid, which strides over the matrix.     *)
RowsOfBlock == {r \in 0 .. launch.rows - 1 : (r - block.y) % gridDim_y(launch) = 0}

bias_act(t) ==
  LET col == (block.x * kThreads + t) * width(launch)
      at(r, k) == r * launch.cols + col + k
  IN  IF col >= launch.cols THEN Idle(t)
      ELSE Effect(local[t], {}, Nothing,
             [cell \in {<<"out", at(r, k)>> :
                          r \in RowsOfBlock, k \in 0 .. width(launch) - 1} |->
                <<cell[2], cell[2] % launch.cols>>])

(* activation_kernel and, with a width of 1, vector_add_f32_kernel: a flat *)
(* grid that strides over the elements.                                    *)
flat(t) ==
  LET vw == launch.vector_width
      first == (block.x * kThreads + t) * vw
      stride == kThreads * gridDim_x(launch) * vw
      at == {i \in 0 .. launch.cols - 1 :
               /\ i >= first /\ (i - first) % stride < vw
               /\ i - ((i - first) % stride) + vw <= launch.cols}
  IN  Effect(local[t], {}, Nothing, [cell \in {<<"out", i>> : i \in at} |-> <<cell[2]>>])

ElementwiseDo(op, t) == IF op.do = "bias_act" THEN bias_act(t) ELSE flat(t)

BiasActExact(l, o) ==
  \A i \in 0 .. l.rows * l.cols - 1 : o[<<"out", i>>] = <<i, i % l.cols>>
FlatExact(l, o) == \A i \in 0 .. l.cols - 1 : o[<<"out", i>>] = <<i>>
ElementwiseOut(l) == [cell \in {<<"out", i>> : i \in 0 .. l.rows * l.cols - 1} |-> Garbage]
=============================================================================
