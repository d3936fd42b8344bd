----------------------------- MODULE Operators -----------------------------
(***************************************************************************)
(* Tensor shapes (include/mcke/tensor/shape.hpp) and the four operators of *)
(* the graph (src/graph/ops_*.cpp): the shape each infers for its output,  *)
(* what it costs and the workspace it asks for.  Pure.  Every operator of  *)
(* the repository has one output.  A shape is the sequence of its extents, *)
(* row-major, and sizes are in elements.                                   *)
(***************************************************************************)
EXTENDS Integers, Sequences, Functions

CONSTANTS
  Alignment,   (* kDeviceAlignment, in elements                             *)
  FlopTime,    (* Roofline: time of one flop ...                            *)
  TrafficTime  (* ... and of moving one element                             *)

ASSUME OperatorsAssumption ==
  Alignment \in Nat \ {0} /\ FlopTime \in Nat /\ TrafficTime \in Nat

OpKinds == {"gemm", "bias_act", "reduce", "softmax"}

rank(shape) == Len(shape)
numel(shape) == FoldFunction(LAMBDA x, y : x * y, 1, shape)
cols(shape) == shape[rank(shape)]
rows(shape) == numel(SubSeq(shape, 1, rank(shape) - 1))

(* validate_shape; row-major strides hold by construction.                 *)
ValidShape(shape) == rank(shape) >= 1 /\ \A i \in DOMAIN shape : shape[i] > 0

round_up(n) == ((n + Alignment - 1) \div Alignment) * Alignment

-----------------------------------------------------------------------------
(* infer_shapes: the set of the output's shape, or empty for an error.     *)
(* Parameters of an operator it would refuse are left out: beta # 0, a     *)
(* tile that is not instantiated, an axis that is not the last.            *)

infer_gemm(in) ==
  IF /\ Len(in) = 2 /\ rank(in[1]) = 2 /\ rank(in[2]) = 2
     /\ in[1][2] = in[2][1]
    THEN {<<in[1][1], in[2][2]>>} ELSE {}

infer_bias_act(in) ==
  IF Len(in) = 2 /\ rank(in[2]) = 1 /\ in[2][1] = cols(in[1]) THEN {in[1]} ELSE {}

infer_reduce(in) ==
  IF Len(in) # 1 THEN {}
  ELSE IF rank(in[1]) = 1 THEN {<<1>>}
  ELSE {SubSeq(in[1], 1, rank(in[1]) - 1)}

infer_softmax(in) == IF Len(in) = 1 THEN {in[1]} ELSE {}

infer_shapes(op, in) ==
  CASE op = "gemm" -> infer_gemm(in)
    [] op = "bias_act" -> infer_bias_act(in)
    [] op = "reduce" -> infer_reduce(in)
    [] op = "softmax" -> infer_softmax(in)

(* cost: the flops and the traffic of the launch.                          *)
cost_gemm(in) ==
  LET mn == in[1][1] * in[2][2]
  IN  [flops |-> 2 * mn * in[1][2], traffic |-> numel(in[1]) + numel(in[2]) + mn]

cost_bias_act(in) ==
  [flops |-> numel(in[1]), traffic |-> 2 * numel(in[1]) + cols(in[1])]

cost_reduce(in) ==
  [flops |-> rows(in[1]) * (cols(in[1]) - 1), traffic |-> numel(in[1]) + rows(in[1])]

cost_softmax(in) == [flops |-> 5 * numel(in[1]), traffic |-> 2 * numel(in[1])]

cost(op, in) ==
  CASE op = "gemm" -> cost_gemm(in)
    [] op = "bias_act" -> cost_bias_act(in)
    [] op = "reduce" -> cost_reduce(in)
    [] op = "softmax" -> cost_softmax(in)

plan_cost(c) ==
  LET compute == c.flops * FlopTime  memory == c.traffic * TrafficTime
  IN  IF compute > memory THEN compute ELSE memory

(* Only a reduction in two passes has a workspace: one slot for each of    *)
(* the slices that each row is split into (160 blocks, or 64 a row).       *)
two_pass_split(nrows) ==
  LET s == (160 + nrows - 1) \div nrows IN IF s > 64 THEN 64 ELSE s
workspace_bytes(op, in) ==
  IF op = "reduce" THEN rows(in[1]) * two_pass_split(rows(in[1])) ELSE 0
=============================================================================
