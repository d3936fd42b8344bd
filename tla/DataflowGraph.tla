--------------------------- MODULE DataflowGraph ---------------------------
(***************************************************************************)
(* Graph construction and analysis: src/graph/graph.cpp.  The client adds  *)
(* inputs and nodes, marks outputs and finalizes; finalize derives the     *)
(* edges from the tensors, the depths, the slack and the dead nodes.       *)
(*                                                                         *)
(* Nodes and tensors are numbered from 1 in the order of their creation.   *)
(* Assumed of the client: it uses the tensor ids that calls returned, or   *)
(* ids that do not exist.                                                  *)
(***************************************************************************)
EXTENDS Operators, FiniteSetsExt, SequencesExt

CONSTANTS
  InputShapes,  (* the shapes of the inputs the client declares             *)
  Ops,          (* the operators it uses, a subset of OpKinds               *)
  MaxInputs,    (* bound: inputs of a graph                                 *)
  MaxNodes,     (* bound: nodes of a graph                                  *)
  MaxSize,      (* bound: nodes, joins, and outputs or unread tensors       *)
  MaxRefused    (* bound: nodes of a graph on which calls are refused       *)

ASSUME GraphAssumption ==
  /\ InputShapes \subseteq Seq(Int)
  /\ Ops \subseteq OpKinds
  /\ MaxInputs \in Nat /\ MaxNodes \in Nat /\ MaxSize \in Nat /\ MaxRefused \in Nat

VARIABLES
  tensors,     (* tensors_: shape, producer, consumers, input?, output?     *)
  nodes,       (* nodes_: op, inputs, output, and what finalize derives     *)
  finalized,   (* finalized_                                                *)
  status       (* of the latest call                                        *)

graphVars == <<tensors, nodes, finalized, status>>

kInvalidNode == 0
TensorId == DOMAIN tensors
NodeId == DOMAIN nodes

GraphInit == /\ tensors = <<>> /\ nodes = <<>>
             /\ finalized = FALSE /\ status = "kOk"

(* Nodes, nodes of two inputs, and tensors that are outputs or unread:     *)
(* adding a node or marking an output never makes it smaller.              *)
Size ==
  Len(nodes) + Cardinality({n \in NodeId : Len(nodes[n].inputs) > 1})
    + Cardinality({t \in TensorId :
          tensors[t].output \/ \A n \in NodeId : t \notin Range(nodes[n].inputs)})
WithinSize == Size <= MaxSize

Fails(code) == /\ Len(nodes) <= MaxRefused
               /\ status' = code
               /\ UNCHANGED <<tensors, nodes, finalized>>

-----------------------------------------------------------------------------
(* Construction.                                                           *)

Shape == Seq(Nat \ {0}) \ {<<>>}
TensorRecord == [shape : Shape, producer : Nat, consumers : SUBSET Nat,
                 input : BOOLEAN, output : BOOLEAN]
NodeRecord == [op : OpKinds, inputs : Seq(Nat), output : Nat, preds : {{}}, succs : {{}},
               depth : {0}, slack : {0}, dead : {FALSE}]

NewTensor(shape, producer) ==
  [shape |-> shape, producer |-> producer, consumers |-> {},
   input |-> producer = kInvalidNode, output |-> FALSE]

NewNode(op, inputs, output) ==
  [op |-> op, inputs |-> inputs, output |-> output, preds |-> {}, succs |-> {},
   depth |-> 0, slack |-> 0, dead |-> FALSE]

AddInput(shape) ==
  \/ ~ValidShape(shape) /\ Fails("kInvalidArgument")
  \/ ValidShape(shape) /\ finalized /\ Fails("kFailedPrecondition")
  \/ /\ ValidShape(shape) /\ ~finalized
     /\ Cardinality({t \in TensorId : tensors[t].input}) < MaxInputs
     /\ tensors' = Append(tensors, NewTensor(shape, kInvalidNode))
     /\ status' = "kOk"
     /\ UNCHANGED <<nodes, finalized>>

ShapesOf(inputs) == [i \in DOMAIN inputs |-> tensors[inputs[i]].shape]

Inferred(op, inputs) ==
  IF Range(inputs) \subseteq TensorId THEN infer_shapes(op, ShapesOf(inputs)) ELSE {}

AddNode(op, inputs) ==
  \/ finalized /\ Fails("kFailedPrecondition")
  \/ ~finalized /\ Inferred(op, inputs) = {} /\ Fails("kInvalidArgument")
  \/ /\ ~finalized /\ Len(nodes) < MaxNodes
     /\ \E shape \in Inferred(op, inputs) :
          tensors' = Append(tensors, NewTensor(shape, Len(nodes) + 1))
     /\ nodes' = Append(nodes, NewNode(op, inputs, Len(tensors) + 1))
     /\ status' = "kOk"
     /\ UNCHANGED finalized
     /\ WithinSize'

MarkOutput(t) ==
  \/ finalized /\ Fails("kFailedPrecondition")
  \/ ~finalized /\ t \notin TensorId /\ Fails("kInvalidArgument")
  \/ /\ ~finalized /\ t \in TensorId
     /\ tensors' = [tensors EXCEPT ![t].output = TRUE]
     /\ status' = "kOk"
     /\ UNCHANGED <<nodes, finalized>>
     /\ WithinSize'

-----------------------------------------------------------------------------
(* What finalize derives.                                                  *)

InputsOf(n) == Range(nodes[n].inputs)
Consumers(t) == {n \in NodeId : t \in InputsOf(n)}
Preds(n) == {tensors[t].producer : t \in InputsOf(n)} \ {kInvalidNode}
Succs(n) == {m \in NodeId : n \in Preds(m)}

(* Dense numbers in ascending order: the rank of x in S, and S by rank.    *)
Below(S, x) == Cardinality({y \in S : y < x})
Ascending(S) == [i \in 1 .. Cardinality(S) |-> CHOOSE x \in S : Below(S, x) = i - 1]

(* kahn_order: a FIFO frontier, seeded and extended in the order of ids.   *)
(* A node joins it when the last of its predecessors is taken.             *)
MutExtend(frontier, ready) == Ascending(ready) \o Tail(frontier)
Extend(frontier, ready) == Tail(frontier) \o Ascending(ready)

KahnOrder ==
  LET pred == [n \in NodeId |-> Preds(n)]
      k[i \in 0 .. Len(nodes)] ==
        IF i = 0
          THEN [frontier |-> Ascending({n \in NodeId : pred[n] = {}}), order |-> <<>>]
          ELSE LET last == k[i - 1]
                   n == Head(last.frontier)
                   taken == Append(last.order, n)
               IN  [frontier |-> Extend(last.frontier,
                      {m \in NodeId : n \in pred[m] /\ pred[m] \subseteq Range(taken)}),
                    order |-> taken]
  IN  k[Len(nodes)].order

(* Longest path from a source, and to a sink.                              *)
Deepest(S) == Max({0} \cup S)

Depth ==
  LET d[n \in NodeId] == Deepest({d[p] + 1 : p \in Preds(n)}) IN d

Height ==
  LET h[n \in NodeId] == Deepest({h[s] + 1 : s \in Succs(n)}) IN h

(* Backward reachability from the outputs.                                 *)
Alive ==
  LET a[n \in NodeId] ==
        tensors[nodes[n].output].output \/ \E s \in Succs(n) : a[s]
  IN  a

Derived ==
  LET depth == Depth  height == Height  alive == Alive
      critical == Deepest({depth[n] : n \in NodeId})
  IN  [n \in NodeId |->
         [nodes[n] EXCEPT !.preds = Preds(n), !.succs = Succs(n),
                          !.depth = depth[n],
                          !.slack = critical - height[n] - depth[n],
                          !.dead = ~alive[n]]]

Finalize ==
  \/ finalized /\ status' = "kOk" /\ UNCHANGED <<tensors, nodes, finalized>>
  \/ ~finalized /\ nodes = <<>> /\ Fails("kFailedPrecondition")
  \/ /\ ~finalized /\ nodes # <<>>
     /\ \A t \in TensorId : ~tensors[t].output
     /\ Fails("kInvalidArgument")
  \/ /\ ~finalized /\ nodes # <<>>
     /\ \E t \in TensorId : tensors[t].output
     /\ tensors' = [t \in TensorId |-> [tensors[t] EXCEPT !.consumers = Consumers(t)]]
     /\ nodes' = Derived
     /\ finalized' = TRUE /\ status' = "kOk"

(* topological_order, once finalized.                                      *)
topological_order == KahnOrder

(* compute_live_ranges: for each tensor the positions, in a given order of *)
(* nodes, between which its bytes must stay.                               *)
PositionsOf(order, S) == {i \in DOMAIN order : order[i] \in S}

MutLiveRanges(order) ==
  [t \in TensorId |->
     LET d == tensors[t]
         def == Max({0} \cup PositionsOf(order, {d.producer}))
         uses == PositionsOf(order, d.consumers)
     IN  [def |-> def,
          last |-> IF d.input \/ d.output THEN Len(order) + 1
                   ELSE IF uses = {} THEN def ELSE Min(uses)]]

compute_live_ranges(order) ==
  [t \in TensorId |->
     LET d == tensors[t]
         def == Max({0} \cup PositionsOf(order, {d.producer}))
     IN  [def |-> def,
          last |-> IF d.input \/ d.output THEN Len(order) + 1
                   ELSE Max({def} \cup PositionsOf(order, d.consumers))]]

MutReusable(t) == ~tensors[t].input
reusable(t) == ~tensors[t].input /\ ~tensors[t].output
=============================================================================
