------------------------------ MODULE Planning ------------------------------
(***************************************************************************)
(* From a graph to a plan, as GraphExecutor::plan and the benchmarks drive *)
(* it: build and finalize a graph, assign streams, build the happens-      *)
(* before relation, pack the memory; then plan again with other policies.  *)
(***************************************************************************)
EXTENDS MemoryPlan

CONSTANTS
  SchedulePolicies,  (* the schedule policies the client asks for           *)
  MemoryPolicies,    (* the memory policies                                 *)
  StreamCounts       (* the numbers of streams                              *)

ASSUME PlanningAssumption ==
  /\ SchedulePolicies \subseteq SchedulePolicy
  /\ MemoryPolicies \subseteq MemoryPolicy
  /\ StreamCounts \subseteq Nat

VARIABLES
  stage,     (* "build", "order", "memory" or "planned"                     *)
  schedule   (* the schedule policy of sa                                   *)

planVars == <<graphVars, hbVars, mp, stage, schedule>>

PlanInit ==
  /\ GraphInit
  /\ sa = NoSchedule /\ clock = <<>> /\ pos = 0
  /\ mp = NoMemory
  /\ stage = "build" /\ schedule = "kSequential"

Build ==
  /\ stage = "build"
  /\ \/ \E shape \in InputShapes : AddInput(shape)
     \/ \E op \in Ops, t \in 1 .. Len(tensors) + 1 : AddNode(op, <<t>>)
     \/ \E op \in Ops, t, u \in 1 .. Len(tensors) + 1 : AddNode(op, <<t, u>>)
     \/ \E t \in 1 .. Len(tensors) + 1 : MarkOutput(t)
     \/ Finalize
  /\ UNCHANGED <<hbVars, mp, stage, schedule>>

PlanStreams(policy, num_streams) ==
  /\ stage = "build"
  /\ \/ /\ plan_streams_status(num_streams) # "kOk"
        /\ status' = plan_streams_status(num_streams)
        /\ UNCHANGED <<hbVars, stage, schedule>>
     \/ /\ plan_streams_status(num_streams) = "kOk"
        /\ sa' = plan_streams(policy, num_streams)
        /\ clock' = Unknown' /\ pos' = 0
        /\ stage' = "order" /\ schedule' = policy
        /\ status' = "kOk"
  /\ UNCHANGED <<tensors, nodes, finalized, mp>>

OrderNode == /\ stage = "order" /\ Absorb
             /\ UNCHANGED <<graphVars, mp, stage, schedule>>

PlanMemory(policy) ==
  /\ stage = "order" /\ built
  /\ StartMemory(policy)
  /\ stage' = "memory"
  /\ UNCHANGED <<graphVars, hbVars, schedule>>

PackTensor ==
  /\ stage = "memory" /\ PlaceTensor
  /\ stage' = IF mp'.todo = {} THEN "planned" ELSE "memory"
  /\ UNCHANGED <<graphVars, hbVars, schedule>>

(* The caller drops the plan, to plan again.                               *)
Discard ==
  /\ stage = "planned"
  /\ sa' = NoSchedule /\ clock' = <<>> /\ pos' = 0
  /\ mp' = NoMemory
  /\ stage' = "build" /\ schedule' = "kSequential"
  /\ UNCHANGED graphVars

PlanNext ==
  \/ Build
  \/ \E policy \in SchedulePolicies, k \in StreamCounts : PlanStreams(policy, k)
  \/ OrderNode
  \/ \E policy \in MemoryPolicies : PlanMemory(policy)
  \/ PackTensor
  \/ Discard

PlanSpec == PlanInit /\ [][PlanNext]_planVars

-----------------------------------------------------------------------------

PlanTypeOK ==
  /\ \A t \in TensorId :
       /\ ValidShape(tensors[t].shape)
       /\ tensors[t].producer \in {kInvalidNode} \cup NodeId
       /\ tensors[t].input <=> tensors[t].producer = kInvalidNode
       /\ tensors[t].consumers \subseteq NodeId
  /\ \A n \in NodeId : InputsOf(n) \subseteq TensorId /\ nodes[n].output \in TensorId
  /\ sa.stream \in Seq(Nat) /\ pos \in 0 .. Len(sa.order)
  /\ clock \in [Scheduled -> [Stream -> -1 .. Len(sa.stream)]]
  /\ stage \in {"build", "order", "memory", "planned"}
  /\ schedule \in SchedulePolicy
  /\ Placed \subseteq TensorId

(* The order of a finalized graph lists every node once, after its         *)
(* predecessors, and level by level: the FIFO frontier of kahn_order makes *)
(* the last node of one level come before the first of the next.           *)
TopologicalOrderIsByDepth ==
  stage = "build" /\ finalized =>
    LET order == topological_order
    IN  /\ Range(order) = NodeId /\ Len(order) = Len(nodes)
        /\ \A i, j \in DOMAIN order : i < j =>
             /\ order[j] \notin nodes[order[i]].preds
             /\ nodes[order[i]].depth <= nodes[order[j]].depth

(* A schedule holds exactly what the outputs need: the least set of nodes  *)
(* that produces the outputs and is closed under predecessors.             *)
Scheduling == stage = "order" /\ pos = 0

ScheduleIsWhatOutputsNeed ==
  Scheduling =>
    LET live == Range(sa.nodes)
        Closed(S) == /\ {tensors[t].producer : t \in {u \in TensorId : tensors[u].output}}
                          \ {kInvalidNode} \subseteq S
                     /\ \A n \in S : nodes[n].preds \subseteq S
    IN  Closed(live) /\ \A S \in SUBSET NodeId : Closed(S) => live \subseteq S

(* What plan_streams returns is a schedule HappensBefore::build accepts    *)
(* and whose order is the linear extension its walk relies on; and every   *)
(* recorded event is awaited by another stream.                            *)
ScheduleIsValid ==
  Scheduling =>
    /\ ScheduleType /\ Valid /\ InOrder
    /\ \A u \in Scheduled : sa.record[u] # kNoEventId =>
         \E v \in Scheduled : Awaits(v, u) /\ sa.stream[v] # sa.stream[u]

(* What the planner hands over is well formed, in the graph it was given.  *)
PlanIsWellFormed ==
  PlanTypeOK /\ TopologicalOrderIsByDepth /\ ScheduleIsWhatOutputsNeed /\ ScheduleIsValid

(* Every data dependency is ordered by the streams and the events that are *)
(* left after the waits are deduplicated: verify_plan_ordering never fails.*)
DependenciesOrdered == stage = "order" /\ built => verify_plan_ordering

(* kLevelParallel has true barriers: whatever the data dependencies, every *)
(* node of a level comes before every node of every later level.           *)
LevelsAreBarriers ==
  stage = "order" /\ built /\ schedule = "kLevelParallel" =>
    \A u, v \in Scheduled :
      nodes[sa.nodes[u]].depth < nodes[sa.nodes[v]].depth => precedes(u, v)

(* Two tensors that share a byte are intermediates, one of which is read   *)
(* and written before the other is produced.                               *)
SharersAreOrdered ==
  /\ verify_no_buffer_races
  /\ \A a, b \in Placed : a # b /\ SharesBytes(a, b) => reusable(a) /\ reusable(b)

(* Two tensors that share a byte of the arena are intermediates, and all   *)
(* accesses of one come before all accesses of the other on the device,    *)
(* whatever the schedule.  The naive policy is excepted, unless one stream *)
(* runs everything.                                                        *)
AllBefore(a, b) == \A x \in Accesses(a), y \in Accesses(b) : precedes(x, y)

ArenaIsRaceFree ==
  stage = "planned" /\ (mp.policy # "kReuseTopoNaive" \/ sa.streams = 1) =>
    /\ SharersAreOrdered
    /\ \A a, b \in Placed : a # b /\ SharesBytes(a, b) => AllBefore(a, b) \/ AllBefore(b, a)

(* On one stream the three ways to decide reuse agree: happens-before, the *)
(* naive comparison of positions, and the disjointness of live ranges.     *)
OneStreamReuseIsIntervals ==
  stage = "memory" /\ Placed = {} /\ sa.streams = 1 =>
    LET live == compute_live_ranges(sa.nodes)
    IN  \A a, b \in NeedsBytes : a # b =>
          /\ can_share("kReuseHappensBefore", a, b) <=> can_share("kReuseTopoNaive", a, b)
          /\ can_share("kReuseHappensBefore", a, b) <=>
               reusable(a) /\ reusable(b) /\ live[a].last < live[b].def

(* The scan returns the lowest aligned offset that is clear of every       *)
(* blocked interval, and the arena is aligned and no larger than one       *)
(* buffer for each tensor.                                                 *)
FirstFitIsLowest ==
  stage \in {"memory", "planned"} =>
    /\ mp.todo # {} =>
         LET t == Largest(mp.todo)
             blocked == Blocked(t)
             Clear(off) == \A b \in blocked : off + bytes_of(t) <= b[1] \/ b[2] <= off
             off == FirstFit(bytes_of(t), blocked)
         IN  /\ off % Alignment = 0 /\ Clear(off)
             /\ \A o \in 0 .. off - 1 : o % Alignment = 0 => ~Clear(o)
    /\ mp.arena % Alignment = 0
    /\ mp.arena <= SumFunction([t \in Placed |-> bytes_of(t)])
=============================================================================
