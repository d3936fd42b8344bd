--------------------------- MODULE StreamSchedule ---------------------------
(***************************************************************************)
(* plan_streams: src/graph/schedule.cpp assigns the live nodes of a        *)
(* finalized graph to streams under one of three policies, then gives      *)
(* events to the nodes another stream waits for and drops the waits that   *)
(* an earlier wait of the same stream covers.                              *)
(*                                                                         *)
(* A scheduled node is its position in sa.nodes, from 1.                   *)
(***************************************************************************)
EXTENDS DataflowGraph, HappensBefore

SchedulePolicy == {"kSequential", "kLevelParallel", "kChainGreedy"}

(* The live nodes, in topological order.                                   *)
LiveOrder ==
  LET order == topological_order
      live == Ascending({i \in DOMAIN order : ~nodes[order[i]].dead})
  IN  [i \in DOMAIN live |-> order[live[i]]]

SchedOf(live, n) == {i \in DOMAIN live : live[i] = n}

(* Scheduled positions of the predecessors of the i-th live node.          *)
LivePreds(live, i) == UNION {SchedOf(live, p) : p \in nodes[live[i]].preds}

CostOf(n) == plan_cost(cost(nodes[n].op, ShapesOf(nodes[n].inputs)))

-----------------------------------------------------------------------------
(* The policies: the stream of each scheduled node, and whom it waits for. *)

DepthOf(live, i) == nodes[live[i]].depth
Level(live, d) == {i \in DOMAIN live : DepthOf(live, i) = d}

(* kLevelParallel: round robin over a level, in the order of node ids.     *)
RoundRobin(live, K) ==
  [i \in DOMAIN live |->
     Cardinality({j \in Level(live, DepthOf(live, i)) : live[j] < live[i]}) % K]

(* A barrier: the first node of a level on each stream, by position in the *)
(* schedule, waits for the last node of the level before on every other.   *)
LevelBefore(live, d) ==
  Level(live, Max({-1} \cup {DepthOf(live, j) : j \in {k \in DOMAIN live : DepthOf(live, k) < d}}))

OnStream(S, stream, s) == {i \in S : stream[i] = s}

MutBarrierWaits(live, stream, i) ==
  LET d == DepthOf(live, i)
      mine == OnStream(Level(live, d), stream, stream[i])
      before == LevelBefore(live, d)
  IN  IF \E j \in mine : live[j] < live[i] THEN {}
      ELSE {Max(OnStream(before, stream, s)) :
              s \in {stream[j] : j \in before} \ {stream[i]}}

BarrierWaits(live, stream, i) ==
  LET d == DepthOf(live, i)
      mine == OnStream(Level(live, d), stream, stream[i])
      before == LevelBefore(live, d)
  IN  IF i # Min(mine) THEN {}
      ELSE {Max(OnStream(before, stream, s)) :
              s \in {stream[j] : j \in before} \ {stream[i]}}

(* kChainGreedy: a node inherits the stream of its only predecessor unless *)
(* another has; the others take the least loaded stream.                   *)
LeastLoaded(load) == Min({s \in DOMAIN load : \A t \in DOMAIN load : load[s] <= load[t]})

ChainGreedy(live, K) ==
  LET place[i \in 0 .. Len(live)] ==
        IF i = 0 THEN [stream |-> <<>>, load |-> [s \in 0 .. K - 1 |-> 0], donated |-> {}]
        ELSE LET was == place[i - 1]
                 preds == LivePreds(live, i)
                 inherits == Cardinality(preds) = 1 /\ preds \cap was.donated = {}
                 s == IF inherits THEN was.stream[Max(preds)] ELSE LeastLoaded(was.load)
             IN  [stream |-> Append(was.stream, s),
                  load |-> [was.load EXCEPT ![s] = @ + CostOf(live[i])],
                  donated |-> IF inherits THEN was.donated \cup preds ELSE was.donated]
  IN  place[Len(live)].stream

StreamsOf(policy, live, K) ==
  CASE policy = "kSequential" -> [i \in DOMAIN live |-> 0]
    [] policy = "kLevelParallel" -> RoundRobin(live, K)
    [] policy = "kChainGreedy" -> ChainGreedy(live, K)

WaitOn(policy, live, stream) ==
  [i \in DOMAIN live |->
     CASE policy = "kSequential" -> {}
       [] policy = "kLevelParallel" -> BarrierWaits(live, stream, i)
       [] policy = "kChainGreedy" -> LivePreds(live, i)]

-----------------------------------------------------------------------------
(* Issue indices, compaction of the stream ids, events and waits.          *)

IssueOf(stream) ==
  [i \in DOMAIN stream |-> Below({j \in DOMAIN stream : stream[j] = stream[i]}, i)]

Compact(stream) ==
  [i \in DOMAIN stream |-> Below(Range(stream), stream[i])]

(* Events, in the order of the nodes, for those another stream waits for.  *)
RecordOf(stream, waitOn) ==
  LET awaited == UNION {{p \in waitOn[i] : stream[p] # stream[i]} : i \in DOMAIN stream}
  IN  [i \in DOMAIN stream |->
         IF i \in awaited THEN Below(awaited, i) ELSE kNoEventId]

(* One wait orders everything later on its stream.                         *)
MutWaitsOf(stream, waitOn, record) ==
  LET across == [i \in DOMAIN stream |->
                   {record[p] : p \in {q \in waitOn[i] : stream[q] # stream[i]}}]
  IN  [i \in DOMAIN stream |->
         IF \E j \in 1 .. i - 1 : stream[j] = stream[i] /\ across[j] # {}
           THEN {} ELSE across[i]]

WaitsOf(stream, waitOn, record) ==
  LET across == [i \in DOMAIN stream |->
                   {record[p] : p \in {q \in waitOn[i] : stream[q] # stream[i]}}]
  IN  [i \in DOMAIN stream |->
         across[i] \ UNION {across[j] : j \in {k \in 1 .. i - 1 : stream[k] = stream[i]}}]

plan_streams(policy, num_streams) ==
  LET live == LiveOrder
      K == Min({num_streams, Len(live)})
      placed == StreamsOf(policy, live, K)
      stream == Compact(placed)
      waitOn == WaitOn(policy, live, placed)
      record == RecordOf(stream, waitOn)
  IN  [nodes |-> live, streams |-> Cardinality(Range(stream)), stream |-> stream,
       issue |-> IssueOf(stream), record |-> record,
       waits |-> WaitsOf(stream, waitOn, record),
       events |-> Cardinality(Range(record) \ {kNoEventId}),
       order |-> [i \in DOMAIN live |-> i]]

NoSchedule == [nodes |-> <<>>, streams |-> 0, stream |-> <<>>, issue |-> <<>>,
               record |-> <<>>, waits |-> <<>>, events |-> 0, order |-> <<>>]

(* The refusals of plan_streams, in the order it makes them.               *)
plan_streams_status(num_streams) ==
  CASE num_streams < 1 -> "kInvalidArgument"
    [] num_streams >= 1 /\ ~finalized -> "kFailedPrecondition"
    [] num_streams >= 1 /\ finalized /\ LiveOrder = <<>> -> "kInvalidArgument"
    [] OTHER -> "kOk"

(* verify_plan_ordering, of a built relation.                              *)
verify_plan_ordering ==
  \A i \in Scheduled : \A p \in nodes[sa.nodes[i]].preds :
    \E j \in SchedOf(sa.nodes, p) : precedes(j, i)
=============================================================================
