------------------------------ MODULE Executor ------------------------------
(***************************************************************************)
(* GraphExecutor: src/graph/executor.cpp plans a graph, then replays the   *)
(* plan: run_async enqueues one iteration on the streams of the plan and   *)
(* returns, so that iterations and input copies overlap on the device.     *)
(*                                                                         *)
(* The device (external) executes each stream's commands in order.  Work   *)
(* takes time: it starts, its output is torn meanwhile, it finishes.  A    *)
(* wait captures the latest record of its event at the time of the call.   *)
(*                                                                         *)
(* Assumed of the client: it feeds every input before it runs, it          *)
(* synchronizes after a failed run_async before it feeds or runs again,    *)
(* and it plans again only when the device is idle.                        *)
(***************************************************************************)
EXTENDS Planning

CONSTANTS
  Graphs,         (* the graphs, built and not yet finalized                *)
  Options,        (* the ExecutorOptions of the client                      *)
  MaxRuns,        (* bound: calls of run_async under one plan               *)
  MaxFeeds        (* bound: calls of set_input for each input               *)

ExecutorOptions ==
  [schedule : SchedulePolicies, memory : MemoryPolicies, num_streams : StreamCounts,
   poison_buffers : BOOLEAN, profile : BOOLEAN, profile_slots : Nat]

(* What the calls that build a graph leave: nodes and tensors that name    *)
(* each other, every node made from tensors that were there before it.     *)
Constructed(g) ==
  /\ g.tensors \in Seq(TensorRecord) /\ g.nodes \in Seq(NodeRecord)
  /\ \A n \in DOMAIN g.nodes :
       LET in == g.nodes[n].inputs
       IN  /\ Range(in) \cup {g.nodes[n].output} \subseteq DOMAIN g.tensors
           /\ g.tensors[g.nodes[n].output].producer = n
           /\ \A t \in Range(in) : g.tensors[t].producer < n
           /\ infer_shapes(g.nodes[n].op, [i \in DOMAIN in |-> g.tensors[in[i]].shape]) # {}
  /\ \A t \in DOMAIN g.tensors :
       LET p == g.tensors[t].producer
       IN  /\ p \in {kInvalidNode} \cup DOMAIN g.nodes
           /\ g.tensors[t].input <=> p = kInvalidNode
           /\ p # kInvalidNode => g.nodes[p].output = t
           /\ g.tensors[t].consumers = {}

ASSUME ExecutorAssumption ==
  /\ Options \subseteq ExecutorOptions
  /\ \A g \in Graphs : Constructed(g)
  /\ MaxRuns \in Nat /\ MaxFeeds \in Nat

VARIABLES
  opts,    (* the ExecutorOptions                                           *)
  pc,      (* the host: 0, or the next node run_async issues                *)
  run,     (* calls of run_async under this plan                            *)
  iteration, (* those of them that did not fail                             *)
  probes,  (* the runs whose launch the two probes of a slot bracket        *)
  outcome, (* of the latest of them; "drained": failed, then synchronized   *)
  fed,     (* calls of set_input, by input                                  *)
  queue,   (* the commands of each stream                                   *)
  started, (* the streams whose oldest command has started                  *)
  issued,  (* records enqueued, by event                                    *)
  done,    (* records completed, by event                                   *)
  memory   (* what each element of the arena holds                          *)

hostVars == <<opts, pc, run, iteration, probes, outcome, fed>>
deviceVars == <<queue, started, issued, done, memory>>

Input == {t \in TensorId : tensors[t].input}
Output == {t \in TensorId : tensors[t].output}

(* What a tensor holds: an input its latest copy, another its latest run.  *)
(* The other contents: torn, and the fill, another after each iteration.   *)
Value(t) == [tensor |-> t, version |-> IF t \in Input THEN fed[t] ELSE run]
Torn == [tensor |-> 0, version |-> -1]
Fill == [tensor |-> 0, version |-> iteration]

BytesOf(t) == mp.offset[t] .. mp.offset[t] + bytes_of(t) - 1

Holding(T) ==
  [b \in UNION {BytesOf(t) : t \in T} |-> Value(CHOOSE t \in T : b \in BytesOf(t))]

-----------------------------------------------------------------------------
(* Commands, and what the host appends to a stream.                        *)

Work(reads, writes) == [kind |-> "work", reads |-> reads, writes |-> writes]
Wait(e) == [kind |-> "wait", event |-> e, ticket |-> issued[e]]
Record(e) == [kind |-> "record", event |-> e]

NodeEvent(e) == <<"node", e>>
ForkEvent == <<"fork", 0>>
JoinEvent(s) == <<"join", s>>

EventsOfPlan ==
  {NodeEvent(e) : e \in 0 .. sa.events - 1}
    \cup (IF sa.streams > 1 THEN {ForkEvent} \cup {JoinEvent(s) : s \in Stream \ {0}} ELSE {})

Issue(e) == issued' = [issued EXCEPT ![e] = @ + 1]

Others == Stream \ {0}

-----------------------------------------------------------------------------
(* plan: finalize, assign the streams, pack the memory, then create the    *)
(* streams, the events, the arena and the probes, a ring of slots for each *)
(* scheduled node.  The new arena holds anything.                          *)

probe_slots == Max({1, opts.profile_slots})
NeverRecorded == [start |-> 0, stop |-> 0]
ProbeRing == [i \in (IF opts.profile THEN Scheduled ELSE {}) |->
                [slot \in 0 .. probe_slots - 1 |-> NeverRecorded]]

PlanStep ==
  \/ stage = "build" /\ ~finalized /\ Finalize /\ UNCHANGED <<hbVars, mp, stage, schedule>>
  \/ finalized /\ PlanStreams(opts.schedule, opts.num_streams)
  \/ OrderNode
  \/ verify_plan_ordering /\ PlanMemory(opts.memory)
  \/ PackTensor

Plan ==
  /\ PlanStep
  /\ UNCHANGED opts /\ pc' = 0 /\ run' = 0 /\ iteration' = 0 /\ outcome' = "none"
  /\ probes' = ProbeRing'
  /\ fed' = [t \in Input |-> 0]
  /\ queue' = [s \in Stream |-> <<>>]' /\ started' = {}
  /\ issued' = [e \in EventsOfPlan |-> 0]' /\ done' = [e \in EventsOfPlan |-> 0]'
  /\ memory' = [b \in 0 .. mp.arena - 1 |-> Torn]'

planned == stage = "planned" /\ verify_no_buffer_races

Idle == planned /\ pc = 0

DeviceIdle == \A s \in DOMAIN queue : queue[s] = <<>>

PlanAgain ==
  /\ Idle /\ DeviceIdle /\ Discard
  /\ UNCHANGED <<hostVars, deviceVars>>

(* set_input: a copy on stream 0.                                          *)
SetInput(t) ==
  /\ Idle /\ outcome # "failed" /\ fed[t] < MaxFeeds
  /\ fed' = [fed EXCEPT ![t] = @ + 1]
  /\ UNCHANGED <<planVars, opts, pc, run, iteration, probes, outcome, started, issued, done, memory>>
  /\ queue' = [queue EXCEPT ![0] = Append(@, Work(<<>>, Holding({t})'))]

-----------------------------------------------------------------------------
(* run_async: poison all bytes but the inputs', fork the streams, issue    *)
(* the nodes in the order of the schedule, join.                           *)

MutPoisoned == DOMAIN memory
Poisoned == DOMAIN memory \ UNION {BytesOf(t) : t \in Input}

Poison == IF opts.poison_buffers
            THEN <<Work(<<>>, [b \in Poisoned |-> Fill])>> ELSE <<>>

BeginRun ==
  /\ Idle /\ outcome # "failed" /\ run < MaxRuns
  /\ \A t \in Input : fed[t] > 0
  /\ run' = run + 1 /\ pc' = 1
  /\ UNCHANGED <<planVars, opts, iteration, probes, outcome, fed, started, done, memory>>
  /\ IF sa.streams = 1
       THEN /\ queue' = [queue EXCEPT ![0] = @ \o Poison']
            /\ UNCHANGED issued
       ELSE /\ Issue(ForkEvent)
            /\ queue' = [s \in Stream |->
                 queue[s] \o IF s = 0 THEN Append(Poison', Record(ForkEvent))
                                      ELSE <<Wait(ForkEvent)'>>]

WaitsFor(i) == SetToSeq({Wait(NodeEvent(e)) : e \in sa.waits[i]})

Kernel(i) == LET n == nodes[sa.nodes[i]]
             IN  Work(Holding(Range(n.inputs)), Holding({n.output}))

(* The probes of the slot that the iteration counter points at.            *)
Probe(ends) ==
  probes' = IF opts.profile
              THEN [probes EXCEPT ![pc][iteration % probe_slots] =
                      [end \in {"start", "stop"} |-> IF end \in ends THEN run ELSE @[end]]]
              ELSE probes

(* One node: its waits, its kernel, its record; the kernel between probes. *)
IssueNode ==
  /\ planned /\ pc \in Scheduled
  /\ LET s == sa.stream[pc]
         e == NodeEvent(sa.record[pc])
     IN  IF sa.record[pc] = kNoEventId
           THEN /\ queue' = [queue EXCEPT ![s] = @ \o WaitsFor(pc) \o <<Kernel(pc)>>]
                /\ UNCHANGED issued
           ELSE /\ queue' = [queue EXCEPT ![s] =
                               @ \o WaitsFor(pc) \o <<Kernel(pc), Record(e)>>]
                /\ Issue(e)
  /\ pc' = pc + 1 /\ Probe({"start", "stop"})
  /\ UNCHANGED <<planVars, opts, run, iteration, outcome, fed, started, done, memory>>

(* A launch fails: run_async returns at once, without the join.            *)
LaunchFails ==
  /\ planned /\ pc \in Scheduled
  /\ queue' = [queue EXCEPT ![sa.stream[pc]] = @ \o WaitsFor(pc)]
  /\ pc' = 0 /\ outcome' = "failed" /\ Probe({"start"})
  /\ UNCHANGED <<planVars, opts, run, iteration, fed, started, issued, done, memory>>

MutJoinWaits == <<>>
JoinWaits == LET joins == SetToSeq(Others)
             IN  [i \in DOMAIN joins |-> Wait(JoinEvent(joins[i]))]

Join ==
  /\ planned /\ pc = Len(sa.nodes) + 1
  /\ issued' = [e \in DOMAIN issued |->
                  IF \E s \in Others : e = JoinEvent(s) THEN issued[e] + 1 ELSE issued[e]]
  /\ pc' = 0 /\ outcome' = "ok" /\ iteration' = iteration + 1
  /\ UNCHANGED <<planVars, opts, run, probes, fed, started, done, memory>>
  /\ queue' = [s \in Stream |->
                 queue[s] \o IF s = 0 THEN JoinWaits' ELSE <<Record(JoinEvent(s))>>]

(* synchronize: the host waits for every stream.                           *)
Synchronize ==
  /\ Idle /\ DeviceIdle
  /\ outcome' = IF outcome = "failed" THEN "drained" ELSE outcome
  /\ UNCHANGED <<planVars, opts, pc, run, iteration, probes, fed, deviceVars>>

(* collect_timings, of a node: the slots it reads.                         *)
MutTimedSlots == probe_slots
TimedSlots == Min({probe_slots, iteration})

Timings(i) == {probes[i][slot] : slot \in 0 .. TimedSlots - 1}

-----------------------------------------------------------------------------
(* The device.                                                             *)

Overwrite(new) == memory' = [b \in DOMAIN memory |->
                               IF b \in DOMAIN new THEN new[b] ELSE memory[b]]

(* A kernel that did not read what it should leaves what it read instead.  *)
Misread(work) == {b \in DOMAIN work.reads : memory[b] # work.reads[b]}

Results(work) ==
  IF Misread(work) = {} THEN work.writes
  ELSE LET wrong == memory[CHOOSE b \in Misread(work) : TRUE]
       IN  [b \in DOMAIN work.writes |-> wrong]

Start(s) ==
  /\ queue[s] # <<>> /\ Head(queue[s]).kind = "work" /\ s \notin started
  /\ started' = started \cup {s}
  /\ Overwrite([b \in DOMAIN Head(queue[s]).writes |-> Torn])
  /\ UNCHANGED <<queue, done>>

Finish(s) ==
  /\ s \in started
  /\ started' = started \ {s}
  /\ Overwrite(Results(Head(queue[s])))
  /\ queue' = [queue EXCEPT ![s] = Tail(@)]
  /\ UNCHANGED done

PassWait(s) ==
  /\ queue[s] # <<>> /\ Head(queue[s]).kind = "wait"
  /\ done[Head(queue[s]).event] >= Head(queue[s]).ticket
  /\ queue' = [queue EXCEPT ![s] = Tail(@)]
  /\ UNCHANGED <<started, done, memory>>

PassRecord(s) ==
  /\ queue[s] # <<>> /\ Head(queue[s]).kind = "record"
  /\ done' = [done EXCEPT ![Head(queue[s]).event] = @ + 1]
  /\ queue' = [queue EXCEPT ![s] = Tail(@)]
  /\ UNCHANGED <<started, memory>>

DeviceStep ==
  /\ \E s \in DOMAIN queue : Start(s) \/ Finish(s) \/ PassWait(s) \/ PassRecord(s)
  /\ UNCHANGED <<planVars, hostVars, issued>>

-----------------------------------------------------------------------------

Init ==
  /\ \E g \in Graphs : tensors = g.tensors /\ nodes = g.nodes
  /\ finalized = FALSE /\ status = "kOk"
  /\ sa = NoSchedule /\ clock = <<>> /\ pos = 0
  /\ mp = NoMemory
  /\ stage = "build" /\ schedule = "kSequential"
  /\ opts \in Options
  /\ pc = 0 /\ run = 0 /\ iteration = 0 /\ probes = <<>>
  /\ outcome = "none" /\ fed = <<>>
  /\ queue = <<>> /\ started = {} /\ issued = <<>> /\ done = <<>> /\ memory = <<>>

Next ==
  \/ Plan \/ PlanAgain
  \/ \E t \in Input : SetInput(t)
  \/ BeginRun \/ IssueNode \/ LaunchFails \/ Join \/ Synchronize
  \/ DeviceStep

Spec == Init /\ [][Next]_<<planVars, hostVars, deviceVars>>

-----------------------------------------------------------------------------

Current(s) == Head(queue[s])

(* Whatever overlaps on the device, kernels of two iterations, copies and  *)
(* the poison fill, nothing writes bytes that something else running on    *)
(* another stream reads or writes.                                         *)
NoConflictingAccess ==
  \A s, r \in started : s # r =>
    DOMAIN Current(s).writes \cap (DOMAIN Current(r).reads \cup DOMAIN Current(r).writes) = {}

(* A kernel reads what its own iteration and the latest copies before it   *)
(* wrote, and the bytes keep it while the kernel runs.                     *)
ReadsAreFresh ==
  \A s \in started : \A b \in DOMAIN Current(s).reads :
    memory[b] = Current(s).reads[b]

(* Once the device is idle after a complete run, the outputs of the graph  *)
(* hold the values of that run, to the last byte.                          *)
OutputsReady ==
  Idle /\ DeviceIdle /\ outcome = "ok" =>
    \A t \in Output : \A b \in BytesOf(t) : memory[b] = Value(t)

(* Whatever the host puts on stream 0 next comes after all that run_async  *)
(* put on the others.  The arena is freed to its pool against stream 0     *)
(* alone, the one stream its Storage ever notes, so this is what makes the *)
(* pool's next use of the bytes safe.  It fails after a failed run.        *)
Joined(s, i) ==
  \E j \in i + 1 .. Len(queue[s]), k \in DOMAIN queue[0] :
    /\ queue[s][j] = Record(JoinEvent(s))
    /\ queue[0][k].kind = "wait" /\ queue[0][k].event = JoinEvent(s)
    /\ queue[0][k].ticket >=
         done[JoinEvent(s)]
           + Cardinality({r \in 1 .. j : queue[s][r] = Record(JoinEvent(s))})

ArenaIsFreedInOrder ==
  Idle /\ outcome # "failed" =>
    \A s \in Others : \A i \in DOMAIN queue[s] :
      queue[s][i].kind = "work" => Joined(s, i)

(* What is reported as the duration of a node is that of one launch, every *)
(* node has one for each of the same runs, and these are the latest to     *)
(* complete: as long as the ring is no smaller than the number of calls,   *)
(* as its comment asks, or no call fails.                                  *)
TimingsAreOfOneRun ==
  /\ Idle /\ opts.profile /\ outcome # "failed"
  /\ run <= probe_slots \/ run = iteration
  => \A i \in Scheduled :
       LET runs == {t.start : t \in Timings(i)}
       IN  /\ \A t \in Timings(i) : t.start = t.stop
           /\ Cardinality(runs) = TimedSlots /\ runs \subseteq 1 .. run
           /\ run = iteration => runs = run - TimedSlots + 1 .. run
           /\ \A j \in Scheduled : Timings(j) = Timings(i)
=============================================================================
