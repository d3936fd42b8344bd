# TLA+ models of the MCKE mini CUDA kernel engine

MCKE runs small tensor graphs on a GPU. Its own logic is host code (two pooling
memory allocators with stream-ordered reuse, a graph compiler and an executor
that spread kernels over several CUDA streams) and a ladder of hand-written
kernels. The host is single threaded; what makes the code hard is that the GPU is
not. A `free` is bookkeeping while the kernel that still reads the memory runs
later, and every reuse of bytes needs a reason why that kernel is over; a plan is
made once and replayed with several iterations in flight; a kernel is hundreds
of threads that agree through barriers.

This directory holds the models of that logic, the TLC configurations that check
them on small instances, and proofs, for all instances, about the two allocators and deferred reuse, the loops of the
buddy slab, the vector clocks, the stream scheduler, the memory planner, and the executor that replays
what they plan. Paths below are relative to the repository's root, and `file:line` refers to it.

## 1. Inventory

| component | state | operations | interacts with | hard part | what makes it correct |
|---|---|---|---|---|---|
| buddy arithmetic `buddy_math.hpp` | none | level of a size, heap indices, offsets, rounding | used by the slab | powers of two, wrap | deepest fit; buddies tile the parent; indices and offsets are inverses |
| buddy slab (`Slab` in `buddy_allocator.*`) | node states, back pointers, lists per level, mask | `alloc_node`, `free_node`, list primitives | owned by the allocator | four redundant representations changed in a loop | they agree at every iteration; maximal coalescing; blocks tile the slab |
| reuse policy, parked blocks | pending list, event pool | `pending_reusable`, reclaim pass, drain, park | streams and events of the GPU | a free precedes the end of the work; events may fail | a block leaves the list only with a proof, and does leave it |
| buddy allocator `buddy_allocator.cpp` | slabs, pending list, bypass map, counters | reserve, allocate, deallocate, settle_pending, trim | driver, all of the above, its clients | growth, cap, driver failures, dead slots, drain as a last resort | one owner per byte; bytes account; cap; truthful OOM; no unordered sharing |
| free-list allocator `freelist_allocator.cpp` | slabs with a bump pointer, class lists, live map, pending list | the same interface | driver, reuse policy | no coalescing, splitting, scan at trim, refusal after a drain | carved bytes = live + cached + parked; `largest_free_block` is exact |
| raw allocator `allocator.cpp` | counters | allocate, deallocate | driver | counters on the failing paths | counters balance |
| tensor, storage `tensor.cpp` | allocation, owners, last-use stream | empty, slice, reshape, from_storage, release | allocator | views of views, empty and rank-0 shapes; one last-use stream | a view stays in its storage; storage dies with its last view; freed in stream order |
| runtime `runtime/stream.hpp` | streams, events | record, wait, query, synchronize | CUDA | asynchronous | (external) |
| graph `graph.cpp` | nodes, tensors | add, mark, finalize, order, live ranges | scheduler, planner | derived edges, dead nodes, degenerate ranges | order by depth; the schedule holds what the outputs need; ranges cover all accesses |
| scheduler `schedule.cpp` | stream, event and wait lists per node | plan_streams | graph, executor | dropping redundant waits; barriers | every edge is ordered on the device |
| happens-before `happens_before.cpp` | vector clocks | build, precedes | planner, verifier | transitive waits | clocks = reachability |
| memory planner `memory_plan.cpp` | offset per tensor | plan_memory, verify_no_buffer_races | happens-before | sharing across streams | tensors that share bytes are ordered; first fit is lowest |
| executor `executor.cpp` | plan, streams, events, arena, probes | plan, set_input, run_async, synchronize, collect_timings, validate_numerics | all of the above | overlapping iterations, event re-recording, failures half way | every read is of its own iteration; outputs complete; no false alarm |
| operators `ops_*.cpp` | none | infer shapes, cost, launch | graph, kernels | refusals | (part of the graph's properties) |
| kernels `kernels/*.cu`, `gemm_tile.hpp` | shared memory, registers | GEMM ladder, reductions, softmax, bias and activation; occupancy | the device | barriers, double buffering, tails, splits | no race; exactly the operator, for every accepted launch |
| core, profiling | samples | percentiles, histogram, calibration | benches | ranks and edges at boundaries | nearest rank; every sample in its bucket |
| benches, tools, tests | traces | generate, replay, sweep | allocators, profiler | refused allocations, ties | the replay balances; overlaps are exact |

`PROJECT.json` lists the same components with their modelling status, and under
"hazards" the places where the code is hard to test.

## 2. Modules

```
Allocators
  BuddyMath                 arithmetic of buddy_math.hpp
    MCBuddyMath             bounded inputs and reference definitions
    BuddyMathProofs         powers of two, nodes and extents
    BuddyBlocks             which blocks exist, overlap, are free; the request's candidates
      BuddyTree             one slab, loop iteration by loop iteration      (run buddy_tree)
         implements BuddySlab   the abstract slab: a set of handed-out blocks
         BuddyTreeProofs        theorems, the refinement among them
      BuddyAllocator        the allocator, its client and the device        (runs buddy_safe,
         |                      buddy_shared, buddy_grow, buddy_cross_stream, buddy_event_fallback)
         implements StreamOrderedPool   the contract of allocator.hpp
         BuddyDoubleFree        a client that frees twice                   (run buddy_double_free)
         BuddyAllocatorProofs   theorems, the refinement among them
  FreeListAllocator         the size-class allocator                        (run freelist)
         implements DeferredPool, and so StreamOrderedPool
         FreeListAllocatorProofs   theorems
  DeferredPool              deferred reuse of any blocks handed out disjoint
         implements StreamOrderedPool
         DeferredPoolProofs     theorems, for every allocator that implements it
  FiniteSums                laws of sums and folds over finite sets, for the proofs
  StreamDevice              streams, kernels in flight, events (external: CUDA)
    DeferredReuse           reuse policy, pending list, event pool; both pools extend it
  RawDeviceAllocator        the counters of the pass-through allocator
Graph engine
  Operators                 shapes, costs and workspaces of the four operators
    DataflowGraph           construction, finalize, live ranges
      StreamSchedule        plan_streams         (also extends HappensBefore)
        MemoryPlan          plan_memory, verify_no_buffer_races
          Planning          the passes in sequence, and planning again
            MCPlanning      constants                                       (run planning)
            PlanningProofs  theorems: the clocks, finalize, plan_streams, plan_memory
            Executor        replaying a plan on streams and events
              NumericsGate  validate_numerics
                MCExecutor  two graphs and the options                      (run executor)
                ExecutorProofs   theorems, on those of PlanningProofs
  HappensBefore             vector clocks
Kernels
  Config, ThreadBlock       warps, barriers, shared memory (external: the device)
    GemmTile                tile tables, occupancy
    GemmKernels, RowKernels, ElementwiseKernels   the kernels, as programs
      Kernels               a launch of any of them
        MCKernels           a small device and the launches                 (run kernels)
Host-only code
  Tensors, AllocBench, HostTimer, NsysOverlap, MCBuddyMath
    MCHost                  each of them over every small input             (run host)
```

### Allocators

The split of the buddy slab into two levels of detail is the central choice.
`BuddyTree` has the four data structures of `Slab` and takes one step per loop
iteration. It implements `BuddySlab`, in which a slab is just the set of its used
nodes and a request is answered by one of `Candidates`: a leftmost piece of a
smallest free block that is large enough, where the free blocks are *computed* as
the maximal vacant ones. `BuddyAllocator` then treats each of its slabs as such
a set, so it can afford several slabs, streams, policies and kernels in flight.

**BuddyTree.** `slab` is the `Slab` record: `nodes`, `pos`, `free_lists`, and
`nonempty_mask` as the set of levels whose bit is set. `loop`, `g`, `src` and
`level` are the locals of `alloc_node` and `free_node` while they run.

| action | code |
|---|---|
| `AllocBegin(l)`, `Split`, `AllocReturn` | `alloc_node`: mask and pop (264-282), one iteration (292-301), mark used (303) |
| `FreeBegin(n)`, `Coalesce`, `FreeReturn` | `free_node`: mark free (312), one iteration (321-333), push (335) |

**DeferredReuse.** `pending` is `pending_` as a set (the reclaim pass compacts it
in place and its "order carries no info", line 386); an entry names its block, the
stream it was freed on and its event slot. `event` is the event pool: for each
slot, the stream of its latest record and how many of the kernels in flight there
it still waits for. `freeSlots` is `free_event_slots_`.

**BuddyAllocator.** `arena` and `used` are the slabs (`Dead` for a slot left by
trim), `bypassed` is `bypassed_`, `stats` the three byte counters, `ret` the status
of the latest call. `live` is not in the allocator: it is the set of `Allocation`
handles of the clients, each with the stream its owner works on.

| action | code |
|---|---|
| `AllocateNothing`, `AllocateFromSlab`, `AllocateFromNewSlab`, `AllocateAfterDrain`, `AllocateRefused`, `AllocateBypass`, `AllocateBypassFails` | the outcomes of `allocate` (461-521) and `allocate_bypass` (416-443) |
| `Deallocate`, `DeallocateBypass` | `deallocate` (555-643), `deallocate_bypass` (445-455) |
| `Reserve`, `SettlePending`, `Trim` | 249-258, 649-659, 661-695 |
| `Use`, `Move` | the client launches a kernel on a block; the client turns to another stream (`Storage::note_use`) |
| `Device` | a stream completes its oldest kernel |

Each outcome of `allocate` starts with the reclaim pass, as in the code;
`AddSlabOk` and `AddSlabFails` are the loop of `add_slab` that halves the size
after a refusal by the cap, the node limit or the driver.

**FreeListAllocator** has the same actions over its own state: `size` and `bump`
are the slabs, `classes` the class lists as sets, `split` the option
`split_large_blocks`. `Offers` is what `allocate` finds without growing, in the
order of the code: the exact class (331), a split of the first of the next eight
classes whose remainder is a class size (284-315), the virgin tail of a slab (339).

**StreamOrderedPool** states the contract of `allocator.hpp` without any data
structure: a block is handed out only if no client holds a byte of it, and only if
the kernels still working on its bytes run on the stream that gets it. Both
pools implement it (`ImplementsPool`), with one allocating stream and events that do
not fail; findings 1 and 2 are why it takes these conditions.

The client obeys the rules of `allocator.hpp` (38-67): it works on a block on one
stream at a time, moves to another only when the first is idle, and frees the
block against the stream it worked on last.

### Graph engine

| module | state | actions or operators, and code |
|---|---|---|
| `DataflowGraph` | `tensors`, `nodes`, `finalized`, `status` | `AddInput`, `AddNode`, `MarkOutput`, `Finalize` (`graph.cpp` 59-267); `KahnOrder`, `Depth`, `Height`, `Alive`, `compute_live_ranges` |
| `StreamSchedule` | - | `plan_streams` (`schedule.cpp` 27-245) as operators on a finalized graph |
| `HappensBefore` | `sa`, `clock`, `pos` | `Absorb`: the clock of the next node in issue order (`happens_before.cpp` 88-122) |
| `MemoryPlan` | `mp` | `StartMemory`, `PlaceTensor`: one iteration of the packing loop (`memory_plan.cpp` 150-171) |
| `Planning` | `stage`, `schedule` | the passes in the order in which `GraphExecutor::plan` calls them (39-63); `Discard` drops the plan, so that a finalized graph is planned again |
| `Executor` | see below | `Plan`, `SetInput`, `BeginRun`, `IssueNode`, `LaunchFails`, `Join`, `Synchronize` |
| `NumericsGate` | `phase`, `config`, `looked`, `first`, `golden`, `saved` | `Begin`, `Drive`, `Look`, `GiveUp`, `Restore`, `Pass`: `validate_numerics` (416-606) |

**Executor.** The host enqueues commands; the device executes each stream in
order. `queue[s]` holds what is enqueued on a stream: work (what each element must
hold when read, what it will hold when written), waits and records. A wait
captures the latest record of its event *at the time of the call* (`ticket`), which
is what makes re-recording an event in the next iteration legal. Work takes time:
it starts, its output is torn meanwhile, it finishes. `memory` says of every
element of the arena which tensor of which iteration it holds. `run_async` is one
action per node and one each for its head (poison, fork) and its tail (join), so
the device moves in between; a launch may fail at every node.

Assumed of its client: every input is fed before the first run; after a failed run
it synchronizes before it feeds or runs again (the failing call returns before the
join, so nothing orders later work after what it left, see section 5); it plans
again only when the device is idle.

### Kernels

`ThreadBlock` is the device as the kernels use it (external): a program per thread,
barriers that all threads reach together, warps that shuffle together. A kernel is
a sequence of operations with an effect: registers, cells of shared memory read and
written, cells of the output written. Numbers are symbolic: an accumulator is the
sequence of its products, so a result is exact only if every term is there
once. `Kernels` runs any launch that the launcher accepts, block after block (blocks
share nothing but the output, each its own part), thread by thread.

The lanes of a warp are taken together where an operation touches no shared memory
or only one lane does; elsewhere every interleaving of the threads is explored. The
constants of the device are scaled (warps of 4, blocks of 8, tiles of 2 by 2 and 8
by 8) so that the maps of threads to elements keep their shape.

### Host-only code

`Tensors` is a client that creates, slices, reshapes and drops views. `AllocBench`
generates the two traces of the allocator benchmark with any draw in place of the
random sequence, then replays them against the raw allocator or a pool, either of
which may refuse. The peak of a replay is a triple (blocks, request, reserve) taken when
the blocks reach a new high; the history variable `seen` holds all triples the replay went
through, so that `PeakCoexisted` can say that the peak is one of them. The samples
of the statistics are left out: they change nothing, and the properties hold after every operation, sampled or not.

`HostTimer` is the latency statistics over small samples. The rank of a percentile is computed
with what the doubles of the code make of it: `nearest_rank` knows how the quotient and the product round to 53 bits
before the ceiling is taken, and is checked for counts of samples, without the samples.
`NsysOverlap` is the sweep of `tools/nsys_overlap.py` over small traces, with its counters per stream,
the first `max_windows_tracked` windows of the highest number of streams, and the choice of the densest.
These parts share nothing, so one run checks them all: each behaviour of `MCHost` is about one
`subject`.

### What is abstracted, and why it is safe to

- The calls of one allocator are atomic: the host is single threaded. The device
  is not stopped during them, but it is only *observed* by the probes: a kernel
  that completes between two probes of one reclaim pass is treated as completing
  before or after the pass. Two calls do wait, and let the device run meanwhile: the
  drain (any progress that satisfies every wait) and `cudaFree` (until the device is
  idle).
- Configurations are valid (`validate_config` of the free list is an assumption; the
  three rejections at the head of the buddy allocator's `add_slab` are not modelled),
  and so are handles: the range checks of `deallocate` on forged ones are left out.
  `growth_factor` is an integer.
- Diagnostic counters of the pools (`alloc_calls`, `deferred_reuses`,
  `blocking_drains`, `oom_events`, peaks) and messages are left out. Those of the raw
  allocator are all it has, and are modelled.
- In the buddy allocator a request may get any of the slab's `Candidates`; the free
  lists, which pick one, are checked in `BuddyTree`. The free list's class lists are
  sets for the same reason: the order of a list decides only which of equal blocks
  is served.
- Sizes in the graph are in elements, costs are integers, an arena has one cell per
  element (the executor's alignment is 1, the planner's 2).
- The executor knows what a kernel should read and write, not what it computes: a
  kernel that reads anything else leaves what it read instead, which the comparison
  of the gate then sees.
- Floating-point rounding is left out where only the accuracy of a result depends on it: the
  kernels' sums are sequences of terms up to order, and the sweep compares densities as fractions.
  The rank of a percentile is rounded as in the code, since a rounding decides which sample is taken.
- The addresses of tensors are not modelled, but their alignment is: a launch of a kernel that
  has a vector form takes it only if the base pointers are aligned, and launches with misaligned ones are
  among the inputs.
- The builds with CUDA are modelled. In a host-only build every probe succeeds at
  once, which is the special case in which no kernel is ever in flight.
- Destructors end their objects and are not modelled.

Some operators are preceded by a variant named `Mut...`: the same definition with
a plausible mistake (a dropped update, a missing guard, an off-by-one, the wrong
stream probed). No specification uses them. Substituting one for its neighbour
makes the property that "mutants" in `PROJECT.json` pairs it with fail, which
shows that the property depends on that code.

## 3. What is checked

| run | instance | properties | result |
|---|---|---|---|
| `host` | slabs up to 32 bytes with 8-bit words; 2 tensors, rank at most 2; traces of 6 operations and one model step, two refusals; 4 samples; ranks of 1 to 1100 samples and of 2000 to 100 000; 3 kernels on 3 streams, some of which take no time, 1 or 2 windows kept; 310 624 states | `SizesRoundUp`, `NodesTileTheSlab`, `ViewsAreExact`, `TraceIsReplayable`, `ReplayIsBalanced`, `LatenciesAreExact`, `OverlapsAreExact` | hold |
| `buddy_tree` | one slab of 16 bytes, blocks of 2 to 16; 11 712 states | `SlabIsConsistent`, `SlabIsTiled`, `ImplementsSlab` | hold |
| `buddy_safe` | one allocating stream, kernels on two, all policies, no event faults, fairness; 18 962 states | `NoUnorderedSharing`, `SharingInv`, `ImplementsPool`, `EventSlotsComeBack` | hold |
| `buddy_shared` | two allocating streams, all policies, event faults; 54 656 states | `TypeOK`, `Ownership`, `EventSlotsPartitioned`, `ReclaimHasProof` | hold |
| `buddy_grow` | growth 2 -> 4 under a cap of 6, two slabs, driver faults, bypass; 37 698 states | `FootprintIsExact`, `NoFalseOom` | hold |
| `freelist` | two slabs of at least 6 bytes under a cap of 12, classes of 2, 4 and 8, splitting on and off, all policies, driver errors, bypass; 61 432 states | `PoolIsValid`, `LargestFreeIsExact`, `RefusalIsFinal`, `ImplementsPool` | hold |
| `planning` | every graph of up to five nodes within the bounds below, three schedule and three memory policies; 318 453 states | `PlanIsWellFormed`, `DependenciesOrdered`, `LevelsAreBarriers`, `ClocksAreReachability`, `ArenaIsRaceFree`, `FirstFitIsLowest`, `OneStreamReuseIsIntervals` | hold |
| `executor` | two graphs, two schedule policies, one and two streams, two runs and two copies of each input in flight, failing launches, the gate over its nine plans; 90 144 states | `NoConflictingAccess`, `ReadsAreFresh`, `OutputsReady`, `GateRaisesNoFalseAlarm`, `ArenaIsFreedInOrder`, `TimingsAreOfOneRun` | hold |
| `kernels` | all kernels, blocks of 8 threads in warps of 4, shapes that do and do not divide the tiles; 85 675 states | `NoDataRace`, `ResultIsExact`, `OccupancyIsMostThatFits` | hold |
| `buddy_cross_stream` | two allocating streams, `kSameStreamOnly` | `NoUnorderedSharing` | **violated** |
| `buddy_event_fallback` | one allocating stream, `kPerFreeEvent`, event faults | `NoUnorderedSharing` | **violated** |
| `buddy_double_free` | a client that frees twice | `DoubleFreeIsDiagnosed` | **violated** |

What some of the properties say:

- `ReplayIsBalanced` includes `PeakCoexisted`: the three totals reported as the peak are those of one moment, and no moment had
  more blocks. Two maxima taken separately would break it: with the attention scores refused, the
  blocks are largest with `x` and `qkv`, the request with `ffn_h` and `ln_stats`.
- `LatenciesAreExact` is about p50, p90, p99, p99.9 and the ends, for every count of samples. At p999 of a multiple of 1000
  samples it allows the next rank too, and of 1000 samples it requires it: that is what the code does (section 5).
- `OverlapsAreExact` takes traces with kernels of no length too: then the counts are still right, unless
  such a kernel comes before all others of its stream, when the sweep raises a `KeyError`. Without them it includes
  `ExampleIsDensest`: the window the report shows has the most streams active, and of the windows kept
  none packs more work into its wall time. The windows are recomputed from the spans alone, and the cap
  keeps the first ones.
- `ReclaimHasProof` exempts a block parked under `kPerFreeEvent` without an event, which is let go with
  no proof at all; `buddy_event_fallback` shows where that leads.
- `ImplementsPool`: every step of the allocator is a step of the contract. The
  refinement maps `held` to the live handles and leaves the parked blocks, the
  events and the slabs out.
- `RefusalIsFinal`: after the drain the free list looks at the exact class only.
  Without `split_large_blocks` that loses nothing: the request would not be served
  by what the refused call leaves behind either. With it, it would be (a drained block of a
  larger class is not split), so the property is stated for the default only.
- `ArenaIsRaceFree` recomputes the order from the clocks, for all accesses of both
  tensors, and exempts the policy whose name says it is naive, unless there is one stream.
- `OneStreamReuseIsIntervals`: on one stream the happens-before rule, the naive
  comparison and the disjointness of `compute_live_ranges` agree; the degenerate ranges
  (`graph.cpp` 366-376) are where they would not.
- `ReadsAreFresh` is the executor's specification: whatever overlaps, each kernel reads
  what the kernels of its own iteration and the copies enqueued before it wrote. It
  covers the fork, the join, the poison fill that spares the inputs, the reuse of
  bytes and the re-recorded events at once.
- `GateRaisesNoFalseAlarm`: `validate_numerics` compares runs and plans; a plan of a
  graph without a race is never accused.
- `NoDataRace` looks at the operations that any two threads may take next, so it
  does not depend on which of them the scheduler picks.

**Bounds.** A slab of 16 bytes has four levels: a coalesce can stop at every
height, lists reach length 4 (swap-removal from front, middle and back), and all
sets of used blocks occur. The allocator runs use slabs of 2 or 4 bytes
in a tree of depth at most 2: what depends on depth is checked in `BuddyTree`.
Two streams suffice for "another stream", two or three kernels in flight for a kernel
before, on and after a block. Two slabs are needed for growth, first fit and a
dead slot below a live one; the cap of 6 refuses the doubled slab that growth
asks for while the halved one passes. The free list needs three classes for a split
with a remainder, and two slabs for a tail that is left behind. A remainder that is no class
size takes a block of 8 and a request for 2, which is too many states: that such a split is
refused is covered by the theorem `PoolAlwaysValid`, for all ladders.
`MaxInFlight`, `MaxSlabs` and `MaxBypass` are bounds of the model only.

`planning` enumerates the graphs that the construction calls can build from a 2 by 2
matrix or an empty vector with two operators (one that shrinks its tensor, one that
joins two). `MaxSize` bounds the sum of nodes, joins, and outputs or unread
tensors, which cuts only large and dense graphs: it leaves chains of five, diamonds,
two roots, dead nodes and outputs that are read again; `MaxRefused` says on how small
a graph refused calls are also tried. Two streams give waits that are covered by earlier ones and levels wider than
the streams; a plan for no stream is refused (`schedule.cpp:29`). `executor` takes two graphs in full instead: one with two roots and two
leaves, and a diamond with a tail whose last tensor is given the bytes of a dead
one. Two runs and two copies are what it takes for an iteration and a copy to
overtake a predecessor; the ring of probes is once as long as the runs and once shorter.

In `kernels` the shapes are the smallest that give no tile, one, two and three k-tiles
(every phase of the double-buffered loop, with and without a tail), a full and a partial
tile in each direction and a grid of several blocks; rows are shorter and longer than
a block, and one longer than two vectors a thread. No symmetry is used: the runs are
small enough.

In `host` the sizes of the model trace are in the order of those of the code, and as there `ffn_h` takes as much as `x`
and `qkv` together but is rounded up by less. The counts of samples are all up to 1100, and larger ones on both sides
of where the product in doubles lands above a whole number. Three kernels on three streams give up to
two windows with the most streams, so that a cap of one cuts the list and a cap of two does not.

**Fairness** is assumed in `buddy_safe` only, for `EventSlotsComeBack`: under
`kPerFreeEvent` an event slot of a parked block is eventually free again. The device
completes its kernels (weak fairness of each stream: a GPU does not stop), and the
client keeps asking for memory (weak fairness of the allocations together): reclaim has
no thread of its own, it is done by the calls. Nothing is claimed of the other
policies: under `kCoarseStreamPoll` a block parked on a stream that is never idle
need not come back, as the comment at `reuse_policy.hpp:61` says.

**Deadlock** is checked in every run but `host`, whose behaviours end with their input.

## 4. What is proved

Every theorem holds for all values of the constants that the named assumptions
allow: every geometry, number of slabs, streams and kernels, every request size, policy
and fault of the allocators; every graph that can be built, schedule policy, number of streams, memory policy and
alignment of the planner; every number of runs and of copies of inputs, failing launches, poison, probes and order of
the device's work of the executor.

| module | theorem | statement |
|---|---|---|
| `BuddyTreeProofs` | `RecordsAgree` | `Spec => []SlabIsConsistent` |
| | `BlocksTile` | `Spec => []SlabIsTiled` |
| | `SlabIsImplemented` | `Spec => ImplementsSlab` |
| `BuddyAllocatorProofs` | `TypeCorrect` | `Spec => []TypeOK` |
| | `OwnershipKept` | `Spec => []Ownership` |
| | `SlotsStayPartitioned` | `Spec => []EventSlotsPartitioned` |
| | `OomIsTrue` | `Spec => NoFalseOom` (a property of steps) |
| | `FootprintStaysExact` | `Spec => []FootprintIsExact` |
| | `MarksAlwaysCover` | `Spec => []MarksCover` |
| | `ReclaimIsProved` | `Spec => ReclaimHasProof` (a property of steps) |
| | `SharingIsKept`, `OneStreamIsSafe` | if `OneStream`: `Spec => []SharingInv`, `Spec => []NoUnorderedSharing` |
| | `BuddyImplementsPool` | if `OneStream`: `Spec => ImplementsPool` |
| `DeferredPoolProofs` | `OwnersStayApart`, `ReclaimIsProved` | of any allocator with deferred reuse: owners, event slots and marks; what leaves `pending` has its proof |
| | `SharingIsKept`, `DeferralImplementsPool` | if `OneStream`: `Spec => []SharingInv`, `Spec => ImplementsPool` |
| `FreeListAllocatorProofs` | `TypeCorrect`, `BlocksStayApart` | `Spec => []TypeOK`, `Spec => []ListInv` |
| | `ListDefers` | `Spec => Deferral!Spec`: the free list implements `DeferredPool` |
| | `FreeListImplementsPool` | if `OneStream`: `Spec => ImplementsPool` |
| | `RefusedForGood` | `Spec => RefusalIsFinal` (a property of steps) |
| | `LargestFreeExact` | if `ThresholdIsRung`: `Spec => []LargestFreeIsExact` |
| | `BytesHaveOneOwner`, `PoolAlwaysValid` | `Spec => []Partition`, `Spec => [](PoolIsValid /\ CapHonoured)` |
| `PlanningProofs` | `ClocksAreExact` | `HBSpec => []ClocksAreReachability` |
| | `TensorsArePackedLow` | `PlanSpec => []FirstFitIsLowest` |
| | `ArenaIsPackedSafely` | `PlanSpec => []ArenaHoldsEveryTensor` |
| | `PlansAreWellFormed` | `PlanSpec => []PlanIsWellFormed` |
| | `DependenciesAreOrdered`, `BarriersAreTotal` | `PlanSpec => []DependenciesOrdered`, `PlanSpec => []LevelsAreBarriers` |
| | `PlannedClocksAreExact` | `PlanSpec => []ClocksAreReachability` |
| | `ArenaReuseIsRaceFree` | `PlanSpec => []ArenaIsRaceFree` |
| | `OneStreamReuseAgrees` | `PlanSpec => []OneStreamReuseIsIntervals` |
| `ExecutorProofs` | `ExecutorNeverConflicts` | `[]NoConflictingAccess`, of `Spec` and of `GateSpec` |
| | `ExecutorReadsAreFresh` | `[]ReadsAreFresh`, of both |
| | `ExecutorOutputsReady` | `[]OutputsReady`, of both |
| | `ExecutorFreesTheArenaInOrder` | `[]ArenaIsFreedInOrder`, of both |
| | `ExecutorTimesOneRun` | `[]TimingsAreOfOneRun`, of both |
| | `GateNeverAccuses` | `GateSpec => []GateRaisesNoFalseAlarm` |

`Spec` of `Executor` is any client that follows the rules of section 2; `GateSpec` of `NumericsGate` is the one
the run `executor` checks, whose client also calls `validate_numerics`.

`OneStream` (one allocating stream, events do not fail) is exactly what findings 1 and 2
show to be necessary: dropping either half of it gives a violated run. `MarksAlwaysCover`
and `ReclaimIsProved` do not need it.

**The slab's loops.** The inductive invariant `TreeInv` holds at every loop iteration. Its parts
are a shape of the tree, `Shape` (below a block, free or used, every node is detached, above it
every node is split); the records that mirror it, `Listed` (a node is in the list of its level,
once and at the place its back pointer names, exactly if it is free and not the block in hand,
and the mask has the levels whose lists are not empty); and what a running loop may leave open:
free buddies only if one of them is the block in hand (`NoFreePair`), which is free and, in a
split, at the level the loop believes it to be (`HandIsFree`). The swap with the last element in `remove_free`
is `RemoveIsDropped`: the lists lose that one node and stay otherwise as `Listed` wants them.
Between calls no free buddies are left, and then `Canonical` says
that the used nodes alone determine the tree: its free blocks are the maximal vacant nodes
that `BuddyBlocks` computes. The mask's answer is therefore about them (`RoomIs`, `LargestIs`),
and the sum of the blocks' bytes is that of the slab (`SumInv`, since a split and a merge
trade a block for its halves). For the refinement, `HandIsLeftmost` says that while a block is split the
part in hand is the leftmost piece of a smallest block that is large enough, which is
`Candidates` once its level is the requested one. So that `BuddyAllocator` treats a
slab as the set of its used nodes is proved, not only checked.

**The buddy allocator.** `TypeOK`, `Ownership` and `EventSlotsPartitioned` are
inductive, in that order, each relative to the previous ones. For ownership the key
lemma is `CandidateIsVacant`: what a slab offers shares no byte with what is out,
because it is a piece of a block that is vacant. The calls are built from two steps,
giving entries back (`GiveBackOwnership`) and handing out a vacant block
(`HandOutOwnership`), and each outcome of `allocate` is one after the other.
`OomIsTrue` adds that a call which refuses has drained `pending` first, so what is out
afterwards is what the clients hold. That blocks of a smaller slab are blocks of a larger
one, and that extents are not empty, is `BlocksOfSlab`, from the powers of two in
`BuddyMathProofs`.

`NoUnorderedSharing` is not inductive: a block with a foreign kernel could be
parked, or vacant, and be handed out next. `SharingInv` adds what rules that out:

- `ParkedOnItsStream`: only its last stream still works on a parked block, so
  the probe of that stream (or event) is enough of a proof;
- `ForeignKernelsHeld`: streams that do not allocate work on blocks that are out,
  so vacant memory is in use by the allocating stream at most, which is where it
  will be handed out again (this is where a second allocating stream breaks it);
- `EventsCover`: every parked block has an event (this is where a failing event breaks
  it), and `MarksCover`: the event waits for every kernel of its stream on the block.
  `MarksCover` alone is an invariant without `OneStream`, and with it a step that gives a
  block back to another stream has its proof: `ReclaimIsProved`.

The device enters the proofs through one notion, `Advance`: kernels complete
oldest first and events keep covering the kernels they were recorded after.
Completing a kernel, a drain and a `cudaFree` are all advances.

**The counters.** `FootprintIsExact` compares sums over sets that the calls change by one
element. The library defines a sum by recursion over the subsets of a set;
`FiniteSums` proves, by taking a smallest counterexample, that the recursion has a solution
and obeys the laws of sums (`SumWith`, `SumWithout`, `SumOfParts`, `SumRenamed`, ...). The
invariant is `BooksInv`: the books balance (`Books`), each handle got at least what it
asked for and is of its slab's size (`HandleFits`), and the bypassed blocks are those of the
bypass handles, one each (`BypassPaired`), without which a free of one could be counted as
the free of another.

**Deferred reuse.** `DeferredPool` is what the two pooling allocators have in common: blocks
held, blocks parked, and an allocation that finds some block disjoint from both. It lies between
the allocators and the contract: `DeferralImplementsPool` proves the contract once, and
`ListDefers` that each step of the free list is one of its steps. The buddy allocator is
proved to implement the contract directly (`BuddyImplementsPool`), since `Ownership` says more
of a slab than that blocks are disjoint.

**The free list.** `ListInv` is inductive: types; every slab's carved part is below its
length (`SlabsSound`); every block in a class list, parked or held lies inside the carved part and
has the size of its class, and no two of them share a byte (`PoolSound`). `Partition` adds
that they cover the carved part; the invariant for it counts bytes per slab with the sums above.
`RefusalIsFinal` needs only that the drain leaves its blocks in their class lists.
`LargestFreeIsExact` needs the threshold to be a class size, as in the default configuration: the
class lists go one size beyond a threshold that is not.

**The clocks.** `ClocksAreReachability` says that `precedes` is the
transitive closure of the edges "next on the stream" and "waits for its event":
`u` precedes `v` exactly if an edge leads to `v` from `u` or from a node that `u`
precedes. The edges are acyclic, so no other relation satisfies this. The statement
is not inductive, because a comparison reads one component of a clock only. `ClockInv` adds,
for the nodes the walk has passed:

- `Own`: a node's clock has its own issue position on its own stream;
- `Past`: a node knows of no node that comes after it in the order;
- `Dominates`: who knows of a node knows everything that node knows. This is why one
  position per stream stands for a set of nodes: the clocks of one stream grow with the
  issue position;
- `Follows`: a node knows of the sources of its edges;
- `Justified`: whatever a node knows of, it has by an edge or through the source of one.

`Past` and `Dominates` carry each other through the step: a new node absorbs only clocks
that are final, since edges lead forward in the order (`EdgesGoForward`). Stated with
edges instead of paths, nothing needs induction over data, and the walk supplies the
induction. The initial condition `HBInit` asks for a schedule that is well typed
(`ScheduleType`), `Valid` and `InOrder`; that what `plan_streams` returns is such a
schedule is `PlansAreWellFormed`.

**Graph and schedule.** `GraphOK` is the inductive invariant of the graph: a
node's inputs were there before it, its output is its own, and after `finalize` the
edges, depths and dead marks are what they should be (`DerivedOK`). It is what makes the
recursive passes of `finalize` well founded; their solutions are shown to exist by taking a
smallest counterexample. For `kahn_order`, `Lined` says of the taken and the waiting nodes, seen as
one line, that it ascends by depth, holds nobody twice, and holds exactly those whose
predecessors are taken; so the queue cannot run empty early (`SomeoneWaits`), and the order is
`Topological`. What all policies of `plan_streams` return is put together the same way
(`Assembled`): dense issue positions and stream numbers, one event for each node awaited
by another stream, and waits without those that an earlier wait of the same stream or the
stream itself makes redundant. `WellPlanned` is what `HappensBefore::build` requires of the result, and
`Covers(s, p, i)`, that the stream of `p` or a wait at or before `i` on its stream orders
`i` after `p`, is what dropping waits must not lose. `CoversPreds` (all dependencies) holds under
`kSequential` and `kChainGreedy`. `kLevelParallel` waits at a barrier for the *last* node of each
other stream instead: `CoversLevels`.

**From the schedule to the arena.** `PlanInv` is inductive over all passes and over planning again:
`PackInv` below, and from `plan_streams` on `WellPlanned`, `ClockInv` and the cover of the
policy in use. Once the clocks are built, knowledge is transitive (`KnownIsTransitive`), so what a
schedule covers the clocks know (`CoveredIsKnown`): every dependency
(`PredsPrecede`, `LevelPredsPrecede`), and under `kLevelParallel` every pair of
levels (`LevelsPrecede`). `can_share` only asks whether the accesses of one tensor precede the
*producer* of the other; the readers of the other come after its producer because they depend
on it, and this closes the gap between what `verify_no_buffer_races` compares and
`ArenaIsRaceFree` (`SharingIsSafe`).

**Packing.** The scan of `plan_memory` stops at the first gap, so that the offset it returns is
clear of the intervals *behind* that gap is a property of the sort: `ScanFound` is
what a scan has established of the intervals it has seen, `ScanStep` that one more
interval, not below them, keeps it. The
inductive invariant `PackInv` is that of the packing loop: offsets and sizes are
aligned, every placed tensor ends inside the arena, the arena is at most the sum of the sizes,
and tensors that share a byte passed `can_share` (`SharersMayShare`). That an offset is 0 or the
end of a placed tensor is what bounds the arena. `ArenaHoldsEveryTensor` follows for the finished plan:
every tensor that needs bytes is placed, and under every policy but the naive one
`verify_no_buffer_races` holds.

**The executor.** What is left in `queue` is not enough to argue with: whether a kernel reads
what it should depends on commands that completed long ago. So `ExecInv` says, besides `PlanInv`
and the types of the options, that with a plan there is a *log* `L` that explains the state
(`Replays`): for each stream all commands since the plan was made (`L.cmd`, `L.len`), for each event where its records
are (`L.rec`), and the works (kernels, copies, fills) in the order in which the host issued them
(`L.on`, `L.at`). No bound on the length of the queues or on the number of iterations in flight enters. `LogOK` has three kinds of parts.

- The log is the state's past: `QueueOK` (the queues are what is left of it), `CommandsOK` (a wait is for a record
  that was issued before the wait, which is what the ticket of `Wait` is for), `EventsOK`, `WorksOK`, `StartedOK`.
- Order. A *cut* says how far each stream may be on some device that passes a wait only after
  its record; `Leads(L, m, n)` that no cut has work `n` without work `m`. This is a statement about all devices, so
  it does not change while the device moves: completing a command leaves fewer cuts
  (`PopKeeps`), and issuing commands adds none among the old works (`BatchCuts`). `Sorted`: of two works that access a byte,
  one of them writing, the earlier leads the later.
- Data. `Fresh`: what a work expects to read is what the latest works before it to write those bytes write;
  `MemoryOK`: what a work wrote stays until a later one starts to overwrite it.

From `Sorted`, works that conflict do not run at once (`LogNoConflict`), and with `Fresh` and `MemoryOK` each
finds in memory what it expects (`LogFresh`), whatever the device does (`DeviceKeepsLog`).

The host keeps `Sorted` and `Fresh` by what it knows of the log, `HostOK`. Between calls that did not fail all other streams
are joined to stream 0 (`JoinedTo`: done, or their last command is a record that stream 0 waits for). The join makes
whatever stream 0 is given next come after all there is (`JoinedCovers`), which is why a copy of an input may
overwrite what the runs before it read (`SetInputKeepsReplay`), and the fork passes this on to the other
streams (`FillAndFork`). In a run (`RunOK`) every stream follows all works from before the run, the `j`-th work since is the kernel of
the `j`-th node, and a node that the plan orders after another is led by it (`NodeLeads`: by its stream, or because its
wait is for the record of *this* run, the latest one issued at that time). Kernels whose bytes meet
are ordered by the plan (`ConflictsAreOrdered`), which is where `ArenaIsRaceFree` and `DependenciesOrdered`, that is `PlanInv`,
enter. `DataOK` says which tensors the log holds at each point: what was made and is still of use, the inputs that were
fed, the outputs after a run; a kernel overwrites none of them (`NotOverwritten`). A failed launch leaves a run that claims nothing;
the client must synchronize, which joins everything at once.

All host steps have one shape: a *batch* of commands, with at most one work, appended to the
queues. What a batch must be for the log to go on is proved once (`BatchIsLogged`), and each call then
says which batch it issues.

For the gate, `GateInv` adds that the bits taken so far are right (`AllRight`): what a tensor holds after a complete
run depends on the graph and the inputs, not on the plan or the device, so two sets of right bits never
differ. For the probes, `RingIs` says which run each slot of the ring holds. The slot in use is given by the
number of *completed* runs, so a run that fails leaves its launches in the slot that is next, and the next run
overwrites it. Once the ring has wrapped, that slot still counts as filled with the failed run in it; the
condition of `TimingsAreOfOneRun` (no failure, or no more calls than slots) is what excludes this.

**Assumptions.** The named assumptions on the constants, all evaluated by TLC in
the runs. They say what kind of value a constant is, and what the code fixes: the
large threshold and the arena sizes are below 2 to the width of a word, the ladder
of the free list satisfies `validate_config`. `PowerAssumption` says what `^` is,
since the provers take it for an unknown function. `Executor` starts from a graph
in `Graphs`, and `Constructed` says of each what the construction calls guarantee:
a node reads only tensors made before it and writes one tensor of its own, which
names it as its producer, and no consumer list is built yet. The part of it that
later calls keep is in `GraphOK`, which `PlanningProofs` proves of every graph
`DataflowGraph` builds.

**Only model-checked.** Out of the prover's reach: liveness (`EventSlotsComeBack`).

- The kernels. `NoDataRace` needs, for every kernel and pair of operations, that
  the maps from threads to cells are injective, which is nonlinear arithmetic over
  the tiles; `ResultIsExact` compares folds over the data, so its proof would be an
  induction over data; `OccupancyIsMostThatFits` is about a minimum of quotients
  by variable divisors (nonlinear again), and its proof was not attempted.
- The host-only code (`ViewsAreExact`, `TraceIsReplayable`, `ReplayIsBalanced`,
  `LatenciesAreExact`, `OverlapsAreExact`): algorithms compared with a reference
  definition over every small input; proofs would be inductions over the input.
- `SizesRoundUp` and `NodesTileTheSlab`, in part: `BuddyMathProofs` has the lemmas
  about powers, levels and nodes that the allocators need.
- TLC cannot enumerate logs, so the strengthening `ExecInv` itself is not evaluated
  in a run; what follows from it is, in `executor`.

## 5. Findings and observations

Three runs show a disagreement between the code and what it says of itself:

1. **A block crosses streams without a proof** (`buddy_cross_stream`).
   `reclaim_completed(S)` returns everything parked on `S` to the tree shared by
   all streams. That is right for `S` (rule 1), but nothing remembers it: a request
   of stream `T` that comes next can be given the block while `S`'s kernel is still
   running. Both `allocator.hpp:56` and `reuse_policy.hpp:55` rule this out. It
   needs an allocation on `S` that reclaims the block without using it up, e.g.
   because it is of another size. The free list has the same step
   (`freelist_allocator.cpp:215`).
2. **The event fallback is not sound** (`buddy_event_fallback`). If the event of a
   `kPerFreeEvent` free cannot be created or recorded, the block is parked with
   `kNoEventSlot`, and `event_completed(kNoEventSlot)` is true: it can be reclaimed
   at once, by any stream, with the kernel in flight. The comment on this path says
   "less precise, still sound" (628).
3. **Double free of a parked block is accepted** (`buddy_double_free`). A parked
   node stays `kUsed`, so the state check of `deallocate` does not see the second
   free; the block is parked twice. The free list, with its `live_` map, sees it as
   long as the address has not been handed out again.

Met while modelling, without a run of their own. The models do what the code does:

- `allocate` drops the status of `add_slab`, so a driver error becomes `OutOfMemory`
  (`buddy_allocator.cpp:487`).
- The free list does not split after a drain (`freelist_allocator.cpp:364`), so with
  `split_large_blocks` a request can be refused although a drained block would serve it.
- A second `plan` clears `plan_` (`executor.cpp:65`) but not `planned_`, which only its last
  line sets: if it fails in between, the calls that follow see a plan that counts as
  made and has no schedule, or part of one.
- A launch that fails returns before the join (`executor.cpp:314`). Until the client
  synchronizes, work of the failed run is not ordered before what it enqueues next.
- `validate_numerics` restores the options on every exit, but the plan that stays is the
  one it drove last: after a mismatch that of the failing configuration, after a success
  a fresh one whose inputs have not been fed (596).
- The histogram labels every bucket with half its edge when bucket 0 is empty
  (`src/core/host_timer.cpp:71`, against 54).
- p999 is not always the nearest rank, which the comments of `percentile` promise (`host_timer.hpp:154`, 182): 99.9 / 100
  in doubles is above 999 / 1000, so for most multiples of 1000 samples the product lands above the
  whole number (187) and the rank is the next one; of 1000 samples, the largest. `host` checks this.
- The end of a kernel that takes no time is met before its start (`nsys_overlap.py:286`): a `KeyError` if it is the
  first of its stream (`host` checks this), else a kernel that stays in `active_spans` to the end of the sweep, and so
  in the windows.
- The replay samples its statistics at its stride and the last operation, and skips even that for a refused
  allocation and its free (`alloc_bench.cpp:621`, 643); the comment at 521 says at phase boundaries too.
- A multi-output `add_node` that fails half way leaves a tensor without a node
  (`graph.cpp:106`); no operator of the repository has several outputs.

## 6. Not modelled, and why

- **`gemm_bench`, `graph_bench`, the report renderers, the tests and the other scripts**:
  fixed sequences of calls that measure or print. What they could get wrong is numbers and wording.
- **cuBLAS and its handle cache, the CUDA runtime, `nsys`**: external. Streams, events and
  the driver are modelled from their use in `src/`.
- **Floating-point arithmetic**: rounding, tolerances and denormals need
  another method than model checking.
- **Device queries, build configuration, logging, Graphviz output**: no state of their own.
- **Destructors**: they end the objects the models are about.
- **In the allocators**: invalid configurations, forged handles, the diagnostic counters.
- **In the graph**: nodes with several outputs.
- **In the executor**: `plan` failing half way, records and waits that fail, workspaces,
  a client that breaks the rules of section 2.
- **`nodes_at_level`** of the buddy arithmetic is not used by the program.

## 7. Plan

1. Proofs: the rest of `buddy_math.hpp`; the views of `Tensors`; that no barrier interval of a kernel has two
   threads at one cell, which would give `NoDataRace` for all shapes.
2. Failing records, waits and `plan` calls in the executor, and a client that does not
   synchronize after a failed run.
3. Larger instances where they are affordable: three streams for the planner, a third graph
   for the executor with a workspace.

Liveness under fairness, `ENABLED` and modules with `RECURSIVE` operators are out of reach of
the proof system as installed; those stay with TLC.
