----------------------------- MODULE AllocBench -----------------------------
(***************************************************************************)
(* bench/alloc_bench.cpp: a trace of allocations and frees is generated    *)
(* once, then replayed against each allocator.  Handles are recycled, so   *)
(* that the replay's table is as small as what lives at one time.          *)
(*                                                                         *)
(* The generator draws from a fixed random sequence: here, any draw.  The  *)
(* allocator is the raw one, or a pool (external) that rounds up to powers *)
(* of two; either may refuse.                                              *)
(***************************************************************************)
EXTENDS RawDeviceAllocator, Sequences, FiniteSets, SequencesExt, Functions

CONSTANTS
  UniformSizes,   (* the bytes of the classes of uniform_pow2, from 0       *)
  TargetBytes,    (* the footprint it steers for                            *)
  PhaseOps,       (* bound: the operations of each of its three phases      *)
  ModelSizes,     (* the bytes of the classes of dl_transformer, from 0     *)
  ModelSteps,     (* bound: its layer steps, and its decode steps           *)
  MaxOom,         (* bound: refusals in one replay                          *)
  SlabBytes       (* the bytes of a slab of the pool                        *)

ASSUME AllocBenchAssumption ==
  /\ DOMAIN UniformSizes = 0 .. Cardinality(DOMAIN UniformSizes) - 1
  /\ \A c \in DOMAIN UniformSizes : UniformSizes[c] \in Nat \ {0}
  /\ TargetBytes \in Nat
  /\ PhaseOps \in [1 .. 3 -> Nat]
  /\ ModelSizes \in [0 .. 10 -> Nat \ {0}] /\ ModelSteps \in Nat
  /\ MaxOom \in Nat
  /\ SlabBytes \in Nat \ {0}

VARIABLES
  trace,   (* Trace: sizes, ops, max_handles, oracle_peak_requested         *)
  gen,     (* TraceGen: live, free_h, next_h, cls, live_bytes               *)
  locals,  (* of the generating function: last_freed_cls, handles by name   *)
  todo,    (* what it still has to do                                       *)
  replay,  (* the replay: its table, its totals, what the allocator gave    *)
  seen     (* history, read by no operation: all totals it went through     *)

benchVars == <<trace, gen, locals, todo, replay, seen, raw_stats>>

AllocOp(h, c) == [kind |-> "kAlloc", handle |-> h, class |-> c]
FreeOp(h) == [kind |-> "kFree", handle |-> h, class |-> 0]

-----------------------------------------------------------------------------
(* TraceGen: do_alloc takes the handle freed last, or a new one.           *)

MutHandle == gen.next_h
Handle == IF gen.free_h # <<>> THEN Last(gen.free_h) ELSE gen.next_h

do_alloc(class) ==
  LET bytes == gen.live_bytes + trace.sizes[class]
  IN  /\ gen' = [gen EXCEPT !.live = Append(@, Handle),
                            !.free_h = IF @ = <<>> THEN @ ELSE Front(@),
                            !.next_h = IF gen.free_h = <<>> THEN @ + 1 ELSE @,
                            !.cls = (Handle :> class) @@ @,
                            !.live_bytes = bytes]
      /\ trace' = [trace EXCEPT !.ops = Append(@, AllocOp(Handle, class)),
                                !.peak = Max({@, bytes}),
                                !.max_handles = Max({@, Len(gen.live) + 1})]

do_free_at(i) ==
  LET h == gen.live[i]
  IN  /\ gen' = [gen EXCEPT !.live = RemoveAt(@, i),
                            !.free_h = Append(@, h),
                            !.live_bytes = @ - trace.sizes[gen.cls[h]]]
      /\ trace' = [trace EXCEPT !.ops = Append(@, FreeOp(h))]

do_free_handle(h) == \E i \in DOMAIN gen.live : gen.live[i] = h /\ do_free_at(i)

-----------------------------------------------------------------------------
(* generate_uniform_pow2: free the newest, any, the oldest; then the rest. *)

Steps(kind, n) == [i \in 1 .. n |-> [do |-> kind]]

Uniform == Steps("warmup", PhaseOps[1]) \o Steps("churn", PhaseOps[2])
             \o Steps("adversarial", PhaseOps[3]) \o Steps("drain", 1)

Doing(kind) == todo # <<>> /\ Head(todo).do = kind
NextTask == todo' = Tail(todo) /\ UNCHANGED <<replay, seen, raw_stats>>

(* Which way the control lets it go, bounds in percent of the target.      *)
want_alloc(lo_frac, hi_frac) ==
  LET Part(frac) == (frac * TargetBytes) \div 100
  IN  IF gen.live = <<>> \/ gen.live_bytes < Part(lo_frac) THEN {TRUE}
      ELSE IF gen.live_bytes > Part(hi_frac) THEN {FALSE} ELSE BOOLEAN

Classes == DOMAIN trace.sizes

Warmup ==
  /\ Doing("warmup") /\ NextTask /\ UNCHANGED locals
  /\ \/ TRUE \in want_alloc(90, 110) /\ \E c \in Classes : do_alloc(c)
     \/ FALSE \in want_alloc(90, 110) /\ do_free_at(Len(gen.live))

Churn ==
  /\ Doing("churn") /\ NextTask /\ UNCHANGED locals
  /\ \/ TRUE \in want_alloc(80, 120) /\ \E c \in Classes : do_alloc(c)
     \/ FALSE \in want_alloc(80, 120) /\ \E i \in DOMAIN gen.live : do_free_at(i)

(* Each allocation one class above what this phase freed last.             *)
Adversarial ==
  /\ Doing("adversarial") /\ NextTask
  /\ \/ /\ TRUE \in want_alloc(80, 120)
        /\ do_alloc((locals.last_freed_cls + 1) % Cardinality(Classes))
        /\ UNCHANGED locals
     \/ /\ FALSE \in want_alloc(80, 120)
        /\ do_free_at(1)
        /\ locals' = [locals EXCEPT !.last_freed_cls = gen.cls[Head(gen.live)]]

Drain ==
  /\ Doing("drain") /\ UNCHANGED <<locals, replay, seen, raw_stats>>
  /\ IF gen.live = <<>> THEN todo' = Tail(todo) /\ UNCHANGED <<trace, gen>>
     ELSE UNCHANGED todo /\ \E i \in DOMAIN gen.live : do_free_at(i)

-----------------------------------------------------------------------------
(* generate_dl_transformer: the weights, then what a layer and a decode    *)
(* step take and drop, each in the order its consumers need it.            *)

Takes(name, class) == [do |-> "take", name |-> name, class |-> class]
Drops(name) == [do |-> "drop", name |-> name]

Weights == <<"gamma1", "beta1", "gamma2", "beta2", "bias1", "bias2", "Wo", "Wqkv", "W1", "W2">>
WeightClasses == <<1, 1, 1, 1, 2, 2, 5, 8, 9, 9>>

layer_step == <<Takes("x", 4), Takes("qkv", 6), Drops("x"), Takes("scores", 10),
                Drops("qkv"), Takes("ffn_h", 7), Drops("scores"), Takes("ln_stats", 0),
                Drops("ffn_h"), Drops("ln_stats")>>

decode_step == <<Takes("a", 1), Takes("b", 2), Takes("c", 3), Takes("d", 0),
                 Drops("a"), Drops("b"), Drops("c"), Drops("d")>>

Transformer ==
  LET Times(step) == FlattenSeq([i \in 1 .. ModelSteps |-> step])
  IN  [i \in DOMAIN Weights |-> Takes(Weights[i], WeightClasses[i])]
        \o Times(layer_step) \o Times(decode_step)
        \o [i \in DOMAIN Weights |-> Drops(Weights[i])]

Take ==
  /\ Doing("take") /\ NextTask
  /\ do_alloc(Head(todo).class)
  /\ locals' = [locals EXCEPT !.handles = (Head(todo).name :> Handle) @@ @]

Drop == /\ Doing("drop") /\ NextTask /\ UNCHANGED locals
        /\ do_free_handle(locals.handles[Head(todo).name])

-----------------------------------------------------------------------------
(* replay_timed: an allocation that is refused leaves nothing to free, and *)
(* its free is skipped.  The peak is a triple, taken when the blocks reach *)
(* a new high.  The samples of the statistics are left out: they change    *)
(* nothing, and the properties hold after every operation, sampled or not. *)

Rounded(bytes) == IF replay.raw THEN bytes
                  ELSE Min({2^k : k \in {j \in 0 .. bytes : 2^j >= bytes}})

(* The slabs of the pool: never fewer than before.                         *)
PoolReserved(blocks) ==
  Max({replay.now.reserved, SlabBytes * ((blocks + SlabBytes - 1) \div SlabBytes)})

(* The call of the allocator, when it is the raw one.                      *)
Call(action) == IF replay.raw THEN action ELSE UNCHANGED raw_stats

(* live_blocks, live_requested and bytes_reserved after the call.          *)
Totals(blocks, requested) ==
  [blocks |-> blocks, requested |-> requested,
   reserved |-> IF replay.raw THEN raw_stats'.bytes_reserved ELSE PoolReserved(blocks)]

Generated == todo = <<>>
Op == trace.ops[replay.pos]
Replaying(kind) ==
  /\ Generated /\ replay.pos <= Len(trace.ops) /\ Op.kind = kind
  /\ UNCHANGED <<trace, gen, locals, todo>>

MutPeakOf(peak, now) == [total \in DOMAIN now |-> Max({peak[total], now[total]})]
PeakOf(peak, now) == IF now.blocks > peak.blocks THEN now ELSE peak

ReplayAlloc ==
  /\ Replaying("kAlloc")
  /\ LET asked == trace.sizes[Op.class]
         given == Rounded(asked)
     IN  /\ Call(RawAllocate(asked))
         /\ LET now == Totals(replay.now.blocks + given, replay.now.requested + asked)
            IN  /\ replay' = [replay EXCEPT
                     !.pos = @ + 1,
                     !.held = @ \cup {replay.pos},
                     !.table = (Op.handle :> [block |-> replay.pos, bytes |-> given,
                                              requested |-> asked]) @@ @,
                     !.valid = @ \cup {Op.handle},
                     !.now = now, !.peak = PeakOf(@, now)]
                /\ seen' = seen \cup {now}

ReplayOom ==
  /\ Replaying("kAlloc") /\ replay.oom < MaxOom
  /\ replay' = [replay EXCEPT !.pos = @ + 1, !.oom = @ + 1, !.valid = @ \ {Op.handle}]
  /\ Call(RawRefuse)
  /\ UNCHANGED seen

Invalidated(h) == replay.valid \ {h}

ReplayFree ==
  /\ Replaying("kFree")
  /\ IF Op.handle \in replay.valid
       THEN LET a == replay.table[Op.handle]
            IN  /\ Call(RawDeallocate(a.bytes, a.requested))
                /\ LET now == Totals(replay.now.blocks - a.bytes,
                                     replay.now.requested - a.requested)
                   IN  /\ replay' = [replay EXCEPT
                            !.pos = @ + 1,
                            !.held = @ \ {a.block},
                            !.valid = Invalidated(Op.handle),
                            !.now = now]
                       /\ seen' = seen \cup {now}
       ELSE replay' = [replay EXCEPT !.pos = @ + 1] /\ UNCHANGED <<seen, raw_stats>>

-----------------------------------------------------------------------------

EmptyTrace(sizes) == [sizes |-> sizes, ops |-> <<>>, peak |-> 0, max_handles |-> 0]

FreshGen == [live |-> <<>>, free_h |-> <<>>, next_h |-> 0, cls |-> <<>>, live_bytes |-> 0]

NoBytes == [blocks |-> 0, requested |-> 0, reserved |-> 0]
FreshReplay(raw) ==
  [raw |-> raw, pos |-> 1, table |-> <<>>, valid |-> {}, held |-> {}, oom |-> 0,
   now |-> NoBytes, peak |-> NoBytes]

BenchInit ==
  /\ \/ todo = Uniform /\ trace = EmptyTrace(UniformSizes)
     \/ todo = Transformer /\ trace = EmptyTrace(ModelSizes)
  /\ gen = FreshGen
  /\ locals = [last_freed_cls |-> 0, handles |-> <<>>]
  /\ RawInit
  /\ \E raw \in BOOLEAN : replay = FreshReplay(raw)
  /\ seen = {NoBytes}

BenchNext ==
  \/ Warmup \/ Churn \/ Adversarial \/ Drain \/ Take \/ Drop
  \/ ReplayAlloc \/ ReplayOom \/ ReplayFree

-----------------------------------------------------------------------------
(* A trace can be replayed: handles fit the table of max_handles entries,  *)
(* an allocation takes a handle no live allocation has, a free names one   *)
(* that is live, nothing is live at the end; and max_handles and the       *)
(* oracle's peak are the maxima over the trace.                            *)
LiveAfter(n) ==
  {i \in 1 .. n : /\ trace.ops[i].kind = "kAlloc"
                  /\ \A j \in i + 1 .. n : trace.ops[j].handle # trace.ops[i].handle}

TraceIsReplayable ==
  Generated /\ replay.pos = 1 =>
    LET BytesAfter(n) == MapThenSumSet(LAMBDA i : trace.sizes[trace.ops[i].class], LiveAfter(n))
        N == DOMAIN trace.ops
    IN  /\ \A n \in N :
             LET op == trace.ops[n]
                 taken == {trace.ops[i].handle : i \in LiveAfter(n - 1)}
             IN  /\ op.handle \in 0 .. trace.max_handles - 1
                 /\ op.kind = "kAlloc" <=> op.handle \notin taken
        /\ LiveAfter(Len(trace.ops)) = {}
        /\ trace.max_handles = Max({Cardinality(LiveAfter(n)) : n \in N} \cup {0})
        /\ trace.peak = Max({BytesAfter(n) : n \in N} \cup {0})

(* The blocks, the request and the reserve reported as the peak coexisted: *)
(* the replay was in a state with these three totals, and in none with     *)
(* more blocks.  The ratios of the fragmentation report are quotients of   *)
(* the three (alloc_bench.cpp:542).                                        *)
PeakCoexisted ==
  /\ replay.peak \in seen
  /\ \A now \in seen : now.blocks <= replay.peak.blocks
  /\ replay.peak.requested <= trace.peak

(* Whichever allocations are refused, the replay frees exactly what it was *)
(* given and once, its totals are those of the blocks it has, the peak it  *)
(* reports existed at one time, and it ends with nothing.  The raw         *)
(* allocator's counters agree: it goes to the driver for every block, and  *)
(* no byte of what it holds is wasted.                                     *)
ReplayIsBalanced ==
  LET has == {replay.table[h] : h \in replay.valid}
  IN  /\ PeakCoexisted
      /\ replay.held = {a.block : a \in has}
      /\ replay.now.blocks = MapThenSumSet(LAMBDA a : a.bytes, has)
      /\ replay.now.requested = MapThenSumSet(LAMBDA a : a.requested, has)
      /\ Generated /\ replay.pos = Len(trace.ops) + 1 => has = {}
      /\ replay.raw =>
           /\ raw_stats.raw_malloc_calls - raw_stats.raw_free_calls = Cardinality(replay.held)
           /\ raw_stats.alloc_calls = raw_stats.raw_malloc_calls + replay.oom
           /\ {raw_stats.bytes_reserved, raw_stats.bytes_requested, raw_stats.bytes_in_use}
                = {replay.now.blocks}
           /\ raw_stats.peak_bytes_in_use = replay.peak.blocks
=============================================================================
