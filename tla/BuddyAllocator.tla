--------------------------- MODULE BuddyAllocator ---------------------------
(***************************************************************************)
(* The buddy allocator, src/memory/buddy_allocator.cpp: growing list of    *)
(* slabs, parked blocks and their reclaim, bypass of large requests, byte  *)
(* accounting; with the client that owns the blocks and the GPU streams    *)
(* that still work on them.  One action is one call of the public          *)
(* interface (split by its outcome), one kernel launch of the client, or   *)
(* the completion of one kernel.                                           *)
(*                                                                         *)
(* A slab is the set of its used nodes (BuddyBlocks); that the loops and   *)
(* lists of the code implement this view is checked in BuddyTree.          *)
(***************************************************************************)
EXTENDS BuddyBlocks, DeferredReuse

CONSTANTS
  InitialSlabBytes,   (* BuddyConfig::initial_slab_bytes                    *)
  GrowthFactor,       (* BuddyConfig::growth_factor                         *)
  MaxTotalBytes,      (* BuddyConfig::max_total_bytes; 0 = unlimited        *)
  LargeAlloc,         (* BuddyConfig::large_alloc_threshold                 *)
  Sizes,              (* the request sizes the client uses                  *)
  AllocStream,        (* the streams the client allocates for               *)
  MaxSlabs,           (* bound: slots of slabs_                             *)
  MaxBypass,          (* bound: bypassed blocks at a time                   *)
  DriverFaults        (* what a driver call may return besides success      *)

ASSUME ConfigAssumption ==
  /\ InitialSlabBytes \in Nat /\ MaxTotalBytes \in Nat
  /\ LargeAlloc \in Nat /\ LargeAlloc < 2^WordBits
  /\ GrowthFactor \in Nat \ {0, 1}
  /\ Sizes \subseteq Nat /\ AllocStream \subseteq Stream
  /\ MaxSlabs \in Nat \ {0} /\ MaxBypass \in Nat
  /\ DriverFaults \subseteq {"kOutOfMemory", "kDriverError"}

VARIABLES
  arena,      (* arena[id]: arena_log2 of slab id, or Dead                  *)
  used,       (* used[id]: its kUsed nodes, handed out or parked            *)
  bypassed,   (* bypassed_: the blocks allocated outside the slabs          *)
  stats,      (* AllocatorStats: bytes_reserved, bytes_in_use,              *)
              (* bytes_requested                                            *)
  live,       (* the client's Allocation handles, each with the stream its  *)
              (* owner works on                                             *)
  ret         (* the status of the latest call                              *)

poolVars == <<arena, used, bypassed, stats, live, ret>>
vars == <<deviceVars, reuseVars, poolVars>>

SlabId == 1 .. MaxSlabs
kBypassSlabId == 0
Dead == -1

Live(id) == arena[id] # Dead

SlabBytes(id) == IF Live(id) THEN 2^arena[id] ELSE 0

SlabSizes == [id \in SlabId |-> SlabBytes(id)]

Init == /\ DeviceInit /\ ReuseInit
        /\ arena = [id \in SlabId |-> Dead]
        /\ used = [id \in SlabId |-> {}]
        /\ bypassed = {}
        /\ stats = [reserved |-> 0, in_use |-> 0, requested |-> 0]
        /\ live = {}
        /\ ret = "kOk"

-----------------------------------------------------------------------------
(* add_slab.                                                               *)

ReservedInSlabs == SumFunction(SlabSizes)

next_slab_bytes == LET largest == Max({SlabBytes(id) : id \in SlabId})
                   IN  IF largest = 0 THEN InitialSlabBytes
                                      ELSE largest * GrowthFactor

SlabLog2(bytes) == IF ceil_log2(bytes) > MinLog2 THEN ceil_log2(bytes)
                                                 ELSE MinLog2

(* Slab sizes 2^k from `want' down to the smallest that serves the request *)
(* are tried in turn.  The cap refuses a size, and so do the node limit    *)
(* (MaxArenaLog2) and, in the model, the number of slots.                  *)
MutRefused(k) == \/ MaxTotalBytes # 0 /\ ReservedInSlabs >= MaxTotalBytes
                 \/ k > MaxArenaLog2
                 \/ \A id \in SlabId : Live(id)
Refused(k) == \/ MaxTotalBytes # 0 /\ ReservedInSlabs + 2^k > MaxTotalBytes
              \/ k > MaxArenaLog2
              \/ \A id \in SlabId : Live(id)

MayRunOut(k) == Refused(k) \/ "kOutOfMemory" \in DriverFaults

SlabTried(want, floor) ==
  {k \in SlabLog2(floor) .. SlabLog2(want) :
     ~Refused(k) /\ \A j \in k + 1 .. SlabLog2(want) : MayRunOut(j)}

(* What add_slab may answer: a slab of 2^k bytes in the first dead slot,   *)
(* out of memory, or a driver error, which it does not retry.              *)
FirstDead == {id \in SlabId : ~Live(id) /\ \A h \in SlabId : h < id => Live(h)}

AddSlabOk(want, floor) == SlabTried(want, floor)

AddSlabFails(want, floor) ==
  (IF \A k \in SlabLog2(floor) .. SlabLog2(want) : MayRunOut(k)
     THEN {"kOutOfMemory"} ELSE {})
  \cup (IF SlabTried(want, floor) # {} /\ "kDriverError" \in DriverFaults
          THEN {"kDriverError"} ELSE {})

-----------------------------------------------------------------------------
(* allocate.                                                               *)

(* The slabs' used nodes once the entries are given back by free_node.     *)
Without(entries) ==
  [id \in SlabId |->
     used[id] \ {p.block.node : p \in {q \in entries : q.block.slab = id}}]

Level(id, bytes) == level_for_size(bytes, arena[id], MinLog2)

Fits(usedNow, id, bytes) == Live(id) /\ HasRoom(arena[id], usedNow[id], Level(id, bytes))

FittingBlocks(usedNow, id, bytes) ==
  Candidates(arena[id], usedNow[id], Level(id, bytes))

(* Slabs are tried in order of their ids.                                  *)
FirstFit(usedNow, bytes) ==
  LET fits == {id \in SlabId : Fits(usedNow, id, bytes)}
  IN  {id \in fits : \A h \in fits : id <= h}

Hand(slab, node, bytes, blockBytes, s) ==
  /\ live' = live \cup {[slab |-> slab, node |-> node, requested |-> bytes,
                         bytes |-> blockBytes, home |-> s]}
  /\ ret' = "kOk"

HandOut(usedNow, id, k, node, bytes, s) ==
  /\ used' = [usedNow EXCEPT ![id] = @ \cup {node}]
  /\ Hand(id, node, bytes, BlockBytes(k, node), s)

Counted(blockBytes, bytes, grown) ==
  stats' = [reserved |-> stats.reserved + grown,
            in_use |-> stats.in_use + blockBytes,
            requested |-> stats.requested + bytes]

(* Every outcome starts with the reclaim pass on behalf of s.              *)
AllocateFromSlab(bytes, s) ==
  /\ bytes # 0 /\ bytes <= LargeAlloc
  /\ LET back == Reclaimable(s)
     IN  \E id \in FirstFit(Without(back), bytes) :
         \E node \in FittingBlocks(Without(back), id, bytes) :
           /\ HandOut(Without(back), id, arena[id], node, bytes, s)
           /\ Counted(BlockBytes(arena[id], node), bytes, 0)
           /\ ReleaseEntries(back)
  /\ UNCHANGED <<deviceVars, arena, bypassed>>

Grown(bytes) == IF next_slab_bytes > bytes THEN next_slab_bytes ELSE bytes

(* Nothing fits: grow, and serve the request from the new slab.            *)
AllocateFromNewSlab(bytes, s) ==
  /\ bytes # 0 /\ bytes <= LargeAlloc
  /\ LET back == Reclaimable(s)
     IN  /\ FirstFit(Without(back), bytes) = {}
         /\ \E id \in FirstDead, k \in AddSlabOk(Grown(bytes), bytes) :
            \E node \in Candidates(k, {}, level_for_size(bytes, k, MinLog2)) :
              /\ arena' = [arena EXCEPT ![id] = k]
              /\ HandOut(Without(back), id, k, node, bytes, s)
              /\ Counted(BlockBytes(k, node), bytes, 2^k)
         /\ ReleaseEntries(back)
  /\ UNCHANGED <<deviceVars, bypassed>>

(* Nothing fits and add_slab failed, for whatever reason.  If blocks are   *)
(* still parked the call waits for them and tries the slabs once more.     *)
CannotGrow(bytes, s) ==
  /\ bytes # 0 /\ bytes <= LargeAlloc
  /\ FirstFit(Without(Reclaimable(s)), bytes) = {}
  /\ AddSlabFails(Grown(bytes), bytes) # {}

StillParked(s) == pending \ Reclaimable(s)

MutAllocateAfterDrain(bytes, s) ==
  /\ CannotGrow(bytes, s)
  /\ StillParked(s) # {}
  /\ \E id \in FirstFit(Without(pending), bytes) :
     \E node \in FittingBlocks(Without(pending), id, bytes) :
       /\ HandOut(Without(pending), id, arena[id], node, bytes, s)
       /\ Counted(BlockBytes(arena[id], node), bytes, 0)
  /\ ReleaseEntries(pending)
  /\ UNCHANGED <<deviceVars, arena, bypassed>>
AllocateAfterDrain(bytes, s) ==
  /\ CannotGrow(bytes, s)
  /\ StillParked(s) # {}
  /\ \E id \in FirstFit(Without(pending), bytes) :
     \E node \in FittingBlocks(Without(pending), id, bytes) :
       /\ HandOut(Without(pending), id, arena[id], node, bytes, s)
       /\ Counted(BlockBytes(arena[id], node), bytes, 0)
  /\ Drain(StillParked(s))
  /\ UNCHANGED <<arena, bypassed>>

(* The call reports OutOfMemory, also when the driver failed otherwise.    *)
MutAllocateRefused(bytes, s) ==
  /\ CannotGrow(bytes, s)
  /\ ret' = "kOutOfMemory"
  /\ used' = Without(Reclaimable(s))
  /\ ReleaseEntries(Reclaimable(s))
  /\ UNCHANGED <<deviceVars, arena, bypassed, stats, live>>
AllocateRefused(bytes, s) ==
  /\ CannotGrow(bytes, s)
  /\ FirstFit(Without(pending), bytes) = {}
  /\ ret' = "kOutOfMemory"
  /\ used' = Without(pending)
  /\ Drain(StillParked(s))
  /\ UNCHANGED <<arena, bypassed, stats, live>>

AllocateNothing(s) ==
  /\ 0 \in Sizes
  /\ ret' = "kInvalidArgument"
  /\ UNCHANGED <<deviceVars, reuseVars, arena, used, bypassed, stats, live>>

(* allocate_bypass: large requests go to the driver.                       *)
BypassPtr == (1 .. MaxBypass) \ {b.ptr : b \in bypassed}

AllocateBypass(bytes, s) ==
  /\ bytes > LargeAlloc
  /\ \E ptr \in BypassPtr :
       /\ bypassed' = bypassed \cup {[ptr |-> ptr, bytes |-> bytes]}
       /\ Hand(kBypassSlabId, ptr, bytes, bytes, s)
  /\ Counted(bytes, bytes, bytes)
  /\ used' = Without(Reclaimable(s))
  /\ ReleaseEntries(Reclaimable(s))
  /\ UNCHANGED <<deviceVars, arena>>

AllocateBypassFails(bytes, s) ==
  /\ bytes > LargeAlloc
  /\ \/ ret' \in DriverFaults
     \/ BypassPtr = {} /\ ret' = "kOutOfMemory"
  /\ used' = Without(Reclaimable(s))
  /\ ReleaseEntries(Reclaimable(s))
  /\ UNCHANGED <<deviceVars, arena, bypassed, stats, live>>

Allocate(bytes, s) ==
  \/ AllocateFromSlab(bytes, s)
  \/ AllocateFromNewSlab(bytes, s)
  \/ AllocateAfterDrain(bytes, s)
  \/ AllocateRefused(bytes, s)
  \/ AllocateBypass(bytes, s)
  \/ AllocateBypassFails(bytes, s)

-----------------------------------------------------------------------------
(* deallocate, called by the owner of a live block with the stream that    *)
(* last used it.                                                           *)

BlockOf(a) == [slab |-> a.slab, node |-> a.node]

Uncounted(a, returned) ==
  stats' = [reserved |-> stats.reserved - returned,
            in_use |-> stats.in_use - a.bytes,
            requested |-> stats.requested - a.requested]

Deallocate(a) ==
  /\ a.slab # kBypassSlabId
  /\ \E now \in BOOLEAN :
       /\ Retire(BlockOf(a), a.home, now)
       /\ used' = IF now THEN [used EXCEPT ![a.slab] = @ \ {a.node}] ELSE used
  /\ live' = live \ {a}
  /\ Uncounted(a, 0)
  /\ ret' = "kOk"
  /\ UNCHANGED <<arena, bypassed>>

(* A bypassed block goes back to the driver at once; cudaFree waits for    *)
(* the device.                                                             *)
DeallocateBypass(a) ==
  /\ a.slab = kBypassSlabId
  /\ bypassed' = {b \in bypassed : b.ptr # a.node}
  /\ live' = live \ {a}
  /\ Uncounted(a, a.bytes)
  /\ ret' \in {"kOk"} \cup (DriverFaults \ {"kOutOfMemory"})
  /\ DeviceSynchronize
  /\ UNCHANGED <<reuseVars, arena, used>>

-----------------------------------------------------------------------------
(* reserve, settle_pending and trim.                                       *)

Reserve(bytes) ==
  /\ UNCHANGED <<deviceVars, reuseVars, bypassed, live>>
  /\ \/ /\ bytes = 0
        /\ ret' = "kInvalidArgument"
        /\ UNCHANGED <<arena, used, stats>>
     \/ /\ bytes # 0
        /\ \E id \in SlabId : SlabBytes(id) >= bytes
        /\ ret' = "kOk"
        /\ UNCHANGED <<arena, used, stats>>
     \/ /\ \A id \in SlabId : SlabBytes(id) < bytes
        /\ \E id \in FirstDead, k \in AddSlabOk(bytes, bytes) :
             /\ arena' = [arena EXCEPT ![id] = k]
             /\ Counted(0, 0, 2^k)
        /\ ret' = "kOk"
        /\ UNCHANGED used
     \/ /\ \A id \in SlabId : SlabBytes(id) < bytes
        /\ ret' \in AddSlabFails(bytes, bytes)
        /\ UNCHANGED <<arena, used, stats>>

SettlePending ==
  /\ Drain(pending)
  /\ used' = Without(pending)
  /\ ret' = "kOk"
  /\ UNCHANGED <<arena, bypassed, stats, live>>

(* Drain, then return every slab whose root is free to the driver.  Its    *)
(* slot stays, so that the slab ids in outstanding handles stay valid.     *)
MutUnusedSlabs == {id \in SlabId : Live(id) /\ 0 \notin Without(pending)[id]}
UnusedSlabs == {id \in SlabId : Live(id) /\ Without(pending)[id] = {}}

Trim ==
  /\ arena' = [id \in SlabId |-> IF id \in UnusedSlabs THEN Dead ELSE arena[id]]
  /\ used' = Without(pending)
  /\ stats' = [stats EXCEPT !.reserved = @ - SumFunctionOnSet(SlabSizes, UnusedSlabs)]
  /\ IF UnusedSlabs = {}
       THEN ret' = "kOk" /\ Drain(pending)
       ELSE /\ ret' \in {"kOk"} \cup (DriverFaults \ {"kOutOfMemory"})
            /\ DeviceSynchronize
            /\ ReleaseEntries(pending)
  /\ UNCHANGED <<bypassed, live>>

-----------------------------------------------------------------------------
(* The client.  It works on a block on one stream at a time and moves to   *)
(* another only after the first is idle, as the stream-ordered rules of    *)
(* allocator.hpp ask of it.                                                *)

Use(a) ==
  /\ Launch(a.home, BlockOf(a))
  /\ UNCHANGED <<reuseVars, poolVars>>

Move(a, s) ==
  /\ s # a.home
  /\ StreamIdle(a.home)
  /\ live' = (live \ {a}) \cup {[a EXCEPT !.home = s]}
  /\ UNCHANGED <<deviceVars, reuseVars, arena, used, bypassed, stats, ret>>

Device == \E s \in Stream : Complete(s) /\ UNCHANGED <<reuseVars, poolVars>>

Next == \/ \E s \in AllocStream : AllocateNothing(s)
        \/ \E bytes \in Sizes \ {0}, s \in AllocStream : Allocate(bytes, s)
        \/ \E a \in live : Deallocate(a)
        \/ \E a \in live : DeallocateBypass(a)
        \/ \E bytes \in Sizes : Reserve(bytes)
        \/ SettlePending
        \/ Trim
        \/ \E a \in live : Use(a)
        \/ \E a \in live, s \in Stream : Move(a, s)
        \/ Device

Spec == Init /\ [][Next]_vars

-----------------------------------------------------------------------------
PoolBlock == [slab : SlabId, node : Node]
BypassBlock == [slab : {kBypassSlabId}, node : 1 .. MaxBypass]
Block == PoolBlock \cup BypassBlock

Handle == {h \in [slab : SlabId \cup {kBypassSlabId}, node : Nat,
                  requested : Nat, bytes : Nat, home : Stream] :
             BlockOf(h) \in Block}

Mark == [stream : Stream, after : Nat]

Entry == [block : PoolBlock, stream : Stream, slot : Nat]

(* The state has the types of the code's fields, every parked entry lies   *)
(* in a slab and every event slot it names or that is offered for reuse    *)
(* exists.  (stats is the subject of BytesAccounted.)                      *)
TypeOK ==
  /\ queue \in [Stream -> Seq(Block)]
  /\ event \in Seq(Mark)
  /\ policy \in ReusePolicy
  /\ pending \subseteq Entry
  /\ SlotsOf(pending) \subseteq Slots /\ freeSlots \subseteq Slots
  /\ arena \in [SlabId -> {Dead} \cup MinLog2 .. MaxArenaLog2]
  /\ used \in [SlabId -> SUBSET Node]
  /\ bypassed \subseteq [ptr : Nat, bytes : Nat]
  /\ live \subseteq Handle
  /\ ret \in {"kOk", "kInvalidArgument", "kOutOfMemory", "kDriverError"}

Overlaps(b, c) == /\ b.slab = c.slab
                  /\ IF b.slab = kBypassSlabId THEN b.node = c.node
                                               ELSE <<b.node, c.node>> \in Overlap

(* The blocks that are out: handed to the client, or parked.               *)
Parked == {p.block : p \in pending}
Held == {BlockOf(a) : a \in live} \cup Parked

(* No two owners share a byte: neither two clients, nor two parked         *)
(* entries, nor a client and a parked entry.                               *)
OwnersApart ==
  /\ \A a, b \in live : a # b => ~Overlaps(BlockOf(a), BlockOf(b))
  /\ \A p, q \in pending : p # q => ~Overlaps(p.block, q.block)
  /\ \A a \in live, p \in pending : ~Overlaps(BlockOf(a), p.block)

(* What the allocator believes to be out is what somebody holds, and it    *)
(* lies in a slab that exists.                                             *)
UsedIsHeld ==
  /\ \A id \in SlabId, n \in Node :
       n \in used[id] <=> [slab |-> id, node |-> n] \in Held
  /\ \A id \in SlabId : used[id] # {} => Live(id) /\ used[id] \subseteq NodesOf(arena[id])
  /\ \A a \in live : a.slab = kBypassSlabId => \E b \in bypassed : b.ptr = a.node

(* Every used node of every slab belongs to exactly one live handle or     *)
(* parked entry and the reverse, no two of them overlap, and none lies in  *)
(* a slab that trim has returned.                                          *)
Ownership == OwnersApart /\ UsedIsHeld

(* The equations of validate(): the bytes of the used nodes are those in   *)
(* use plus those parked, the bytes reserved are the slabs plus the        *)
(* bypassed blocks, and a caller never uses more than it holds.  A block   *)
(* leaves bytes_in_use at deallocate, but its slab only at the reclaim.    *)
InSlab(b) == BlockBytes(arena[b.slab], b.node)

UsedBlocks == {b \in PoolBlock : b.node \in used[b.slab]}

BytesAccounted ==
  LET usedBytes == SumFunction([b \in UsedBlocks |-> InSlab(b)])
      parkedBytes == SumFunction([p \in pending |-> InSlab(p.block)])
      bypassBytes == SumFunction([b \in bypassed |-> b.bytes])
  IN  /\ usedBytes = stats.in_use - bypassBytes + parkedBytes
      /\ stats.reserved = ReservedInSlabs + bypassBytes
      /\ stats.requested >= 0 /\ stats.in_use >= stats.requested

(* max_total_bytes bounds what the slabs hold together, whatever sequence  *)
(* of growth, halving and trim led there (bypassed blocks are not counted, *)
(* as in the code).                                                        *)
CapHonoured == MaxTotalBytes # 0 => ReservedInSlabs <= MaxTotalBytes

(* What the driver gave is what is counted, and no more than is allowed.   *)
FootprintIsExact == BytesAccounted /\ CapHonoured

(* An event slot serves at most one parked block and is not at the same    *)
(* time offered for reuse; slots are never lost.                           *)
EventSlotsPartitioned ==
  /\ \A p, q \in pending : p # q /\ p.slot # kNoEventSlot => p.slot # q.slot
  /\ SlotsOf(pending) \cap freeSlots = {}
  /\ SlotsOf(pending) \cup freeSlots = Slots

(* OutOfMemory is never premature: when a pooled request is refused, every *)
(* block of its size in every slab is in the hands of a client.  Parked    *)
(* blocks were waited for, what they split was merged again, and every     *)
(* slab was tried ("a spurious OOM is a lie, a stall is merely slow",      *)
(* drain_pending_blocking).                                                *)
NoFalseOom ==
  [][ret' = "kOutOfMemory" => \A bytes \in Sizes \ {0}, s \in AllocStream :
       AllocateRefused(bytes, s) =>
         \A id \in SlabId : Live(id) =>
           \A n \in NodesOf(arena[id]) : <<n, Level(id, bytes)>> \in AtLevel =>
             \E a \in live : Overlaps([slab |-> id, node |-> n], BlockOf(a))]_vars

(* A parked block leaves the list for the benefit of another stream only   *)
(* when no kernel that its last stream ran on it is left: reclaim, drain,  *)
(* settle and trim all have the proof that rule 2 of allocator.hpp asks    *)
(* for.  (A kPerFreeEvent block that was parked without an event is the    *)
(* exception; the run buddy_event_fallback is about it.)                   *)
ReclaimHasProof ==
  [][\A p \in pending \ pending' :
       \/ policy = "kPerFreeEvent" /\ p.slot = kNoEventSlot
       \/ \A b \in Running(p.stream)' : ~Overlaps(b, p.block)
       \/ \E bytes \in Sizes : p.stream \in AllocStream /\ Allocate(bytes, p.stream)
    ]_vars

(* The rule the whole design serves (allocator.hpp): no kernel of an       *)
(* earlier owner can run concurrently with the present owner of its bytes; *)
(* all kernels in flight on a live block are on its owner's stream.        *)
NoUnorderedSharing ==
  \A a \in live, s \in Stream : s # a.home =>
    \A b \in Running(s) : ~Overlaps(b, BlockOf(a))

-----------------------------------------------------------------------------
(* What makes NoUnorderedSharing inductive when the client allocates for   *)
(* one stream only and events do not fail.                                 *)

(* Only its last stream still works on a parked block.                     *)
ParkedOnItsStream ==
  \A p \in pending, s \in Stream : s # p.stream =>
    \A b \in Running(s) : ~Overlaps(b, p.block)

(* Memory that nobody holds is in use by the allocating stream at most.    *)
ForeignKernelsHeld ==
  \A s \in Stream \ AllocStream : Running(s) \subseteq Held

(* The event of a parked block waits for every kernel that its last stream *)
(* still runs on the block's bytes.                                        *)
MarksCover ==
  \A p \in pending : p.slot # kNoEventSlot =>
    /\ event[p.slot].stream = p.stream
    /\ \A i \in DOMAIN queue[p.stream] :
         Overlaps(queue[p.stream][i], p.block) => i <= event[p.slot].after

(* Under kPerFreeEvent every parked block has an event, and it covers.     *)
EventsCover ==
  /\ policy = "kPerFreeEvent" => \A p \in pending : p.slot # kNoEventSlot
  /\ MarksCover

SharingInv == /\ NoUnorderedSharing /\ ParkedOnItsStream
              /\ ForeignKernelsHeld /\ EventsCover

-----------------------------------------------------------------------------
(* The allocator is a stream-ordered pool: no block is handed out while a  *)
(* client holds a byte of it or a kernel of another stream works on one.   *)
Pool == INSTANCE StreamOrderedPool
          WITH held <- {[block |-> BlockOf(a), home |-> a.home] : a \in live},
               MayOverlap <- Overlaps

ImplementsPool == Pool!Spec

(* The GPU completes what was submitted to it, and while a parked block    *)
(* could be reclaimed the client allocates again some time: a reclaim pass *)
(* is part of every allocate, and of no other call the client must make.   *)
Allocates ==
  /\ \E p \in pending : p.slot # kNoEventSlot /\ EventDone(p.slot)
  /\ \E bytes \in Sizes \ {0}, s \in AllocStream : Allocate(bytes, s)

Fairness ==
  /\ \A s \in Stream : WF_vars(Complete(s) /\ UNCHANGED <<reuseVars, poolVars>>)
  /\ WF_vars(Allocates)

FairSpec == Spec /\ Fairness

(* Under kPerFreeEvent a parked block does not stay parked: its event      *)
(* completes, whatever else its stream is given to do, and a later reclaim *)
(* returns the block and the event's slot.  (Under kCoarseStreamPoll it    *)
(* may wait for ever for its stream to be idle.)                           *)
EventSlotsComeBack ==
  \A slot \in 1 .. 2 : slot \in SlotsOf(pending) ~> slot \in freeSlots
=============================================================================
