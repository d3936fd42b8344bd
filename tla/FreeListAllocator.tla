------------------------- MODULE FreeListAllocator -------------------------
(***************************************************************************)
(* The size-class allocator, src/memory/freelist_allocator.cpp: blocks are *)
(* carved once from the bump pointer of a slab and then only cycle between *)
(* three places, the clients (live_), the class lists (classes_) and the   *)
(* parked blocks (pending_).  Nothing is ever merged.  As in               *)
(* BuddyAllocator, one action is one call of the public interface, one     *)
(* kernel launch of the client, or the completion of a kernel.             *)
(*                                                                         *)
(* A block is its slab, its offset and its size.  A class list is a set:   *)
(* the list serves from its back, and the order in which a reclaim pass    *)
(* fills it is that of pending_, which carries nothing.                    *)
(***************************************************************************)
EXTENDS DeferredReuse, BuddyMath, FiniteSetsExt

CONSTANTS
  Granularity,     (* FreeListConfig::small_class_granularity               *)
  SmallLargeSplit, (* FreeListConfig::small_large_split                     *)
  LargeAlloc,      (* FreeListConfig::large_alloc_threshold                 *)
  MinSlabBytes,    (* FreeListConfig::slab_bytes                            *)
  MaxTotalBytes,   (* FreeListConfig::max_total_bytes; 0 = unlimited        *)
  Splitting,       (* the values of split_large_blocks to consider          *)
  Sizes,           (* the request sizes the client uses                     *)
  AllocStream,     (* the streams the client allocates for                  *)
  MaxSlabs,        (* bound: slots of slabs_                                *)
  MaxBypass,       (* bound: bypassed blocks at a time                      *)
  DriverFaults     (* what a driver call may return besides success         *)

VARIABLES
  split,      (* cfg_.split_large_blocks, fixed at construction             *)
  size,       (* size[id]: bytes of slab id, 0 for a dead slot              *)
  bump,       (* bump[id]: how much of it has been carved                   *)
  classes,    (* classes_[c]: the cached blocks of class c                  *)
  bypassed,   (* bypassed_                                                  *)
  stats,      (* bytes_reserved, bytes_in_use, bytes_requested              *)
  live,       (* live_, with the stream each owner works on                 *)
  ret         (* the status of the latest call                              *)

listVars == <<split, size, bump, classes, bypassed, stats, live, ret>>
vars == <<deviceVars, reuseVars, listVars>>

SlabId == 1 .. MaxSlabs
kBypassSlabId == 0

Larger(a, b) == IF a > b THEN a ELSE b

-----------------------------------------------------------------------------
(* The ladder: classes of every multiple of the granularity up to the      *)
(* split point, then of every power of two.                                *)

(* The configurations it accepts; the unit is kDeviceAlignment.            *)
validate_config ==
  /\ is_power_of_two(Granularity) /\ is_power_of_two(SmallLargeSplit)
  /\ Granularity <= SmallLargeSplit /\ SmallLargeSplit <= LargeAlloc
  /\ Granularity <= MinSlabBytes

ASSUME ConfigAssumption ==
  /\ validate_config
  /\ MinSlabBytes \in Nat /\ MaxTotalBytes \in Nat
  /\ LargeAlloc \in Nat /\ LargeAlloc < 2^WordBits
  /\ Sizes \subseteq Nat /\ AllocStream \subseteq Stream
  /\ Splitting \subseteq BOOLEAN /\ Splitting # {}
  /\ MaxSlabs \in Nat \ {0} /\ MaxBypass \in Nat
  /\ DriverFaults \subseteq {"kOutOfMemory", "kDriverError"}

n_small == SmallLargeSplit \div Granularity

MutSizeClassOf(bytes) ==
  IF bytes <= SmallLargeSplit THEN bytes \div Granularity
  ELSE n_small + ceil_log2(bytes) - (ceil_log2(SmallLargeSplit) + 1)
size_class_of(bytes) ==
  IF bytes = 0 THEN 0
  ELSE IF bytes <= SmallLargeSplit
         THEN (bytes + Granularity - 1) \div Granularity - 1
  ELSE n_small + ceil_log2(bytes) - (ceil_log2(SmallLargeSplit) + 1)

class_block_bytes(c) ==
  IF c < n_small THEN (c + 1) * Granularity
  ELSE 2^(ceil_log2(SmallLargeSplit) + 1 + c - n_small)

Class == 0 .. size_class_of(LargeAlloc)

-----------------------------------------------------------------------------
(* Slabs.                                                                  *)

Live(id) == size[id] # 0

ReservedInSlabs == SumFunction(size)

(* add_slab: the cap, then (in the model) the number of slots, then the    *)
(* driver.  The first dead slot is reused.                                 *)
Refused(bytes) == \/ MaxTotalBytes # 0 /\ ReservedInSlabs + bytes > MaxTotalBytes
                  \/ \A id \in SlabId : Live(id)

AddSlabOk(bytes) ==
  {id \in SlabId : /\ ~Refused(bytes) /\ ~Live(id)
                   /\ \A h \in SlabId : h < id => Live(h)}

AddSlabFails(bytes) == IF Refused(bytes) THEN {"kOutOfMemory"} ELSE DriverFaults

-----------------------------------------------------------------------------
(* The class lists.                                                        *)

Cached == UNION {classes[c] : c \in Class}

(* cache_block for every entry that a reclaim or a drain gives back.       *)
WithCached(blocks) ==
  [c \in Class |-> classes[c] \cup {b \in blocks : size_class_of(b.bytes) = c}]

BlocksOf(entries) == {p.block : p \in entries}

Parked == BlocksOf(pending)

(* What allocate finds without growing, given the lists and a class: the   *)
(* block handed out with the lists and bump pointers afterwards.           *)
ClassHit(lists, c) ==
  {[block |-> b, lists |-> [lists EXCEPT ![c] = @ \ {b}], bump |-> bump] :
     b \in lists[c]}

(* try_split_larger: the first of the next eight classes with a cached     *)
(* block whose remainder is a class size too.                              *)
SplitsInto(whole, c) ==
  LET rest == class_block_bytes(whole) - class_block_bytes(c)
  IN  class_block_bytes(size_class_of(rest)) = rest

Splittable(lists, c) ==
  {w \in Class : c < w /\ w < c + 9 /\ lists[w] # {} /\ SplitsInto(w, c)}

Piece(b, from, bytes) == [slab |-> b.slab, off |-> b.off + from, bytes |-> bytes]

SplitSource(lists, c) ==
  {w \in Splittable(lists, c) : \A v \in Splittable(lists, c) : w <= v}

(* b, of class w, leaves its list and its remainder joins another.         *)
Recached(lists, w, b, need) ==
  LET rest == Piece(b, need, b.bytes - need)
  IN  [[lists EXCEPT ![w] = @ \ {b}] EXCEPT ![size_class_of(rest.bytes)] = @ \cup {rest}]

SplitHit(lists, c) ==
  {[block |-> Piece(b, 0, class_block_bytes(c)),
    lists |-> Recached(lists, size_class_of(b.bytes), b, class_block_bytes(c)),
    bump |-> bump] : b \in UNION {lists[w] : w \in SplitSource(lists, c)}}

(* Virgin space of the first slab whose tail is large enough.              *)
Room(c) == {id \in SlabId : Live(id) /\ bump[id] + class_block_bytes(c) <= size[id]}

Carve(id, at, c) == [slab |-> id, off |-> at, bytes |-> class_block_bytes(c)]

Virgin(lists, c) ==
  {[block |-> Carve(id, bump[id], c), lists |-> lists,
    bump |-> [bump EXCEPT ![id] = @ + class_block_bytes(c)]] :
     id \in {i \in Room(c) : \A h \in Room(c) : i <= h}}

Offers(lists, c) ==
  IF lists[c] # {} THEN ClassHit(lists, c)
  ELSE IF split /\ Splittable(lists, c) # {} THEN SplitHit(lists, c)
  ELSE Virgin(lists, c)

-----------------------------------------------------------------------------
(* allocate.                                                               *)

Init == /\ DeviceInit /\ ReuseInit
        /\ split \in Splitting
        /\ size = [id \in SlabId |-> 0]
        /\ bump = [id \in SlabId |-> 0]
        /\ classes = [c \in Class |-> {}]
        /\ bypassed = {}
        /\ stats = [reserved |-> 0, in_use |-> 0, requested |-> 0]
        /\ live = {}
        /\ ret = "kOk"

Hand(block, bytes, s) ==
  /\ live' = live \cup {[slab |-> block.slab, off |-> block.off,
                         bytes |-> block.bytes, requested |-> bytes, home |-> s]}
  /\ ret' = "kOk"

Counted(blockBytes, bytes, grown) ==
  stats' = [reserved |-> stats.reserved + grown,
            in_use |-> stats.in_use + blockBytes,
            requested |-> stats.requested + bytes]

Pooled(bytes) == bytes # 0 /\ bytes <= LargeAlloc

(* Every outcome starts with the reclaim pass on behalf of s.              *)
Refilled(s) == WithCached(BlocksOf(Reclaimable(s)))

AllocateFromPool(bytes, s) ==
  /\ Pooled(bytes)
  /\ \E hit \in Offers(Refilled(s), size_class_of(bytes)) :
       /\ classes' = hit.lists /\ bump' = hit.bump
       /\ Hand(hit.block, bytes, s)
       /\ Counted(hit.block.bytes, bytes, 0)
  /\ ReleaseEntries(Reclaimable(s))
  /\ UNCHANGED <<deviceVars, split, size, bypassed>>

SlabFor(bytes) == Larger(MinSlabBytes, class_block_bytes(size_class_of(bytes)))

NothingFits(bytes, s) ==
  Pooled(bytes) /\ Offers(Refilled(s), size_class_of(bytes)) = {}

AllocateFromNewSlab(bytes, s) ==
  /\ NothingFits(bytes, s)
  /\ \E id \in AddSlabOk(SlabFor(bytes)) :
       LET block == Carve(id, 0, size_class_of(bytes))
       IN  /\ size' = [size EXCEPT ![id] = SlabFor(bytes)]
           /\ bump' = [bump EXCEPT ![id] = block.bytes]
           /\ Hand(block, bytes, s)
           /\ Counted(block.bytes, bytes, SlabFor(bytes))
  /\ classes' = Refilled(s)
  /\ ReleaseEntries(Reclaimable(s))
  /\ UNCHANGED <<deviceVars, split, bypassed>>

CannotGrow(bytes, s) ==
  NothingFits(bytes, s) /\ AddSlabFails(SlabFor(bytes)) # {}

StillParked(s) == pending \ Reclaimable(s)

(* After the drain only the class itself is looked at, neither a split nor *)
(* a carve is tried again.                                                 *)
AllocateAfterDrain(bytes, s) ==
  /\ CannotGrow(bytes, s)
  /\ StillParked(s) # {}
  /\ \E hit \in ClassHit(WithCached(Parked), size_class_of(bytes)) :
       /\ classes' = hit.lists
       /\ Hand(hit.block, bytes, s)
       /\ Counted(hit.block.bytes, bytes, 0)
  /\ Drain(StillParked(s))
  /\ UNCHANGED <<split, size, bump, bypassed>>

MutAllocateRefused(bytes, s) ==
  /\ CannotGrow(bytes, s)
  /\ ret' = "kOutOfMemory"
  /\ classes' = WithCached(Parked)
  /\ Drain(StillParked(s))
  /\ UNCHANGED <<split, size, bump, bypassed, stats, live>>
AllocateRefused(bytes, s) ==
  /\ CannotGrow(bytes, s)
  /\ WithCached(Parked)[size_class_of(bytes)] = {}
  /\ ret' = "kOutOfMemory"
  /\ classes' = WithCached(Parked)
  /\ Drain(StillParked(s))
  /\ UNCHANGED <<split, size, bump, bypassed, stats, live>>

AllocateNothing(s) ==
  /\ 0 \in Sizes
  /\ ret' = "kInvalidArgument"
  /\ UNCHANGED <<deviceVars, reuseVars, split, size, bump, classes, bypassed,
                 stats, live>>

BypassPtr == (1 .. MaxBypass) \ {b.ptr : b \in bypassed}

AllocateBypass(bytes, s) ==
  /\ bytes > LargeAlloc
  /\ \E ptr \in BypassPtr :
       /\ bypassed' = bypassed \cup {[ptr |-> ptr, bytes |-> bytes]}
       /\ Hand([slab |-> kBypassSlabId, off |-> ptr, bytes |-> bytes], bytes, s)
  /\ Counted(bytes, bytes, bytes)
  /\ classes' = Refilled(s)
  /\ ReleaseEntries(Reclaimable(s))
  /\ UNCHANGED <<deviceVars, split, size, bump>>

AllocateBypassFails(bytes, s) ==
  /\ bytes > LargeAlloc
  /\ \/ ret' \in DriverFaults
     \/ BypassPtr = {} /\ ret' = "kOutOfMemory"
  /\ classes' = Refilled(s)
  /\ ReleaseEntries(Reclaimable(s))
  /\ UNCHANGED <<deviceVars, split, size, bump, bypassed, stats, live>>

Allocate(bytes, s) ==
  \/ AllocateFromPool(bytes, s)
  \/ AllocateFromNewSlab(bytes, s)
  \/ AllocateAfterDrain(bytes, s)
  \/ AllocateRefused(bytes, s)
  \/ AllocateBypass(bytes, s)
  \/ AllocateBypassFails(bytes, s)

-----------------------------------------------------------------------------
(* deallocate, called by the owner of a live block with the stream that    *)
(* last used it.                                                           *)

BlockOf(a) == [slab |-> a.slab, off |-> a.off, bytes |-> a.bytes]

Uncounted(a, returned) ==
  stats' = [reserved |-> stats.reserved - returned,
            in_use |-> stats.in_use - a.bytes,
            requested |-> stats.requested - a.requested]

Deallocate(a) ==
  /\ a.slab # kBypassSlabId
  /\ \E now \in BOOLEAN :
       /\ Retire(BlockOf(a), a.home, now)
       /\ classes' = IF now THEN WithCached({BlockOf(a)}) ELSE classes
  /\ live' = live \ {a}
  /\ Uncounted(a, 0)
  /\ ret' = "kOk"
  /\ UNCHANGED <<split, size, bump, bypassed>>

DeallocateBypass(a) ==
  /\ a.slab = kBypassSlabId
  /\ bypassed' = {b \in bypassed : b.ptr # a.off}
  /\ live' = live \ {a}
  /\ Uncounted(a, a.bytes)
  /\ ret' \in {"kOk"} \cup (DriverFaults \ {"kOutOfMemory"})
  /\ DeviceSynchronize
  /\ UNCHANGED <<reuseVars, split, size, bump, classes>>

-----------------------------------------------------------------------------
(* reserve, settle_pending and trim.                                       *)

Reserve(bytes) ==
  /\ UNCHANGED <<deviceVars, reuseVars, split, classes, bypassed, live>>
  /\ \/ /\ bytes = 0
        /\ ret' = "kInvalidArgument"
        /\ UNCHANGED <<size, bump, stats>>
     \/ /\ bytes # 0
        /\ \E id \in SlabId : size[id] >= bytes
        /\ ret' = "kOk"
        /\ UNCHANGED <<size, bump, stats>>
     \/ /\ \A id \in SlabId : size[id] < bytes
        /\ \E id \in AddSlabOk(Larger(bytes, MinSlabBytes)) :
             size' = [size EXCEPT ![id] = Larger(bytes, MinSlabBytes)]
        /\ Counted(0, 0, Larger(bytes, MinSlabBytes))
        /\ ret' = "kOk"
        /\ UNCHANGED bump
     \/ /\ \A id \in SlabId : size[id] < bytes
        /\ ret' \in AddSlabFails(Larger(bytes, MinSlabBytes))
        /\ UNCHANGED <<size, bump, stats>>

SettlePending ==
  /\ Drain(pending)
  /\ classes' = WithCached(Parked)
  /\ ret' = "kOk"
  /\ UNCHANGED <<split, size, bump, bypassed, stats, live>>

(* Drain, then return every slab that holds no live block to the driver,   *)
(* dropping the cached blocks inside it.                                   *)
UnusedSlabs == {id \in SlabId : Live(id) /\ \A a \in live : a.slab # id}

Trim ==
  /\ size' = [id \in SlabId |-> IF id \in UnusedSlabs THEN 0 ELSE size[id]]
  /\ bump' = [id \in SlabId |-> IF id \in UnusedSlabs THEN 0 ELSE bump[id]]
  /\ classes' = [c \in Class |-> {b \in WithCached(Parked)[c] : b.slab \notin UnusedSlabs}]
  /\ stats' = [stats EXCEPT !.reserved = @ - SumFunctionOnSet(size, UnusedSlabs)]
  /\ IF UnusedSlabs = {}
       THEN ret' = "kOk" /\ Drain(pending)
       ELSE /\ ret' \in {"kOk"} \cup (DriverFaults \ {"kOutOfMemory"})
            /\ DeviceSynchronize
            /\ ReleaseEntries(pending)
  /\ UNCHANGED <<split, bypassed, live>>

(* compute_largest_free_block.  A tail counts for the largest class block  *)
(* that fits in it, not for its raw length.                                *)
MutTailServes(id) == {size[id] - bump[id]}
TailServes(id) == {class_block_bytes(c) : c \in {d \in Class : id \in Room(d)}}

LargestFree ==
  Max({0} \cup {b.bytes : b \in Cached} \cup UNION {TailServes(id) : id \in SlabId})

-----------------------------------------------------------------------------
(* The client, as in BuddyAllocator.                                       *)

Use(a) ==
  /\ Launch(a.home, BlockOf(a))
  /\ UNCHANGED <<reuseVars, listVars>>

Move(a, s) ==
  /\ s # a.home
  /\ StreamIdle(a.home)
  /\ live' = (live \ {a}) \cup {[a EXCEPT !.home = s]}
  /\ UNCHANGED <<deviceVars, reuseVars, split, size, bump, classes, bypassed,
                 stats, ret>>

Device == \E s \in Stream : Complete(s) /\ UNCHANGED <<reuseVars, listVars>>

Next == \/ \E s \in AllocStream : AllocateNothing(s)
        \/ \E bytes \in Sizes \ {0}, s \in AllocStream : Allocate(bytes, s)
        \/ \E a \in live : Deallocate(a)
        \/ \E a \in live : DeallocateBypass(a)
        \/ \E bytes \in Sizes : Reserve(bytes)
        \/ SettlePending
        \/ Trim
        \/ \E a \in live : Use(a)
        \/ \E a \in live, s \in Stream : Move(a, s)
        \/ Device

Spec == Init /\ [][Next]_vars

-----------------------------------------------------------------------------
Block == [slab : SlabId \cup {kBypassSlabId}, off : Nat, bytes : Nat]

(* The state has the types of the code's fields, and every parked entry    *)
(* and every slot offered for reuse names an event that exists.            *)
TypeOK ==
  /\ queue \in [Stream -> Seq(Block)]
  /\ event \in Seq([stream : Stream, after : Nat])
  /\ policy \in ReusePolicy /\ split \in Splitting
  /\ pending \subseteq [block : Block, stream : Stream, slot : {kNoEventSlot} \cup Slots]
  /\ freeSlots \subseteq Slots
  /\ size \in [SlabId -> Nat] /\ bump \in [SlabId -> Nat]
  /\ classes \in [Class -> SUBSET Block]
  /\ bypassed \subseteq [ptr : Nat, bytes : Nat]
  /\ live \subseteq [slab : SlabId \cup {kBypassSlabId}, off : Nat, bytes : Nat,
                     requested : Nat, home : Stream]
  /\ ret \in {"kOk", "kInvalidArgument", "kOutOfMemory", "kDriverError"}

Covers(b, x) == b.off <= x /\ x < b.off + b.bytes

Overlaps(b, c) ==
  /\ b.slab = c.slab
  /\ IF b.slab = kBypassSlabId THEN b.off = c.off
     ELSE b.off < c.off + c.bytes /\ c.off < b.off + b.bytes

Owners(id, x) ==
  {<<"live", a>> : a \in {h \in live : h.slab = id /\ Covers(h, x)}}
    \cup {<<"parked", p>> : p \in {q \in pending : q.block.slab = id /\ Covers(q.block, x)}}
    \cup UNION {{<<"cached", c, b>> : b \in {e \in classes[c] : e.slab = id /\ Covers(e, x)}} :
                  c \in Class}

(* The central invariant of validate(), for every byte: each carved byte   *)
(* of each slab belongs to exactly one block, which is live, cached or     *)
(* parked and of the size of its class; no block lies outside the carved   *)
(* part, and none in a slab that trim returned.                            *)
Partition ==
  LET pooled == {a \in live : a.slab # kBypassSlabId}
      sized(b) == b.bytes = class_block_bytes(size_class_of(b.bytes))
      inside(b) == b.slab \in SlabId /\ b.off + b.bytes <= bump[b.slab]
  IN  /\ \A id \in SlabId : \A x \in 0 .. bump[id] - 1 :
           \E o \in Owners(id, x) : Owners(id, x) = {o}
      /\ \A b \in Cached \cup Parked \cup pooled : sized(b) /\ inside(b)
      /\ \A c \in Class : \A b \in classes[c] : b.bytes = class_block_bytes(c)

(* The other equations of validate(): what is reserved and what is in use. *)
BytesAccounted ==
  /\ stats.reserved = ReservedInSlabs + SumFunction([b \in bypassed |-> b.bytes])
  /\ stats.in_use = SumFunction([a \in live |-> a.bytes])
  /\ stats.requested = SumFunction([a \in live |-> a.requested])
  /\ \A a \in live : a.bytes >= a.requested

(* What validate() verifies, and what it leaves to the types of C++.       *)
PoolIsValid == TypeOK /\ Partition /\ BytesAccounted

(* largest_free_block is what its comment says: the largest request that   *)
(* allocate would serve now without going to the driver.  (The tail of a   *)
(* slab is longer than that; and a threshold that is no class size would   *)
(* break it, for the class lists go one size beyond the threshold.)        *)
LargestFreeIsExact ==
  LET Served(bytes) == Offers(classes, size_class_of(bytes)) # {}
  IN  /\ LargestFree # 0 => LargestFree <= LargeAlloc /\ Served(LargestFree)
      /\ \A bytes \in 1 .. LargeAlloc : Served(bytes) => bytes <= LargestFree

(* OutOfMemory after the drain is final: the same request would not be     *)
(* served by the lists and tails the call leaves behind.  With             *)
(* split_large_blocks it would: the code does not split after a drain.     *)
RefusalIsFinal ==
  [][ret' = "kOutOfMemory" /\ ~split =>
       \A bytes \in Sizes, s \in AllocStream :
         AllocateRefused(bytes, s) => Offers(classes, size_class_of(bytes))' = {}]_vars

(* The allocator is a stream-ordered pool: no block is handed out while a  *)
(* client holds a byte of it or a kernel of another stream works on one.   *)
HeldBy(handles) == {[block |-> BlockOf(a), home |-> a.home] : a \in handles}

Pool == INSTANCE StreamOrderedPool
          WITH held <- HeldBy(live), MayOverlap <- Overlaps

ImplementsPool == Pool!Spec
=============================================================================
