---------------------------- MODULE DeferredPool ----------------------------
(***************************************************************************)
(* What the two pooling allocators have in common, whatever finds room for *)
(* a block: blocks that clients hold, blocks that wait for their last      *)
(* stream (DeferredReuse), and the rest, of which this specification only  *)
(* says that a block handed out shares no byte with the others.  It lies   *)
(* between the allocators and the promise of StreamOrderedPool.            *)
(***************************************************************************)
EXTENDS DeferredReuse

CONSTANTS
  Block,             (* the blocks there may be                             *)
  MayOverlap(_, _),  (* whether two blocks share a byte                     *)
  AllocStream        (* the streams that blocks are allocated for           *)

(* What the proofs ask of an instance.                                     *)
PoolAssumption ==
  /\ AllocStream \subseteq Stream
  /\ \A b, c \in Block : MayOverlap(b, c) => MayOverlap(c, b)

VARIABLE held        (* what the clients hold: pairs of a block and the     *)
                     (* stream its owner works on                           *)

poolVars == <<deviceVars, reuseVars, held>>

Init == DeviceInit /\ ReuseInit /\ held = {}

(* allocate begins with a reclaim pass on behalf of s and, when nothing    *)
(* fits and the pool cannot grow, waits for whatever is still parked.      *)
StillParked(s) == pending \ Reclaimable(s)

GivesBack(s) == \/ UNCHANGED deviceVars /\ ReleaseEntries(Reclaimable(s))
                \/ Drain(StillParked(s))

(* A block of at least one byte that nobody holds and that is not parked.  *)
Free(b) == /\ MayOverlap(b, b)
           /\ \A h \in held : ~MayOverlap(h.block, b)
           /\ \A p \in pending' : ~MayOverlap(p.block, b)

Allocate(s) ==
  /\ GivesBack(s)
  /\ \/ UNCHANGED held
     \/ \E b \in Block : Free(b) /\ held' = held \cup {[block |-> b, home |-> s]}

(* deallocate: the block is parked, or goes back at once, ...              *)
Deallocate(h) ==
  /\ \E now \in BOOLEAN : Retire(h.block, h.home, now)
  /\ held' = held \ {h}

(* ... as a block of its own does, once the device is idle.                *)
DeallocateBypass(h) ==
  /\ DeviceSynchronize
  /\ held' = held \ {h}
  /\ UNCHANGED reuseVars

(* settle_pending, and a trim that may return slabs to the driver.         *)
Settle ==
  /\ \/ Drain(pending)
     \/ DeviceSynchronize /\ ReleaseEntries(pending)
  /\ UNCHANGED held

(* A kernel is launched; how many may be in flight is not its concern.     *)
Use(h) ==
  /\ queue' = [queue EXCEPT ![h.home] = Append(@, h.block)]
  /\ UNCHANGED <<event, reuseVars, held>>

Move(h, s) ==
  /\ StreamIdle(h.home)
  /\ held' = (held \ {h}) \cup {[h EXCEPT !.home = s]}
  /\ UNCHANGED <<deviceVars, reuseVars>>

Device == \E s \in Stream : Complete(s) /\ UNCHANGED <<reuseVars, held>>

Next == \/ \E s \in AllocStream : Allocate(s)
        \/ \E h \in held : Deallocate(h)
        \/ \E h \in held : DeallocateBypass(h)
        \/ Settle
        \/ \E h \in held : Use(h)
        \/ \E h \in held, s \in Stream : Move(h, s)
        \/ Device

Spec == Init /\ [][Next]_poolVars

-----------------------------------------------------------------------------
Mark == [stream : Stream, after : Nat]
Entry == [block : Block, stream : Stream, slot : Nat]

(* Every parked entry and every slot offered for reuse names an event that *)
(* exists.                                                                 *)
TypeOK ==
  /\ queue \in [Stream -> Seq(Block)]
  /\ event \in Seq(Mark)
  /\ policy \in ReusePolicy
  /\ pending \subseteq Entry
  /\ SlotsOf(pending) \subseteq Slots /\ freeSlots \subseteq Slots
  /\ held \subseteq [block : Block, home : Stream]

(* No two owners share a byte, and what is owned is at least a byte.       *)
OwnersApart ==
  /\ \A g, h \in held : g # h => ~MayOverlap(g.block, h.block)
  /\ \A p, q \in pending : p # q => ~MayOverlap(p.block, q.block)
  /\ \A h \in held, p \in pending : ~MayOverlap(h.block, p.block)
  /\ \A h \in held : MayOverlap(h.block, h.block)
  /\ \A p \in pending : MayOverlap(p.block, p.block)

(* An event slot serves at most one parked block and is not at the same    *)
(* time offered for reuse; slots are never lost.                           *)
EventSlotsPartitioned ==
  /\ \A p, q \in pending : p # q /\ p.slot # kNoEventSlot => p.slot # q.slot
  /\ SlotsOf(pending) \cap freeSlots = {}
  /\ SlotsOf(pending) \cup freeSlots = Slots

(* The event of a parked block waits for every kernel that its last stream *)
(* still runs on the block's bytes.                                        *)
MarksCover ==
  \A p \in pending : p.slot # kNoEventSlot =>
    /\ event[p.slot].stream = p.stream
    /\ \A i \in DOMAIN queue[p.stream] :
         MayOverlap(queue[p.stream][i], p.block) => i <= event[p.slot].after

(* Under kPerFreeEvent every parked block has an event, and it covers.     *)
EventsCover ==
  /\ policy = "kPerFreeEvent" => \A p \in pending : p.slot # kNoEventSlot
  /\ MarksCover

(* No kernel of an earlier owner can run concurrently with the present     *)
(* owner of its bytes (allocator.hpp): all kernels in flight on a block    *)
(* that is held are on its owner's stream.                                 *)
NoUnorderedSharing ==
  \A h \in held, s \in Stream : s # h.home =>
    \A b \in Running(s) : ~MayOverlap(b, h.block)

(* Only its last stream still works on a parked block.                     *)
ParkedOnItsStream ==
  \A p \in pending, s \in Stream : s # p.stream =>
    \A b \in Running(s) : ~MayOverlap(b, p.block)

(* Memory that nobody holds is in use by the allocating stream at most.    *)
Owned == {h.block : h \in held} \cup {p.block : p \in pending}

ForeignKernelsHeld ==
  \A s \in Stream \ AllocStream : Running(s) \subseteq Owned

SharingInv == /\ NoUnorderedSharing /\ ParkedOnItsStream
              /\ ForeignKernelsHeld /\ EventsCover

(* A parked block leaves the list for the benefit of another stream only   *)
(* when no kernel that its last stream ran on it is left (rule 2 of        *)
(* allocator.hpp); a kPerFreeEvent block without an event is the exception.*)
ReclaimHasProof ==
  [][\A p \in pending \ pending' :
       \/ policy = "kPerFreeEvent" /\ p.slot = kNoEventSlot
       \/ \A b \in Running(p.stream)' : ~MayOverlap(b, p.block)
       \/ p.stream \in AllocStream /\ Allocate(p.stream)
    ]_poolVars

(* The promise that allocator.hpp makes to the clients.                    *)
Pool == INSTANCE StreamOrderedPool

ImplementsPool == Pool!Spec
=============================================================================
