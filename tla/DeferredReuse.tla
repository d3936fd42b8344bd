--------------------------- MODULE DeferredReuse ---------------------------
(***************************************************************************)
(* Stream-ordered reuse of freed blocks, shared by both pooling            *)
(* allocators: the decision pending_reusable of                            *)
(* include/mcke/memory/reuse_policy.hpp, the list of parked blocks, and    *)
(* the pool of events the kPerFreeEvent policy records at each free.       *)
(* The two allocators carry the same code; "map" names the buddy's.        *)
(***************************************************************************)
EXTENDS StreamDevice

CONSTANTS
  ReusePolicy,  (* the policies to consider, a subset of AllPolicies        *)
  EventFaults   (* whether creating or recording an event may fail          *)

AllPolicies == {"kSameStreamOnly", "kCoarseStreamPoll", "kPerFreeEvent"}

ASSUME PolicyAssumption == /\ ReusePolicy \subseteq AllPolicies
                           /\ EventFaults \in BOOLEAN

VARIABLES
  policy,       (* cfg_.reuse_policy, fixed at construction                 *)
  pending,      (* pending_: the parked blocks; their order carries nothing *)
  freeSlots     (* free_event_slots_: events of the pool not in use         *)

reuseVars == <<policy, pending, freeSlots>>

kNoEventSlot == 0

ReuseInit == /\ policy \in ReusePolicy
             /\ pending = {}
             /\ freeSlots = {}

Slots == DOMAIN event

-----------------------------------------------------------------------------
(* The shared decision.  A block parked without an event counts as         *)
(* complete for event_completed.                                           *)
MutEventCompleted(slot) == TRUE
event_completed(slot) == slot = kNoEventSlot \/ EventDone(slot)

MutPendingReusable(p, for_stream) ==
  \/ p.stream = for_stream
  \/ policy = "kCoarseStreamPoll" /\ StreamIdle(for_stream)
  \/ policy = "kPerFreeEvent" /\ event_completed(p.slot)
MutReusableOnItsStream(p, for_stream) ==
  \/ p.stream = for_stream
  \/ policy = "kCoarseStreamPoll" /\ StreamIdle(p.stream)
pending_reusable(p, for_stream) ==
  \/ p.stream = for_stream
  \/ policy = "kCoarseStreamPoll" /\ StreamIdle(p.stream)
  \/ policy = "kPerFreeEvent" /\ event_completed(p.slot)

(* The entries a reclaim pass on behalf of for_stream gives back, and the  *)
(* event slots they return to the pool.                                    *)
Reclaimable(for_stream) == {p \in pending : pending_reusable(p, for_stream)}

MutSlotsOf(entries) == {p.slot : p \in entries}
SlotsOf(entries) == {p.slot : p \in entries} \ {kNoEventSlot}

ReleaseEntries(entries) ==
  /\ pending' = pending \ entries
  /\ freeSlots' = freeSlots \cup SlotsOf(entries)
  /\ UNCHANGED policy

-----------------------------------------------------------------------------
(* Drain: of the entries still parked, wait for the event of each one that *)
(* has one and for the whole stream of each other, then give them back.    *)
(* The device may be further than that when the host wakes up.             *)
Waited(done, p) == IF p.slot = kNoEventSlot
                     THEN done[p.stream] = Len(queue[p.stream])
                     ELSE done[p.stream] >= event[p.slot].after

(* Entries outside `parked' have been given back by the same call.         *)
Drain(parked) ==
  /\ \E done \in [Stream -> 0 .. MaxInFlight] :
       /\ \A s \in Stream : done[s] <= Len(queue[s])
       /\ \A p \in parked : Waited(done, p)
       /\ Progress(done)
  /\ ReleaseEntries(pending)

-----------------------------------------------------------------------------
(* The end of deallocate: return the block at once (now) or park it.  The  *)
(* caller gives the block to the pool exactly when now is true.            *)
Park(block, s, slot) ==
  pending' = pending \cup {[block |-> block, stream |-> s, slot |-> slot]}

(* Nothing outstanding on s: any stream may have the block.  Otherwise it  *)
(* is parked without an event.                                             *)
CoarseRule(block, s, now) ==
  /\ now = StreamIdle(s)
  /\ IF now THEN UNCHANGED pending ELSE Park(block, s, kNoEventSlot)

(* cudaEventRecord on s: the event now waits for all of s's kernels.       *)
Recorded(s) == [stream |-> s, after |-> Len(queue[s])]

MutParkWithEvent(block, s) ==
  \/ \E slot \in freeSlots :
       /\ event' = [event EXCEPT ![slot] = Recorded(s)]
       /\ UNCHANGED freeSlots
       /\ Park(block, s, slot)
  \/ /\ freeSlots = {}
     /\ event' = Append(event, Recorded(s))
     /\ UNCHANGED freeSlots
     /\ Park(block, s, Len(event) + 1)
ParkWithEvent(block, s) ==
  \/ \E slot \in freeSlots :
       /\ event' = [event EXCEPT ![slot] = Recorded(s)]
       /\ freeSlots' = freeSlots \ {slot}
       /\ Park(block, s, slot)
  \/ /\ freeSlots = {}
     /\ event' = Append(event, Recorded(s))
     /\ UNCHANGED freeSlots
     /\ Park(block, s, Len(event) + 1)

(* The event could not be created, or not recorded: fall back to the       *)
(* coarse rule.  An event that was created but not recorded joins the      *)
(* pool; it has never been recorded, so it counts as complete.             *)
EventFails(block, s, now) ==
  /\ EventFaults
  /\ CoarseRule(block, s, now)
  /\ \/ UNCHANGED <<event, freeSlots>>
     \/ /\ freeSlots = {}
        /\ event' = Append(event, [stream |-> s, after |-> 0])
        /\ freeSlots' = {Len(event) + 1}

Retire(block, s, now) ==
  /\ UNCHANGED <<queue, policy>>
  /\ \/ /\ policy = "kSameStreamOnly" /\ ~now
        /\ Park(block, s, kNoEventSlot)
        /\ UNCHANGED <<event, freeSlots>>
     \/ /\ policy = "kCoarseStreamPoll"
        /\ CoarseRule(block, s, now)
        /\ UNCHANGED <<event, freeSlots>>
     \/ /\ policy = "kPerFreeEvent" /\ ~now
        /\ ParkWithEvent(block, s)
     \/ /\ policy = "kPerFreeEvent"
        /\ EventFails(block, s, now)

=============================================================================
