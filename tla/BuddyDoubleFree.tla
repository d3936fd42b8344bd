--------------------------- MODULE BuddyDoubleFree ---------------------------
(***************************************************************************)
(* The buddy allocator with a client that may free a block twice: the      *)
(* hazard that the state check in deallocate, and test_buddy_bad_handles,  *)
(* are about.                                                              *)
(***************************************************************************)
EXTENDS BuddyAllocator

VARIABLE stale   (* handles that were freed, but that a client still holds *)

allVars == <<vars, stale>>

StaleInit == Init /\ stale = {}

FreeAndKeep(a) == Deallocate(a) /\ stale' = stale \cup {a}

(* deallocate of a handle that is not live.  The code looks at the state   *)
(* of the node only, after checking that its slab still has such a node.   *)
DeallocateAgain(h) ==
  /\ \/ /\ h.node \notin used[h.slab]
        /\ ret' = IF Live(h.slab) /\ h.node \in NodesOf(arena[h.slab])
                   THEN "kFailedPrecondition" ELSE "kInvalidArgument"
        /\ UNCHANGED <<deviceVars, reuseVars, used, stats>>
     \/ /\ h.node \in used[h.slab]
        /\ \E now \in BOOLEAN :
             /\ Retire(BlockOf(h), h.home, now)
             /\ used' = IF now THEN [used EXCEPT ![h.slab] = @ \ {h.node}] ELSE used
        /\ Uncounted(h, 0)
        /\ ret' = "kOk"
  /\ UNCHANGED <<arena, bypassed, live, stale>>

StaleNext == \/ \E a \in live : FreeAndKeep(a)
             \/ \E h \in stale : DeallocateAgain(h)
             \/ Next /\ UNCHANGED stale

StaleSpec == StaleInit /\ [][StaleNext]_allVars

(* "Double free must be a diagnosable Status, not silent tree corruption"  *)
(* (test_buddy_bad_handles): freeing a block again while the allocator     *)
(* still has it parked from the first time is refused.                     *)
DoubleFreeIsDiagnosed ==
  [][\A h \in stale :
       DeallocateAgain(h) /\ BlockOf(h) \in Parked => ret' # "kOk"]_allVars
=============================================================================
