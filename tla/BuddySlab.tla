----------------------------- MODULE BuddySlab -----------------------------
(***************************************************************************)
(* The abstract specification of one slab: a set of handed-out blocks.     *)
(* The parameter Candidates says which blocks may answer a request; it is  *)
(* BuddyBlocks!Candidates wherever this module is instantiated.  BuddyTree *)
(* implements this specification, and BuddyAllocator treats each of its    *)
(* slabs as one instance of it.                                            *)
(***************************************************************************)
CONSTANTS
  ArenaLog2,            (* log2 of the slab's bytes                         *)
  Levels,               (* the levels of its tree                           *)
  Candidates(_, _, _)   (* slab size, handed-out blocks, level |-> blocks   *)

VARIABLE used           (* the blocks handed out                            *)

Init == used = {}

(* Hand out a block of the level.  A request that finds no candidate is    *)
(* refused and changes nothing.                                            *)
Alloc(level) == \E n \in used' \ used :
                  /\ n \in Candidates(ArenaLog2, used, level)
                  /\ used' = used \cup {n}

Free(n) == used' = used \ {n}

Next == \/ \E level \in Levels : Alloc(level)
        \/ \E n \in used : Free(n)

Spec == Init /\ [][Next]_used
=============================================================================
