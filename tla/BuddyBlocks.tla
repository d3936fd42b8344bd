---------------------------- MODULE BuddyBlocks ----------------------------
(***************************************************************************)
(* What a buddy slab promises, as a function of one set: the nodes whose   *)
(* blocks are handed out (or parked).  Because free buddies always merge,  *)
(* that set determines the whole tree, so the tree, its free lists and its *)
(* mask need not be carried by the modules that only use a slab.           *)
(*                                                                         *)
(* BuddyTree shows that the loops, lists and mask of the code compute what *)
(* this module states.                                                     *)
(***************************************************************************)
EXTENDS BuddyMath, FiniteSetsExt

CONSTANTS
  MinLog2,      (* log2 of BuddyConfig::min_block_bytes                     *)
  MaxArenaLog2  (* log2 of the largest slab considered: a bound of the model *)

ASSUME GeometryAssumption ==
  /\ MinLog2 \in Nat /\ MaxArenaLog2 \in Nat
  /\ MinLog2 <= MaxArenaLog2 /\ MaxArenaLog2 < WordBits

(* The nodes of a slab of 2^k bytes, and of the largest slab.              *)
NodesOf(k) == 0 .. node_count(max_level(k, MinLog2)) - 1

Node == NodesOf(MaxArenaLog2)

BlockBytes(k, n) == block_bytes_at_level(k, level_of(n))

(* The addresses a node's block covers.  Which blocks contain or overlap   *)
(* which does not depend on the size of the slab, so both relations are    *)
(* tabulated once, for the largest.                                        *)
Extent(n) == offset_of(n, MaxArenaLog2)
               .. offset_of(n, MaxArenaLog2) + BlockBytes(MaxArenaLog2, n) - 1

Encloses == {p \in Node \X Node : Extent(p[2]) \subseteq Extent(p[1])}

Overlap == {p \in Node \X Node : Extent(p[1]) \cap Extent(p[2]) # {}}

AtLevel == {p \in Node \X (0 .. max_level(MaxArenaLog2, MinLog2)) :
              level_of(p[1]) = p[2]}

(* No byte of n's block is handed out.                                     *)
Vacant(used, n) == \A u \in used : <<u, n>> \notin Overlap

(* Maximal coalescing: the free blocks are the largest vacant ones.        *)
FreeBlocks(k, used) ==
  {n \in NodesOf(k) : /\ Vacant(used, n)
                      /\ is_root(n) \/ ~Vacant(used, parent_of(n))}

(* A request of the level can be served: some block of it is vacant.       *)
HasRoom(k, used, level) ==
  \E n \in NodesOf(k) : <<n, level>> \in AtLevel /\ Vacant(used, n)

(* The nodes alloc_node may hand out at a level: of the free blocks that   *)
(* are large enough it takes one of the smallest, and of that block the    *)
(* leftmost piece of the level.                                            *)
Pieces(f, level) == {n \in Node : <<f, n>> \in Encloses /\ <<n, level>> \in AtLevel}

Candidates(k, used, level) ==
  LET large == {f \in FreeBlocks(k, used) : level_of(f) <= level}
      best  == {f \in large : \A h \in large : level_of(h) <= level_of(f)}
  IN  {n \in NodesOf(k) : \E f \in best :
         n \in Pieces(f, level) /\ \A m \in Pieces(f, level) : n <= m}

(* The state of every node of the tree, given the used ones: what          *)
(* validate_slab demands of the nodes array.                               *)
CanonicalNodes(k, used) ==
  LET free == FreeBlocks(k, used)
  IN  [n \in NodesOf(k) |->
         IF n \in used THEN "kUsed"
         ELSE IF n \in free THEN "kFree"
         ELSE IF \E u \in used : <<n, u>> \in Encloses THEN "kSplit"
         ELSE "kDetached"]

LargestFreeBlock(k, used) ==
  LET free == FreeBlocks(k, used)
  IN  IF free = {} THEN 0 ELSE Max({BlockBytes(k, f) : f \in free})
=============================================================================
