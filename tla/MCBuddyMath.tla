---------------------------- MODULE MCBuddyMath ----------------------------
(***************************************************************************)
(* Bounded check of BuddyMath against reference definitions.  A state is   *)
(* one input: a slab geometry, a node of its tree, a request size and a    *)
(* word to align; the steps move from one input to the next.               *)
(***************************************************************************)
EXTENDS BuddyMath, Integers, FiniteSets

CONSTANTS MaxLog2   (* largest arena_log2 enumerated *)

ASSUME MaxLog2Assumption == MaxLog2 \in 1 .. WordBits - 2

VARIABLES arena, min, node, bytes

vars == <<arena, min, node, bytes>>

Levels == 0 .. max_level(arena, min)
Nodes == 0 .. node_count(max_level(arena, min)) - 1

(* The bytes of the slab that a node's block covers.                       *)
Extent(g) == LET o == offset_of(g, arena)
             IN  o .. o + block_bytes_at_level(arena, level_of(g)) - 1

Init == /\ arena = 0 /\ min = 0
        /\ node = 0 /\ bytes = 0

Geometry == /\ arena' \in 0 .. MaxLog2
            /\ min' \in 0 .. arena'
            /\ node' = 0
            /\ UNCHANGED bytes

Walk == /\ node < node_count(max_level(arena, min)) - 1
        /\ node' = node + 1
        /\ UNCHANGED <<arena, min, bytes>>

Resize == /\ bytes < 2^MaxLog2 + 1
          /\ bytes' = bytes + 1
          /\ node = 0
          /\ UNCHANGED <<arena, min, node>>

Next == Geometry \/ Walk \/ Resize

Spec == Init /\ [][Next]_vars

-----------------------------------------------------------------------------
(* level_for_size answers the deepest level whose block holds the request  *)
(* and is no smaller than the minimum block; it answers the sentinel       *)
(* max_level + 1 exactly when even the root is too small.  allocate()      *)
(* trusts both halves: a level too shallow wastes a block, one too deep    *)
(* hands out fewer bytes than were asked for.                              *)
LevelForSizeIsDeepestFit ==
  LET fits == {l \in Levels : block_bytes_at_level(arena, l) >= bytes}
      answer == level_for_size(bytes, arena, min)
  IN  IF fits = {} THEN answer = max_level(arena, min) + 1
                   ELSE answer \in fits /\ \A l \in fits : l <= answer

(* A node and its buddy are two different blocks of one size that together *)
(* tile their parent's block exactly, and buddy_of is its own inverse:     *)
(* coalescing two buddies yields the parent and nothing else.              *)
BuddiesTileTheParent ==
  node # 0 =>
    /\ buddy_of(buddy_of(node)) = node
    /\ Extent(node) \cap Extent(buddy_of(node)) = {}
    /\ Extent(node) \cup Extent(buddy_of(node)) = Extent(parent_of(node))
    /\ {node, buddy_of(node)}
         = {left_child_of(parent_of(node)), right_child_of(parent_of(node))}

(* An offset and a level determine the node: node_at inverts offset_of,    *)
(* index_in_level inverts heap_index, and no block leaves the slab or the  *)
(* min-block grid on which every returned pointer's alignment rests.       *)
NodeAddressesAreExact ==
  /\ level_of(node) \in Levels
  /\ heap_index(level_of(node), index_in_level(node)) = node
  /\ node_at(offset_of(node, arena), level_of(node), arena) = node
  /\ Extent(node) \subseteq 0 .. 2^arena - 1
  /\ offset_of(node, arena) % 2^min = 0

(* The nodes of the heap are the blocks of the slab.                       *)
NodesTileTheSlab == BuddiesTileTheParent /\ NodeAddressesAreExact

(* align_up rounds to the next multiple, except where the sum wraps: then  *)
(* the result is smaller than the argument (the case its comment leaves to *)
(* the callers).  Checked at the boundary of the word as well as below it. *)
AlignUpRoundsUpOrWraps ==
  \A x \in {bytes, 2^WordBits - 1 - bytes} :
    LET a == 2^min
        y == align_up(x, a)
    IN  /\ y % a = 0
        /\ IF x + a - 1 < 2^WordBits THEN y >= x /\ y - x < a ELSE y < x


(* The roundings that turn a request into a level, and a size into bytes.  *)
SizesRoundUp == LevelForSizeIsDeepestFit /\ AlignUpRoundsUpOrWraps
=============================================================================
