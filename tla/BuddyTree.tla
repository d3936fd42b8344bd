----------------------------- MODULE BuddyTree -----------------------------
(***************************************************************************)
(* One slab of the buddy allocator at the level of its loops: the node     *)
(* states, the per-level free lists with their back pointers, the mask of  *)
(* non-empty levels, and the two loops that keep them in agreement,        *)
(* alloc_node (split downward) and free_node (coalesce upward), both in    *)
(* src/memory/buddy_allocator.cpp.  One step is one loop iteration, so the *)
(* invariants also hold in the middle of a call.                           *)
(***************************************************************************)
EXTENDS BuddyBlocks, SequencesExt

CONSTANT ArenaLog2   (* Slab::arena_log2 *)

ASSUME ArenaLog2Assumption == ArenaLog2 \in MinLog2 .. MaxArenaLog2

kNotInList == -1

VARIABLES
  slab,    (* the Slab record: nodes, pos, free_lists, nonempty_mask        *)
  loop,    (* "idle", or the loop that is running: "split" or "coalesce"    *)
  g,       (* the node that loop holds                                      *)
  src,     (* level the split has reached                                   *)
  level    (* level the split is going to                                   *)

vars == <<slab, loop, g, src, level>>

Levels == 0 .. max_level(ArenaLog2, MinLog2)
SlabNode == NodesOf(ArenaLog2)

-----------------------------------------------------------------------------
(* The free-list primitives.  The mask is the set of levels whose bit is   *)
(* set; positions count from 1.                                            *)

push_free(s, l, n) ==
  [s EXCEPT !.pos[n] = Len(s.free_lists[l]) + 1,
            !.free_lists[l] = Append(@, n),
            !.nonempty_mask = @ \cup {l}]

(* Drop the last entry of a list, and its bit when the list becomes empty. *)
DropBack(s, l, n) ==
  [s EXCEPT !.free_lists[l] = Front(@),
            !.pos[n] = kNotInList,
            !.nonempty_mask = IF Len(s.free_lists[l]) = 1 THEN @ \ {l} ELSE @]

back(s, l) == Last(s.free_lists[l])

pop_free(s, l) == DropBack(s, l, back(s, l))

(* Swap with the back, then drop the back: O(1) removal from the middle.   *)
MutRemoveFree(s, l, n) ==
  DropBack([s EXCEPT !.free_lists[l][s.pos[n]] = back(s, l)], l, n)
remove_free(s, l, n) ==
  DropBack([s EXCEPT !.free_lists[l][s.pos[n]] = back(s, l),
                     !.pos[back(s, l)] = s.pos[n]],
           l, n)

-----------------------------------------------------------------------------
(* A fresh slab: the root is its one free block.                           *)
FreshSlab ==
  push_free([nodes |-> [n \in SlabNode |-> IF n = 0 THEN "kFree" ELSE "kDetached"],
             pos |-> [n \in SlabNode |-> kNotInList],
             free_lists |-> [l \in Levels |-> <<>>],
             nonempty_mask |-> {}],
            0, 0)

Idle == /\ loop' = "idle"
        /\ g' = 0 /\ src' = 0 /\ level' = 0

Init == /\ slab = FreshSlab
        /\ loop = "idle"
        /\ g = 0 /\ src = 0 /\ level = 0

(* alloc_node, before its loop: the deepest non-empty level that is not    *)
(* deeper than the request, and the back of its list.                      *)
MutSourceLevel(s, l) == CHOOSE k \in s.nonempty_mask : k <= l
SourceLevel(s, l) ==
  CHOOSE k \in s.nonempty_mask :
    k <= l /\ \A j \in s.nonempty_mask : j <= l => j <= k

AllocBegin(l) ==
  /\ loop = "idle"
  /\ \E k \in slab.nonempty_mask : k <= l
  /\ LET from == SourceLevel(slab, l)
     IN  /\ g' = back(slab, from)
         /\ slab' = pop_free(slab, from)
         /\ src' = from
  /\ level' = l
  /\ loop' = "split"

(* One iteration: split the block in hand, free its right half, keep its   *)
(* left half.                                                              *)
Split ==
  /\ loop = "split" /\ src < level
  /\ slab' = push_free([slab EXCEPT !.nodes[g] = "kSplit",
                                    !.nodes[left_child_of(g)] = "kFree",
                                    !.nodes[right_child_of(g)] = "kFree"],
                       src + 1, right_child_of(g))
  /\ g' = left_child_of(g)
  /\ src' = src + 1
  /\ UNCHANGED <<loop, level>>

AllocReturn ==
  /\ loop = "split" /\ src = level
  /\ slab' = [slab EXCEPT !.nodes[g] = "kUsed"]
  /\ Idle

(* free_node is called for a kUsed node only (deallocate and the reclaim   *)
(* paths guarantee it).                                                    *)
FreeBegin(n) ==
  /\ loop = "idle"
  /\ slab.nodes[n] = "kUsed"
  /\ slab' = [slab EXCEPT !.nodes[n] = "kFree"]
  /\ g' = n
  /\ loop' = "coalesce"
  /\ UNCHANGED <<src, level>>

BuddyIsFree == ~is_root(g) /\ slab.nodes[buddy_of(g)] = "kFree"

(* One iteration: merge with the free buddy and go up to the parent.       *)
MutCoalesce ==
  /\ loop = "coalesce" /\ BuddyIsFree
  /\ LET b == buddy_of(g)
     IN  slab' = [remove_free(slab, level_of(b), b) EXCEPT
                    !.nodes[b] = "kDetached",
                    !.nodes[parent_of(g)] = "kFree"]
  /\ g' = parent_of(g)
  /\ UNCHANGED <<loop, src, level>>
Coalesce ==
  /\ loop = "coalesce" /\ BuddyIsFree
  /\ LET b == buddy_of(g)
     IN  slab' = [remove_free(slab, level_of(b), b) EXCEPT
                    !.nodes[b] = "kDetached",
                    !.nodes[g] = "kDetached",
                    !.nodes[parent_of(g)] = "kFree"]
  /\ g' = parent_of(g)
  /\ UNCHANGED <<loop, src, level>>

FreeReturn ==
  /\ loop = "coalesce" /\ ~BuddyIsFree
  /\ slab' = push_free(slab, level_of(g), g)
  /\ Idle

Next == \/ \E l \in Levels : AllocBegin(l)
        \/ Split
        \/ AllocReturn
        \/ \E n \in SlabNode : FreeBegin(n)
        \/ Coalesce
        \/ FreeReturn

Spec == Init /\ [][Next]_vars

(* compute_largest_free_block for this slab: the shallowest bit of the     *)
(* mask.                                                                   *)
LargestByMask == IF slab.nonempty_mask = {} THEN 0
                 ELSE block_bytes_at_level(ArenaLog2,
                        CHOOSE k \in slab.nonempty_mask :
                          \A j \in slab.nonempty_mask : k <= j)

-----------------------------------------------------------------------------
Used == {n \in SlabNode : slab.nodes[n] = "kUsed"}

NodeState == {"kDetached", "kFree", "kSplit", "kUsed"}

(* The fields of the slab and of the running loop have the types the code  *)
(* gives them, and no list entry or node in hand is out of range.          *)
TypeOK ==
  /\ slab.nodes \in [SlabNode -> NodeState]
  /\ slab.pos \in [SlabNode -> Int]
  /\ slab.free_lists \in [Levels -> Seq(SlabNode)]
  /\ slab.nonempty_mask \subseteq Levels
  /\ loop \in {"idle", "split", "coalesce"}
  /\ g \in SlabNode /\ src \in Levels /\ level \in Levels

(* The four-way agreement that push_free, pop_free and remove_free must    *)
(* keep (comment above push_free), also in the middle of a call: a node is *)
(* kFree exactly if it is in the list of its level at the place its back   *)
(* pointer names, except for the one node a running loop has in hand.      *)
ListsAgree ==
  /\ \A n \in SlabNode :
       IF slab.nodes[n] = "kFree" /\ (loop = "idle" \/ n # g)
         THEN /\ slab.pos[n] \in DOMAIN slab.free_lists[level_of(n)]
              /\ slab.free_lists[level_of(n)][slab.pos[n]] = n
         ELSE slab.pos[n] = kNotInList
  /\ \A l \in Levels :
       /\ l \in slab.nonempty_mask <=> slab.free_lists[l] # <<>>
       /\ \A i \in DOMAIN slab.free_lists[l] :
            LET n == slab.free_lists[l][i]
            IN  level_of(n) = l /\ slab.pos[n] = i

(* Maximal coalescing, and no state left behind by a merge: between calls  *)
(* the nodes array is the one the used blocks determine.  In a loop the    *)
(* same holds of the used blocks together with the node in hand, which is  *)
(* the loop's invariant.                                                   *)
TreeIsCanonical ==
  IF loop = "idle"
    THEN slab.nodes = CanonicalNodes(ArenaLog2, Used)
    ELSE [slab.nodes EXCEPT ![g] = "kUsed"]
           = CanonicalNodes(ArenaLog2, Used \cup {g})

(* The blocks that are free, used or in hand do not overlap, and their     *)
(* bytes add up to the slab: nothing is handed out twice, nothing leaks.   *)
BlocksTileTheSlab ==
  LET blocks == {n \in SlabNode : slab.nodes[n] \in {"kFree", "kUsed"}}
  IN  /\ \A a, b \in blocks : a # b => <<a, b>> \notin Overlap
      /\ SumFunctionOnSet([n \in SlabNode |-> BlockBytes(ArenaLog2, n)], blocks)
           = 2^ArenaLog2

(* A request is refused exactly when no large enough block is vacant, and  *)
(* largest_free_block reports the largest vacant block: the mask is never  *)
(* stale.                                                                  *)
MaskTellsTheTruth ==
  loop = "idle" =>
    /\ \A l \in Levels : (\E k \in slab.nonempty_mask : k <= l)
                           <=> HasRoom(ArenaLog2, Used, l)
    /\ \A l \in Levels : HasRoom(ArenaLog2, Used, l)
                           <=> Candidates(ArenaLog2, Used, l) # {}
    /\ LargestByMask = LargestFreeBlock(ArenaLog2, Used)

(* A slab's own records agree with each other, in the loops too: the types *)
(* hold, lists and back pointers name each other, and the mask is theirs.  *)
SlabIsConsistent == TypeOK /\ ListsAgree /\ MaskTellsTheTruth

(* A slab is tiled by its blocks, and as coarsely as those in use allow.   *)
SlabIsTiled == TreeIsCanonical /\ BlocksTileTheSlab

(* The loops implement the abstract slab: every block alloc_node returns   *)
(* is one of the abstract candidates, a best fit that overlaps no other,   *)
(* and free_node gives back that block and no other.                       *)
Slab == INSTANCE BuddySlab WITH used <- Used
ImplementsSlab == Slab!Spec
=============================================================================
