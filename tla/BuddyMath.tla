----------------------------- MODULE BuddyMath -----------------------------
(***************************************************************************)
(* Index arithmetic of the buddy tree: include/mcke/memory/buddy_math.hpp. *)
(*                                                                         *)
(* A slab of 2^arena_log2 bytes is a complete binary tree.  Level 0 is the *)
(* whole slab, level l has 2^l blocks of 2^(arena_log2 - l) bytes.  Nodes  *)
(* are numbered in heap order: the root is 0, level l occupies the indices *)
(* 2^l - 1 .. 2^(l+1) - 2.                                                 *)
(*                                                                         *)
(* The module keeps the names of the source.  Every operator is a closed   *)
(* form (no RECURSIVE), so that the modules built on it can be proved      *)
(* about as well as model-checked.                                         *)
(*                                                                         *)
(* Here and in the other modules an operator whose name starts with Mut is *)
(* a deliberately wrong version of the operator that follows it.  No       *)
(* specification uses one; the README says how they show that a property   *)
(* depends on the code.                                                    *)
(***************************************************************************)
EXTENDS Integers, FiniteSets

CONSTANT WordBits  (* width of std::size_t: 64 in the code *)

ASSUME WordBitsAssumption == WordBits \in Nat \ {0}

(* What `^' means for the exponents in question.  The provers take it for  *)
(* an unknown function, so the proofs start from here.                     *)
ASSUME PowerAssumption ==
  /\ 2^0 = 1
  /\ \A k \in 0 .. WordBits - 1 : 2^(k + 1) = 2 * 2^k

-----------------------------------------------------------------------------
(* Powers and logarithms of two.                                           *)

is_power_of_two(x) == \E k \in 0 .. WordBits - 1 : x = 2^k

(* std::bit_width: the number of bits needed to write x, which is the      *)
(* number of powers of two up to x.                                        *)
bit_width(x) == Cardinality({w \in 0 .. WordBits - 1 : 2^w <= x})

MutCeilLog2(x) == IF x <= 1 THEN 0 ELSE bit_width(x) - 1
ceil_log2(x) == IF x <= 1 THEN 0 ELSE bit_width(x - 1)

floor_log2(x) == IF x = 0 THEN 0 ELSE bit_width(x) - 1

(* a is a power of two; the sum wraps at the width of the word, and the    *)
(* mask ~(a - 1) drops the remainder.                                      *)
align_up(x, a) == LET y == (x + a - 1) % 2^WordBits IN y - (y % a)

-----------------------------------------------------------------------------
(* Geometry of the tree.                                                   *)

max_level(arena_log2, min_log2) == arena_log2 - min_log2

node_count(max_lvl) == 2^(max_lvl + 1) - 1

block_bytes_at_level(arena_log2, level) == 2^(arena_log2 - level)

(* The deepest level whose blocks hold `bytes' bytes; max_level + 1 says   *)
(* that the request does not fit this slab at all.                         *)
level_for_size(bytes, arena_log2, min_log2) ==
  LET need_log2 == ceil_log2(IF bytes < 2^min_log2 THEN 2^min_log2 ELSE bytes)
  IN  IF need_log2 > arena_log2
        THEN max_level(arena_log2, min_log2) + 1
        ELSE arena_log2 - need_log2

-----------------------------------------------------------------------------
(* Heap-order indices.                                                     *)

heap_index(level, idx_in_level) == 2^level - 1 + idx_in_level

level_of(heap_idx) == bit_width(heap_idx + 1) - 1

index_in_level(heap_idx) == heap_idx - (2^level_of(heap_idx) - 1)

is_root(heap_idx) == heap_idx = 0

parent_of(heap_idx) == (heap_idx - 1) \div 2

left_child_of(heap_idx) == 2 * heap_idx + 1

right_child_of(heap_idx) == 2 * heap_idx + 2

(* x XOR 1 flips the lowest bit of x.                                      *)
flip_low_bit(x) == IF x % 2 = 0 THEN x + 1 ELSE x - 1

MutBuddyOf(heap_idx) == flip_low_bit(heap_idx)
buddy_of(heap_idx) == flip_low_bit(heap_idx - 1) + 1

offset_of(heap_idx, arena_log2) ==
  index_in_level(heap_idx)
    * block_bytes_at_level(arena_log2, level_of(heap_idx))

node_at(offset, level, arena_log2) ==
  heap_index(level, offset \div block_bytes_at_level(arena_log2, level))

=============================================================================
