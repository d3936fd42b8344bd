--------------------------- MODULE BuddyTreeProofs ---------------------------
(***************************************************************************)
(* One slab, for every geometry: the loops of alloc_node and free_node     *)
(* keep the four data structures in agreement, keep the slab tiled as      *)
(* coarsely as the used blocks allow, and implement BuddySlab.             *)
(***************************************************************************)
EXTENDS BuddyTree, BuddyMathProofs, FiniteSums, SequenceTheorems

H == max_level(ArenaLog2, MinLog2)
Depth == max_level(MaxArenaLog2, MinLog2)

-----------------------------------------------------------------------------
(* The nodes of a tree, by level.                                          *)

LEMMA HeightFacts ==
  /\ ArenaLog2 \in Nat /\ MaxArenaLog2 \in Nat /\ MinLog2 \in Nat /\ WordBits \in Nat
  /\ H \in 0 .. Depth /\ Depth \in 0 .. WordBits - 1
  /\ H = ArenaLog2 - MinLog2 /\ Depth = MaxArenaLog2 - MinLog2
  /\ ArenaLog2 <= MaxArenaLog2 /\ MaxArenaLog2 \in 0 .. WordBits - 1
  /\ Levels = 0 .. H
BY GeometryAssumption, ArenaLog2Assumption, WordBitsAssumption DEF H, Depth, max_level, Levels

LEMMA LevelIs ==
  ASSUME NEW l \in 0 .. WordBits - 1, NEW n \in Nat, 2^l <= n + 1, n + 1 < 2^(l + 1)
  PROVE  level_of(n) = l
<1>1. l \in Exponent /\ l + 1 \in Exponent /\ WordBits \in Exponent /\ l + 1 <= WordBits
  BY WordBitsAssumption DEF Exponent
<1>2. 2^l \in Nat /\ 2^(l + 1) \in Nat /\ 2^WordBits \in Nat /\ 2^(l + 1) <= 2^WordBits
  BY <1>1, PowerPositive, PowersOrdered
<1> DEFINE w == bit_width(n + 1)
<1>3. n + 1 \in Nat /\ n + 1 # 0 /\ n + 1 < 2^WordBits
  BY <1>2
<1>4. w \in Exponent /\ n + 1 < 2^w /\ w # 0 /\ 2^(w - 1) <= n + 1
  BY <1>3, BitWidthSpec
<1>5. level_of(n) = w - 1
  BY DEF level_of
<1> HIDE DEF w
<1>6. w - 1 \in Exponent /\ 2^w \in Nat /\ 2^(w - 1) \in Nat
  BY <1>4, PowerPositive, WordBitsAssumption DEF Exponent
<1>7. 2^l < 2^w /\ 2^(w - 1) < 2^(l + 1)
  BY <1>2, <1>4, <1>6
<1>8. l < w /\ w - 1 < l + 1
  BY <1>1, <1>4, <1>6, <1>7, PowersOrdered
<1> QED
  BY <1>1, <1>4, <1>5, <1>8 DEF Exponent

(* Level l of a tree of height k is the indices 2^l - 1 .. 2^(l+1) - 2.    *)
LEMMA LevelBounds ==
  ASSUME NEW k \in 0 .. WordBits - 1, NEW n \in 0 .. node_count(k) - 1
  PROVE  /\ n \in Nat /\ level_of(n) \in 0 .. k
         /\ 2^level_of(n) <= n + 1 /\ n + 1 < 2^(level_of(n) + 1)
<1>1. k + 1 \in Exponent /\ WordBits \in Exponent /\ k + 1 <= WordBits
  BY WordBitsAssumption DEF Exponent
<1>2. 2^(k + 1) \in Nat /\ 2^WordBits \in Nat /\ 2^(k + 1) <= 2^WordBits
  BY <1>1, PowerPositive, PowersOrdered
<1>3. n \in Nat /\ n + 1 < 2^(k + 1)
  BY <1>2 DEF node_count
<1> DEFINE w == bit_width(n + 1)
<1>4. n + 1 \in Nat /\ n + 1 # 0 /\ n + 1 < 2^WordBits
  BY <1>2, <1>3
<1>5. w \in Exponent /\ n + 1 < 2^w /\ w # 0 /\ 2^(w - 1) <= n + 1
  BY <1>4, BitWidthSpec
<1>6. level_of(n) = w - 1
  BY DEF level_of
<1> HIDE DEF w
<1>7. w - 1 \in Exponent /\ 2^(w - 1) \in Nat /\ (w - 1) + 1 = w
  BY <1>5, PowerPositive, WordBitsAssumption DEF Exponent
<1>8. 2^(w - 1) < 2^(k + 1)
  BY <1>2, <1>3, <1>5, <1>7
<1>9. w - 1 < k + 1
  BY <1>1, <1>7, <1>8, PowersOrdered
<1>10. level_of(n) \in 0 .. k
  BY <1>6, <1>7, <1>9 DEF Exponent
<1> QED
  BY <1>3, <1>5, <1>6, <1>7, <1>10

LEMMA NodeByLevel ==
  ASSUME NEW k \in 0 .. WordBits - 1, NEW l \in 0 .. k, NEW n \in Nat,
         2^l <= n + 1, n + 1 < 2^(l + 1)
  PROVE  level_of(n) = l /\ n \in 0 .. node_count(k) - 1
<1>1. l \in 0 .. WordBits - 1 /\ l + 1 \in Exponent /\ k + 1 \in Exponent /\ l + 1 <= k + 1
  BY WordBitsAssumption DEF Exponent
<1>2. 2^(l + 1) \in Nat /\ 2^(k + 1) \in Nat /\ 2^(l + 1) <= 2^(k + 1)
  BY <1>1, PowerPositive, PowersOrdered
<1>3. level_of(n) = l
  BY <1>1, LevelIs
<1> QED
  BY <1>2, <1>3 DEF node_count

(* The slab's tree is the upper levels of the largest one.                 *)
LEMMA SlabIsTop ==
  /\ Node = 0 .. node_count(Depth) - 1 /\ SlabNode = 0 .. node_count(H) - 1
  /\ \A n \in Node : n \in Nat /\ level_of(n) \in 0 .. Depth
  /\ \A n : n \in SlabNode <=> n \in Node /\ level_of(n) <= H
  /\ 0 \in SlabNode /\ level_of(0) = 0 /\ \A n \in Node : level_of(n) = 0 => n = 0
<1>1. Node = 0 .. node_count(Depth) - 1 /\ SlabNode = 0 .. node_count(H) - 1
  BY DEF Node, SlabNode, NodesOf, Depth, H
<1>2. H \in 0 .. WordBits - 1 /\ Depth \in 0 .. WordBits - 1 /\ H \in 0 .. Depth
  BY HeightFacts
<1>3. \A n \in Node : /\ n \in Nat /\ level_of(n) \in 0 .. Depth
                      /\ 2^level_of(n) <= n + 1 /\ n + 1 < 2^(level_of(n) + 1)
  BY <1>1, <1>2, LevelBounds
<1>4. ASSUME NEW n \in SlabNode PROVE n \in Node /\ level_of(n) <= H
  <2>1. /\ n \in Nat /\ level_of(n) \in 0 .. H
        /\ 2^level_of(n) <= n + 1 /\ n + 1 < 2^(level_of(n) + 1)
    BY <1>1, <1>2, LevelBounds
  <2>2. level_of(n) \in 0 .. Depth
    BY <1>2, <2>1
  <2> QED
    BY <1>1, <1>2, <2>1, <2>2, NodeByLevel
<1>5. ASSUME NEW n \in Node, level_of(n) <= H PROVE n \in SlabNode
  <2>1. level_of(n) \in 0 .. H
    BY <1>2, <1>3, <1>5
  <2> QED
    BY <1>1, <1>2, <1>3, <2>1, NodeByLevel
<1>6. 2^0 = 1 /\ 2^(0 + 1) = 2
  BY <1>2, PowerAssumption
<1>7. 0 \in SlabNode /\ level_of(0) = 0
  <2>1. 0 \in 0 .. H /\ 0 \in Nat /\ 2^0 <= 0 + 1 /\ 0 + 1 < 2^(0 + 1)
    BY <1>2, <1>6, HeightFacts
  <2> QED
    BY <1>1, <1>2, <2>1, NodeByLevel
<1>8. ASSUME NEW n \in Node, level_of(n) = 0 PROVE n = 0
  <2>1. n \in Nat /\ n + 1 < 2^(0 + 1)
    BY <1>3, <1>8
  <2> QED
    BY <1>6, <2>1
<1> QED
  BY <1>1, <1>3, <1>4, <1>5, <1>7, <1>8

(* Children, parents and buddies.                                          *)
LEMMA Children ==
  ASSUME NEW n \in Node, level_of(n) < Depth
  PROVE  /\ left_child_of(n) \in Node /\ level_of(left_child_of(n)) = level_of(n) + 1
         /\ right_child_of(n) \in Node /\ level_of(right_child_of(n)) = level_of(n) + 1
<1>1. /\ WordBits \in Nat /\ Depth \in 0 .. WordBits - 1 /\ Node = 0 .. node_count(Depth) - 1
      /\ n \in Nat /\ level_of(n) \in 0 .. Depth
  BY HeightFacts, SlabIsTop
<1> DEFINE l == level_of(n)
<1>2. 2^l <= n + 1 /\ n + 1 < 2^(l + 1)
  BY <1>1, LevelBounds
<1>3. l \in 0 .. WordBits - 1 /\ l + 1 \in 0 .. WordBits - 1 /\ l + 1 \in 0 .. Depth
  BY <1>1
<1> HIDE DEF l
<1>4. 2^(l + 1) = 2 * 2^l /\ 2^((l + 1) + 1) = 2 * 2^(l + 1)
  BY <1>3, PowerAssumption
<1>5. l \in Exponent /\ l + 1 \in Exponent
  BY <1>1, <1>3 DEF Exponent
<1>6. 2^l \in Nat /\ 2^(l + 1) \in Nat
  BY <1>5, PowerPositive
<1>7. /\ 2 * n + 1 \in Nat /\ 2^(l + 1) <= (2 * n + 1) + 1 /\ (2 * n + 1) + 1 < 2^((l + 1) + 1)
      /\ 2 * n + 2 \in Nat /\ 2^(l + 1) <= (2 * n + 2) + 1 /\ (2 * n + 2) + 1 < 2^((l + 1) + 1)
  BY <1>1, <1>2, <1>4, <1>6
<1>8. /\ level_of(2 * n + 1) = l + 1 /\ 2 * n + 1 \in Node
      /\ level_of(2 * n + 2) = l + 1 /\ 2 * n + 2 \in Node
  BY <1>1, <1>3, <1>7, NodeByLevel
<1> QED
  BY <1>8 DEF left_child_of, right_child_of, l

LEMMA ParentOfChild ==
  ASSUME NEW n \in Nat
  PROVE  /\ left_child_of(n) # 0 /\ right_child_of(n) # 0
         /\ left_child_of(n) # n /\ right_child_of(n) # n /\ left_child_of(n) # right_child_of(n)
         /\ parent_of(left_child_of(n)) = n /\ parent_of(right_child_of(n)) = n
         /\ buddy_of(left_child_of(n)) = right_child_of(n)
         /\ buddy_of(right_child_of(n)) = left_child_of(n)
BY DEF left_child_of, right_child_of, parent_of, buddy_of, flip_low_bit

LEMMA ChildOfParent ==
  ASSUME NEW n \in Nat, n # 0
  PROVE  /\ parent_of(n) \in Nat /\ parent_of(n) < n
         /\ \/ n = left_child_of(parent_of(n)) /\ buddy_of(n) = right_child_of(parent_of(n))
            \/ n = right_child_of(parent_of(n)) /\ buddy_of(n) = left_child_of(parent_of(n))
BY DEF left_child_of, right_child_of, parent_of, buddy_of, flip_low_bit

LEMMA Parents ==
  ASSUME NEW n \in Node, n # 0
  PROVE  /\ parent_of(n) \in Node /\ level_of(n) = level_of(parent_of(n)) + 1
         /\ buddy_of(n) \in Node /\ level_of(buddy_of(n)) = level_of(n)
<1>1. /\ WordBits \in Nat /\ Depth \in 0 .. WordBits - 1 /\ Node = 0 .. node_count(Depth) - 1
      /\ n \in Nat /\ level_of(n) \in 0 .. Depth
  BY HeightFacts, SlabIsTop
<1> DEFINE p == parent_of(n)
           l == level_of(n)
<1>2. /\ p \in Nat
      /\ \/ n = left_child_of(p) /\ buddy_of(n) = right_child_of(p)
         \/ n = right_child_of(p) /\ buddy_of(n) = left_child_of(p)
  BY <1>1, ChildOfParent
<1>3. 2^l <= n + 1 /\ n + 1 < 2^(l + 1)
  BY <1>1, LevelBounds
<1>4. l # 0
  BY SlabIsTop
<1>5. n = 2 * p + 1 \/ n = 2 * p + 2
  BY <1>2 DEF left_child_of, right_child_of
<1> HIDE DEF l, p
<1> DEFINE k == l - 1
<1>6. l = k + 1 /\ k \in 0 .. WordBits - 1 /\ l \in 0 .. WordBits - 1 /\ k \in 0 .. Depth /\ k < Depth
  BY <1>1, <1>4 DEF l
<1> HIDE DEF k
<1>7. 2^l = 2 * 2^k /\ 2^(l + 1) = 2 * 2^l /\ 2^(k + 1) = 2^l
  BY <1>6, PowerAssumption
<1>8. k \in Exponent /\ 2^k \in Nat
  <2>1. k \in Exponent
    BY <1>1, <1>6 DEF Exponent
  <2> QED
    BY <2>1, PowerPositive
<1>9. 2^k <= p + 1 /\ p + 1 < 2^(k + 1)
  BY <1>1, <1>2, <1>3, <1>5, <1>7, <1>8
<1>10. level_of(p) = k /\ p \in Node
  BY <1>1, <1>2, <1>6, <1>9, NodeByLevel
<1>11. /\ left_child_of(p) \in Node /\ level_of(left_child_of(p)) = k + 1
       /\ right_child_of(p) \in Node /\ level_of(right_child_of(p)) = k + 1
  BY <1>6, <1>10, Children
<1> QED
  BY <1>2, <1>6, <1>10, <1>11 DEF p, l

-----------------------------------------------------------------------------
(* The bytes of the blocks.                                                *)

LEMMA BytesPositive ==
  ASSUME NEW k \in {ArenaLog2, MaxArenaLog2}, NEW l \in Nat, l <= k
  PROVE  block_bytes_at_level(k, l) \in Nat \ {0}
<1>1. k - l \in Exponent
  BY HeightFacts DEF Exponent
<1> QED
  BY <1>1, PowerPositive DEF block_bytes_at_level

LEMMA BytesHalve ==
  ASSUME NEW k \in {ArenaLog2, MaxArenaLog2}, NEW l \in Nat, l < k
  PROVE  block_bytes_at_level(k, l) = 2 * block_bytes_at_level(k, l + 1)
<1> DEFINE j == k - (l + 1)
<1>1. j \in 0 .. WordBits - 1 /\ k - l = j + 1
  BY HeightFacts
<1> HIDE DEF j
<1>2. 2^(j + 1) = 2 * 2^j
  BY <1>1, PowerAssumption
<1> QED
  BY <1>1, <1>2 DEF block_bytes_at_level, j

LEMMA ExtentFacts ==
  ASSUME NEW n \in Node
  PROVE  /\ offset_of(n, MaxArenaLog2) \in Nat /\ BlockBytes(MaxArenaLog2, n) \in Nat \ {0}
         /\ index_in_level(n) \in Nat
         /\ Extent(n) # {}
<1>1. /\ n \in Nat /\ level_of(n) \in 0 .. Depth /\ Depth \in 0 .. WordBits - 1
      /\ Depth <= MaxArenaLog2 /\ Node = 0 .. node_count(Depth) - 1 /\ WordBits \in Nat
  BY HeightFacts, SlabIsTop
<1>2. BlockBytes(MaxArenaLog2, n) \in Nat \ {0}
  <2>1. level_of(n) \in Nat /\ level_of(n) <= MaxArenaLog2
    BY <1>1, HeightFacts
  <2> QED
    BY <2>1, BytesPositive DEF BlockBytes
<1>3. 2^level_of(n) <= n + 1 /\ 2^level_of(n) \in Nat
  <2>1. level_of(n) \in Exponent
    BY <1>1 DEF Exponent
  <2> QED
    BY <1>1, <2>1, LevelBounds, PowerPositive
<1>4. index_in_level(n) \in Nat
  BY <1>1, <1>3 DEF index_in_level
<1>5. offset_of(n, MaxArenaLog2) \in Nat
  BY <1>2, <1>4 DEF offset_of, BlockBytes
<1>6. offset_of(n, MaxArenaLog2) \in Extent(n)
  BY <1>2, <1>5 DEF Extent
<1> QED
  BY <1>2, <1>4, <1>5, <1>6

(* The halves of a block are its children's blocks.                        *)
LEMMA ChildrenHalve ==
  ASSUME NEW n \in Node, level_of(n) < Depth
  PROVE  /\ Extent(n) = Extent(left_child_of(n)) \cup Extent(right_child_of(n))
         /\ Extent(left_child_of(n)) \cap Extent(right_child_of(n)) = {}
<1> DEFINE a == left_child_of(n)
           b == right_child_of(n)
           l == level_of(n)
           i == index_in_level(n)
           B == BlockBytes(MaxArenaLog2, n)
           C == BlockBytes(MaxArenaLog2, a)
<1>1. /\ a \in Node /\ level_of(a) = l + 1 /\ b \in Node /\ level_of(b) = l + 1
      /\ a = 2 * n + 1 /\ b = 2 * n + 2
  BY Children DEF left_child_of, right_child_of
<1>2. /\ l \in 0 .. Depth /\ Depth \in 0 .. WordBits - 1 /\ n \in Nat /\ WordBits \in Nat
      /\ Depth <= MaxArenaLog2 /\ MaxArenaLog2 \in Nat
  BY HeightFacts, SlabIsTop
<1>3. B = 2 * C /\ BlockBytes(MaxArenaLog2, b) = C /\ C \in Nat \ {0}
  <2>1. l \in Nat /\ l + 1 \in Nat /\ l < MaxArenaLog2 /\ l + 1 <= MaxArenaLog2
    BY <1>2
  <2>2. /\ B = block_bytes_at_level(MaxArenaLog2, l)
        /\ C = block_bytes_at_level(MaxArenaLog2, l + 1)
        /\ BlockBytes(MaxArenaLog2, b) = block_bytes_at_level(MaxArenaLog2, l + 1)
    BY <1>1 DEF BlockBytes
  <2> HIDE DEF a, b, l, B, C
  <2>5. MaxArenaLog2 \in {ArenaLog2, MaxArenaLog2}
    OBVIOUS
  <2>3. block_bytes_at_level(MaxArenaLog2, l) = 2 * block_bytes_at_level(MaxArenaLog2, l + 1)
    BY <2>1, <2>5, BytesHalve
  <2>4. block_bytes_at_level(MaxArenaLog2, l + 1) \in Nat \ {0}
    BY <2>1, <2>5, BytesPositive
  <2> QED
    BY <2>2, <2>3, <2>4
<1>4. 2^(l + 1) = 2 * 2^l /\ 2^l \in Nat
  <2>1. l \in 0 .. WordBits - 1 /\ l \in Exponent
    BY <1>2 DEF Exponent
  <2> QED
    BY <2>1, PowerAssumption, PowerPositive
<1>5. index_in_level(a) = 2 * i /\ index_in_level(b) = 2 * i + 1 /\ i \in Nat
  <2>1. i \in Nat /\ i = n - (2^l - 1)
    BY ExtentFacts DEF index_in_level
  <2>2. index_in_level(a) = a - (2^(l + 1) - 1) /\ index_in_level(b) = b - (2^(l + 1) - 1)
    BY <1>1 DEF index_in_level
  <2> HIDE DEF i, l, a, b
  <2> QED
    BY <1>1, <1>2, <1>4, <2>1, <2>2
<1>6. /\ offset_of(n, MaxArenaLog2) = i * B
      /\ offset_of(a, MaxArenaLog2) = (2 * i) * C
      /\ offset_of(b, MaxArenaLog2) = (2 * i + 1) * C
  BY <1>3, <1>5 DEF offset_of, BlockBytes
<1>7. /\ Extent(n) = i * B .. i * B + B - 1
      /\ Extent(a) = (2 * i) * C .. (2 * i) * C + C - 1
      /\ Extent(b) = (2 * i + 1) * C .. (2 * i + 1) * C + C - 1
  BY <1>3, <1>6 DEF Extent
<1> HIDE DEF a, b, l, i, B, C
<1> DEFINE x == (2 * i) * C
<1>8. i * B = x /\ (2 * i + 1) * C = x + C /\ x \in Nat
  BY <1>3, <1>5
<1> HIDE DEF x
<1>9. /\ Extent(n) = x .. x + 2 * C - 1
      /\ Extent(a) = x .. x + C - 1
      /\ Extent(b) = x + C .. x + C + C - 1
  BY <1>3, <1>7, <1>8 DEF x
<1>10. /\ Extent(n) = Extent(a) \cup Extent(b)
       /\ Extent(a) \cap Extent(b) = {}
  BY <1>3, <1>8, <1>9
<1> QED
  BY <1>10 DEF a, b

(* Blocks of a level share no byte.                                        *)
LEMMA LevelIsDisjoint ==
  ASSUME NEW a \in Node, NEW b \in Node, level_of(a) = level_of(b), a # b
  PROVE  Extent(a) \cap Extent(b) = {}
<1>1. ASSUME NEW x \in Node, NEW y \in Node, level_of(x) = level_of(y), x < y
      PROVE  Extent(x) \cap Extent(y) = {}
  <2> DEFINE i == index_in_level(x)
             j == index_in_level(y)
             C == BlockBytes(MaxArenaLog2, x)
  <2>1. i \in Nat /\ j \in Nat /\ C \in Nat \ {0} /\ BlockBytes(MaxArenaLog2, y) = C
    BY <1>1, ExtentFacts DEF BlockBytes
  <2>2. i < j
    <3>1. x \in Nat /\ y \in Nat /\ 2^level_of(x) \in Nat
      <4>1. level_of(x) \in Exponent
        BY SlabIsTop, HeightFacts DEF Exponent
      <4> QED
        BY <4>1, SlabIsTop, PowerPositive
    <3> QED
      BY <1>1, <3>1 DEF index_in_level
  <2>3. /\ Extent(x) = i * C .. i * C + C - 1
        /\ Extent(y) = j * C .. j * C + C - 1
    BY <1>1, <2>1 DEF Extent, offset_of, BlockBytes
  <2> HIDE DEF i, j, C
  <2>4. i * C \in Nat /\ j * C \in Nat /\ i * C + C <= j * C
    <3>1. (i + 1) * C <= j * C
      BY <2>1, <2>2
    <3>2. (i + 1) * C = i * C + C
      BY <2>1
    <3> QED
      BY <2>1, <3>1, <3>2
  <2> DEFINE u == i * C
             v == j * C
  <2>5. u \in Nat /\ v \in Nat /\ u + C <= v
    BY <2>4
  <2>6. Extent(x) = u .. u + C - 1 /\ Extent(y) = v .. v + C - 1
    BY <2>3
  <2> HIDE DEF u, v
  <2> QED
    BY <2>1, <2>5, <2>6
<1>2. a < b \/ b < a
  BY SlabIsTop
<1> QED
  BY <1>1, <1>2

(* The block of a node is a half of its parent's.                          *)
LEMMA ParentEncloses ==
  ASSUME NEW n \in Node, n # 0
  PROVE  /\ parent_of(n) \in Node /\ buddy_of(n) \in Node
         /\ level_of(n) = level_of(parent_of(n)) + 1 /\ level_of(buddy_of(n)) = level_of(n)
         /\ buddy_of(n) # n /\ buddy_of(n) # 0
         /\ Extent(parent_of(n)) = Extent(n) \cup Extent(buddy_of(n))
         /\ Extent(n) \cap Extent(buddy_of(n)) = {}
<1> DEFINE p == parent_of(n)
<1>1. /\ p \in Node /\ level_of(n) = level_of(p) + 1
      /\ buddy_of(n) \in Node /\ level_of(buddy_of(n)) = level_of(n)
  BY Parents
<1>2. n \in Nat /\ p \in Nat /\ level_of(n) \in 0 .. Depth /\ level_of(p) \in Nat /\ Depth \in Nat
  BY <1>1, SlabIsTop, HeightFacts
<1>3. \/ n = left_child_of(p) /\ buddy_of(n) = right_child_of(p)
      \/ n = right_child_of(p) /\ buddy_of(n) = left_child_of(p)
  BY <1>2, ChildOfParent
<1>4. left_child_of(p) # right_child_of(p) /\ left_child_of(p) # 0 /\ right_child_of(p) # 0
  BY <1>2, ParentOfChild
<1>5. level_of(p) < Depth
  BY <1>1, <1>2
<1>6. /\ Extent(p) = Extent(left_child_of(p)) \cup Extent(right_child_of(p))
      /\ Extent(left_child_of(p)) \cap Extent(right_child_of(p)) = {}
  BY <1>1, <1>5, ChildrenHalve
<1> QED
  BY <1>1, <1>3, <1>4, <1>6

(* Two blocks that share a byte are nested.                                *)
LEMMA Laminar ==
  ASSUME NEW a \in Node, NEW b \in Node, level_of(a) <= level_of(b),
         Extent(a) \cap Extent(b) # {}
  PROVE  Extent(b) \subseteq Extent(a)
<1> DEFINE Bad == {n \in Node : /\ level_of(a) <= level_of(n)
                                /\ Extent(a) \cap Extent(n) # {}
                                /\ ~(Extent(n) \subseteq Extent(a))}
<1> SUFFICES ASSUME Bad # {} PROVE FALSE
  OBVIOUS
<1>1. Bad \in SUBSET Nat
  BY SlabIsTop
<1>2. PICK n \in Bad : \A m \in Bad : n <= m
  BY <1>1, LeastElement
<1>3. /\ n \in Node /\ level_of(a) <= level_of(n) /\ Extent(a) \cap Extent(n) # {}
      /\ ~(Extent(n) \subseteq Extent(a)) /\ n \in Nat
      /\ level_of(a) \in Nat /\ level_of(n) \in Nat
  BY SlabIsTop, HeightFacts
<1>4. level_of(a) # level_of(n)
  BY <1>3, LevelIsDisjoint
<1>5. n # 0
  BY <1>3, <1>4, SlabIsTop
<1> DEFINE p == parent_of(n)
<1>6. p \in Node /\ level_of(n) = level_of(p) + 1 /\ Extent(n) \subseteq Extent(p)
  BY <1>3, <1>5, ParentEncloses
<1>7. p \in Nat /\ p < n /\ level_of(p) \in Nat
  BY <1>3, <1>5, <1>6, ChildOfParent, SlabIsTop
<1>8. level_of(a) <= level_of(p)
  BY <1>3, <1>4, <1>6, <1>7
<1> HIDE DEF p
<1>9. p \in Bad
  BY <1>3, <1>6, <1>8
<1>10. n <= p
  BY <1>2, <1>9
<1> QED
  BY <1>3, <1>7, <1>10

(* A block is never inside one of a deeper level.                          *)
LEMMA DeeperIsSmaller ==
  ASSUME NEW a \in Node, NEW b \in Node, level_of(a) < level_of(b)
  PROVE  ~(Extent(a) \subseteq Extent(b))
<1> SUFFICES ASSUME Extent(a) \subseteq Extent(b) PROVE FALSE
  OBVIOUS
<1> DEFINE l == left_child_of(a)
           r == right_child_of(a)
<1>1. level_of(a) \in Nat /\ level_of(b) \in Nat /\ level_of(a) < Depth
  BY SlabIsTop, HeightFacts
<1>2. /\ l \in Node /\ level_of(l) = level_of(a) + 1 /\ r \in Node /\ level_of(r) = level_of(a) + 1
  BY <1>1, Children
<1>3. Extent(a) = Extent(l) \cup Extent(r) /\ Extent(l) \cap Extent(r) = {}
  BY <1>1, ChildrenHalve
<1>4. Extent(l) # {} /\ Extent(r) # {}
  BY <1>2, ExtentFacts
<1>5. Extent(b) \subseteq Extent(l)
  <2>1. Extent(l) \cap Extent(b) # {} /\ level_of(l) <= level_of(b)
    BY <1>1, <1>2, <1>3, <1>4
  <2> QED
    BY <1>2, <2>1, Laminar
<1> QED
  BY <1>3, <1>4, <1>5

(* Every block lies in the root's, and a block has pieces of every level   *)
(* below its own.                                                          *)
LEMMA PieceExists ==
  ASSUME NEW f \in Node, NEW l \in 0 .. Depth, level_of(f) <= l
  PROVE  \E n \in Node : level_of(n) = l /\ Extent(n) \subseteq Extent(f)
<1> DEFINE Bad == {k \in 0 .. Depth : level_of(f) <= k /\
                     ~\E n \in Node : level_of(n) = k /\ Extent(n) \subseteq Extent(f)}
<1> SUFFICES ASSUME Bad # {} PROVE FALSE
  OBVIOUS
<1>1. Bad \in SUBSET Nat
  OBVIOUS
<1>2. PICK k \in Bad : \A m \in Bad : k <= m
  BY <1>1, LeastElement
<1>3. k \in Nat /\ k <= Depth /\ level_of(f) <= k /\ level_of(f) \in Nat /\ Depth \in Nat
  BY SlabIsTop, HeightFacts
<1>4. k # level_of(f)
  BY <1>2
<1> DEFINE j == k - 1
<1>5. j \in 0 .. Depth /\ level_of(f) <= j /\ k = j + 1 /\ j < Depth /\ j < k
  BY <1>3, <1>4
<1> HIDE DEF j
<1>6. j \notin Bad
  BY <1>2, <1>3, <1>5
<1>7. PICK n \in Node : level_of(n) = j /\ Extent(n) \subseteq Extent(f)
  BY <1>5, <1>6
<1>8. /\ left_child_of(n) \in Node /\ level_of(left_child_of(n)) = k
      /\ Extent(left_child_of(n)) \subseteq Extent(f)
  BY <1>5, <1>7, Children, ChildrenHalve
<1> QED
  BY <1>2, <1>8

-----------------------------------------------------------------------------
(* Trees of node states.                                                   *)

(* Below a block, free or used, all is detached; above it, all is split.   *)
Shape(st) ==
  /\ st[0] # "kDetached"
  /\ \A n \in SlabNode \ {0} : st[n] = "kDetached" <=> st[parent_of(n)] # "kSplit"
  /\ \A n \in SlabNode : st[n] = "kSplit" => level_of(n) < H

Blocks(st) == {n \in SlabNode : st[n] \in {"kFree", "kUsed"}}
UsedIn(st) == {n \in SlabNode : st[n] = "kUsed"}

(* Free buddies have merged.                                               *)
Coalesced(st) ==
  \A n \in SlabNode \ {0} : ~(st[n] = "kFree" /\ st[buddy_of(n)] = "kFree")

LEMMA SlabTree ==
  ASSUME NEW n \in SlabNode
  PROVE  /\ n \in Node /\ n \in Nat /\ level_of(n) \in 0 .. H /\ level_of(n) \in Levels
         /\ n # 0 => /\ parent_of(n) \in SlabNode /\ buddy_of(n) \in SlabNode
                     /\ level_of(n) = level_of(parent_of(n)) + 1 /\ level_of(parent_of(n)) \in Nat
                     /\ level_of(buddy_of(n)) = level_of(n)
                     /\ buddy_of(n) # n /\ buddy_of(n) # 0 /\ parent_of(n) < n
                     /\ Extent(parent_of(n)) = Extent(n) \cup Extent(buddy_of(n))
<1>1. n \in Node /\ n \in Nat /\ level_of(n) \in 0 .. Depth /\ level_of(n) <= H
  BY SlabIsTop
<1>2. level_of(n) \in 0 .. H /\ H \in Nat /\ Levels = 0 .. H
  BY <1>1, HeightFacts
<1>3. ASSUME n # 0
      PROVE  /\ parent_of(n) \in SlabNode /\ buddy_of(n) \in SlabNode
             /\ level_of(n) = level_of(parent_of(n)) + 1 /\ level_of(parent_of(n)) \in Nat
             /\ level_of(buddy_of(n)) = level_of(n)
             /\ buddy_of(n) # n /\ buddy_of(n) # 0 /\ parent_of(n) < n
             /\ Extent(parent_of(n)) = Extent(n) \cup Extent(buddy_of(n))
  <2>1. /\ parent_of(n) \in Node /\ buddy_of(n) \in Node
        /\ level_of(n) = level_of(parent_of(n)) + 1 /\ level_of(buddy_of(n)) = level_of(n)
        /\ buddy_of(n) # n /\ buddy_of(n) # 0
        /\ Extent(parent_of(n)) = Extent(n) \cup Extent(buddy_of(n))
    BY <1>1, <1>3, ParentEncloses
  <2>2. level_of(parent_of(n)) \in Nat /\ parent_of(n) < n
    BY <1>1, <1>3, <2>1, SlabIsTop, ChildOfParent
  <2>3. level_of(parent_of(n)) <= H
    BY <1>2, <2>1, <2>2
  <2>4. parent_of(n) \in SlabNode /\ buddy_of(n) \in SlabNode
    BY <1>1, <2>1, <2>3, SlabIsTop
  <2> QED
    BY <2>1, <2>2, <2>4
<1> QED
  BY <1>1, <1>2, <1>3

LEMMA SlabChildren ==
  ASSUME NEW n \in SlabNode, level_of(n) < H
  PROVE  LET l == left_child_of(n)
             r == right_child_of(n)
         IN  /\ l \in SlabNode \ {0} /\ r \in SlabNode \ {0} /\ l # r /\ l # n /\ r # n
             /\ level_of(l) = level_of(n) + 1 /\ level_of(r) = level_of(n) + 1
             /\ parent_of(l) = n /\ parent_of(r) = n /\ buddy_of(l) = r /\ buddy_of(r) = l
             /\ Extent(n) = Extent(l) \cup Extent(r)
<1> DEFINE l == left_child_of(n)
           r == right_child_of(n)
<1>1. n \in Node /\ n \in Nat /\ level_of(n) \in 0 .. H /\ H <= Depth /\ H \in Nat /\ Depth \in Nat
  BY SlabTree, HeightFacts
<1>2. level_of(n) < Depth
  BY <1>1
<1>3. /\ l \in Node /\ level_of(l) = level_of(n) + 1 /\ r \in Node /\ level_of(r) = level_of(n) + 1
  BY <1>1, <1>2, Children
<1>4. level_of(l) <= H /\ level_of(r) <= H
  BY <1>1, <1>3
<1>5. l \in SlabNode /\ r \in SlabNode
  BY <1>3, <1>4, SlabIsTop
<1>6. /\ l # 0 /\ r # 0 /\ l # n /\ r # n /\ l # r /\ parent_of(l) = n /\ parent_of(r) = n
      /\ buddy_of(l) = r /\ buddy_of(r) = l
  BY <1>1, ParentOfChild
<1>7. Extent(n) = Extent(l) \cup Extent(r)
  BY <1>1, <1>2, ChildrenHalve
<1> QED
  BY <1>3, <1>5, <1>6, <1>7

(* Above a node that is not detached all is split.                         *)
LEMMA AboveIsSplit ==
  ASSUME NEW st \in [SlabNode -> NodeState], Shape(st), NEW a \in SlabNode, NEW b \in SlabNode,
         level_of(a) < level_of(b), Extent(a) \cap Extent(b) # {}, st[b] # "kDetached"
  PROVE  st[a] = "kSplit"
<1> DEFINE Bad == {n \in SlabNode : /\ level_of(a) < level_of(n) /\ Extent(a) \cap Extent(n) # {}
                                    /\ st[n] # "kDetached"}
<1> SUFFICES ASSUME st[a] # "kSplit" PROVE FALSE
  OBVIOUS
<1>1. Bad \in SUBSET Nat /\ Bad # {}
  BY SlabTree
<1> HIDE DEF Bad
<1>2. PICK n \in Bad : \A m \in Bad : n <= m
  BY <1>1, LeastElement
<1>3. /\ n \in SlabNode /\ level_of(a) < level_of(n) /\ Extent(a) \cap Extent(n) # {}
      /\ st[n] # "kDetached"
  BY <1>2 DEF Bad
<1>4. level_of(a) \in Nat /\ level_of(n) \in Nat /\ level_of(0) = 0 /\ n \in Nat /\ a \in Node
  BY <1>3, SlabTree, SlabIsTop, HeightFacts
<1>5. n # 0
  BY <1>3, <1>4
<1> DEFINE p == parent_of(n)
<1>6. /\ p \in SlabNode /\ level_of(n) = level_of(p) + 1 /\ Extent(n) \subseteq Extent(p)
      /\ p < n /\ level_of(p) \in Nat /\ p \in Node /\ p \in Nat
  BY <1>3, <1>5, SlabTree
<1>7. st[p] = "kSplit"
  BY <1>3, <1>5 DEF Shape
<1> HIDE DEF p
<1>8. p \notin Bad
  BY <1>2, <1>4, <1>6
<1>9. level_of(a) = level_of(p) /\ Extent(a) \cap Extent(p) # {}
  <2>1. Extent(a) \cap Extent(p) # {}
    BY <1>3, <1>6
  <2>2. ~(level_of(a) < level_of(p))
    BY <1>6, <1>7, <1>8, <2>1 DEF Bad
  <2> QED
    BY <1>3, <1>4, <1>6, <2>1, <2>2
<1>10. a = p
  BY <1>4, <1>6, <1>9, LevelIsDisjoint
<1> QED
  BY <1>7, <1>10

(* So blocks share no byte.                                                *)
LEMMA BlocksAreDisjoint ==
  ASSUME NEW st \in [SlabNode -> NodeState], Shape(st), NEW a \in Blocks(st), NEW b \in Blocks(st),
         a # b
  PROVE  Extent(a) \cap Extent(b) = {}
<1>1. /\ a \in SlabNode /\ b \in SlabNode /\ a \in Node /\ b \in Node
      /\ st[a] \in {"kFree", "kUsed"} /\ st[b] \in {"kFree", "kUsed"}
      /\ level_of(a) \in Nat /\ level_of(b) \in Nat
  BY SlabTree DEF Blocks
<1>2. CASE level_of(a) = level_of(b)
  BY <1>1, <1>2, LevelIsDisjoint
<1>3. CASE level_of(a) < level_of(b)
  BY <1>1, <1>3, AboveIsSplit
<1>4. CASE level_of(b) < level_of(a)
  BY <1>1, <1>4, AboveIsSplit
<1> QED
  BY <1>1, <1>2, <1>3, <1>4

(* Every detached node belongs to a block above it.                        *)
LEMMA DetachedInBlock ==
  ASSUME NEW st \in [SlabNode -> NodeState], Shape(st), NEW n \in SlabNode, st[n] = "kDetached"
  PROVE  \E a \in Blocks(st) : level_of(a) < level_of(n) /\ Extent(n) \subseteq Extent(a)
<1> DEFINE Bad == {m \in SlabNode : st[m] = "kDetached" /\
              ~\E a \in Blocks(st) : level_of(a) < level_of(m) /\ Extent(m) \subseteq Extent(a)}
<1> SUFFICES ASSUME Bad # {} PROVE FALSE
  OBVIOUS
<1>1. Bad \in SUBSET Nat
  BY SlabTree
<1> HIDE DEF Bad
<1>2. PICK m \in Bad : \A k \in Bad : m <= k
  BY <1>1, LeastElement
<1>3. /\ m \in SlabNode /\ st[m] = "kDetached"
      /\ ~\E a \in Blocks(st) : level_of(a) < level_of(m) /\ Extent(m) \subseteq Extent(a)
  BY <1>2 DEF Bad
<1>4. m # 0
  BY <1>3 DEF Shape
<1> DEFINE p == parent_of(m)
<1>5. /\ p \in SlabNode /\ level_of(m) = level_of(p) + 1 /\ Extent(m) \subseteq Extent(p)
      /\ p < m /\ level_of(p) \in Nat /\ m \in Nat /\ p \in Nat
  BY <1>3, <1>4, SlabTree
<1>6. st[p] # "kSplit"
  BY <1>3, <1>4 DEF Shape
<1> HIDE DEF p
<1>7. p \notin Bad
  BY <1>2, <1>5
<1>8. CASE st[p] = "kDetached"
  <2>1. PICK a \in Blocks(st) : level_of(a) < level_of(p) /\ Extent(p) \subseteq Extent(a)
    BY <1>5, <1>7, <1>8 DEF Bad
  <2>2. level_of(a) \in Nat
    BY SlabTree DEF Blocks
  <2>3. level_of(a) < level_of(m) /\ Extent(m) \subseteq Extent(a)
    BY <1>5, <2>1, <2>2
  <2> QED
    BY <1>3, <2>3
<1>9. CASE st[p] # "kDetached"
  <2>1. p \in Blocks(st)
    BY <1>5, <1>6, <1>9 DEF Blocks, NodeState
  <2>2. level_of(p) < level_of(m)
    BY <1>5
  <2> QED
    BY <1>3, <1>5, <2>1, <2>2
<1> QED
  BY <1>8, <1>9

(* If free buddies have merged, every split node has a used one below.     *)
LEMMA SplitHoldsUsed ==
  ASSUME NEW st \in [SlabNode -> NodeState], Shape(st), Coalesced(st),
         NEW n \in SlabNode, st[n] = "kSplit"
  PROVE  \E u \in UsedIn(st) : Extent(u) \subseteq Extent(n)
<1> DEFINE Fails(m) == st[m] = "kSplit" /\ ~\E u \in UsedIn(st) : Extent(u) \subseteq Extent(m)
           Bad == {k \in 0 .. H : \E m \in SlabNode : level_of(m) = H - k /\ Fails(m)}
<1> SUFFICES ASSUME Fails(n) PROVE FALSE
  OBVIOUS
<1>1. Bad \in SUBSET Nat /\ H \in Nat
  BY HeightFacts
<1>2. Bad # {}
  <2>1. level_of(n) \in 0 .. H
    BY SlabTree
  <2>2. H - level_of(n) \in 0 .. H /\ H - (H - level_of(n)) = level_of(n)
    BY <1>1, <2>1
  <2> QED
    BY <2>2
<1> HIDE DEF Bad
<1>3. PICK k \in Bad : \A j \in Bad : k <= j
  BY <1>1, <1>2, LeastElement
<1>4. PICK m \in SlabNode : level_of(m) = H - k /\ Fails(m)
  BY <1>3 DEF Bad
<1>5. k \in 0 .. H
  BY <1>3 DEF Bad
<1>6. level_of(m) < H /\ level_of(m) \in Nat
  BY <1>4, SlabTree, HeightFacts DEF Shape
<1> DEFINE l == left_child_of(m)
           r == right_child_of(m)
<1>7. /\ l \in SlabNode \ {0} /\ r \in SlabNode \ {0}
      /\ level_of(l) = level_of(m) + 1 /\ level_of(r) = level_of(m) + 1
      /\ parent_of(l) = m /\ parent_of(r) = m /\ buddy_of(l) = r
      /\ Extent(m) = Extent(l) \cup Extent(r)
  BY <1>6, SlabChildren
<1> HIDE DEF l, r
<1>8. k - 1 \in 0 .. H /\ k - 1 < k /\ level_of(l) = H - (k - 1) /\ level_of(r) = H - (k - 1)
  BY <1>1, <1>4, <1>5, <1>6, <1>7
<1>9. k - 1 \notin Bad
  BY <1>3, <1>5, <1>8
<1>10. ~Fails(l) /\ ~Fails(r)
  BY <1>7, <1>8, <1>9 DEF Bad
<1>11. st[l] # "kDetached" /\ st[r] # "kDetached"
  BY <1>4, <1>7 DEF Shape
<1>12. \E c \in {l, r} : st[c] # "kFree"
  BY <1>7 DEF Coalesced
<1>13. PICK c \in {l, r} : st[c] \in {"kSplit", "kUsed"}
  BY <1>7, <1>11, <1>12 DEF NodeState
<1>14. c \in SlabNode /\ Extent(c) \subseteq Extent(m) /\ ~Fails(c)
  BY <1>7, <1>10, <1>13
<1>15. CASE st[c] = "kUsed"
  BY <1>4, <1>14, <1>15 DEF UsedIn
<1>16. CASE st[c] = "kSplit"
  BY <1>4, <1>14, <1>16
<1> QED
  BY <1>13, <1>15, <1>16

(* What Vacant and FreeBlocks say of the blocks of a tree.                 *)
LEMMA VacantIs ==
  ASSUME NEW U \in SUBSET SlabNode, NEW n \in SlabNode
  PROVE  Vacant(U, n) <=> \A u \in U : Extent(u) \cap Extent(n) = {}
<1>1. n \in Node /\ \A u \in U : u \in Node
  BY SlabTree
<1>2. \A u \in U : <<u, n>> \in Overlap <=> Extent(u) \cap Extent(n) # {}
  BY <1>1 DEF Overlap
<1> QED
  BY <1>2 DEF Vacant

LEMMA FreeBlocksAre ==
  ASSUME NEW st \in [SlabNode -> NodeState], Shape(st), Coalesced(st)
  PROVE  FreeBlocks(ArenaLog2, UsedIn(st)) = {n \in SlabNode : st[n] = "kFree"}
<1> DEFINE U == UsedIn(st)
<1>1. /\ U \in SUBSET SlabNode /\ \A n \in SlabNode : n \in Node /\ n \in Nat
      /\ \A u \in U : u \in Blocks(st) /\ st[u] = "kUsed"
      /\ \A n \in SlabNode : level_of(n) \in Nat
      /\ \A n \in SlabNode : st[n] = "kUsed" => n \in U
  BY SlabTree DEF UsedIn, Blocks
<1>2. \A n \in SlabNode : Extent(n) # {}
  BY <1>1, ExtentFacts
<1> HIDE DEF U
<1>3. ASSUME NEW n \in SlabNode, st[n] = "kSplit" PROVE ~Vacant(U, n)
  <2>1. PICK u \in U : Extent(u) \subseteq Extent(n)
    BY <1>3, SplitHoldsUsed DEF U
  <2>2. Extent(u) \cap Extent(n) # {}
    BY <1>1, <1>2, <2>1
  <2> QED
    BY <1>1, <2>2, VacantIs
<1>4. ASSUME NEW n \in SlabNode, st[n] = "kFree"
      PROVE  Vacant(U, n) /\ (is_root(n) \/ ~Vacant(U, parent_of(n)))
  <2>1. n \in Blocks(st) /\ \A u \in U : u # n
    BY <1>1, <1>4 DEF Blocks
  <2>2. \A u \in U : Extent(u) \cap Extent(n) = {}
    BY <1>1, <2>1, BlocksAreDisjoint
  <2>3. Vacant(U, n)
    BY <1>1, <2>2, VacantIs
  <2>4. ASSUME n # 0 PROVE ~Vacant(U, parent_of(n))
    <3>1. parent_of(n) \in SlabNode /\ st[parent_of(n)] = "kSplit"
      BY <1>4, <2>4, SlabTree DEF Shape
    <3> QED
      BY <1>3, <3>1
  <2> QED
    BY <2>3, <2>4 DEF is_root
<1>5. ASSUME NEW n \in SlabNode, Vacant(U, n), is_root(n) \/ ~Vacant(U, parent_of(n))
      PROVE  st[n] = "kFree"
  <2>1. \A u \in U : Extent(u) \cap Extent(n) = {}
    BY <1>1, <1>5, VacantIs
  <2>2. st[n] # "kUsed"
    BY <1>1, <1>2, <2>1
  <2>3. st[n] # "kSplit"
    BY <1>3, <1>5
  <2>4. ASSUME st[n] = "kDetached" PROVE FALSE
    <3> DEFINE p == parent_of(n)
    <3>1. n # 0
      BY <2>4 DEF Shape
    <3>2. /\ p \in SlabNode /\ level_of(n) = level_of(p) + 1 /\ level_of(p) \in Nat
          /\ Extent(n) \subseteq Extent(p)
      BY <3>1, SlabTree
    <3>3. PICK a \in Blocks(st) : level_of(a) < level_of(n) /\ Extent(n) \subseteq Extent(a)
      BY <2>4, DetachedInBlock
    <3>4. a \in SlabNode /\ a \in Node /\ level_of(a) \in Nat
      BY SlabTree DEF Blocks
    <3>5. ~Vacant(U, p)
      BY <1>5, <3>1 DEF is_root
    <3> HIDE DEF p
    <3>6. PICK u \in U : Extent(u) \cap Extent(p) # {}
      BY <1>1, <3>2, <3>5, VacantIs
    <3>7. level_of(a) <= level_of(p) /\ p \in Node
      BY <1>1, <3>2, <3>3, <3>4
    <3>8. Extent(a) \cap Extent(p) # {}
      BY <1>2, <3>2, <3>3
    <3>9. Extent(p) \subseteq Extent(a)
      BY <3>4, <3>7, <3>8, Laminar
    <3>10. Extent(u) \cap Extent(a) # {}
      BY <3>6, <3>9
    <3>11. u \in Blocks(st)
      BY <1>1
    <3>12. u = a
      BY <3>10, <3>11, BlocksAreDisjoint
    <3> QED
      BY <1>2, <2>1, <3>3, <3>12
  <2> QED
    BY <2>2, <2>3, <2>4 DEF NodeState
<1>6. FreeBlocks(ArenaLog2, U) = {n \in SlabNode : Vacant(U, n) /\ (is_root(n) \/ ~Vacant(U, parent_of(n)))}
  BY DEF FreeBlocks, SlabNode
<1> QED
  BY <1>4, <1>5, <1>6 DEF U

(* A tree in which free buddies have merged is the one its used blocks     *)
(* determine.                                                              *)
LEMMA Canonical ==
  ASSUME NEW st \in [SlabNode -> NodeState], Shape(st), Coalesced(st)
  PROVE  st = CanonicalNodes(ArenaLog2, UsedIn(st))
<1> DEFINE U == UsedIn(st)
           F == FreeBlocks(ArenaLog2, U)
<1>1. F = {n \in SlabNode : st[n] = "kFree"}
  BY FreeBlocksAre
<1>2. /\ U \in SUBSET SlabNode /\ \A n \in SlabNode : n \in Node /\ level_of(n) \in Nat
      /\ \A n \in SlabNode : st[n] = "kUsed" <=> n \in U
  BY SlabTree DEF UsedIn
<1> HIDE DEF U, F
<1>3. ASSUME NEW n \in SlabNode, st[n] \notin {"kUsed", "kFree"}
      PROVE  st[n] = IF \E u \in U : <<n, u>> \in Encloses THEN "kSplit" ELSE "kDetached"
  <2>1. ASSUME st[n] = "kSplit" PROVE \E u \in U : <<n, u>> \in Encloses
    <3>1. PICK u \in U : Extent(u) \subseteq Extent(n)
      BY <2>1, SplitHoldsUsed DEF U
    <3> QED
      BY <1>2, <3>1 DEF Encloses
  <2>2. ASSUME NEW u \in U, <<n, u>> \in Encloses PROVE st[n] = "kSplit"
    <3>1. /\ Extent(u) \subseteq Extent(n) /\ u \in SlabNode /\ u \in Node /\ n \in Node
          /\ level_of(u) \in Nat /\ level_of(n) \in Nat
      BY <1>2, <2>2 DEF Encloses
    <3>2. Extent(n) \cap Extent(u) # {}
      BY <3>1, ExtentFacts
    <3>3. st[u] = "kUsed" /\ n # u
      BY <1>2, <1>3
    <3>4. level_of(u) # level_of(n)
      BY <3>1, <3>2, <3>3, LevelIsDisjoint
    <3>5. ~(level_of(u) < level_of(n))
      BY <3>1, DeeperIsSmaller
    <3>6. level_of(n) < level_of(u)
      BY <3>1, <3>4, <3>5
    <3> QED
      BY <3>1, <3>2, <3>3, <3>6, AboveIsSplit
  <2>3. st[n] \in {"kSplit", "kDetached"}
    BY <1>3 DEF NodeState
  <2> QED
    BY <2>1, <2>2, <2>3
<1>4. CanonicalNodes(ArenaLog2, U)
        = [n \in SlabNode |-> IF n \in U THEN "kUsed" ELSE IF n \in F THEN "kFree"
                              ELSE IF \E u \in U : <<n, u>> \in Encloses THEN "kSplit"
                              ELSE "kDetached"]
  BY DEF CanonicalNodes, SlabNode, F
<1> DEFINE val(n) == IF n \in U THEN "kUsed" ELSE IF n \in F THEN "kFree"
                     ELSE IF \E u \in U : <<n, u>> \in Encloses THEN "kSplit" ELSE "kDetached"
<1>5. \A n \in SlabNode : st[n] = val(n)
  BY <1>1, <1>2, <1>3
<1>6. st = [n \in SlabNode |-> st[n]]
  OBVIOUS
<1> HIDE DEF val
<1>7. st = [n \in SlabNode |-> val(n)]
  BY <1>5, <1>6
<1> QED
  BY <1>4, <1>7 DEF U, val

-----------------------------------------------------------------------------
(* The free lists.                                                         *)

SlabRecord == [nodes : [SlabNode -> NodeState], pos : [SlabNode -> Int],
               free_lists : [Levels -> Seq(SlabNode)], nonempty_mask : SUBSET Levels]

(* The lists hold the blocks of F, each at the place its pointer names.    *)
Listed(s, F) ==
  /\ \A n \in SlabNode :
       IF n \in F
         THEN /\ s.pos[n] \in DOMAIN s.free_lists[level_of(n)]
              /\ s.free_lists[level_of(n)][s.pos[n]] = n
         ELSE s.pos[n] = kNotInList
  /\ \A l \in Levels :
       /\ l \in s.nonempty_mask <=> s.free_lists[l] # <<>>
       /\ \A i \in DOMAIN s.free_lists[l] :
            LET n == s.free_lists[l][i]
            IN  level_of(n) = l /\ s.pos[n] = i

(* push_free adds a block.                                                 *)
LEMMA PushLists ==
  ASSUME NEW s \in SlabRecord, NEW F \in SUBSET SlabNode, Listed(s, F),
         NEW n \in SlabNode, n \notin F, NEW t, t = push_free(s, level_of(n), n)
  PROVE  t \in SlabRecord /\ t.nodes = s.nodes /\ Listed(t, F \cup {n})
<1> DEFINE l == level_of(n)
           L == s.free_lists[l]
           k == Len(L) + 1
<1>1. l \in Levels /\ L \in Seq(SlabNode) /\ Len(L) \in Nat /\ DOMAIN L = 1 .. Len(L)
  BY SlabTree DEF SlabRecord
<1>2. /\ Append(L, n) \in Seq(SlabNode) /\ Len(Append(L, n)) = k /\ Append(L, n) # <<>>
      /\ DOMAIN Append(L, n) = 1 .. k /\ Append(L, n)[k] = n
      /\ \A i \in 1 .. Len(L) : Append(L, n)[i] = L[i]
  BY <1>1
<1>3. /\ t = [nodes |-> s.nodes, pos |-> [s.pos EXCEPT ![n] = k],
              free_lists |-> [s.free_lists EXCEPT ![l] = Append(L, n)],
              nonempty_mask |-> s.nonempty_mask \cup {l}]
      /\ s.pos \in [SlabNode -> Int] /\ s.free_lists \in [Levels -> Seq(SlabNode)]
      /\ s.nodes \in [SlabNode -> NodeState] /\ s.nonempty_mask \in SUBSET Levels
  BY DEF push_free, SlabRecord
<1> DEFINE A == Append(L, n)
<1> HIDE DEF l, L, k, A
<1>4. k \in Int /\ Len(L) < k
  BY <1>1 DEF k
<1>5. /\ t.nodes = s.nodes /\ t.pos = [s.pos EXCEPT ![n] = k]
      /\ t.free_lists = [s.free_lists EXCEPT ![l] = A]
      /\ t.nonempty_mask = s.nonempty_mask \cup {l}
  BY <1>3 DEF A
<1>6. t \in SlabRecord
  BY <1>1, <1>2, <1>3, <1>4 DEF SlabRecord
<1>7. /\ t.pos[n] = k /\ \A m \in SlabNode \ {n} : t.pos[m] = s.pos[m]
      /\ t.free_lists[l] = A /\ \A j \in Levels \ {l} : t.free_lists[j] = s.free_lists[j]
  BY <1>1, <1>3, <1>5
<1>8. ASSUME NEW m \in F \cup {n}
      PROVE  /\ t.pos[m] \in DOMAIN t.free_lists[level_of(m)]
             /\ t.free_lists[level_of(m)][t.pos[m]] = m
  <2>1. CASE m = n
    BY <1>1, <1>2, <1>7, <2>1 DEF A, k, l
  <2>2. CASE m # n
    <3>1. /\ m \in SlabNode /\ s.pos[m] \in DOMAIN s.free_lists[level_of(m)] /\ level_of(m) \in Levels
          /\ s.free_lists[level_of(m)][s.pos[m]] = m /\ t.pos[m] = s.pos[m]
      BY <1>7, <2>2, SlabTree DEF Listed
    <3>2. CASE level_of(m) = l
      BY <1>1, <1>2, <1>4, <1>7, <3>1, <3>2 DEF A, L, k
    <3>3. CASE level_of(m) # l
      BY <1>7, <3>1, <3>3
    <3> QED
      BY <3>2, <3>3
  <2> QED
    BY <2>1, <2>2
<1>9. ASSUME NEW m \in SlabNode, m \notin F \cup {n} PROVE t.pos[m] = kNotInList
  BY <1>7, <1>9 DEF Listed
<1>10. ASSUME NEW j \in Levels
       PROVE  /\ j \in t.nonempty_mask <=> t.free_lists[j] # <<>>
              /\ \A i \in DOMAIN t.free_lists[j] : /\ level_of(t.free_lists[j][i]) = j
                                                   /\ t.pos[t.free_lists[j][i]] = i
  <2>1. /\ j \in s.nonempty_mask <=> s.free_lists[j] # <<>>
        /\ \A i \in DOMAIN s.free_lists[j] : /\ level_of(s.free_lists[j][i]) = j
                                             /\ s.pos[s.free_lists[j][i]] = i
                                             /\ s.free_lists[j][i] \in SlabNode
    BY <1>3 DEF Listed
  <2>2. s.pos[n] = -1
    BY DEF Listed, kNotInList
  <2>3. \A i \in DOMAIN s.free_lists[j] : i # -1
    BY <1>3
  <2>4. \A i \in DOMAIN s.free_lists[j] : s.free_lists[j][i] # n
    BY <2>1, <2>2, <2>3
  <2>5. CASE j = l
    <3>1. \A i \in 1 .. Len(L) : A[i] = s.free_lists[j][i] /\ i \in DOMAIN s.free_lists[j]
      BY <1>1, <1>2, <2>5 DEF A, L
    <3>2. \A i \in 1 .. Len(L) : level_of(A[i]) = j /\ t.pos[A[i]] = i
      BY <1>7, <2>1, <2>4, <3>1
    <3>3. level_of(A[k]) = j /\ t.pos[A[k]] = k
      BY <1>2, <1>7, <2>5 DEF A, l
    <3>4. \A i \in DOMAIN A : i \in 1 .. Len(L) \/ i = k
      BY <1>1, <1>2, <1>4 DEF A, k
    <3>5. A # <<>>
      BY <1>2 DEF A
    <3> QED
      BY <1>5, <1>7, <2>5, <3>2, <3>3, <3>4, <3>5
  <2>6. CASE j # l
    BY <1>5, <1>7, <2>1, <2>4, <2>6
  <2> QED
    BY <2>5, <2>6
<1>11. Listed(t, F \cup {n})
  BY <1>8, <1>9, <1>10 DEF Listed
<1> QED
  BY <1>5, <1>6, <1>11

(* What pop_free and remove_free leave of a list: the back takes the place *)
(* of the block that goes.                                                 *)
Shorter(L, p) == [i \in 1 .. Len(L) - 1 |-> IF i = p THEN L[Len(L)] ELSE L[i]]

Dropped(s, l, n) ==
  LET L == s.free_lists[l]
  IN  [nodes |-> s.nodes,
       pos |-> [m \in SlabNode |-> IF m = n THEN kNotInList
                                   ELSE IF m = L[Len(L)] THEN s.pos[n] ELSE s.pos[m]],
       free_lists |-> [s.free_lists EXCEPT ![l] = Shorter(L, s.pos[n])],
       nonempty_mask |-> IF Len(L) = 1 THEN s.nonempty_mask \ {l} ELSE s.nonempty_mask]

LEMMA DropLists ==
  ASSUME NEW s \in SlabRecord, NEW F \in SUBSET SlabNode, Listed(s, F),
         NEW n \in F, NEW t, t = Dropped(s, level_of(n), n)
  PROVE  t \in SlabRecord /\ t.nodes = s.nodes /\ Listed(t, F \ {n})
<1> DEFINE l == level_of(n)
           L == s.free_lists[l]
           p == s.pos[n]
           k == Len(L)
           b == L[k]
           S == Shorter(L, p)
<1>1. /\ s.pos \in [SlabNode -> Int] /\ s.free_lists \in [Levels -> Seq(SlabNode)]
      /\ s.nodes \in [SlabNode -> NodeState] /\ s.nonempty_mask \in SUBSET Levels
      /\ n \in SlabNode /\ l \in Levels
  BY SlabTree DEF SlabRecord
<1>2. L \in Seq(SlabNode) /\ k \in Nat /\ DOMAIN L = 1 .. k /\ p \in 1 .. k /\ L[p] = n
      /\ \A i \in 1 .. k : L[i] \in SlabNode
  BY <1>1 DEF Listed
<1>3. k \in 1 .. k /\ b \in SlabNode /\ k - 1 \in Nat
  BY <1>2
<1>4. \A i \in 1 .. k : level_of(L[i]) = l /\ s.pos[L[i]] = i
  BY <1>1, <1>2 DEF Listed
<1>5. /\ t.nodes = s.nodes
      /\ t.pos = [m \in SlabNode |-> IF m = n THEN kNotInList ELSE IF m = b THEN p ELSE s.pos[m]]
      /\ t.free_lists = [s.free_lists EXCEPT ![l] = S]
      /\ t.nonempty_mask = IF k = 1 THEN s.nonempty_mask \ {l} ELSE s.nonempty_mask
      /\ t = [nodes |-> t.nodes, pos |-> t.pos, free_lists |-> t.free_lists,
              nonempty_mask |-> t.nonempty_mask]
  BY DEF Dropped
<1> HIDE DEF l, L, p, k, b
<1>6. /\ S \in Seq(SlabNode) /\ DOMAIN S = 1 .. k - 1
      /\ \A i \in 1 .. k - 1 : S[i] = IF i = p THEN b ELSE L[i]
      /\ S = <<>> <=> k = 1
  <2>1. S = [i \in 1 .. k - 1 |-> IF i = p THEN b ELSE L[i]]
    BY DEF Shorter, k, b
  <2>2. \A i \in 1 .. k - 1 : (IF i = p THEN b ELSE L[i]) \in SlabNode
    BY <1>2, <1>3
  <2> HIDE DEF S
  <2>3. S \in [1 .. k - 1 -> SlabNode]
    BY <2>1, <2>2
  <2>4. S \in Seq(SlabNode) /\ Len(S) = k - 1 /\ DOMAIN S = 1 .. k - 1
    BY <1>3, <2>3
  <2>5. S = <<>> <=> k = 1
    BY <1>2, <1>3, <2>4, EmptySeq
  <2> QED
    BY <2>1, <2>4, <2>5
<1> HIDE DEF S
<1>7. t \in SlabRecord
  <2>1. t.pos \in [SlabNode -> Int]
    <3>1. p \in Int /\ kNotInList \in Int
      BY <1>2 DEF kNotInList
    <3> QED
      BY <1>1, <1>5, <3>1
  <2>2. t.free_lists \in [Levels -> Seq(SlabNode)] /\ t.nonempty_mask \in SUBSET Levels
    BY <1>1, <1>5, <1>6
  <2> QED
    BY <1>1, <1>5, <2>1, <2>2 DEF SlabRecord
<1>8. /\ t.free_lists[l] = S /\ \A j \in Levels \ {l} : t.free_lists[j] = s.free_lists[j]
      /\ \A m \in SlabNode : t.pos[m] = IF m = n THEN kNotInList ELSE IF m = b THEN p ELSE s.pos[m]
  BY <1>1, <1>5
<1>9. b = n <=> p = k
  BY <1>2, <1>3, <1>4 DEF b
<1>10. ASSUME NEW m \in F, m # n
       PROVE  /\ t.pos[m] \in DOMAIN t.free_lists[level_of(m)]
              /\ t.free_lists[level_of(m)][t.pos[m]] = m
  <2>1. /\ m \in SlabNode /\ level_of(m) \in Levels
        /\ s.pos[m] \in DOMAIN s.free_lists[level_of(m)]
        /\ s.free_lists[level_of(m)][s.pos[m]] = m
    BY SlabTree DEF Listed
  <2>2. CASE level_of(m) = l
    <3>1. s.pos[m] \in 1 .. k /\ L[s.pos[m]] = m
      BY <1>2, <2>1, <2>2 DEF L
    <3>2. CASE m = b
      <4>1. s.pos[m] = k /\ p # k
        BY <1>3, <1>4, <1>9, <1>10, <3>2 DEF b
      <4>2. p \in 1 .. k - 1
        BY <1>2, <1>3, <4>1
      <4>3. t.pos[m] = p /\ S[p] = m
        BY <1>6, <1>8, <1>10, <2>1, <3>2, <4>2
      <4> QED
        BY <1>6, <1>8, <2>2, <4>2, <4>3
    <3>3. CASE m # b
      <4>1. s.pos[m] # k /\ s.pos[m] # p
        BY <1>2, <1>10, <3>1, <3>3 DEF b
      <4>2. s.pos[m] \in 1 .. k - 1
        BY <1>2, <1>3, <3>1, <4>1
      <4>3. t.pos[m] = s.pos[m] /\ S[s.pos[m]] = m
        BY <1>6, <1>8, <1>10, <2>1, <3>1, <3>3, <4>1, <4>2
      <4> QED
        BY <1>6, <1>8, <2>2, <4>2, <4>3
    <3> QED
      BY <3>2, <3>3
  <2>3. CASE level_of(m) # l
    <3>1. m # b
      BY <1>3, <1>4, <2>3 DEF b
    <3> QED
      BY <1>8, <1>10, <2>1, <2>3, <3>1
  <2> QED
    BY <2>2, <2>3
<1>11. ASSUME NEW m \in SlabNode, m \notin F \ {n} PROVE t.pos[m] = kNotInList
  <2>1. CASE m = n
    BY <1>8, <2>1
  <2>2. CASE m # n
    <3>1. s.pos[m] = -1
      BY <1>11, <2>2 DEF Listed, kNotInList
    <3>2. m # b
      <4>1. s.pos[b] = k
        BY <1>3, <1>4 DEF b
      <4> QED
        BY <1>3, <3>1, <4>1
    <3> QED
      BY <1>8, <2>2, <3>1, <3>2 DEF kNotInList
  <2> QED
    BY <2>1, <2>2
<1>12. ASSUME NEW j \in Levels
       PROVE  /\ j \in t.nonempty_mask <=> t.free_lists[j] # <<>>
              /\ \A i \in DOMAIN t.free_lists[j] : /\ level_of(t.free_lists[j][i]) = j
                                                   /\ t.pos[t.free_lists[j][i]] = i
  <2>1. /\ j \in s.nonempty_mask <=> s.free_lists[j] # <<>>
        /\ \A i \in DOMAIN s.free_lists[j] : /\ level_of(s.free_lists[j][i]) = j
                                             /\ s.pos[s.free_lists[j][i]] = i
                                             /\ s.free_lists[j][i] \in SlabNode
    BY <1>1 DEF Listed
  <2>2. CASE j = l
    <3>1. j \in s.nonempty_mask
      <4>1. L # <<>>
        BY <1>2, <1>3
      <4> QED
        BY <2>1, <2>2, <4>1 DEF L
    <3>2. j \in t.nonempty_mask <=> t.free_lists[j] # <<>>
      BY <1>5, <1>6, <1>8, <2>2, <3>1
    <3>3. ASSUME NEW i \in 1 .. k - 1 PROVE level_of(S[i]) = l /\ t.pos[S[i]] = i
      <4>1. i \in 1 .. k /\ i # k
        BY <1>3
      <4>2. CASE i = p
        <5>1. S[i] = b /\ b # n
          BY <1>6, <1>9, <4>1, <4>2
        <5> QED
          BY <1>3, <1>4, <1>8, <4>2, <5>1 DEF b
      <4>3. CASE i # p
        <5>1. S[i] = L[i] /\ L[i] \in SlabNode /\ level_of(L[i]) = l /\ s.pos[L[i]] = i
          BY <1>2, <1>4, <1>6, <4>1, <4>3
        <5>2. L[i] # n /\ L[i] # b
          BY <1>2, <1>3, <1>4, <4>1, <4>3, <5>1 DEF b
        <5> QED
          BY <1>8, <5>1, <5>2
      <4> QED
        BY <4>2, <4>3
    <3> QED
      BY <1>6, <1>8, <2>2, <3>2, <3>3
  <2>3. CASE j # l
    <3>1. ASSUME NEW i \in DOMAIN s.free_lists[j]
          PROVE  s.free_lists[j][i] # n /\ s.free_lists[j][i] # b
      <4>1. level_of(n) = l /\ level_of(b) = l
        BY <1>3, <1>4 DEF b, l
      <4> QED
        BY <2>1, <2>3, <4>1
    <3> QED
      BY <1>5, <1>8, <2>1, <2>3, <3>1
  <2> QED
    BY <2>2, <2>3
<1>13. Listed(t, F \ {n})
  BY <1>10, <1>11, <1>12 DEF Listed
<1> QED
  BY <1>5, <1>7, <1>13

(* The record updates of the primitives, written out.                      *)
LEMMA DropBackIs ==
  ASSUME NEW s \in SlabRecord, NEW l, NEW n
  PROVE  DropBack(s, l, n)
           = [nodes |-> s.nodes, pos |-> [s.pos EXCEPT ![n] = kNotInList],
              free_lists |-> [s.free_lists EXCEPT ![l] = Front(s.free_lists[l])],
              nonempty_mask |-> IF Len(s.free_lists[l]) = 1 THEN s.nonempty_mask \ {l}
                                ELSE s.nonempty_mask]
<1> DEFINE m == IF Len(s.free_lists[l]) = 1 THEN s.nonempty_mask \ {l} ELSE s.nonempty_mask
           f == Front(s.free_lists[l])
<1>1. DropBack(s, l, n) = [s EXCEPT !.free_lists[l] = f, !.pos[n] = kNotInList, !.nonempty_mask = m]
  BY DEF DropBack
<1> HIDE DEF m, f
<1>2. s = [nodes |-> s.nodes, pos |-> s.pos, free_lists |-> s.free_lists,
           nonempty_mask |-> s.nonempty_mask]
  BY DEF SlabRecord
<1>3. DropBack(s, l, n)
        = [nodes |-> s.nodes, pos |-> [s.pos EXCEPT ![n] = kNotInList],
              free_lists |-> [s.free_lists EXCEPT ![l] = f], nonempty_mask |-> m]
  BY <1>1, <1>2
<1> QED
  BY <1>3 DEF m, f

LEMMA FrontIs ==
  ASSUME NEW L \in Seq(SlabNode), L # <<>>
  PROVE  Front(L) = [i \in 1 .. Len(L) - 1 |-> L[i]]
<1>1. Len(L) \in Nat /\ Len(L) # 0
  BY EmptySeq
<1>2. Front(L) = SubSeq(L, 1, Len(L) - 1)
  BY DEF Front
<1>3. SubSeq(L, 1, Len(L) - 1) = [i \in 1 .. Len(L) - 1 |-> L[i]]
  BY <1>1
<1> QED
  BY <1>2, <1>3

LEMMA ListFacts ==
  ASSUME NEW s \in SlabRecord, NEW F \in SUBSET SlabNode, Listed(s, F), NEW l \in Levels,
         s.free_lists[l] # <<>>
  PROVE  /\ s.free_lists[l] \in Seq(SlabNode) /\ Len(s.free_lists[l]) \in Nat \ {0}
         /\ DOMAIN s.free_lists[l] = 1 .. Len(s.free_lists[l])
         /\ \A i \in DOMAIN s.free_lists[l] :
              /\ s.free_lists[l][i] \in F /\ level_of(s.free_lists[l][i]) = l
              /\ s.pos[s.free_lists[l][i]] = i
<1> DEFINE L == s.free_lists[l]
<1>1. L \in Seq(SlabNode)
  BY DEF SlabRecord
<1>2. Len(L) \in Nat /\ Len(L) # 0 /\ DOMAIN L = 1 .. Len(L)
  BY <1>1, EmptySeq
<1>3. \A i \in DOMAIN L : L[i] \in SlabNode /\ level_of(L[i]) = l /\ s.pos[L[i]] = i
  BY <1>1 DEF Listed
<1>4. \A i \in DOMAIN L : i # kNotInList
  BY <1>2 DEF kNotInList
<1>5. \A i \in DOMAIN L : L[i] \in F
  BY <1>3, <1>4 DEF Listed
<1> QED
  BY <1>1, <1>2, <1>3, <1>5

(* pop_free takes the back of the list out.                                *)
LEMMA PopIsDropped ==
  ASSUME NEW s \in SlabRecord, NEW F \in SUBSET SlabNode, Listed(s, F), NEW l \in Levels,
         s.free_lists[l] # <<>>
  PROVE  /\ back(s, l) \in F /\ level_of(back(s, l)) = l
         /\ pop_free(s, l) = Dropped(s, l, back(s, l))
<1> DEFINE L == s.free_lists[l]
           k == Len(L)
           b == back(s, l)
<1>1. /\ L \in Seq(SlabNode) /\ k \in Nat \ {0} /\ DOMAIN L = 1 .. k
      /\ \A i \in DOMAIN L : L[i] \in F /\ level_of(L[i]) = l /\ s.pos[L[i]] = i
  BY ListFacts
<1>2. k \in DOMAIN L /\ b = L[k]
  BY <1>1 DEF back, Last
<1>3. /\ b \in F /\ level_of(b) = l /\ s.pos[b] = k /\ b \in SlabNode
  BY <1>1, <1>2
<1>4. /\ s.pos \in [SlabNode -> Int] /\ s.free_lists \in [Levels -> Seq(SlabNode)]
      /\ s = [nodes |-> s.nodes, pos |-> s.pos, free_lists |-> s.free_lists,
              nonempty_mask |-> s.nonempty_mask]
  BY DEF SlabRecord
<1>5. pop_free(s, l) = DropBack(s, l, b)
  BY DEF pop_free
<1>6. DropBack(s, l, b) = [nodes |-> s.nodes, pos |-> [s.pos EXCEPT ![b] = kNotInList],
                           free_lists |-> [s.free_lists EXCEPT ![l] = Front(L)],
                           nonempty_mask |-> IF k = 1 THEN s.nonempty_mask \ {l}
                                             ELSE s.nonempty_mask]
  <2> HIDE DEF b
  <2> QED
    BY DropBackIs
<1>7. Front(L) = Shorter(L, s.pos[b])
  <2>1. Front(L) = [i \in 1 .. k - 1 |-> L[i]]
    BY <1>1, FrontIs
  <2>2. \A i \in 1 .. k - 1 : i # k
    BY <1>1
  <2>3. Shorter(L, k) = [i \in 1 .. k - 1 |-> L[i]]
    BY <2>2 DEF Shorter
  <2> QED
    BY <1>3, <2>1, <2>3
<1>8. [s.pos EXCEPT ![b] = kNotInList]
        = [m \in SlabNode |-> IF m = b THEN kNotInList
                              ELSE IF m = L[k] THEN s.pos[b] ELSE s.pos[m]]
  BY <1>2, <1>3, <1>4
<1> HIDE DEF b
<1>9. Dropped(s, l, b) = DropBack(s, l, b)
  BY <1>6, <1>7, <1>8 DEF Dropped
<1> QED
  BY <1>3, <1>5, <1>9 DEF b

(* remove_free takes a block out from wherever it is.                      *)
LEMMA RemoveIsDropped ==
  ASSUME NEW s \in SlabRecord, NEW F \in SUBSET SlabNode, Listed(s, F), NEW n \in F
  PROVE  remove_free(s, level_of(n), n) = Dropped(s, level_of(n), n)
<1> DEFINE l == level_of(n)
           L == s.free_lists[l]
           k == Len(L)
           b == L[k]
           p == s.pos[n]
           M == [L EXCEPT ![p] = b]
           s1 == [s EXCEPT !.free_lists[l][p] = b, !.pos[b] = p]
<1>1. n \in SlabNode /\ l \in Levels /\ p \in DOMAIN L /\ L[p] = n
  BY SlabTree DEF Listed
<1>2. L # <<>>
  BY <1>1
<1>3. /\ L \in Seq(SlabNode) /\ k \in Nat \ {0} /\ DOMAIN L = 1 .. k
      /\ \A i \in DOMAIN L : L[i] \in F /\ level_of(L[i]) = l /\ s.pos[L[i]] = i
  <2> HIDE DEF l
  <2> QED
    BY <1>1, <1>2, ListFacts
<1>4. k \in DOMAIN L /\ b \in F /\ b \in SlabNode /\ back(s, l) = b
  BY <1>3 DEF back, Last
<1>5. /\ s.pos \in [SlabNode -> Int] /\ s.free_lists \in [Levels -> Seq(SlabNode)]
      /\ s = [nodes |-> s.nodes, pos |-> s.pos, free_lists |-> s.free_lists,
              nonempty_mask |-> s.nonempty_mask]
  BY DEF SlabRecord
<1>6. remove_free(s, l, n) = DropBack(s1, l, n)
  BY <1>4 DEF remove_free
<1> HIDE DEF l, b, p, k
<1>7. /\ s1 = [nodes |-> s.nodes, pos |-> [s.pos EXCEPT ![b] = p],
               free_lists |-> [s.free_lists EXCEPT ![l] = M],
               nonempty_mask |-> s.nonempty_mask]
      /\ s1.free_lists[l] = M
  <2>1. s1 = [nodes |-> s.nodes, pos |-> [s.pos EXCEPT ![b] = p],
              free_lists |-> [s.free_lists EXCEPT ![l] = [s.free_lists[l] EXCEPT ![p] = b]],
              nonempty_mask |-> s.nonempty_mask]
    <3> DEFINE f == [s.free_lists EXCEPT ![l] = [s.free_lists[l] EXCEPT ![p] = b]]
    <3>1. s1 = [s EXCEPT !.free_lists = f, !.pos[b] = p]
      OBVIOUS
    <3>2. f = [s.free_lists EXCEPT ![l] = [s.free_lists[l] EXCEPT ![p] = b]]
      OBVIOUS
    <3> HIDE DEF f, s1, L
    <3>3. s1 = [nodes |-> s.nodes, pos |-> [s.pos EXCEPT ![b] = p], free_lists |-> f,
                nonempty_mask |-> s.nonempty_mask]
      <4> DEFINE t == [s EXCEPT !.free_lists = f]
                 q == [s.pos EXCEPT ![b] = p]
      <4>1. PICK a, c, d, e : s = [nodes |-> a, pos |-> c, free_lists |-> d, nonempty_mask |-> e]
        BY <1>5
      <4>2. t = [nodes |-> a, pos |-> c, free_lists |-> f, nonempty_mask |-> e]
        BY <4>1
      <4>3. s1 = [t EXCEPT !.pos[b] = p]
        BY <3>1
      <4> HIDE DEF t
      <4>4. t.pos = s.pos /\ [t EXCEPT !.pos[b] = p] = [t EXCEPT !.pos = [t.pos EXCEPT ![b] = p]]
        BY <4>1, <4>2
      <4>5. [t EXCEPT !.pos[b] = p] = [t EXCEPT !.pos = q]
        BY <4>4
      <4> HIDE DEF q
      <4>6. [t EXCEPT !.pos = q] = [nodes |-> a, pos |-> q, free_lists |-> f, nonempty_mask |-> e]
        BY <4>2
      <4>7. s.nodes = a /\ s.nonempty_mask = e
        BY <4>1
      <4> QED
        BY <4>3, <4>5, <4>6, <4>7 DEF q
    <3> QED
      BY <3>2, <3>3
  <2> QED
    BY <1>1, <1>5, <2>1
<1>8. M \in Seq(SlabNode) /\ Len(M) = k /\ M # <<>>
  <2>1. M \in Seq(SlabNode) /\ Len(M) = Len(L)
    BY <1>1, <1>3, <1>4
  <2> QED
    BY <1>3, <2>1, EmptySeq DEF k
<1>9. DropBack(s1, l, n)
        = [nodes |-> s.nodes, pos |-> [[s.pos EXCEPT ![b] = p] EXCEPT ![n] = kNotInList],
           free_lists |-> [s.free_lists EXCEPT ![l] = Front(M)],
           nonempty_mask |-> IF k = 1 THEN s.nonempty_mask \ {l} ELSE s.nonempty_mask]
  <2>1. s1.pos = [s.pos EXCEPT ![b] = p] /\ s1.nodes = s.nodes
        /\ s1.free_lists = [s.free_lists EXCEPT ![l] = M] /\ s1.nonempty_mask = s.nonempty_mask
    BY <1>7
  <2>2. s1 \in SlabRecord
    <3>1. [s.pos EXCEPT ![b] = p] \in [SlabNode -> Int]
      BY <1>3, <1>1, <1>5
    <3>2. [s.free_lists EXCEPT ![l] = M] \in [Levels -> Seq(SlabNode)]
      BY <1>5, <1>8
    <3> HIDE DEF M
    <3> QED
      BY <1>7, <3>1, <3>2 DEF SlabRecord
  <2> HIDE DEF s1, M
  <2>3. DropBack(s1, l, n)
          = [nodes |-> s1.nodes, pos |-> [s1.pos EXCEPT ![n] = kNotInList],
             free_lists |-> [s1.free_lists EXCEPT ![l] = Front(M)],
             nonempty_mask |-> IF Len(M) = 1 THEN s1.nonempty_mask \ {l}
                               ELSE s1.nonempty_mask]
    <3>1. DropBack(s1, l, n)
            = [nodes |-> s1.nodes, pos |-> [s1.pos EXCEPT ![n] = kNotInList],
               free_lists |-> [s1.free_lists EXCEPT ![l] = Front(s1.free_lists[l])],
               nonempty_mask |-> IF Len(s1.free_lists[l]) = 1 THEN s1.nonempty_mask \ {l}
                                 ELSE s1.nonempty_mask]
      BY <2>2, DropBackIs
    <3>2. s1.free_lists[l] = M
      BY <1>7
    <3> QED
      BY <3>1, <3>2
  <2>4. [s1.free_lists EXCEPT ![l] = Front(M)] = [s.free_lists EXCEPT ![l] = Front(M)]
    BY <1>1, <1>5, <2>1
  <2> QED
    BY <1>8, <2>1, <2>3, <2>4
<1>10. Front(M) = Shorter(L, p)
  <2>1. Front(M) = [i \in 1 .. k - 1 |-> M[i]]
    BY <1>8, FrontIs
  <2>2. \A i \in 1 .. k - 1 : i \in DOMAIN L
    BY <1>3
  <2>3. \A i \in 1 .. k - 1 : M[i] = IF i = p THEN b ELSE L[i]
    BY <2>2
  <2>4. Shorter(L, p) = [i \in 1 .. k - 1 |-> IF i = p THEN b ELSE L[i]]
    BY DEF Shorter, k, b
  <2> HIDE DEF M
  <2> QED
    BY <2>1, <2>3, <2>4
<1>11. [[s.pos EXCEPT ![b] = p] EXCEPT ![n] = kNotInList]
         = [m \in SlabNode |-> IF m = n THEN kNotInList ELSE IF m = b THEN p ELSE s.pos[m]]
  BY <1>1, <1>4, <1>5
<1>12. Dropped(s, l, n)
         = [nodes |-> s.nodes,
            pos |-> [m \in SlabNode |-> IF m = n THEN kNotInList ELSE IF m = b THEN p ELSE s.pos[m]],
            free_lists |-> [s.free_lists EXCEPT ![l] = Shorter(L, p)],
            nonempty_mask |-> IF k = 1 THEN s.nonempty_mask \ {l} ELSE s.nonempty_mask]
  BY DEF Dropped, b, k, p
<1> HIDE DEF s1, M
<1>13. remove_free(s, l, n) = Dropped(s, l, n)
  BY <1>6, <1>9, <1>10, <1>11, <1>12
<1> QED
  BY <1>13 DEF l

(* A block and its buddy are the two children of their parent.             *)
LEMMA Siblings ==
  ASSUME NEW n \in SlabNode \ {0}
  PROVE  /\ buddy_of(n) \in SlabNode \ {0} /\ buddy_of(n) # n /\ buddy_of(buddy_of(n)) = n
         /\ parent_of(buddy_of(n)) = parent_of(n)
         /\ \A m \in SlabNode \ {0} : parent_of(m) = parent_of(n) => m \in {n, buddy_of(n)}
<1> DEFINE p == parent_of(n)
           b == buddy_of(n)
<1>1. n \in Nat /\ b \in SlabNode /\ b # n /\ b # 0
  BY SlabTree
<1>2. p \in Nat /\ \/ n = left_child_of(p) /\ b = right_child_of(p)
                   \/ n = right_child_of(p) /\ b = left_child_of(p)
  BY <1>1, ChildOfParent
<1> HIDE DEF p, b
<1>3. buddy_of(b) = n /\ parent_of(b) = p
  BY <1>2, ParentOfChild
<1>4. ASSUME NEW m \in SlabNode \ {0}, parent_of(m) = p PROVE m \in {n, b}
  <2>1. m \in Nat
    BY SlabTree
  <2>2. m = left_child_of(p) \/ m = right_child_of(p)
    BY <1>4, <2>1, ChildOfParent
  <2> QED
    BY <1>2, <2>2
<1> QED
  BY <1>1, <1>3, <1>4 DEF p, b

(* Handing a block out, or taking it back, leaves the tree a tree.         *)
LEMMA ShapeOfLeaf ==
  ASSUME NEW st \in [SlabNode -> NodeState], Shape(st), NEW n \in SlabNode,
         st[n] \in {"kFree", "kUsed"}, NEW v \in {"kFree", "kUsed"},
         NEW nx, nx = [st EXCEPT ![n] = v]
  PROVE  nx \in [SlabNode -> NodeState] /\ Shape(nx)
<1>1. nx \in [SlabNode -> NodeState] /\ nx[n] = v /\ \A m \in SlabNode \ {n} : nx[m] = st[m]
  BY DEF NodeState
<1>2. \A m \in SlabNode : /\ nx[m] = "kDetached" <=> st[m] = "kDetached"
                          /\ nx[m] = "kSplit" <=> st[m] = "kSplit"
  BY <1>1
<1>3. \A m \in SlabNode \ {0} : parent_of(m) \in SlabNode
  BY SlabTree
<1>4. 0 \in SlabNode
  BY SlabIsTop
<1> QED
  BY <1>1, <1>2, <1>3, <1>4 DEF Shape

(* So does splitting a block ...                                           *)
LEMMA ShapeOfSplit ==
  ASSUME NEW st \in [SlabNode -> NodeState], Shape(st), NEW n \in SlabNode, st[n] = "kFree",
         level_of(n) < H, NEW l, l = left_child_of(n), NEW r, r = right_child_of(n),
         NEW nx, nx = [st EXCEPT ![n] = "kSplit", ![l] = "kFree", ![r] = "kFree"]
  PROVE  /\ nx \in [SlabNode -> NodeState] /\ Shape(nx)
         /\ l \in SlabNode \ {0} /\ r \in SlabNode \ {0} /\ l # r /\ l # n /\ r # n
         /\ buddy_of(l) = r /\ buddy_of(r) = l /\ parent_of(l) = n
         /\ level_of(l) = level_of(n) + 1 /\ level_of(r) = level_of(n) + 1
         /\ st[l] = "kDetached" /\ st[r] = "kDetached"
         /\ nx[n] = "kSplit" /\ nx[l] = "kFree" /\ nx[r] = "kFree"
         /\ \A m \in SlabNode \ {n, l, r} : nx[m] = st[m]
<1>1. /\ l \in SlabNode \ {0} /\ r \in SlabNode \ {0} /\ l # r /\ l # n /\ r # n
      /\ level_of(l) = level_of(n) + 1 /\ level_of(r) = level_of(n) + 1
      /\ parent_of(l) = n /\ parent_of(r) = n /\ buddy_of(l) = r /\ buddy_of(r) = l
  BY SlabChildren
<1>2. /\ nx \in [SlabNode -> NodeState]
      /\ nx[n] = "kSplit" /\ nx[l] = "kFree" /\ nx[r] = "kFree"
      /\ \A m \in SlabNode \ {n, l, r} : nx[m] = st[m]
  BY <1>1 DEF NodeState
<1>3. st[l] = "kDetached" /\ st[r] = "kDetached"
  BY <1>1 DEF Shape
<1>4. 0 \in SlabNode /\ nx[0] # "kDetached"
  BY <1>1, <1>2, SlabIsTop DEF Shape
<1>5. ASSUME NEW m \in SlabNode \ {0} PROVE nx[m] = "kDetached" <=> nx[parent_of(m)] # "kSplit"
  <2> DEFINE p == parent_of(m)
  <2>1. /\ p \in SlabNode /\ p < m /\ p \in Nat /\ m \in Nat
        /\ st[m] = "kDetached" <=> st[p] # "kSplit"
    BY SlabTree DEF Shape
  <2>2. p = n => m \in {l, r}
    BY <1>1, Siblings
  <2> HIDE DEF p
  <2>3. CASE m \in {l, r}
    <3>1. p = n
      BY <1>1, <2>3 DEF p
    <3> QED
      BY <1>2, <2>3, <3>1 DEF p
  <2>4. CASE m \notin {l, r}
    <3>1. nx[p] = "kSplit" <=> st[p] = "kSplit"
      <4>1. p # n
        BY <2>2, <2>4
      <4> QED
        BY <1>2, <1>3, <2>1, <4>1
    <3>2. nx[m] = "kDetached" <=> st[m] = "kDetached"
      BY <1>2, <2>4
    <3> QED
      BY <2>1, <3>1, <3>2 DEF p
  <2> QED
    BY <2>3, <2>4
<1>6. \A m \in SlabNode : nx[m] = "kSplit" => level_of(m) < H
  BY <1>2 DEF Shape
<1> QED
  BY <1>1, <1>2, <1>3, <1>4, <1>5, <1>6 DEF Shape

(* ... and merging two free buddies.                                       *)
LEMMA ShapeOfMerge ==
  ASSUME NEW st \in [SlabNode -> NodeState], Shape(st), NEW n \in SlabNode \ {0},
         NEW b, b = buddy_of(n), NEW p, p = parent_of(n), st[n] = "kFree", st[b] = "kFree",
         NEW nx, nx = [st EXCEPT ![b] = "kDetached", ![n] = "kDetached", ![p] = "kFree"]
  PROVE  /\ nx \in [SlabNode -> NodeState] /\ Shape(nx)
         /\ b \in SlabNode \ {0} /\ b # n /\ p \in SlabNode /\ p # n /\ p # b
         /\ st[p] = "kSplit"
         /\ nx[n] = "kDetached" /\ nx[b] = "kDetached" /\ nx[p] = "kFree"
         /\ \A m \in SlabNode \ {n, b, p} : nx[m] = st[m]
<1>1. /\ b \in SlabNode \ {0} /\ b # n /\ p \in SlabNode /\ p \in Nat /\ n \in Nat /\ p < n
      /\ parent_of(b) = p /\ b \in Nat
      /\ \A m \in SlabNode \ {0} : parent_of(m) = p => m \in {n, b}
  BY SlabTree, Siblings
<1>2. p < b
  BY <1>1, SlabTree
<1>3. p # n /\ p # b
  BY <1>1, <1>2
<1>4. /\ nx \in [SlabNode -> NodeState]
      /\ nx[n] = "kDetached" /\ nx[b] = "kDetached" /\ nx[p] = "kFree"
      /\ \A m \in SlabNode \ {n, b, p} : nx[m] = st[m]
  BY <1>1, <1>3 DEF NodeState
<1>5. st[p] = "kSplit"
  BY DEF Shape
<1>6. 0 \in SlabNode /\ nx[0] # "kDetached"
  BY <1>1, <1>4, SlabIsTop DEF Shape
<1>7. ASSUME NEW m \in SlabNode \ {0} PROVE nx[m] = "kDetached" <=> nx[parent_of(m)] # "kSplit"
  <2> DEFINE q == parent_of(m)
  <2>1. q \in SlabNode /\ (st[m] = "kDetached" <=> st[q] # "kSplit")
    BY SlabTree DEF Shape
  <2>2. q = p => m \in {n, b}
    BY <1>1
  <2>3. m \in {n, b} => q = p
    BY <1>1
  <2> HIDE DEF q
  <2>4. CASE m \in {n, b}
    <3>1. nx[m] = "kDetached" /\ nx[q] = "kFree"
      BY <1>4, <2>3, <2>4
    <3> QED
      BY <3>1 DEF q
  <2>5. CASE m \notin {n, b}
    <3>1. q # p
      BY <2>2, <2>5
    <3>2. nx[q] = "kSplit" <=> st[q] = "kSplit"
      BY <1>4, <2>1, <3>1
    <3>3. nx[m] = "kDetached" <=> st[m] = "kDetached"
      BY <1>4, <1>5, <2>5
    <3> QED
      BY <2>1, <3>2, <3>3 DEF q
  <2> QED
    BY <2>4, <2>5
<1>8. \A m \in SlabNode : nx[m] = "kSplit" => level_of(m) < H
  BY <1>4 DEF Shape
<1> QED
  BY <1>1, <1>3, <1>4, <1>5, <1>6, <1>7, <1>8 DEF Shape

-----------------------------------------------------------------------------
(* The invariant of the loops.                                             *)

Free == {n \in SlabNode : slab.nodes[n] = "kFree"}

(* The free blocks but the one that a running loop has in hand.            *)
InLists == {n \in Free : loop = "idle" \/ n # g}

(* No free block has a free buddy, unless it is the one in hand.           *)
NoFreePair ==
  \A n \in SlabNode \ {0} :
    slab.nodes[n] = "kFree" /\ slab.nodes[buddy_of(n)] = "kFree" =>
      loop # "idle" /\ g \in {n, buddy_of(n)}

(* The block in hand is free, and a split is where it says it is.          *)
HandIsFree ==
  /\ loop # "idle" => slab.nodes[g] = "kFree"
  /\ loop = "split" => src = level_of(g) /\ src <= level

TreeInv ==
  /\ slab \in SlabRecord /\ loop \in {"idle", "split", "coalesce"}
  /\ g \in SlabNode /\ src \in Levels /\ level \in Levels
  /\ Shape(slab.nodes) /\ NoFreePair /\ HandIsFree
  /\ Listed(slab, InLists)

LEMMA ListedSame ==
  ASSUME NEW s, NEW t, NEW F, Listed(s, F), t.pos = s.pos, t.free_lists = s.free_lists,
         t.nonempty_mask = s.nonempty_mask
  PROVE  Listed(t, F)
BY DEF Listed

LEMMA WithNodes ==
  ASSUME NEW s \in SlabRecord, NEW t, NEW nx \in [SlabNode -> NodeState],
         t = [s EXCEPT !.nodes = nx]
  PROVE  /\ t \in SlabRecord /\ t.nodes = nx /\ t.pos = s.pos /\ t.free_lists = s.free_lists
         /\ t.nonempty_mask = s.nonempty_mask
BY DEF SlabRecord

LEMMA FreshIsTree == Init => TreeInv
<1> SUFFICES ASSUME Init PROVE TreeInv
  OBVIOUS
<1> DEFINE s0 == [nodes |-> [n \in SlabNode |-> IF n = 0 THEN "kFree" ELSE "kDetached"],
                  pos |-> [n \in SlabNode |-> kNotInList],
                  free_lists |-> [l \in Levels |-> <<>>],
                  nonempty_mask |-> {}]
<1>1. 0 \in SlabNode /\ level_of(0) = 0 /\ 0 \in Levels
  BY SlabIsTop, HeightFacts
<1>2. s0 \in SlabRecord /\ Listed(s0, {})
  <2>1. kNotInList \in Int
    BY DEF kNotInList
  <2>2. s0 \in SlabRecord
    BY <2>1 DEF SlabRecord, NodeState
  <2>3. Listed(s0, {})
    BY DEF Listed
  <2> QED
    BY <2>2, <2>3
<1>3. slab = push_free(s0, level_of(0), 0)
  BY <1>1 DEF Init, FreshSlab
<1>4. s0.nodes = [n \in SlabNode |-> IF n = 0 THEN "kFree" ELSE "kDetached"]
  OBVIOUS
<1> HIDE DEF s0
<1>5. slab \in SlabRecord /\ slab.nodes = s0.nodes /\ Listed(slab, {} \cup {0})
  BY <1>1, <1>2, <1>3, PushLists
<1>6. /\ \A n \in SlabNode : slab.nodes[n] = IF n = 0 THEN "kFree" ELSE "kDetached"
      /\ loop = "idle" /\ g = 0 /\ src = 0 /\ level = 0
  BY <1>4, <1>5 DEF Init
<1>7. Shape(slab.nodes)
  <2>1. \A n \in SlabNode \ {0} : parent_of(n) \in SlabNode
    BY SlabTree
  <2> QED
    BY <1>1, <1>6, <2>1 DEF Shape
<1>8. NoFreePair
  <2>1. \A n \in SlabNode \ {0} : slab.nodes[n] # "kFree"
    BY <1>6
  <2> QED
    BY <2>1 DEF NoFreePair
<1>9. Listed(slab, InLists)
  <2>1. InLists = {} \cup {0}
    BY <1>1, <1>6 DEF InLists, Free
  <2> QED
    BY <1>5, <2>1
<1> QED
  BY <1>1, <1>5, <1>6, <1>7, <1>8, <1>9 DEF TreeInv, HandIsFree

(* The level alloc_node starts from.                                       *)
LEMMA SourceLevelIs ==
  ASSUME NEW s, s.nonempty_mask \subseteq Levels, NEW l \in Levels,
         \E k \in s.nonempty_mask : k <= l
  PROVE  /\ SourceLevel(s, l) \in s.nonempty_mask /\ SourceLevel(s, l) <= l
         /\ \A j \in s.nonempty_mask : j <= l => j <= SourceLevel(s, l)
<1>1. Levels = 0 .. H /\ H \in Nat
  BY HeightFacts
<1> DEFINE gaps == {l - k : k \in {j \in s.nonempty_mask : j <= l}}
<1>2. gaps \in SUBSET Nat /\ gaps # {}
  BY <1>1
<1>3. PICK d \in gaps : \A e \in gaps : d <= e
  BY <1>2, LeastElement
<1>4. PICK k \in s.nonempty_mask : k <= l /\ d = l - k
  OBVIOUS
<1>5. \A j \in s.nonempty_mask : j <= l => j <= k
  <2> SUFFICES ASSUME NEW j \in s.nonempty_mask, j <= l PROVE j <= k
    OBVIOUS
  <2>1. l - j \in gaps
    OBVIOUS
  <2>2. d <= l - j
    BY <1>3, <2>1
  <2> QED
    BY <1>1, <1>4, <2>2
<1>6. \E x \in s.nonempty_mask : x <= l /\ \A j \in s.nonempty_mask : j <= l => j <= x
  BY <1>4, <1>5
<1> QED
  BY <1>6 DEF SourceLevel

LEMMA AllocBeginTree ==
  ASSUME TreeInv, NEW l \in Levels, AllocBegin(l)
  PROVE  TreeInv'
<1> DEFINE from == SourceLevel(slab, l)
           b == back(slab, from)
<1>1. /\ slab \in SlabRecord /\ Shape(slab.nodes) /\ NoFreePair /\ Listed(slab, InLists)
      /\ loop = "idle" /\ InLists = Free /\ slab.nonempty_mask \subseteq Levels
      /\ InLists \in SUBSET SlabNode
  BY DEF TreeInv, AllocBegin, InLists, Free, SlabRecord
<1>2. from \in slab.nonempty_mask /\ from <= l
  <2>1. \E k \in slab.nonempty_mask : k <= l
    BY DEF AllocBegin
  <2> QED
    BY <1>1, <2>1, SourceLevelIs
<1>3. g' = b /\ slab' = pop_free(slab, from) /\ src' = from /\ level' = l /\ loop' = "split"
  BY DEF AllocBegin
<1> HIDE DEF from
<1>4. from \in Levels /\ slab.free_lists[from] # <<>>
  BY <1>1, <1>2 DEF Listed
<1>5. b \in InLists /\ level_of(b) = from /\ slab' = Dropped(slab, from, b)
  BY <1>1, <1>3, <1>4, PopIsDropped
<1> HIDE DEF b
<1>6. slab' = Dropped(slab, level_of(b), b)
  BY <1>5
<1>7. slab' \in SlabRecord /\ slab'.nodes = slab.nodes /\ Listed(slab', InLists \ {b})
  BY <1>1, <1>5, <1>6, DropLists
<1>8. InLists' = InLists \ {b}
  BY <1>1, <1>3, <1>7 DEF InLists, Free
<1>9. b \in SlabNode /\ slab.nodes[b] = "kFree"
  BY <1>1, <1>5 DEF Free
<1>10. NoFreePair'
  BY <1>1, <1>7 DEF NoFreePair
<1>11. HandIsFree'
  BY <1>2, <1>3, <1>5, <1>7, <1>9 DEF HandIsFree
<1>12. Listed(slab, InLists)'
  BY <1>7, <1>8
<1>13. Shape(slab.nodes)'
  BY <1>1, <1>7
<1> QED
  BY <1>3, <1>4, <1>7, <1>9, <1>10, <1>11, <1>12, <1>13 DEF TreeInv

(* What one iteration of the split does to the nodes.                      *)
LEMMA SplitIs ==
  ASSUME TreeInv, Split, NEW l, l = left_child_of(g), NEW r, r = right_child_of(g)
  PROVE  /\ slab.nodes[g] = "kFree" /\ slab.nodes[l] = "kDetached" /\ slab.nodes[r] = "kDetached"
         /\ l \in SlabNode \ {0} /\ r \in SlabNode \ {0} /\ l # r /\ l # g /\ r # g
         /\ buddy_of(l) = r /\ buddy_of(r) = l
         /\ level_of(l) = level_of(g) + 1 /\ level_of(r) = level_of(g) + 1
         /\ slab'.nodes[g] = "kSplit" /\ slab'.nodes[l] = "kFree" /\ slab'.nodes[r] = "kFree"
         /\ \A m \in SlabNode \ {g, l, r} : slab'.nodes[m] = slab.nodes[m]
         /\ slab' \in SlabRecord /\ Shape(slab'.nodes) /\ Listed(slab', InLists \cup {r})
<1> DEFINE nx == [slab.nodes EXCEPT ![g] = "kSplit", ![l] = "kFree", ![r] = "kFree"]
           s1 == [slab EXCEPT !.nodes = nx]
<1>1. /\ slab \in SlabRecord /\ Shape(slab.nodes) /\ Listed(slab, InLists)
      /\ slab.nodes \in [SlabNode -> NodeState]
      /\ loop = "split" /\ g \in SlabNode /\ level \in Levels /\ src < level /\ src \in Levels
      /\ slab.nodes[g] = "kFree" /\ src = level_of(g) /\ InLists \in SUBSET SlabNode
      /\ InLists = Free \ {g}
  BY DEF TreeInv, Split, InLists, Free, SlabRecord, HandIsFree
<1>2. slab' = push_free([slab EXCEPT !.nodes[g] = "kSplit", !.nodes[l] = "kFree",
                                     !.nodes[r] = "kFree"], src + 1, r)
  BY DEF Split
<1>3. [slab EXCEPT !.nodes[g] = "kSplit", !.nodes[l] = "kFree", !.nodes[r] = "kFree"] = s1
  BY <1>1 DEF SlabRecord
<1>4. level_of(g) < H
  BY <1>1, HeightFacts
<1> HIDE DEF s1
<1>5. /\ nx \in [SlabNode -> NodeState] /\ Shape(nx)
      /\ l \in SlabNode \ {0} /\ r \in SlabNode \ {0} /\ l # r /\ l # g /\ r # g
      /\ buddy_of(l) = r /\ buddy_of(r) = l
      /\ level_of(l) = level_of(g) + 1 /\ level_of(r) = level_of(g) + 1
      /\ slab.nodes[l] = "kDetached" /\ slab.nodes[r] = "kDetached"
      /\ nx[g] = "kSplit" /\ nx[l] = "kFree" /\ nx[r] = "kFree"
      /\ \A m \in SlabNode \ {g, l, r} : nx[m] = slab.nodes[m]
  BY <1>1, <1>4, ShapeOfSplit
<1> HIDE DEF nx
<1>6. /\ s1 \in SlabRecord /\ s1.nodes = nx /\ s1.pos = slab.pos
      /\ s1.free_lists = slab.free_lists /\ s1.nonempty_mask = slab.nonempty_mask
  BY <1>1, <1>5, WithNodes DEF s1
<1>7. Listed(s1, InLists)
  BY <1>1, <1>6, ListedSame
<1>8. r \notin InLists
  BY <1>1, <1>5 DEF Free
<1>9. slab' = push_free(s1, level_of(r), r)
  BY <1>1, <1>2, <1>3, <1>5
<1>10. slab' \in SlabRecord /\ slab'.nodes = nx /\ Listed(slab', InLists \cup {r})
  BY <1>1, <1>5, <1>6, <1>7, <1>8, <1>9, PushLists
<1> QED
  BY <1>1, <1>5, <1>10

LEMMA SplitTree ==
  ASSUME TreeInv, Split
  PROVE  TreeInv'
<1> DEFINE l == left_child_of(g)
           r == right_child_of(g)
           nx == slab'.nodes
<1>1. /\ loop = "split" /\ g \in SlabNode /\ level \in Levels /\ src < level /\ src \in Levels
      /\ src = level_of(g) /\ InLists = Free \ {g} /\ NoFreePair
      /\ g' = l /\ src' = src + 1 /\ loop' = loop /\ level' = level
  BY DEF TreeInv, Split, InLists, Free, HandIsFree
<1>2. src + 1 \in Levels /\ src + 1 <= level
  BY <1>1, HeightFacts
<1> HIDE DEF l, r
<1>3. /\ slab.nodes[g] = "kFree" /\ slab.nodes[l] = "kDetached" /\ slab.nodes[r] = "kDetached"
      /\ l \in SlabNode \ {0} /\ r \in SlabNode \ {0} /\ l # r /\ l # g /\ r # g
      /\ buddy_of(l) = r /\ buddy_of(r) = l
      /\ level_of(l) = level_of(g) + 1 /\ level_of(r) = level_of(g) + 1
      /\ nx[g] = "kSplit" /\ nx[l] = "kFree" /\ nx[r] = "kFree"
      /\ \A m \in SlabNode \ {g, l, r} : nx[m] = slab.nodes[m]
      /\ slab' \in SlabRecord /\ Shape(nx) /\ Listed(slab', InLists \cup {r})
  BY SplitIs DEF l, r
<1>4. InLists' = InLists \cup {r}
  <2>1. InLists' = {n \in SlabNode : nx[n] = "kFree" /\ n # l}
    BY <1>1 DEF InLists, Free
  <2>2. InLists = {n \in SlabNode : slab.nodes[n] = "kFree" /\ n # g}
    BY <1>1 DEF Free
  <2> QED
    BY <1>3, <2>1, <2>2
<1>5. NoFreePair'
  <2> SUFFICES ASSUME NEW n \in SlabNode \ {0}, nx[n] = "kFree", nx[buddy_of(n)] = "kFree"
               PROVE  l \in {n, buddy_of(n)}
    BY <1>1 DEF NoFreePair
  <2> SUFFICES ASSUME n \notin {l, r} PROVE FALSE
    BY <1>3
  <2>1. buddy_of(n) \in SlabNode \ {0} /\ buddy_of(buddy_of(n)) = n
    BY Siblings
  <2>2. buddy_of(n) \notin {l, r}
    BY <1>3, <2>1
  <2>3. n # g /\ buddy_of(n) # g
    BY <1>3
  <2>4. slab.nodes[n] = "kFree" /\ slab.nodes[buddy_of(n)] = "kFree"
    BY <1>3, <2>1, <2>2, <2>3
  <2> QED
    BY <1>1, <2>3, <2>4 DEF NoFreePair
<1>6. HandIsFree'
  BY <1>1, <1>2, <1>3 DEF HandIsFree
<1>7. Listed(slab, InLists)'
  BY <1>3, <1>4
<1> QED
  BY <1>1, <1>2, <1>3, <1>5, <1>6, <1>7 DEF TreeInv

LEMMA AllocReturnTree ==
  ASSUME TreeInv, AllocReturn
  PROVE  TreeInv'
<1> DEFINE nx == [slab.nodes EXCEPT ![g] = "kUsed"]
<1>1. /\ slab \in SlabRecord /\ Shape(slab.nodes) /\ NoFreePair /\ Listed(slab, InLists)
      /\ slab.nodes \in [SlabNode -> NodeState]
      /\ loop = "split" /\ g \in SlabNode /\ slab.nodes[g] = "kFree" /\ InLists = Free \ {g}
  BY DEF TreeInv, AllocReturn, InLists, Free, SlabRecord, HandIsFree
<1>2. slab' = [slab EXCEPT !.nodes[g] = "kUsed"] /\ loop' = "idle" /\ g' = 0 /\ src' = 0 /\ level' = 0
  BY DEF AllocReturn, Idle
<1>3. slab' = [slab EXCEPT !.nodes = nx]
  BY <1>2
<1>4. nx \in [SlabNode -> NodeState] /\ Shape(nx)
  BY <1>1, ShapeOfLeaf
<1>5. nx[g] = "kUsed" /\ \A m \in SlabNode \ {g} : nx[m] = slab.nodes[m]
  BY <1>1
<1> HIDE DEF nx
<1>6. /\ slab' \in SlabRecord /\ slab'.nodes = nx /\ slab'.pos = slab.pos
      /\ slab'.free_lists = slab.free_lists /\ slab'.nonempty_mask = slab.nonempty_mask
  BY <1>1, <1>3, <1>4, WithNodes
<1>7. Listed(slab', InLists)
  BY <1>1, <1>6, ListedSame
<1>8. InLists' = InLists
  <2>1. InLists' = {n \in SlabNode : nx[n] = "kFree"}
    BY <1>2, <1>6 DEF InLists, Free
  <2> QED
    BY <1>1, <1>5, <2>1 DEF Free
<1>9. NoFreePair'
  <2> SUFFICES ASSUME NEW n \in SlabNode \ {0}, nx[n] = "kFree", nx[buddy_of(n)] = "kFree"
               PROVE  FALSE
    BY <1>2, <1>6 DEF NoFreePair
  <2>1. buddy_of(n) \in SlabNode /\ n # g /\ buddy_of(n) # g
    BY <1>5, Siblings
  <2> QED
    BY <1>1, <1>5, <2>1 DEF NoFreePair
<1>10. 0 \in SlabNode /\ 0 \in Levels
  BY SlabIsTop, HeightFacts
<1> QED
  BY <1>2, <1>4, <1>6, <1>7, <1>8, <1>9, <1>10 DEF TreeInv, HandIsFree

LEMMA FreeBeginTree ==
  ASSUME TreeInv, NEW n \in SlabNode, FreeBegin(n)
  PROVE  TreeInv'
<1> DEFINE nx == [slab.nodes EXCEPT ![n] = "kFree"]
<1>1. /\ slab \in SlabRecord /\ Shape(slab.nodes) /\ NoFreePair /\ Listed(slab, InLists)
      /\ slab.nodes \in [SlabNode -> NodeState]
      /\ loop = "idle" /\ slab.nodes[n] = "kUsed" /\ InLists = Free
  BY DEF TreeInv, FreeBegin, InLists, Free, SlabRecord
<1>2. /\ slab' = [slab EXCEPT !.nodes[n] = "kFree"]
      /\ g' = n /\ loop' = "coalesce" /\ src' = src /\ level' = level
  BY DEF FreeBegin
<1>3. slab' = [slab EXCEPT !.nodes = nx]
  BY <1>2
<1>4. nx \in [SlabNode -> NodeState] /\ Shape(nx)
  BY <1>1, ShapeOfLeaf
<1>5. nx[n] = "kFree" /\ \A m \in SlabNode \ {n} : nx[m] = slab.nodes[m]
  BY <1>1
<1> HIDE DEF nx
<1>6. /\ slab' \in SlabRecord /\ slab'.nodes = nx /\ slab'.pos = slab.pos
      /\ slab'.free_lists = slab.free_lists /\ slab'.nonempty_mask = slab.nonempty_mask
  BY <1>1, <1>3, <1>4, WithNodes
<1>7. Listed(slab', InLists)
  BY <1>1, <1>6, ListedSame
<1>8. InLists' = InLists
  <2>1. InLists' = {m \in SlabNode : nx[m] = "kFree" /\ m # n}
    BY <1>2, <1>6 DEF InLists, Free
  <2> QED
    BY <1>1, <1>5, <2>1 DEF Free
<1>9. NoFreePair'
  <2> SUFFICES ASSUME NEW m \in SlabNode \ {0}, nx[m] = "kFree", nx[buddy_of(m)] = "kFree",
                      n \notin {m, buddy_of(m)}
               PROVE  FALSE
    BY <1>2, <1>6 DEF NoFreePair
  <2>1. buddy_of(m) \in SlabNode
    BY Siblings
  <2> QED
    BY <1>1, <1>5, <2>1 DEF NoFreePair
<1> QED
  BY <1>2, <1>4, <1>5, <1>6, <1>7, <1>8, <1>9 DEF TreeInv, HandIsFree

(* What one iteration of the merge does to the nodes.                      *)
LEMMA CoalesceIs ==
  ASSUME TreeInv, Coalesce, NEW b, b = buddy_of(g), NEW p, p = parent_of(g)
  PROVE  /\ g \in SlabNode \ {0} /\ b \in SlabNode \ {0} /\ b # g
         /\ p \in SlabNode /\ p # g /\ p # b
         /\ slab.nodes[g] = "kFree" /\ slab.nodes[b] = "kFree" /\ slab.nodes[p] = "kSplit"
         /\ slab'.nodes[g] = "kDetached" /\ slab'.nodes[b] = "kDetached"
         /\ slab'.nodes[p] = "kFree"
         /\ \A m \in SlabNode \ {g, b, p} : slab'.nodes[m] = slab.nodes[m]
         /\ slab' \in SlabRecord /\ Shape(slab'.nodes) /\ Listed(slab', InLists \ {b})
<1> DEFINE nx == [slab.nodes EXCEPT ![b] = "kDetached", ![g] = "kDetached", ![p] = "kFree"]
           s1 == remove_free(slab, level_of(b), b)
<1>1. /\ slab \in SlabRecord /\ Shape(slab.nodes) /\ Listed(slab, InLists)
      /\ slab.nodes \in [SlabNode -> NodeState]
      /\ g \in SlabNode \ {0} /\ slab.nodes[g] = "kFree"
      /\ slab.nodes[b] = "kFree" /\ InLists = Free \ {g} /\ InLists \in SUBSET SlabNode
  BY DEF TreeInv, Coalesce, BuddyIsFree, is_root, InLists, Free, SlabRecord, HandIsFree
<1>2. slab' = [s1 EXCEPT !.nodes[b] = "kDetached", !.nodes[g] = "kDetached",
                         !.nodes[p] = "kFree"]
  BY DEF Coalesce
<1> HIDE DEF s1
<1>3. /\ nx \in [SlabNode -> NodeState] /\ Shape(nx)
      /\ b \in SlabNode \ {0} /\ b # g /\ p \in SlabNode /\ p # g /\ p # b
      /\ slab.nodes[p] = "kSplit"
      /\ nx[g] = "kDetached" /\ nx[b] = "kDetached" /\ nx[p] = "kFree"
      /\ \A m \in SlabNode \ {g, b, p} : nx[m] = slab.nodes[m]
  BY <1>1, ShapeOfMerge
<1>4. b \in InLists
  BY <1>1, <1>3 DEF Free
<1>5. s1 = Dropped(slab, level_of(b), b)
  BY <1>1, <1>4, RemoveIsDropped DEF s1
<1>6. s1 \in SlabRecord /\ s1.nodes = slab.nodes /\ Listed(s1, InLists \ {b})
  BY <1>1, <1>4, <1>5, DropLists
<1>7. slab' = [s1 EXCEPT !.nodes = nx]
  BY <1>2, <1>6 DEF SlabRecord
<1> HIDE DEF nx
<1>8. /\ slab' \in SlabRecord /\ slab'.nodes = nx /\ slab'.pos = s1.pos
      /\ slab'.free_lists = s1.free_lists /\ slab'.nonempty_mask = s1.nonempty_mask
  BY <1>3, <1>6, <1>7, WithNodes
<1>9. Listed(slab', InLists \ {b})
  BY <1>6, <1>8, ListedSame
<1> QED
  BY <1>1, <1>3, <1>8, <1>9

LEMMA CoalesceTree ==
  ASSUME TreeInv, Coalesce
  PROVE  TreeInv'
<1> DEFINE b == buddy_of(g)
           p == parent_of(g)
           nx == slab'.nodes
<1>1. /\ loop = "coalesce" /\ InLists = Free \ {g} /\ NoFreePair
      /\ g' = p /\ loop' = loop /\ src' = src /\ level' = level
      /\ src \in Levels /\ level \in Levels
  BY DEF TreeInv, Coalesce, InLists, Free
<1> HIDE DEF b, p
<1>2. /\ g \in SlabNode \ {0} /\ b \in SlabNode \ {0} /\ b # g
      /\ p \in SlabNode /\ p # g /\ p # b
      /\ slab.nodes[g] = "kFree" /\ slab.nodes[b] = "kFree" /\ slab.nodes[p] = "kSplit"
      /\ nx[g] = "kDetached" /\ nx[b] = "kDetached" /\ nx[p] = "kFree"
      /\ \A m \in SlabNode \ {g, b, p} : nx[m] = slab.nodes[m]
      /\ slab' \in SlabRecord /\ Shape(nx) /\ Listed(slab', InLists \ {b})
  BY CoalesceIs DEF b, p
<1>3. InLists' = InLists \ {b}
  <2>1. InLists' = {m \in SlabNode : nx[m] = "kFree" /\ m # p}
    BY <1>1 DEF InLists, Free
  <2> QED
    BY <1>1, <1>2, <2>1 DEF Free
<1>4. NoFreePair'
  <2> SUFFICES ASSUME NEW m \in SlabNode \ {0}, nx[m] = "kFree", nx[buddy_of(m)] = "kFree",
                      p \notin {m, buddy_of(m)}
               PROVE  FALSE
    BY <1>1 DEF NoFreePair
  <2>1. buddy_of(m) \in SlabNode /\ g \notin {m, buddy_of(m)} /\ b \notin {m, buddy_of(m)}
    BY <1>2, Siblings
  <2> QED
    BY <1>1, <1>2, <2>1 DEF NoFreePair
<1>5. HandIsFree'
  BY <1>1, <1>2 DEF HandIsFree
<1>6. Listed(slab, InLists)'
  BY <1>2, <1>3
<1> QED
  BY <1>1, <1>2, <1>4, <1>5, <1>6 DEF TreeInv

LEMMA FreeReturnTree ==
  ASSUME TreeInv, FreeReturn
  PROVE  TreeInv'
<1>1. /\ slab \in SlabRecord /\ Shape(slab.nodes) /\ NoFreePair /\ Listed(slab, InLists)
      /\ loop = "coalesce" /\ g \in SlabNode /\ slab.nodes[g] = "kFree" /\ InLists = Free \ {g}
      /\ ~BuddyIsFree /\ InLists \in SUBSET SlabNode /\ g \notin InLists
  BY DEF TreeInv, FreeReturn, InLists, Free, SlabRecord, HandIsFree
<1>2. /\ slab' = push_free(slab, level_of(g), g)
      /\ loop' = "idle" /\ g' = 0 /\ src' = 0 /\ level' = 0
  BY DEF FreeReturn, Idle
<1>3. slab' \in SlabRecord /\ slab'.nodes = slab.nodes /\ Listed(slab', InLists \cup {g})
  BY <1>1, <1>2, PushLists
<1>4. InLists' = InLists \cup {g}
  <2>1. InLists' = Free
    BY <1>2, <1>3 DEF InLists, Free
  <2> QED
    BY <1>1, <2>1 DEF Free
<1>5. NoFreePair'
  <2> SUFFICES ASSUME NEW n \in SlabNode \ {0}, slab.nodes[n] = "kFree",
                      slab.nodes[buddy_of(n)] = "kFree"
               PROVE  FALSE
    BY <1>3 DEF NoFreePair
  <2>1. g \in {n, buddy_of(n)}
    BY <1>1 DEF NoFreePair
  <2>2. buddy_of(n) \in SlabNode \ {0} /\ buddy_of(buddy_of(n)) = n
    BY Siblings
  <2>3. g # 0 /\ slab.nodes[buddy_of(g)] = "kFree"
    BY <2>1, <2>2
  <2> QED
    BY <1>1, <2>3 DEF BuddyIsFree, is_root
<1>6. 0 \in SlabNode /\ 0 \in Levels
  BY SlabIsTop, HeightFacts
<1>7. Listed(slab, InLists)'
  BY <1>3, <1>4
<1> QED
  BY <1>1, <1>2, <1>3, <1>5, <1>6, <1>7 DEF TreeInv, HandIsFree

LEMMA StepKeepsTree == TreeInv /\ [Next]_vars => TreeInv'
<1> SUFFICES ASSUME TreeInv, [Next]_vars PROVE TreeInv'
  OBVIOUS
<1>1. CASE UNCHANGED vars
  BY <1>1 DEF vars, TreeInv, Shape, NoFreePair, HandIsFree, Listed, InLists, Free
<1>2. CASE Next
  BY <1>2, AllocBeginTree, SplitTree, AllocReturnTree, FreeBeginTree, CoalesceTree, FreeReturnTree
     DEF Next
<1> QED
  BY <1>1, <1>2

LEMMA TreeAlways == Spec => []TreeInv
BY FreshIsTree, StepKeepsTree, PTL DEF Spec

-----------------------------------------------------------------------------
(* What the invariant says of the blocks in use.                           *)

LEMMA UsedIs == TreeInv => /\ Used = UsedIn(slab.nodes) /\ Used \in SUBSET SlabNode
                           /\ slab.nodes \in [SlabNode -> NodeState]
BY DEF Used, UsedIn, TreeInv, SlabRecord

(* Between calls the free blocks are those that the used blocks leave.     *)
LEMMA FreeIsFreeBlocks ==
  ASSUME TreeInv, loop = "idle"
  PROVE  /\ Coalesced(slab.nodes) /\ InLists = Free
         /\ FreeBlocks(ArenaLog2, Used) = Free
<1>1. Shape(slab.nodes) /\ slab.nodes \in [SlabNode -> NodeState]
  BY UsedIs DEF TreeInv
<1>2. Coalesced(slab.nodes)
  BY DEF TreeInv, NoFreePair, Coalesced
<1>3. FreeBlocks(ArenaLog2, UsedIn(slab.nodes)) = Free
  BY <1>1, <1>2, FreeBlocksAre DEF Free
<1> QED
  BY <1>2, <1>3, UsedIs DEF InLists, Free

(* The mask names the levels that hold a free block.                       *)
LEMMA MaskIs ==
  ASSUME TreeInv, loop = "idle"
  PROVE  \A k : k \in slab.nonempty_mask <=> \E f \in Free : level_of(f) = k
<1>1. /\ slab \in SlabRecord /\ Listed(slab, Free) /\ slab.nonempty_mask \subseteq Levels
      /\ Free \in SUBSET SlabNode
  BY FreeIsFreeBlocks DEF TreeInv, SlabRecord, Free
<1>2. ASSUME NEW k \in slab.nonempty_mask PROVE \E f \in Free : level_of(f) = k
  <2>1. k \in Levels /\ slab.free_lists[k] # <<>>
    BY <1>1 DEF Listed
  <2>2. back(slab, k) \in Free /\ level_of(back(slab, k)) = k
    BY <1>1, <2>1, PopIsDropped
  <2> QED
    BY <2>2
<1>3. ASSUME NEW f \in Free PROVE level_of(f) \in slab.nonempty_mask
  <2>1. f \in SlabNode /\ level_of(f) \in Levels
    BY <1>1, SlabTree
  <2>2. slab.pos[f] \in DOMAIN slab.free_lists[level_of(f)]
    BY <1>1, <2>1 DEF Listed
  <2>3. slab.free_lists[level_of(f)] # <<>>
    BY <2>2
  <2> QED
    BY <1>1, <2>1, <2>3 DEF Listed
<1> QED
  BY <1>2, <1>3

LEMMA AtLevelIs ==
  ASSUME NEW n \in Node, NEW l \in Levels
  PROVE  <<n, l>> \in AtLevel <=> level_of(n) = l
<1>1. l \in 0 .. max_level(MaxArenaLog2, MinLog2)
  BY HeightFacts DEF Depth
<1> QED
  BY <1>1 DEF AtLevel

LEMMA PiecesAre ==
  ASSUME NEW f \in Node, NEW l \in Levels
  PROVE  /\ Pieces(f, l) = {n \in SlabNode : level_of(n) = l /\ Extent(n) \subseteq Extent(f)}
         /\ level_of(f) <= l => Pieces(f, l) # {}
<1>1. \A n \in Node : <<n, l>> \in AtLevel <=> level_of(n) = l
  BY AtLevelIs
<1>2. \A n \in Node : <<f, n>> \in Encloses <=> Extent(n) \subseteq Extent(f)
  BY DEF Encloses
<1>3. \A n \in Node : level_of(n) = l => n \in SlabNode
  <2>1. l <= H
    BY HeightFacts
  <2> QED
    BY <2>1, SlabIsTop
<1>4. \A n \in SlabNode : n \in Node
  BY SlabIsTop
<1>5. Pieces(f, l) = {n \in SlabNode : level_of(n) = l /\ Extent(n) \subseteq Extent(f)}
  BY <1>1, <1>2, <1>3, <1>4 DEF Pieces
<1>6. ASSUME level_of(f) <= l PROVE Pieces(f, l) # {}
  <2>1. l \in 0 .. Depth
    BY HeightFacts
  <2>2. \E n \in Node : level_of(n) = l /\ Extent(n) \subseteq Extent(f)
    BY <1>6, <2>1, PieceExists
  <2> QED
    BY <1>3, <1>5, <2>2
<1> QED
  BY <1>5, <1>6

(* A block of a level is vacant exactly if a free block at least as large  *)
(* holds it.                                                               *)
LEMMA RoomIs ==
  ASSUME TreeInv, loop = "idle", NEW l \in Levels
  PROVE  HasRoom(ArenaLog2, Used, l) <=> \E f \in Free : level_of(f) <= l
<1>1. /\ Shape(slab.nodes) /\ slab.nodes \in [SlabNode -> NodeState]
      /\ Used = UsedIn(slab.nodes) /\ Used \in SUBSET SlabNode
      /\ Coalesced(slab.nodes) /\ FreeBlocks(ArenaLog2, Used) = Free /\ Free \in SUBSET SlabNode
  BY UsedIs, FreeIsFreeBlocks DEF TreeInv, Free
<1>2. \A n \in SlabNode : n \in Node /\ Extent(n) # {} /\ level_of(n) \in Nat
  BY SlabTree, ExtentFacts
<1>3. HasRoom(ArenaLog2, Used, l) <=> \E n \in SlabNode : level_of(n) = l /\ Vacant(Used, n)
  BY <1>2, AtLevelIs DEF HasRoom, SlabNode
<1>4. ASSUME NEW n \in SlabNode, level_of(n) = l, Vacant(Used, n)
      PROVE  \E f \in Free : level_of(f) <= l
  <2>1. \A u \in Used : Extent(u) \cap Extent(n) = {}
    BY <1>1, <1>4, VacantIs
  <2>2. slab.nodes[n] # "kUsed"
    BY <1>1, <1>2, <2>1 DEF UsedIn
  <2>3. slab.nodes[n] # "kSplit"
    <3> SUFFICES ASSUME slab.nodes[n] = "kSplit" PROVE FALSE
      OBVIOUS
    <3>1. PICK u \in Used : Extent(u) \subseteq Extent(n)
      BY <1>1, SplitHoldsUsed
    <3> QED
      BY <1>1, <1>2, <2>1, <3>1
  <2>4. CASE slab.nodes[n] = "kFree"
    BY <1>2, <1>4, <2>4 DEF Free
  <2>5. CASE slab.nodes[n] = "kDetached"
    <3>1. PICK a \in Blocks(slab.nodes) : level_of(a) < level_of(n) /\ Extent(n) \subseteq Extent(a)
      BY <1>1, <2>5, DetachedInBlock
    <3>2. a \in SlabNode /\ a \notin Used
      BY <1>2, <2>1, <3>1 DEF Blocks
    <3>3. a \in Free
      BY <1>1, <3>2 DEF Blocks, Free, UsedIn
    <3>4. level_of(a) <= l
      BY <1>2, <1>4, <3>1, <3>2
    <3> QED
      BY <3>3, <3>4
  <2> QED
    BY <1>1, <2>2, <2>3, <2>4, <2>5 DEF NodeState
<1>5. ASSUME NEW f \in Free, level_of(f) <= l
      PROVE  \E n \in SlabNode : level_of(n) = l /\ Vacant(Used, n)
  <2>1. f \in SlabNode /\ f \in Node /\ Vacant(Used, f)
    BY <1>1, <1>2 DEF FreeBlocks
  <2>2. PICK n \in SlabNode : level_of(n) = l /\ Extent(n) \subseteq Extent(f)
    BY <1>5, <2>1, PiecesAre
  <2>3. \A u \in Used : Extent(u) \cap Extent(f) = {}
    BY <1>1, <2>1, VacantIs
  <2>4. Vacant(Used, n)
    BY <1>1, <2>2, <2>3, VacantIs
  <2> QED
    BY <2>2, <2>4
<1> QED
  BY <1>3, <1>4, <1>5

(* And then there is one that alloc_node may hand out.                     *)
Large(l) == {f \in FreeBlocks(ArenaLog2, Used) : level_of(f) <= l}
Best(l) == {f \in Large(l) : \A h \in Large(l) : level_of(h) <= level_of(f)}

LEMMA CandidatesAre ==
  ASSUME NEW l
  PROVE  Candidates(ArenaLog2, Used, l)
           = {n \in SlabNode : \E f \in Best(l) : n \in Pieces(f, l)
                                                   /\ \A m \in Pieces(f, l) : n <= m}
BY DEF Candidates, Large, Best, SlabNode

LEMMA CandidateExists ==
  ASSUME NEW l \in Levels
  PROVE  Candidates(ArenaLog2, Used, l) # {} <=> Large(l) # {}
<1>1. FreeBlocks(ArenaLog2, Used) \subseteq SlabNode
  BY DEF FreeBlocks, SlabNode
<1>2. ASSUME Large(l) # {} PROVE Candidates(ArenaLog2, Used, l) # {}
  <2> DEFINE gaps == {l - level_of(f) : f \in Large(l)}
  <2>1. l \in Nat /\ \A f \in Large(l) : /\ f \in SlabNode /\ f \in Node /\ level_of(f) \in Nat
                                         /\ level_of(f) <= l
    BY <1>1, SlabTree, HeightFacts DEF Large
  <2>2. gaps \in SUBSET Nat /\ gaps # {}
    BY <1>2, <2>1
  <2>3. PICK d \in gaps : \A e \in gaps : d <= e
    BY <2>2, LeastElement
  <2>4. PICK f \in Large(l) : d = l - level_of(f)
    OBVIOUS
  <2>5. \A h \in Large(l) : level_of(h) <= level_of(f)
    <3> SUFFICES ASSUME NEW h \in Large(l) PROVE level_of(h) <= level_of(f)
      OBVIOUS
    <3>1. d <= l - level_of(h)
      BY <2>3
    <3> QED
      BY <2>1, <2>4, <3>1
  <2>6. f \in Best(l)
    BY <2>5 DEF Best
  <2>7. /\ Pieces(f, l) = {n \in SlabNode : level_of(n) = l /\ Extent(n) \subseteq Extent(f)}
        /\ Pieces(f, l) # {}
    BY <2>1, PiecesAre
  <2>8. Pieces(f, l) \in SUBSET Nat
    BY <2>7, SlabTree
  <2>9. PICK n \in Pieces(f, l) : \A m \in Pieces(f, l) : n <= m
    BY <2>7, <2>8, LeastElement
  <2>10. n \in SlabNode
    BY <2>7, <2>9
  <2> QED
    BY <2>6, <2>9, <2>10, CandidatesAre
<1>3. ASSUME Large(l) = {} PROVE Candidates(ArenaLog2, Used, l) = {}
  BY <1>3, CandidatesAre DEF Best
<1> QED
  BY <1>2, <1>3

(* Blocks of a lower level are larger.                                     *)
LEMMA BytesOrdered ==
  ASSUME NEW j \in Levels, NEW k \in Levels, j <= k
  PROVE  /\ block_bytes_at_level(ArenaLog2, j) \in Nat /\ block_bytes_at_level(ArenaLog2, k) \in Nat
         /\ block_bytes_at_level(ArenaLog2, k) <= block_bytes_at_level(ArenaLog2, j)
<1>1. /\ ArenaLog2 - j \in Exponent /\ ArenaLog2 - k \in Exponent
      /\ ArenaLog2 - k <= ArenaLog2 - j
  BY HeightFacts DEF Exponent
<1>2. /\ 2^(ArenaLog2 - j) \in Nat /\ 2^(ArenaLog2 - k) \in Nat
      /\ 2^(ArenaLog2 - k) <= 2^(ArenaLog2 - j)
  BY <1>1, PowerPositive, PowersOrdered
<1> QED
  BY <1>2 DEF block_bytes_at_level

(* The shallowest bit of the mask is the level of the largest free block.  *)
LEMMA LargestIs ==
  ASSUME TreeInv, loop = "idle"
  PROVE  LargestByMask = LargestFreeBlock(ArenaLog2, Used)
<1> DEFINE mask == slab.nonempty_mask
           B(f) == BlockBytes(ArenaLog2, f)
<1>1. /\ FreeBlocks(ArenaLog2, Used) = Free /\ Free \in SUBSET SlabNode
      /\ \A k : k \in mask <=> \E f \in Free : level_of(f) = k
      /\ mask \subseteq Levels
  BY FreeIsFreeBlocks, MaskIs DEF Free, TreeInv, SlabRecord
<1>2. LargestFreeBlock(ArenaLog2, Used) = IF Free = {} THEN 0 ELSE Max({B(f) : f \in Free})
  BY <1>1 DEF LargestFreeBlock
<1>3. LargestByMask = IF mask = {} THEN 0
                      ELSE block_bytes_at_level(ArenaLog2,
                             CHOOSE k \in mask : \A j \in mask : k <= j)
  BY DEF LargestByMask
<1>4. mask = {} <=> Free = {}
  BY <1>1
<1>5. ASSUME Free # {}
      PROVE  Max({B(f) : f \in Free}) = block_bytes_at_level(ArenaLog2,
                             CHOOSE k \in mask : \A j \in mask : k <= j)
  <2> HIDE DEF mask
  <2>1. mask \in SUBSET Nat /\ mask # {}
    BY <1>1, <1>4, <1>5, HeightFacts
  <2>2. PICK k \in mask : \A j \in mask : k <= j
    BY <2>1, LeastElement
  <2>3. (CHOOSE i \in mask : \A j \in mask : i <= j) = k
    <3> DEFINE c == CHOOSE i \in mask : \A j \in mask : i <= j
    <3>1. c \in mask /\ \A j \in mask : c <= j
      BY <2>2
    <3> HIDE DEF c
    <3>2. c <= k /\ k <= c /\ c \in Nat /\ k \in Nat
      BY <2>1, <2>2, <3>1
    <3>3. c = k
      BY <3>2
    <3> QED
      BY <3>3 DEF c
  <2>4. PICK f \in Free : level_of(f) = k
    BY <1>1
  <2> DEFINE S == {B(h) : h \in Free}
  <2>5. B(f) = block_bytes_at_level(ArenaLog2, k)
    BY <2>4 DEF BlockBytes
  <2>6. ASSUME NEW h \in Free PROVE B(h) \in Nat /\ B(f) \in Nat /\ B(h) <= B(f)
    <3>1. level_of(h) \in mask /\ k \in Levels /\ level_of(h) \in Levels /\ k <= level_of(h)
      BY <1>1, <2>2
    <3> QED
      BY <2>4, <3>1, BytesOrdered DEF BlockBytes
  <2> HIDE DEF B
  <2>7. Max(S) = B(f)
    <3>1. B(f) \in S /\ \A y \in S : y \in Nat /\ y <= B(f)
      BY <2>6
    <3> HIDE DEF S
    <3>2. B(f) \in S /\ \A y \in S : B(f) >= y
      BY <3>1
    <3> DEFINE c == CHOOSE x \in S : \A y \in S : x >= y
    <3>3. c \in S /\ \A y \in S : c >= y
      BY <3>2
    <3> HIDE DEF c
    <3>4. c = B(f)
      BY <3>1, <3>3
    <3> QED
      BY <3>4 DEF Max, c
  <2> QED
    BY <2>3, <2>5, <2>7
<1> HIDE DEF mask, B
<1> QED
  BY <1>2, <1>3, <1>4, <1>5

LEMMA TreeIsTruthful == TreeInv => MaskTellsTheTruth
<1> SUFFICES ASSUME TreeInv, loop = "idle"
             PROVE  /\ \A l \in Levels : (\E k \in slab.nonempty_mask : k <= l)
                                           <=> HasRoom(ArenaLog2, Used, l)
                    /\ \A l \in Levels : HasRoom(ArenaLog2, Used, l)
                                           <=> Candidates(ArenaLog2, Used, l) # {}
  BY LargestIs DEF MaskTellsTheTruth
<1>1. /\ FreeBlocks(ArenaLog2, Used) = Free
      /\ \A k : k \in slab.nonempty_mask <=> \E f \in Free : level_of(f) = k
  BY FreeIsFreeBlocks, MaskIs
<1>2. ASSUME NEW l \in Levels
      PROVE  /\ (\E k \in slab.nonempty_mask : k <= l) <=> \E f \in Free : level_of(f) <= l
             /\ HasRoom(ArenaLog2, Used, l) <=> \E f \in Free : level_of(f) <= l
             /\ Candidates(ArenaLog2, Used, l) # {} <=> \E f \in Free : level_of(f) <= l
  <2>1. (\E k \in slab.nonempty_mask : k <= l) <=> \E f \in Free : level_of(f) <= l
    BY <1>1
  <2>2. Large(l) # {} <=> \E f \in Free : level_of(f) <= l
    BY <1>1 DEF Large
  <2> QED
    BY <2>1, <2>2, RoomIs, CandidateExists
<1> QED
  BY <1>2

LEMMA TreeIsTyped == TreeInv => TypeOK
BY DEF TreeInv, TypeOK, SlabRecord

LEMMA TreeAgrees == TreeInv => ListsAgree
<1> SUFFICES ASSUME TreeInv PROVE ListsAgree
  OBVIOUS
<1>1. Listed(slab, InLists)
  BY DEF TreeInv
<1>2. \A n \in SlabNode : n \in InLists <=> slab.nodes[n] = "kFree" /\ (loop = "idle" \/ n # g)
  BY DEF InLists, Free
<1> QED
  BY <1>1, <1>2 DEF ListsAgree, Listed

(* In every state the lists, the back pointers and the mask of a slab      *)
(* agree with its nodes, in the middle of the loops too, and between calls *)
(* the mask answers every request as the blocks in use demand.             *)
THEOREM RecordsAgree == Spec => []SlabIsConsistent
<1>1. TreeInv => SlabIsConsistent
  BY TreeIsTyped, TreeAgrees, TreeIsTruthful DEF SlabIsConsistent
<1> QED
  BY <1>1, TreeAlways, PTL

LEMMA TreeIsCanonicalAlways == TreeInv => TreeIsCanonical
<1> SUFFICES ASSUME TreeInv PROVE TreeIsCanonical
  OBVIOUS
<1>1. /\ Shape(slab.nodes) /\ slab.nodes \in [SlabNode -> NodeState]
      /\ Used = UsedIn(slab.nodes) /\ NoFreePair /\ g \in SlabNode
  BY UsedIs DEF TreeInv
<1>2. CASE loop = "idle"
  <2>1. Coalesced(slab.nodes)
    BY <1>2, FreeIsFreeBlocks
  <2> QED
    BY <1>1, <1>2, <2>1, Canonical DEF TreeIsCanonical
<1>3. CASE loop # "idle"
  <2> DEFINE nx == [slab.nodes EXCEPT ![g] = "kUsed"]
  <2>1. slab.nodes[g] = "kFree"
    BY <1>3 DEF TreeInv, HandIsFree
  <2>2. nx \in [SlabNode -> NodeState] /\ Shape(nx)
    BY <1>1, <2>1, ShapeOfLeaf
  <2>3. nx[g] = "kUsed" /\ \A m \in SlabNode \ {g} : nx[m] = slab.nodes[m]
    BY <1>1
  <2>4. UsedIn(nx) = Used \cup {g}
    BY <1>1, <2>3 DEF UsedIn
  <2> HIDE DEF nx
  <2>5. Coalesced(nx)
    <3> SUFFICES ASSUME NEW n \in SlabNode \ {0}, nx[n] = "kFree", nx[buddy_of(n)] = "kFree"
                 PROVE  FALSE
      BY DEF Coalesced
    <3>1. buddy_of(n) \in SlabNode /\ g \notin {n, buddy_of(n)}
      BY <2>3, Siblings
    <3> QED
      BY <1>1, <2>3, <3>1 DEF NoFreePair
  <2>6. nx = CanonicalNodes(ArenaLog2, Used \cup {g})
    BY <2>2, <2>4, <2>5, Canonical
  <2> QED
    BY <1>3, <2>6 DEF TreeIsCanonical, nx
<1> QED
  BY <1>2, <1>3

-----------------------------------------------------------------------------
(* The bytes of the blocks add up to the slab.                             *)

Bytes == [n \in SlabNode |-> BlockBytes(ArenaLog2, n)]

SumInv == SumFunctionOnSet(Bytes, Blocks(slab.nodes)) = 2^ArenaLog2

LEMMA BlocksAreFinite ==
  ASSUME NEW st
  PROVE  /\ IsFiniteSet(Blocks(st)) /\ Blocks(st) \subseteq SlabNode
         /\ \A n \in SlabNode : Bytes[n] \in Nat
         /\ \A n \in SlabNode : Bytes[n] = block_bytes_at_level(ArenaLog2, level_of(n))
<1>1. node_count(H) - 1 \in Int /\ SlabNode = 0 .. node_count(H) - 1
  <2>1. H + 1 \in Exponent
    BY HeightFacts DEF Exponent
  <2> QED
    BY <2>1, PowerPositive, SlabIsTop DEF node_count
<1>2. IsFiniteSet(SlabNode)
  BY <1>1, FS_Interval
<1>3. Blocks(st) \subseteq SlabNode
  BY DEF Blocks
<1>4. ASSUME NEW n \in SlabNode
      PROVE  Bytes[n] \in Nat /\ Bytes[n] = block_bytes_at_level(ArenaLog2, level_of(n))
  <2>1. level_of(n) \in Levels
    BY SlabTree
  <2>2. level_of(n) <= level_of(n)
    BY <2>1, HeightFacts
  <2> QED
    BY <2>1, <2>2, BytesOrdered DEF Bytes, BlockBytes
<1> QED
  BY <1>2, <1>3, <1>4, FS_Subset

(* A split replaces a block by two of half its bytes, and a merge undoes   *)
(* that: either way the sum stays.                                         *)
LEMMA HalvesAddUp ==
  ASSUME NEW S \in SUBSET SlabNode, IsFiniteSet(S), NEW n \in SlabNode, n \notin S,
         NEW l \in SlabNode \ S, NEW r \in SlabNode \ S, l # r,
         level_of(l) = level_of(n) + 1, level_of(r) = level_of(n) + 1
  PROVE  SumFunctionOnSet(Bytes, S \cup {n}) = SumFunctionOnSet(Bytes, (S \cup {l}) \cup {r})
<1>1. \A m \in SlabNode : Bytes[m] \in Nat /\ Bytes[m] = block_bytes_at_level(ArenaLog2, level_of(m))
  BY BlocksAreFinite
<1>2. level_of(n) \in 0 .. H /\ level_of(l) \in 0 .. H /\ H \in Nat /\ H <= ArenaLog2
      /\ ArenaLog2 \in Nat
  BY SlabTree, HeightFacts
<1>3. Bytes[n] = Bytes[l] + Bytes[r]
  <2>1. level_of(n) \in Nat /\ level_of(n) < ArenaLog2
    BY <1>2
  <2>2. ArenaLog2 \in {ArenaLog2, MaxArenaLog2}
    OBVIOUS
  <2>3. block_bytes_at_level(ArenaLog2, level_of(n))
          = 2 * block_bytes_at_level(ArenaLog2, level_of(n) + 1)
    BY <2>1, <2>2, BytesHalve
  <2> QED
    BY <1>1, <2>3
<1>4. SumFunctionOnSet(Bytes, S \cup {n}) = SumFunctionOnSet(Bytes, S) + Bytes[n]
  BY <1>1, SumWith
<1>5. SumFunctionOnSet(Bytes, S \cup {l}) = SumFunctionOnSet(Bytes, S) + Bytes[l]
  BY <1>1, SumWith
<1>6. SumFunctionOnSet(Bytes, (S \cup {l}) \cup {r})
        = SumFunctionOnSet(Bytes, S \cup {l}) + Bytes[r]
  <2>1. IsFiniteSet(S \cup {l}) /\ r \notin S \cup {l} /\ \A m \in S \cup {l} : Bytes[m] \in Nat
    BY <1>1, FS_AddElement
  <2> QED
    BY <1>1, <2>1, SumWith
<1>7. SumFunctionOnSet(Bytes, S) \in Nat
  BY <1>1, SumIsNat
<1> QED
  BY <1>1, <1>3, <1>4, <1>5, <1>6, <1>7

LEMMA FreshAddsUp == Init => SumInv
<1> SUFFICES ASSUME Init PROVE SumInv
  OBVIOUS
<1>1. slab.nodes = [n \in SlabNode |-> IF n = 0 THEN "kFree" ELSE "kDetached"]
  BY DEF Init, FreshSlab, push_free
<1>2. 0 \in SlabNode /\ level_of(0) = 0
  BY SlabIsTop
<1>3. Blocks(slab.nodes) = {} \cup {0}
  BY <1>1, <1>2 DEF Blocks
<1>4. Bytes[0] = 2^ArenaLog2 /\ Bytes[0] \in Nat
  <2>1. ArenaLog2 - 0 = ArenaLog2
    BY HeightFacts
  <2> QED
    BY <1>2, <2>1, BlocksAreFinite DEF block_bytes_at_level
<1>5. SumFunctionOnSet(Bytes, {} \cup {0}) = SumFunctionOnSet(Bytes, {}) + Bytes[0]
  <2>1. IsFiniteSet({}) /\ 0 \notin {} /\ \A x \in {} : Bytes[x] \in Nat
    BY FS_EmptySet
  <2> QED
    BY <1>4, <2>1, SumWith
<1> QED
  BY <1>3, <1>4, <1>5, SumOfNothing DEF SumInv

LEMMA StepAddsUp == TreeInv /\ SumInv /\ [Next]_vars => SumInv'
<1> SUFFICES ASSUME TreeInv, SumInv, [Next]_vars PROVE SumInv'
  OBVIOUS
<1> USE DEF SumInv
<1>1. /\ slab \in SlabRecord /\ slab.nodes \in [SlabNode -> NodeState] /\ Shape(slab.nodes)
      /\ Listed(slab, InLists) /\ InLists \in SUBSET SlabNode /\ InLists \in SUBSET Free
      /\ g \in SlabNode /\ (loop # "idle" => slab.nodes[g] = "kFree")
  BY DEF TreeInv, SlabRecord, InLists, Free, HandIsFree
<1>2. SUFFICES ASSUME slab'.nodes # slab.nodes PROVE SumInv'
  OBVIOUS
<1>3. CASE UNCHANGED vars
  BY <1>2, <1>3 DEF vars
<1>4. ASSUME NEW l \in Levels, AllocBegin(l) PROVE SumInv'
  BY <1>2, <1>4 DEF AllocBegin, pop_free, DropBack
<1>5. CASE FreeReturn
  BY <1>2, <1>5 DEF FreeReturn, push_free
<1>6. CASE AllocReturn
  <2>1. slab'.nodes = [slab.nodes EXCEPT ![g] = "kUsed"] /\ slab.nodes[g] = "kFree"
    BY <1>1, <1>6 DEF AllocReturn, SlabRecord
  <2>2. Blocks(slab'.nodes) = Blocks(slab.nodes)
    BY <1>1, <2>1 DEF Blocks
  <2> QED
    BY <2>2
<1>7. ASSUME NEW n \in SlabNode, FreeBegin(n) PROVE SumInv'
  <2>1. slab'.nodes = [slab.nodes EXCEPT ![n] = "kFree"] /\ slab.nodes[n] = "kUsed"
    BY <1>1, <1>7 DEF FreeBegin, SlabRecord
  <2>2. Blocks(slab'.nodes) = Blocks(slab.nodes)
    BY <1>1, <2>1 DEF Blocks
  <2> QED
    BY <2>2
<1>8. CASE Split
  <2> DEFINE l == left_child_of(g)
             r == right_child_of(g)
             S == Blocks(slab.nodes) \ {g}
  <2> HIDE DEF l, r
  <2>1. /\ slab.nodes[g] = "kFree" /\ slab.nodes[l] = "kDetached" /\ slab.nodes[r] = "kDetached"
        /\ l \in SlabNode \ {0} /\ r \in SlabNode \ {0} /\ l # r /\ l # g /\ r # g
        /\ level_of(l) = level_of(g) + 1 /\ level_of(r) = level_of(g) + 1
        /\ slab'.nodes[g] = "kSplit" /\ slab'.nodes[l] = "kFree" /\ slab'.nodes[r] = "kFree"
        /\ \A m \in SlabNode \ {g, l, r} : slab'.nodes[m] = slab.nodes[m]
    BY <1>8, SplitIs DEF l, r
  <2>2. /\ Blocks(slab.nodes) = S \cup {g} /\ Blocks(slab'.nodes) = (S \cup {l}) \cup {r}
        /\ l \notin S /\ r \notin S
    BY <1>1, <2>1 DEF Blocks
  <2>3. IsFiniteSet(S) /\ S \in SUBSET SlabNode /\ g \notin S
    BY BlocksAreFinite, FS_Subset
  <2> HIDE DEF S
  <2> QED
    BY <1>1, <2>1, <2>2, <2>3, HalvesAddUp
<1>9. CASE Coalesce
  <2> DEFINE b == buddy_of(g)
             p == parent_of(g)
             S == (Blocks(slab.nodes) \ {g}) \ {b}
  <2> HIDE DEF b, p
  <2>1. /\ g \in SlabNode \ {0} /\ b \in SlabNode \ {0} /\ b # g
        /\ p \in SlabNode /\ p # g /\ p # b
        /\ slab.nodes[g] = "kFree" /\ slab.nodes[b] = "kFree" /\ slab.nodes[p] = "kSplit"
        /\ slab'.nodes[g] = "kDetached" /\ slab'.nodes[b] = "kDetached"
        /\ slab'.nodes[p] = "kFree"
        /\ \A m \in SlabNode \ {g, b, p} : slab'.nodes[m] = slab.nodes[m]
    BY <1>9, CoalesceIs DEF b, p
  <2>2. level_of(g) = level_of(p) + 1 /\ level_of(b) = level_of(p) + 1
    BY <2>1, SlabTree DEF b, p
  <2>3. /\ Blocks(slab.nodes) = (S \cup {g}) \cup {b} /\ Blocks(slab'.nodes) = S \cup {p}
        /\ g \notin S /\ b \notin S /\ p \notin S
    BY <1>1, <2>1 DEF Blocks
  <2>4. IsFiniteSet(S) /\ S \in SUBSET SlabNode
    BY BlocksAreFinite, FS_Subset
  <2> HIDE DEF S
  <2> QED
    BY <2>1, <2>2, <2>3, <2>4, HalvesAddUp
<1> QED
  BY <1>3, <1>4, <1>5, <1>6, <1>7, <1>8, <1>9 DEF Next

(* The blocks that are free, used or in hand partition the slab's bytes,   *)
(* and free buddies have merged, in every state of the loops.              *)
THEOREM BlocksTile == Spec => []SlabIsTiled
<1>1. TreeInv /\ SumInv => BlocksTileTheSlab
  <2> SUFFICES ASSUME TreeInv, SumInv PROVE BlocksTileTheSlab
    OBVIOUS
  <2>1. Shape(slab.nodes) /\ slab.nodes \in [SlabNode -> NodeState]
    BY DEF TreeInv, SlabRecord
  <2>2. ASSUME NEW a \in Blocks(slab.nodes), NEW b \in Blocks(slab.nodes), a # b
        PROVE  <<a, b>> \notin Overlap
    BY <2>1, <2>2, BlocksAreDisjoint DEF Overlap
  <2> QED
    BY <2>2 DEF BlocksTileTheSlab, Blocks, SumInv, Bytes
<1>2. TreeInv /\ SumInv => SlabIsTiled
  BY <1>1, TreeIsCanonicalAlways DEF SlabIsTiled
<1>3. Spec => []SumInv
  BY FreshAddsUp, StepAddsUp, TreeAlways, PTL DEF Spec
<1> QED
  BY <1>2, <1>3, TreeAlways, PTL

-----------------------------------------------------------------------------
(* The loops implement the abstract slab.                                  *)

(* While a block is split, the part in hand is the leftmost piece of a     *)
(* smallest free block that is large enough.                               *)
HandIsLeftmost ==
  loop = "split" =>
    \E f \in Best(level) : g \in Pieces(f, src) /\ \A m \in Pieces(f, src) : g <= m

(* Only the end of alloc_node and the start of free_node change what is    *)
(* in use.                                                                 *)
LEMMA UsedChanges ==
  ASSUME TreeInv
  PROVE  /\ \A l \in Levels : AllocBegin(l) => Used' = Used
         /\ Split => Used' = Used
         /\ AllocReturn => g \in SlabNode \ Used /\ Used' = Used \cup {g}
         /\ \A n \in SlabNode : FreeBegin(n) => n \in Used /\ Used' = Used \ {n}
         /\ Coalesce => Used' = Used
         /\ FreeReturn => Used' = Used
<1>1. /\ slab \in SlabRecord /\ slab.nodes \in [SlabNode -> NodeState] /\ Shape(slab.nodes)
      /\ Listed(slab, InLists) /\ InLists \in SUBSET SlabNode
      /\ g \in SlabNode /\ (loop # "idle" => slab.nodes[g] = "kFree")
  BY DEF TreeInv, SlabRecord, InLists, Free, HandIsFree
<1>2. ASSUME NEW l \in Levels, AllocBegin(l) PROVE Used' = Used
  BY <1>2 DEF AllocBegin, pop_free, DropBack, Used
<1>3. ASSUME Split PROVE Used' = Used
  <2> DEFINE l == left_child_of(g)
             r == right_child_of(g)
  <2> HIDE DEF l, r
  <2>1. /\ slab.nodes[g] = "kFree" /\ slab.nodes[l] = "kDetached" /\ slab.nodes[r] = "kDetached"
        /\ l \in SlabNode /\ r \in SlabNode
        /\ slab'.nodes[g] = "kSplit" /\ slab'.nodes[l] = "kFree" /\ slab'.nodes[r] = "kFree"
        /\ \A m \in SlabNode \ {g, l, r} : slab'.nodes[m] = slab.nodes[m]
    BY <1>3, SplitIs DEF l, r
  <2> QED
    BY <2>1 DEF Used
<1>4. ASSUME AllocReturn PROVE g \in SlabNode \ Used /\ Used' = Used \cup {g}
  <2>1. slab'.nodes = [slab.nodes EXCEPT ![g] = "kUsed"] /\ slab.nodes[g] = "kFree"
    BY <1>1, <1>4 DEF AllocReturn, SlabRecord
  <2> QED
    BY <1>1, <2>1 DEF Used
<1>5. ASSUME NEW n \in SlabNode, FreeBegin(n) PROVE n \in Used /\ Used' = Used \ {n}
  <2>1. slab'.nodes = [slab.nodes EXCEPT ![n] = "kFree"] /\ slab.nodes[n] = "kUsed"
    BY <1>1, <1>5 DEF FreeBegin, SlabRecord
  <2> QED
    BY <1>1, <2>1 DEF Used
<1>6. ASSUME Coalesce PROVE Used' = Used
  <2> DEFINE b == buddy_of(g)
             p == parent_of(g)
  <2> HIDE DEF b, p
  <2>1. /\ g \in SlabNode /\ b \in SlabNode /\ p \in SlabNode
        /\ slab.nodes[g] = "kFree" /\ slab.nodes[b] = "kFree" /\ slab.nodes[p] = "kSplit"
        /\ slab'.nodes[g] = "kDetached" /\ slab'.nodes[b] = "kDetached"
        /\ slab'.nodes[p] = "kFree"
        /\ \A m \in SlabNode \ {g, b, p} : slab'.nodes[m] = slab.nodes[m]
    BY <1>6, CoalesceIs DEF b, p
  <2> QED
    BY <2>1 DEF Used
<1>7. ASSUME FreeReturn PROVE Used' = Used
  BY <1>7 DEF FreeReturn, push_free, Used
<1> QED
  BY <1>2, <1>3, <1>4, <1>5, <1>6, <1>7

LEMMA LeftmostAtBegin ==
  ASSUME TreeInv, NEW l \in Levels, AllocBegin(l)
  PROVE  \E f \in Best(l) : g' \in Pieces(f, src') /\ \A m \in Pieces(f, src') : g' <= m
<1> DEFINE from == SourceLevel(slab, l)
           b == back(slab, from)
<1>1. /\ slab \in SlabRecord /\ Listed(slab, Free) /\ loop = "idle"
      /\ FreeBlocks(ArenaLog2, Used) = Free /\ slab.nonempty_mask \subseteq Levels
      /\ Free \in SUBSET SlabNode
      /\ \A k : k \in slab.nonempty_mask <=> \E f \in Free : level_of(f) = k
  <2>1. loop = "idle"
    BY DEF AllocBegin
  <2> QED
    BY <2>1, FreeIsFreeBlocks, MaskIs DEF TreeInv, SlabRecord, Free
<1>2. /\ from \in slab.nonempty_mask /\ from <= l
      /\ \A j \in slab.nonempty_mask : j <= l => j <= from
  <2>1. \E k \in slab.nonempty_mask : k <= l
    BY DEF AllocBegin
  <2> QED
    BY <1>1, <2>1, SourceLevelIs
<1>3. g' = b /\ src' = from
  BY DEF AllocBegin
<1> HIDE DEF from
<1>4. from \in Levels /\ slab.free_lists[from] # <<>>
  BY <1>1, <1>2 DEF Listed
<1>5. b \in Free /\ level_of(b) = from
  BY <1>1, <1>4, PopIsDropped
<1> HIDE DEF b
<1>6. b \in Best(l)
  BY <1>1, <1>2, <1>5 DEF Best, Large
<1>7. b \in SlabNode /\ b \in Node /\ b \in Nat
  BY <1>1, <1>5, SlabTree
<1>8. Pieces(b, from) = {n \in SlabNode : level_of(n) = from /\ Extent(n) \subseteq Extent(b)}
  BY <1>4, <1>7, PiecesAre
<1>9. ASSUME NEW m \in Pieces(b, from) PROVE m = b
  <2>1. m \in Node /\ level_of(m) = level_of(b) /\ Extent(m) \subseteq Extent(b) /\ Extent(m) # {}
    BY <1>5, <1>8, SlabTree, ExtentFacts
  <2>2. Extent(m) \cap Extent(b) # {}
    BY <2>1
  <2> QED
    BY <1>7, <2>1, <2>2, LevelIsDisjoint
<1>10. b \in Pieces(b, from) /\ \A m \in Pieces(b, from) : b <= m
  BY <1>5, <1>7, <1>8, <1>9
<1> QED
  BY <1>3, <1>6, <1>10

LEMMA LeftmostAfterSplit ==
  ASSUME TreeInv, Split, NEW f \in SlabNode, g \in Pieces(f, src), \A m \in Pieces(f, src) : g <= m
  PROVE  g' \in Pieces(f, src') /\ \A m \in Pieces(f, src') : g' <= m
<1>1. /\ g \in SlabNode /\ src = level_of(g) /\ src < level /\ src \in Levels /\ level \in Levels
      /\ g' = left_child_of(g) /\ src' = src + 1
  BY DEF TreeInv, Split, HandIsFree
<1> DEFINE l == left_child_of(g)
           k == src + 1
<1>2. src \in 0 .. H /\ level \in 0 .. H /\ H \in Nat /\ k \in Levels /\ level_of(g) < H
  BY <1>1, HeightFacts
<1>3. l \in SlabNode /\ level_of(l) = k /\ Extent(l) \subseteq Extent(g) /\ l = 2 * g + 1
  BY <1>1, <1>2, SlabChildren DEF left_child_of
<1>4. f \in Node /\ g \in Node /\ g \in Nat /\ level_of(f) \in Nat /\ Extent(g) # {}
  BY <1>1, SlabTree, ExtentFacts
<1> HIDE DEF l, k
<1>5. /\ Pieces(f, src) = {n \in SlabNode : level_of(n) = src /\ Extent(n) \subseteq Extent(f)}
      /\ Pieces(f, k) = {n \in SlabNode : level_of(n) = k /\ Extent(n) \subseteq Extent(f)}
  BY <1>1, <1>2, <1>4, PiecesAre
<1>6. Extent(g) \subseteq Extent(f)
  BY <1>5
<1>7. level_of(f) <= src
  <2>1. ~(src < level_of(f))
    BY <1>1, <1>4, <1>6, DeeperIsSmaller
  <2> QED
    BY <1>2, <1>4, <2>1
<1>8. l \in Pieces(f, k)
  BY <1>3, <1>5, <1>6
<1>9. ASSUME NEW m \in Pieces(f, k) PROVE l <= m
  <2> DEFINE p == parent_of(m)
  <2>1. m \in SlabNode /\ m \in Nat /\ level_of(m) = k /\ Extent(m) \subseteq Extent(f) /\ m # 0
    <3>1. k # 0
      BY <1>2 DEF k
    <3> QED
      BY <1>5, <3>1, SlabTree, SlabIsTop
  <2>2. /\ p \in SlabNode /\ p \in Nat /\ p \in Node /\ level_of(m) = level_of(p) + 1
        /\ level_of(p) \in Nat /\ Extent(m) \subseteq Extent(p) /\ Extent(m) # {}
    BY <2>1, SlabTree, ExtentFacts
  <2>3. m = 2 * p + 1 \/ m = 2 * p + 2
    BY <2>1, ChildOfParent DEF left_child_of, right_child_of
  <2> HIDE DEF p
  <2>4. level_of(p) = src
    BY <1>2, <2>1, <2>2 DEF k
  <2>5. Extent(f) \cap Extent(p) # {} /\ level_of(f) <= level_of(p)
    BY <1>7, <2>1, <2>2, <2>4
  <2>6. Extent(p) \subseteq Extent(f)
    BY <1>4, <2>2, <2>5, Laminar
  <2>7. g <= p
    BY <1>5, <2>2, <2>4, <2>6
  <2> QED
    BY <1>3, <1>4, <2>2, <2>3, <2>7
<1> QED
  BY <1>1, <1>8, <1>9 DEF l, k

LEMMA BestIsNode == ASSUME NEW l, NEW f \in Best(l) PROVE f \in SlabNode
BY DEF Best, Large, FreeBlocks, SlabNode

LEMMA StepStaysLeftmost == TreeInv /\ HandIsLeftmost /\ [Next]_vars => HandIsLeftmost'
<1> SUFFICES ASSUME TreeInv, HandIsLeftmost, [Next]_vars PROVE HandIsLeftmost'
  OBVIOUS
<1>1. CASE UNCHANGED vars
  BY <1>1 DEF vars, HandIsLeftmost, Best, Large, Used
<1>2. ASSUME NEW l \in Levels, AllocBegin(l) PROVE HandIsLeftmost'
  <2>1. Used' = Used /\ level' = l
    BY <1>2, UsedChanges DEF AllocBegin
  <2>2. \E f \in Best(l) : g' \in Pieces(f, src') /\ \A m \in Pieces(f, src') : g' <= m
    BY <1>2, LeftmostAtBegin
  <2>3. Best(l) = Best(level)'
    BY <2>1 DEF Best, Large
  <2> QED
    BY <2>2, <2>3 DEF HandIsLeftmost
<1>3. ASSUME Split PROVE HandIsLeftmost'
  <2>1. Used' = Used /\ level' = level /\ loop = "split"
    BY <1>3, UsedChanges DEF Split
  <2>2. PICK f \in Best(level) : g \in Pieces(f, src) /\ \A m \in Pieces(f, src) : g <= m
    BY <2>1 DEF HandIsLeftmost
  <2>3. f \in SlabNode
    BY BestIsNode
  <2>4. g' \in Pieces(f, src') /\ \A m \in Pieces(f, src') : g' <= m
    BY <1>3, <2>2, <2>3, LeftmostAfterSplit
  <2>5. Best(level) = Best(level)'
    BY <2>1 DEF Best, Large
  <2> QED
    BY <2>2, <2>4, <2>5 DEF HandIsLeftmost
<1>4. ASSUME AllocReturn \/ FreeReturn PROVE HandIsLeftmost'
  BY <1>4 DEF AllocReturn, FreeReturn, Idle, HandIsLeftmost
<1>5. ASSUME NEW n \in SlabNode, FreeBegin(n) PROVE HandIsLeftmost'
  BY <1>5 DEF FreeBegin, HandIsLeftmost
<1>6. ASSUME Coalesce PROVE HandIsLeftmost'
  BY <1>6 DEF Coalesce, HandIsLeftmost
<1> QED
  BY <1>1, <1>2, <1>3, <1>4, <1>5, <1>6 DEF Next

LEMMA LeftmostAlways == Spec => []HandIsLeftmost
<1>1. Init => HandIsLeftmost
  BY DEF Init, HandIsLeftmost
<1> QED
  BY <1>1, StepStaysLeftmost, TreeAlways, PTL DEF Spec

(* What alloc_node returns is a candidate of the abstract slab.            *)
LEMMA ReturnsCandidate ==
  ASSUME TreeInv, HandIsLeftmost, AllocReturn
  PROVE  g \in Candidates(ArenaLog2, Used, level) /\ level \in Levels
<1>1. loop = "split" /\ src = level /\ g \in SlabNode /\ level \in Levels
  BY DEF AllocReturn, TreeInv
<1>2. \E f \in Best(level) : g \in Pieces(f, level) /\ \A m \in Pieces(f, level) : g <= m
  BY <1>1 DEF HandIsLeftmost
<1> QED
  BY <1>1, <1>2, CandidatesAre

(* The loops of alloc_node and free_node implement the abstract slab: a    *)
(* call takes effect at one step of its loop, as the hand-out of a best    *)
(* fit or as the return of one block, and its other steps change nothing   *)
(* that the abstract slab shows.                                           *)
THEOREM SlabIsImplemented == Spec => ImplementsSlab
<1>1. Init => Slab!Init
  <2> SUFFICES ASSUME Init PROVE Used = {}
    BY DEF Slab!Init
  <2>1. slab.nodes = [n \in SlabNode |-> IF n = 0 THEN "kFree" ELSE "kDetached"]
    BY DEF Init, FreshSlab, push_free
  <2> QED
    BY <2>1 DEF Used
<1>2. TreeInv /\ HandIsLeftmost /\ [Next]_vars => [Slab!Next]_Used
  <2> SUFFICES ASSUME TreeInv, HandIsLeftmost, [Next]_vars
               PROVE  Slab!Next \/ Used' = Used
    OBVIOUS
  <2>1. CASE UNCHANGED vars
    BY <2>1 DEF vars, Used
  <2>2. CASE AllocReturn
    <3>1. g \in SlabNode \ Used /\ Used' = Used \cup {g}
      BY <2>2, UsedChanges
    <3>2. g \in Candidates(ArenaLog2, Used, level) /\ level \in Levels
      BY <2>2, ReturnsCandidate
    <3>3. Slab!Alloc(level)
      BY <3>1, <3>2 DEF Slab!Alloc
    <3> QED
      BY <3>2, <3>3 DEF Slab!Next
  <2>3. ASSUME NEW n \in SlabNode, FreeBegin(n) PROVE Slab!Next
    <3>1. n \in Used /\ Used' = Used \ {n}
      BY <2>3, UsedChanges
    <3> QED
      BY <3>1 DEF Slab!Next, Slab!Free
  <2>4. CASE \/ \E l \in Levels : AllocBegin(l)
             \/ Split \/ Coalesce \/ FreeReturn
    BY <2>4, UsedChanges
  <2> QED
    BY <2>1, <2>2, <2>3, <2>4 DEF Next
<1> QED
  BY <1>1, <1>2, TreeAlways, LeftmostAlways, PTL DEF Spec, ImplementsSlab, Slab!Spec
=============================================================================
