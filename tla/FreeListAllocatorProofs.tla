----------------------- MODULE FreeListAllocatorProofs -----------------------
(***************************************************************************)
(* What FreeListAllocator keeps for every ladder of size classes, every    *)
(* set of streams and request sizes, and every configuration.              *)
(***************************************************************************)
EXTENDS FreeListAllocator, BuddyMathProofs, SequenceTheorems

-----------------------------------------------------------------------------
(* The ladder.                                                             *)

SplitLog2 == ceil_log2(SmallLargeSplit)

(* The granularity divides the split point, both being powers of two.      *)
LEMMA LadderBasics ==
  /\ Granularity \in Nat \ {0} /\ SmallLargeSplit \in Nat \ {0}
  /\ SplitLog2 \in Exponent /\ SplitLog2 < WordBits /\ SmallLargeSplit = 2^SplitLog2
  /\ n_small \in Nat \ {0} /\ SmallLargeSplit = n_small * Granularity
<1>1. PICK g \in 0 .. WordBits - 1 : Granularity = 2^g
  BY ConfigAssumption DEF validate_config, is_power_of_two
<1>2. PICK t \in 0 .. WordBits - 1 : SmallLargeSplit = 2^t
  BY ConfigAssumption DEF validate_config, is_power_of_two
<1>3. g \in Exponent /\ t \in Exponent
  BY WordBitsAssumption DEF Exponent
<1>4. Granularity \in Nat \ {0} /\ SmallLargeSplit \in Nat \ {0}
  BY <1>1, <1>2, <1>3, PowerPositive
<1>5. g <= t
  BY <1>1, <1>2, <1>3, PowersOrdered, ConfigAssumption DEF validate_config
<1>6. PICK q \in Nat \ {0} : SmallLargeSplit = q * Granularity
  BY <1>1, <1>2, <1>3, <1>5, PowerDivides
<1>7. n_small = q
  BY <1>4, <1>6 DEF n_small
<1>8. SplitLog2 = t
  BY <1>2, <1>3, CeilLog2OfPower DEF SplitLog2
<1> QED
  BY <1>2, <1>3, <1>4, <1>6, <1>7, <1>8, WordBitsAssumption

(* The small rungs: every multiple of the granularity up to the split.     *)
LEMMA SmallClass ==
  ASSUME NEW x \in Nat \ {0}, x <= SmallLargeSplit
  PROVE  /\ size_class_of(x) \in 0 .. n_small - 1
         /\ x <= class_block_bytes(size_class_of(x))
<1> DEFINE c == (x + Granularity - 1) \div Granularity - 1
<1>1. size_class_of(x) = c
  BY DEF size_class_of
<1>2. c \in Nat /\ x <= (c + 1) * Granularity
  BY LadderBasics
<1>3. c < n_small
  <2>1. c * Granularity < x
    BY LadderBasics
  <2>2. c * Granularity < n_small * Granularity
    BY <1>2, <2>1, LadderBasics
  <2> QED
    BY <1>2, <2>2, LadderBasics
<1> QED
  BY <1>1, <1>2, <1>3, LadderBasics DEF class_block_bytes

LEMMA SmallBlock ==
  ASSUME NEW c \in Nat, c < n_small
  PROVE  /\ class_block_bytes(c) \in Nat \ {0}
         /\ class_block_bytes(c) <= SmallLargeSplit
         /\ size_class_of(class_block_bytes(c)) = c
<1> DEFINE x == (c + 1) * Granularity
<1>1. class_block_bytes(c) = x
  BY DEF class_block_bytes
<1>2. x \in Nat \ {0} /\ x <= SmallLargeSplit
  BY LadderBasics
<1>3. (x + Granularity - 1) \div Granularity = c + 1
  BY LadderBasics
<1> QED
  BY <1>1, <1>2, <1>3 DEF size_class_of

(* The large rungs: the powers of two above the split point.               *)
LEMMA LargeClass ==
  ASSUME NEW x \in Nat, SmallLargeSplit < x, x <= 2^WordBits
  PROVE  /\ ceil_log2(x) \in Exponent /\ SplitLog2 + 1 <= ceil_log2(x)
         /\ size_class_of(x) = n_small + ceil_log2(x) - (SplitLog2 + 1)
         /\ x <= class_block_bytes(size_class_of(x))
<1>1. ceil_log2(x) \in Exponent /\ x <= 2^ceil_log2(x)
  BY CeilLog2Spec
<1>2. SplitLog2 < ceil_log2(x)
  <2>1. 2^SplitLog2 < 2^ceil_log2(x)
    BY <1>1, LadderBasics, PowerPositive
  <2> QED
    BY <1>1, <2>1, LadderBasics, PowersOrdered
<1>3. size_class_of(x) = n_small + ceil_log2(x) - (SplitLog2 + 1)
  BY LadderBasics DEF size_class_of, SplitLog2
<1>4. class_block_bytes(size_class_of(x)) = 2^ceil_log2(x)
  <2>1. ~(size_class_of(x) < n_small)
    BY <1>1, <1>2, <1>3, LadderBasics DEF Exponent
  <2>2. SplitLog2 + 1 + size_class_of(x) - n_small = ceil_log2(x)
    BY <1>1, <1>3, LadderBasics DEF Exponent
  <2> QED
    BY <2>1, <2>2, Zenon DEF class_block_bytes, SplitLog2
<1> QED
  BY <1>1, <1>2, <1>3, <1>4, LadderBasics DEF Exponent

(* As far as a size_t reaches.                                             *)
Rung == 0 .. n_small + WordBits - (SplitLog2 + 1)

LEMMA LargeBlock ==
  ASSUME NEW c \in Rung, n_small <= c
  PROVE  /\ class_block_bytes(c) \in Nat \ {0}
         /\ class_block_bytes(c) <= 2^WordBits
         /\ size_class_of(class_block_bytes(c)) = c
<1> DEFINE k == SplitLog2 + 1 + c - n_small
<1>1. k \in Exponent /\ SplitLog2 < k /\ WordBits \in Exponent
  BY LadderBasics, WordBitsAssumption DEF Rung, Exponent
<1>2. class_block_bytes(c) = 2^k
  BY LadderBasics DEF class_block_bytes, SplitLog2, Rung
<1> HIDE DEF k
<1>3. 2^k \in Nat \ {0} /\ 2^k <= 2^WordBits /\ SmallLargeSplit < 2^k
  <2>1. 2^SplitLog2 < 2^k
    BY <1>1, LadderBasics, PowersOrdered
  <2>2. 2^k <= 2^WordBits
    BY <1>1, PowersOrdered DEF Exponent
  <2> QED
    BY <1>1, <2>1, <2>2, LadderBasics, PowerPositive
<1>4. size_class_of(2^k) = n_small + k - (SplitLog2 + 1)
  BY <1>1, <1>3, LargeClass, CeilLog2OfPower
<1> QED
  BY <1>2, <1>3, <1>4, LadderBasics DEF k, Rung, Exponent

(* A request is rounded up to the block of its class, ...                  *)
LEMMA ClassOfSize ==
  ASSUME NEW x \in Nat \ {0}, x <= 2^WordBits
  PROVE  size_class_of(x) \in Rung /\ x <= class_block_bytes(size_class_of(x))
<1>1. CASE x <= SmallLargeSplit
  BY <1>1, SmallClass, LadderBasics, WordBitsAssumption DEF Rung, Exponent
<1>2. CASE SmallLargeSplit < x
  BY <1>2, LargeClass, LadderBasics, WordBitsAssumption DEF Rung, Exponent
<1> QED
  BY <1>1, <1>2, LadderBasics

(* ... of which each class has its own, ...                                *)
LEMMA BlockOfClass ==
  ASSUME NEW c \in Rung
  PROVE  /\ class_block_bytes(c) \in Nat \ {0}
         /\ class_block_bytes(c) <= 2^WordBits
         /\ size_class_of(class_block_bytes(c)) = c
<1>1. c \in Nat
  BY LadderBasics DEF Rung, Exponent
<1>2. CASE c < n_small
  <2>1. 2^SplitLog2 <= 2^WordBits /\ 2^WordBits \in Nat
    BY LadderBasics, PowersOrdered, PowerPositive, WordBitsAssumption DEF Exponent
  <2> QED
    BY <1>1, <1>2, <2>1, SmallBlock, LadderBasics
<1>3. CASE n_small <= c
  BY <1>3, LargeBlock
<1> QED
  BY <1>1, <1>2, <1>3, LadderBasics

(* ... and larger requests have no smaller class.                          *)
LEMMA ClassMonotone ==
  ASSUME NEW x \in Nat \ {0}, NEW y \in Nat, x <= y, y <= 2^WordBits
  PROVE  size_class_of(x) <= size_class_of(y)
<1>1. 2^WordBits \in Nat
  BY PowerPositive, WordBitsAssumption DEF Exponent
<1>2. CASE y <= SmallLargeSplit
  BY <1>2, LadderBasics DEF size_class_of
<1>3. CASE x <= SmallLargeSplit /\ SmallLargeSplit < y
  BY <1>3, SmallClass, LargeClass, LadderBasics DEF Exponent
<1>4. CASE SmallLargeSplit < x
  <2>1. x <= 2^WordBits /\ SmallLargeSplit < y
    BY <1>1, <1>4, LadderBasics
  <2> QED
    BY <1>4, <2>1, CeilLog2Monotone, LargeClass, LadderBasics DEF Exponent
<1> QED
  BY <1>2, <1>3, <1>4, LadderBasics

LEMMA BlocksGrow ==
  ASSUME NEW c \in Rung, NEW d \in Rung, c < d
  PROVE  class_block_bytes(c) < class_block_bytes(d)
<1> SUFFICES ASSUME class_block_bytes(d) <= class_block_bytes(c) PROVE FALSE
  BY BlockOfClass
<1>1. d <= c
  BY BlockOfClass, ClassMonotone
<1> QED
  BY <1>1 DEF Rung

(* The classes of the pool serve every request up to the threshold.        *)
LEMMA ClassesAreRungs ==
  /\ LargeAlloc \in Nat \ {0} /\ size_class_of(LargeAlloc) \in Nat
  /\ Class \subseteq Rung
<1>1. LargeAlloc \in Nat \ {0} /\ LargeAlloc <= 2^WordBits
  BY LadderBasics, ConfigAssumption, PowerPositive, WordBitsAssumption
     DEF validate_config, Exponent
<1>2. size_class_of(LargeAlloc) \in Rung
  BY <1>1, ClassOfSize
<1> QED
  BY <1>1, <1>2, LadderBasics, WordBitsAssumption DEF Class, Rung, Exponent

LEMMA RequestHasClass ==
  ASSUME NEW bytes \in Nat \ {0}, bytes <= LargeAlloc
  PROVE  /\ size_class_of(bytes) \in Class
         /\ bytes <= class_block_bytes(size_class_of(bytes))
<1>1. LargeAlloc <= 2^WordBits /\ 2^WordBits \in Nat
  BY ConfigAssumption, PowerPositive, WordBitsAssumption DEF Exponent
<1>2. bytes <= 2^WordBits
  BY <1>1, ClassesAreRungs
<1>3. size_class_of(bytes) <= size_class_of(LargeAlloc)
  BY <1>1, ClassMonotone, ClassesAreRungs
<1> QED
  BY <1>2, <1>3, ClassOfSize DEF Class, Rung

(* What is left of a block of the pool is a size of the pool.              *)
LEMMA RestHasClass ==
  ASSUME NEW w \in Class, NEW rest \in Nat \ {0}, rest <= class_block_bytes(w)
  PROVE  size_class_of(rest) \in Class /\ size_class_of(rest) <= w
<1>1. w \in Rung
  BY ClassesAreRungs
<1>2. class_block_bytes(w) \in Nat /\ class_block_bytes(w) <= 2^WordBits
      /\ size_class_of(class_block_bytes(w)) = w
  BY <1>1, BlockOfClass
<1>3. 2^WordBits \in Nat
  BY PowerPositive, WordBitsAssumption DEF Exponent
<1>4. size_class_of(rest) <= w
  BY <1>2, ClassMonotone
<1>5. size_class_of(rest) \in Rung
  BY <1>2, <1>3, ClassOfSize
<1> QED
  BY <1>4, <1>5, ClassesAreRungs, LadderBasics, WordBitsAssumption DEF Class, Rung, Exponent

(* The block of a class tells its class.                                   *)
LEMMA ClassBlock ==
  ASSUME NEW c \in Class
  PROVE  /\ class_block_bytes(c) \in Nat \ {0}
         /\ size_class_of(class_block_bytes(c)) = c
BY BlockOfClass, ClassesAreRungs

-----------------------------------------------------------------------------
(* Where the blocks are: in the lists, parked, or with the clients.        *)

Listed(lists) == UNION {lists[c] : c \in Class}

(* A block of a class, in the carved part of its slab.                     *)
InPool(b, carved) ==
  /\ b \in Block /\ b.slab \in SlabId
  /\ b.off + b.bytes <= carved[b.slab]
  /\ \E c \in Class : b.bytes = class_block_bytes(c)

(* Every block is where it may be, and no two places share a byte.         *)
PoolSound(lists, parked, handles, carved) ==
  /\ \A c \in Class : \A b \in lists[c] :
       InPool(b, carved) /\ b.bytes = class_block_bytes(c)
  /\ \A p \in parked : InPool(p.block, carved)
  /\ \A a \in handles : a.slab # kBypassSlabId => InPool(BlockOf(a), carved)
  /\ \A b, e \in Listed(lists) : b # e => ~Overlaps(b, e)
  /\ \A p, q \in parked : p # q => ~Overlaps(p.block, q.block)
  /\ \A a, h \in handles : a # h => ~Overlaps(BlockOf(a), BlockOf(h))
  /\ \A b \in Listed(lists), p \in parked : ~Overlaps(b, p.block)
  /\ \A b \in Listed(lists), a \in handles : ~Overlaps(b, BlockOf(a))
  /\ \A a \in handles, p \in parked : ~Overlaps(BlockOf(a), p.block)

ClearOf(b, lists, parked, handles) ==
  /\ \A e \in Listed(lists) : ~Overlaps(e, b)
  /\ \A p \in parked : ~Overlaps(p.block, b)
  /\ \A a \in handles : ~Overlaps(BlockOf(a), b)

LEMMA OverlapIsSymmetric ==
  ASSUME NEW b \in Block, NEW c \in Block, Overlaps(b, c)
  PROVE  Overlaps(c, b)
BY DEF Overlaps, Block

LEMMA InPoolProperties ==
  ASSUME NEW b, NEW carved, InPool(b, carved)
  PROVE  /\ b \in Block /\ b.slab \in SlabId /\ b.slab # kBypassSlabId
         /\ b.off \in Nat /\ b.bytes \in Nat \ {0} /\ Overlaps(b, b)
         /\ size_class_of(b.bytes) \in Class
         /\ b.bytes = class_block_bytes(size_class_of(b.bytes))
<1>1. PICK c \in Class : b.bytes = class_block_bytes(c)
  BY DEF InPool
<1>2. b.bytes \in Nat \ {0} /\ size_class_of(b.bytes) = c
  BY <1>1, ClassBlock
<1>3. b \in Block /\ b.slab \in SlabId /\ b.off \in Nat /\ b.slab # kBypassSlabId
  BY DEF InPool, Block, SlabId, kBypassSlabId
<1> QED
  BY <1>1, <1>2, <1>3 DEF Overlaps

(* Giving parked blocks back to the lists of their classes.                *)
LEMMA GiveBackSound ==
  ASSUME NEW parked, NEW handles, NEW carved, classes \in [Class -> SUBSET Block],
         PoolSound(classes, parked, handles, carved), NEW entries \in SUBSET parked
  PROVE  /\ WithCached(BlocksOf(entries)) \in [Class -> SUBSET Block]
         /\ PoolSound(WithCached(BlocksOf(entries)), parked \ entries, handles, carved)
         /\ Listed(WithCached(BlocksOf(entries))) = Listed(classes) \cup BlocksOf(entries)
<1> DEFINE lists == WithCached(BlocksOf(entries))
<1>1. \A p \in entries : InPool(p.block, carved)
  BY DEF PoolSound
<1>2. \A b \in BlocksOf(entries) : b \in Block /\ InPool(b, carved)
  BY <1>1 DEF BlocksOf, InPool
<1>3. lists \in [Class -> SUBSET Block]
  BY <1>2 DEF WithCached
<1>4. \A c \in Class : \A b \in lists[c] :
        b \in classes[c] \/ (b \in BlocksOf(entries) /\ size_class_of(b.bytes) = c)
  BY DEF WithCached
<1>5. Listed(lists) = Listed(classes) \cup BlocksOf(entries)
  <2>1. ASSUME NEW b \in BlocksOf(entries) PROVE b \in Listed(lists)
    <3>1. size_class_of(b.bytes) \in Class
      BY <1>2, InPoolProperties
    <3> QED
      BY <3>1 DEF WithCached, Listed
  <2>2. Listed(classes) \subseteq Listed(lists)
    BY DEF WithCached, Listed
  <2>3. Listed(lists) \subseteq Listed(classes) \cup BlocksOf(entries)
    BY <1>4 DEF Listed
  <2> QED
    BY <2>1, <2>2, <2>3
<1> HIDE DEF lists
<1>6. ASSUME NEW c \in Class, NEW b \in lists[c]
      PROVE  InPool(b, carved) /\ b.bytes = class_block_bytes(c)
  BY <1>2, <1>4, InPoolProperties DEF PoolSound
<1>7. ASSUME NEW b \in Listed(lists), NEW e \in Listed(lists), b # e
      PROVE  ~Overlaps(b, e)
  <2>1. CASE b \in Listed(classes) /\ e \in Listed(classes)
    BY <1>7, <2>1 DEF PoolSound
  <2>2. CASE b \in Listed(classes) /\ e \in BlocksOf(entries)
    BY <2>2 DEF PoolSound, BlocksOf
  <2>3. CASE b \in BlocksOf(entries) /\ e \in Listed(classes)
    <3>1. ~Overlaps(e, b)
      BY <2>3 DEF PoolSound, BlocksOf
    <3>2. b \in Block /\ e \in Block
      BY <1>2, <2>3 DEF Listed
    <3> QED
      BY <3>1, <3>2, OverlapIsSymmetric
  <2>4. CASE b \in BlocksOf(entries) /\ e \in BlocksOf(entries)
    BY <1>7, <2>4 DEF PoolSound, BlocksOf
  <2> QED
    BY <1>5, <2>1, <2>2, <2>3, <2>4
<1>8. ASSUME NEW b \in Listed(lists), NEW p \in parked \ entries
      PROVE  ~Overlaps(b, p.block)
  BY <1>5 DEF PoolSound, BlocksOf
<1>9. ASSUME NEW b \in Listed(lists), NEW a \in handles
      PROVE  ~Overlaps(b, BlockOf(a))
  <2>1. CASE b \in Listed(classes)
    BY <2>1 DEF PoolSound
  <2>2. CASE b \in BlocksOf(entries)
    <3>1. ~Overlaps(BlockOf(a), b)
      BY <2>2 DEF PoolSound, BlocksOf
    <3> QED
      BY <3>1 DEF Overlaps
  <2> QED
    BY <1>5, <2>1, <2>2
<1> QED
  BY <1>3, <1>5, <1>6, <1>7, <1>8, <1>9 DEF PoolSound, lists

(* Handing a block out that is clear of the others.                        *)
LEMMA HandSound ==
  ASSUME NEW lists, NEW parked, NEW handles, NEW carved,
         PoolSound(lists, parked, handles, carved), NEW a,
         a.slab # kBypassSlabId => InPool(BlockOf(a), carved),
         ClearOf(BlockOf(a), lists, parked, handles)
  PROVE  PoolSound(lists, parked, handles \cup {a}, carved)
<1>1. \A h \in handles : ~Overlaps(BlockOf(h), BlockOf(a)) /\ ~Overlaps(BlockOf(a), BlockOf(h))
  BY DEF ClearOf, Overlaps
<1>2. \A p \in parked : ~Overlaps(BlockOf(a), p.block)
  BY DEF ClearOf, Overlaps
<1> QED
  BY <1>1, <1>2 DEF PoolSound, ClearOf

-----------------------------------------------------------------------------
(* What allocate finds without growing is sound.                           *)

HitSound(hit, c, parked, handles) ==
  /\ hit.lists \in [Class -> SUBSET Block]
  /\ hit.bump \in [SlabId -> Nat]
  /\ \A id \in SlabId : bump[id] <= hit.bump[id] /\ hit.bump[id] <= size[id]
  /\ PoolSound(hit.lists, parked, handles, hit.bump)
  /\ InPool(hit.block, hit.bump) /\ hit.block.bytes = class_block_bytes(c)
  /\ ClearOf(hit.block, hit.lists, parked, handles)

SlabsSound == /\ size \in [SlabId -> Nat] /\ bump \in [SlabId -> Nat]
              /\ \A id \in SlabId : bump[id] <= size[id]

(* A listed block shares no byte with anything else.                       *)
LEMMA ListedIsClear ==
  ASSUME NEW lists, NEW parked, NEW handles, NEW carved,
         PoolSound(lists, parked, handles, carved), NEW c \in Class, NEW b \in lists[c]
  PROVE  /\ InPool(b, carved) /\ b.bytes = class_block_bytes(c)
         /\ \A d \in Class : b \in lists[d] => d = c
         /\ \A e \in Listed(lists) : e # b => ~Overlaps(e, b) /\ ~Overlaps(b, e)
         /\ \A p \in parked : ~Overlaps(b, p.block) /\ ~Overlaps(p.block, b)
         /\ \A a \in handles : ~Overlaps(b, BlockOf(a)) /\ ~Overlaps(BlockOf(a), b)
<1>1. InPool(b, carved) /\ b.bytes = class_block_bytes(c) /\ b \in Listed(lists)
  BY DEF PoolSound, Listed
<1>2. ASSUME NEW d \in Class, b \in lists[d] PROVE d = c
  <2>1. b.bytes = class_block_bytes(d)
    BY <1>2 DEF PoolSound
  <2> QED
    BY <1>1, <2>1, ClassBlock
<1>3. \A e \in Listed(lists) : e # b => ~Overlaps(e, b) /\ ~Overlaps(b, e)
  BY <1>1 DEF PoolSound
<1>4. \A p \in parked : ~Overlaps(b, p.block) /\ ~Overlaps(p.block, b)
  BY <1>1 DEF PoolSound, Overlaps
<1>5. \A a \in handles : ~Overlaps(b, BlockOf(a)) /\ ~Overlaps(BlockOf(a), b)
  BY <1>1 DEF PoolSound, Overlaps
<1> QED
  BY <1>1, <1>2, <1>3, <1>4, <1>5

(* Shorter lists.                                                          *)
LEMMA FewerSound ==
  ASSUME NEW lists, NEW less, NEW parked, NEW handles, NEW carved,
         PoolSound(lists, parked, handles, carved),
         \A c \in Class : less[c] \subseteq lists[c]
  PROVE  PoolSound(less, parked, handles, carved) /\ Listed(less) \subseteq Listed(lists)
<1>1. Listed(less) \subseteq Listed(lists)
  BY DEF Listed
<1> QED
  BY <1>1 DEF PoolSound

(* The class itself has a block.                                           *)
LEMMA ClassHitSound ==
  ASSUME SlabsSound, NEW lists \in [Class -> SUBSET Block], NEW parked, NEW handles,
         PoolSound(lists, parked, handles, bump), NEW c \in Class,
         NEW hit \in ClassHit(lists, c)
  PROVE  HitSound(hit, c, parked, handles) /\ hit.bump = bump
<1>1. PICK b \in lists[c] : hit = [block |-> b, lists |-> [lists EXCEPT ![c] = @ \ {b}],
                                   bump |-> bump]
  BY DEF ClassHit
<1> DEFINE less == [lists EXCEPT ![c] = @ \ {b}]
<1>2. /\ less \in [Class -> SUBSET Block] /\ less[c] = lists[c] \ {b}
      /\ \A d \in Class : d # c => less[d] = lists[d]
  OBVIOUS
<1>3. hit.block = b /\ hit.lists = less /\ hit.bump = bump
  BY <1>1
<1> HIDE DEF less
<1>4. PoolSound(less, parked, handles, bump) /\ Listed(less) \subseteq Listed(lists)
  BY <1>2, FewerSound
<1>5. b \notin Listed(less)
  BY <1>2, ListedIsClear DEF Listed
<1>6. ClearOf(b, less, parked, handles)
  BY <1>4, <1>5, ListedIsClear DEF ClearOf
<1>7. InPool(b, bump) /\ b.bytes = class_block_bytes(c)
  BY ListedIsClear
<1>8. \A id \in SlabId : bump[id] <= bump[id]
  BY DEF SlabsSound
<1> QED
  BY <1>2, <1>3, <1>4, <1>6, <1>7, <1>8 DEF HitSound, SlabsSound

(* A larger block is split; its remainder has a class of its own.          *)
LEMMA SplitHitSound ==
  ASSUME SlabsSound, NEW lists \in [Class -> SUBSET Block], NEW parked, NEW handles,
         PoolSound(lists, parked, handles, bump), NEW c \in Class,
         NEW hit \in SplitHit(lists, c)
  PROVE  HitSound(hit, c, parked, handles)
<1> DEFINE need == class_block_bytes(c)
<1>0. PICK w \in SplitSource(lists, c) : \E b \in lists[w] :
        hit = [block |-> Piece(b, 0, need),
               lists |-> Recached(lists, size_class_of(b.bytes), b, need),
               bump |-> bump]
  BY DEF SplitHit
<1>1. PICK b \in lists[w] :
        hit = [block |-> Piece(b, 0, need),
               lists |-> Recached(lists, size_class_of(b.bytes), b, need),
               bump |-> bump]
  BY <1>0
<1>2. w \in Class /\ c < w /\ SplitsInto(w, c)
  BY <1>1 DEF SplitSource, Splittable
<1>3. InPool(b, bump) /\ b.bytes = class_block_bytes(w) /\ size_class_of(b.bytes) = w
  BY <1>2, ListedIsClear, ClassBlock
<1>4. /\ need \in Nat \ {0} /\ b.bytes \in Nat \ {0} /\ need < b.bytes
      /\ b.off \in Nat /\ b \in Block /\ b.slab \in SlabId /\ b.slab # kBypassSlabId
  BY <1>2, <1>3, ClassBlock, BlocksGrow, ClassesAreRungs, InPoolProperties
<1> DEFINE piece == Piece(b, 0, need)
           rest == Piece(b, need, b.bytes - need)
           r == size_class_of(rest.bytes)
           less == [lists EXCEPT ![w] = @ \ {b}]
           more == [less EXCEPT ![r] = @ \cup {rest}]
<1>5. /\ piece.slab = b.slab /\ piece.off = b.off /\ piece.bytes = need
      /\ rest.slab = b.slab /\ rest.off = b.off + need /\ rest.bytes = b.bytes - need
      /\ piece \in Block /\ rest \in Block
  BY <1>4 DEF Piece, Block
<1>6. r \in Class /\ rest.bytes = class_block_bytes(r)
  <2>1. r \in Class
    BY <1>2, <1>3, <1>4, <1>5, RestHasClass
  <2> QED
    BY <1>2, <1>3, <1>5, <2>1 DEF SplitsInto
<1>7. InPool(piece, bump) /\ InPool(rest, bump)
  <2>1. b.off + b.bytes <= bump[b.slab] /\ bump[b.slab] \in Nat
    BY <1>3, <1>4 DEF InPool, SlabsSound
  <2>2. piece.off + piece.bytes <= bump[piece.slab] /\ rest.off + rest.bytes <= bump[rest.slab]
    BY <1>4, <1>5, <2>1
  <2> QED
    BY <1>4, <1>5, <1>6, <2>2 DEF InPool
<1>8. hit.block = piece /\ hit.lists = more /\ hit.bump = bump
  BY <1>1, <1>3 DEF Recached
<1>9. /\ more \in [Class -> SUBSET Block]
      /\ \A d \in Class : \A e \in more[d] :
           \/ d = r /\ e = rest
           \/ e \in lists[d] /\ (d = w => e # b)
  BY <1>5, <1>6
<1> HIDE DEF piece, rest, r, less, more, need
<1>10. ASSUME NEW d \in Class, NEW e \in more[d]
       PROVE  InPool(e, bump) /\ e.bytes = class_block_bytes(d)
  BY <1>6, <1>7, <1>9, ListedIsClear
<1>11. ASSUME NEW e \in Listed(more), e # rest
       PROVE  e \in Listed(lists) /\ e # b
  <2>1. PICK d \in Class : e \in more[d]
    BY DEF Listed
  <2>2. e \in lists[d] /\ (d = w => e # b)
    BY <1>9, <1>11, <2>1
  <2> QED
    BY <1>1, <1>2, <2>2, ListedIsClear DEF Listed
<1>12. ASSUME NEW x, x.slab = b.slab => x.off \in Nat /\ x.bytes \in Nat, ~Overlaps(b, x)
       PROVE  /\ ~Overlaps(rest, x) /\ ~Overlaps(x, rest)
              /\ ~Overlaps(piece, x) /\ ~Overlaps(x, piece)
  BY <1>4, <1>5, <1>12 DEF Overlaps
<1>13. ASSUME NEW e \in Listed(lists), e # b
       PROVE  ~Overlaps(rest, e) /\ ~Overlaps(e, rest) /\ ~Overlaps(e, piece)
  <2>1. e \in Block
    BY DEF Listed
  <2>2. e.off \in Nat /\ e.bytes \in Nat
    BY <2>1 DEF Block
  <2>3. ~Overlaps(b, e)
    BY <1>1, <1>2, <1>13, ListedIsClear
  <2> QED
    BY <1>12, <2>2, <2>3
<1>14. ASSUME NEW p \in parked
       PROVE  ~Overlaps(rest, p.block) /\ ~Overlaps(p.block, piece)
  <2>1. p.block.off \in Nat /\ p.block.bytes \in Nat
    BY InPoolProperties DEF PoolSound
  <2>2. ~Overlaps(b, p.block)
    BY <1>1, <1>2, ListedIsClear
  <2> QED
    BY <1>12, <2>1, <2>2
<1>15. ASSUME NEW a \in handles
       PROVE  ~Overlaps(rest, BlockOf(a)) /\ ~Overlaps(BlockOf(a), piece)
  <2> DEFINE x == BlockOf(a)
  <2>1. x.slab = b.slab => x.off \in Nat /\ x.bytes \in Nat
    <3>1. x.slab = b.slab => a.slab # kBypassSlabId
      BY <1>4 DEF BlockOf
    <3> QED
      BY <3>1, InPoolProperties DEF PoolSound
  <2>2. ~Overlaps(b, x)
    BY <1>1, <1>2, ListedIsClear
  <2> HIDE DEF x
  <2>3. ~Overlaps(rest, x) /\ ~Overlaps(x, piece)
    BY <1>12, <2>1, <2>2
  <2> QED
    BY <2>3 DEF x
<1>16. \A e, f \in Listed(more) : e # f => ~Overlaps(e, f)
  BY <1>11, <1>13 DEF PoolSound
<1>17. PoolSound(more, parked, handles, bump)
  BY <1>10, <1>11, <1>14, <1>15, <1>16 DEF PoolSound
<1>18. ~Overlaps(rest, piece)
  BY <1>4, <1>5 DEF Overlaps
<1>19. ClearOf(piece, more, parked, handles)
  BY <1>11, <1>13, <1>14, <1>15, <1>18 DEF ClearOf
<1>20. \A id \in SlabId : bump[id] <= bump[id]
  BY DEF SlabsSound
<1>21. piece.bytes = class_block_bytes(c)
  BY <1>5 DEF need
<1> QED
  BY <1>7, <1>8, <1>9, <1>17, <1>19, <1>20, <1>21 DEF HitSound, SlabsSound

(* A carve, from the tail of a slab or from a new one, lies beyond every   *)
(* other block of the slab.                                                *)
LEMMA CarveSound ==
  ASSUME bump \in [SlabId -> Nat], NEW lists, NEW parked, NEW handles,
         PoolSound(lists, parked, handles, bump), NEW c \in Class, NEW id \in SlabId,
         NEW carved, carved = [bump EXCEPT ![id] = bump[id] + class_block_bytes(c)]
  PROVE  /\ carved \in [SlabId -> Nat]
         /\ PoolSound(lists, parked, handles, carved)
         /\ InPool(Carve(id, bump[id], c), carved)
         /\ Carve(id, bump[id], c).bytes = class_block_bytes(c)
         /\ ClearOf(Carve(id, bump[id], c), lists, parked, handles)
<1> DEFINE b == Carve(id, bump[id], c)
<1>1. class_block_bytes(c) \in Nat \ {0}
  BY ClassBlock
<1>2. /\ carved \in [SlabId -> Nat]
      /\ carved[id] = bump[id] + class_block_bytes(c)
      /\ \A i \in SlabId : bump[i] <= carved[i]
  BY <1>1
<1>3. /\ b.slab = id /\ b.off = bump[id] /\ b.bytes = class_block_bytes(c)
      /\ b \in Block /\ b.slab # kBypassSlabId
  BY <1>1 DEF Carve, Block, SlabId, kBypassSlabId
<1> HIDE DEF b
<1>4. InPool(b, carved)
  BY <1>1, <1>2, <1>3 DEF InPool
<1>5. ASSUME NEW x, InPool(x, bump)
      PROVE  InPool(x, carved) /\ ~Overlaps(x, b)
  <2>1. /\ x.slab \in SlabId /\ x.off \in Nat /\ x.bytes \in Nat
        /\ x.off + x.bytes <= bump[x.slab]
    BY <1>5, InPoolProperties DEF InPool
  <2>2. x.off + x.bytes <= carved[x.slab]
    BY <1>2, <2>1
  <2>3. InPool(x, carved)
    BY <1>5, <2>2 DEF InPool
  <2>4. ~Overlaps(x, b)
    BY <1>3, <2>1 DEF Overlaps
  <2> QED
    BY <2>3, <2>4
<1>6. \A e \in Listed(lists) : InPool(e, bump)
  BY DEF PoolSound, Listed
<1>7. \A a \in handles : ~Overlaps(BlockOf(a), b)
  <2> SUFFICES ASSUME NEW a \in handles PROVE ~Overlaps(BlockOf(a), b)
    OBVIOUS
  <2>1. CASE a.slab = kBypassSlabId
    BY <1>3, <2>1 DEF Overlaps, BlockOf
  <2>2. CASE a.slab # kBypassSlabId
    BY <1>5, <2>2 DEF PoolSound
  <2> QED
    BY <2>1, <2>2
<1>8. ClearOf(b, lists, parked, handles)
  BY <1>5, <1>6, <1>7 DEF ClearOf, PoolSound
<1>9. PoolSound(lists, parked, handles, carved)
  BY <1>5 DEF PoolSound
<1> QED
  BY <1>2, <1>3, <1>4, <1>8, <1>9 DEF b

LEMMA VirginSound ==
  ASSUME SlabsSound, NEW lists \in [Class -> SUBSET Block], NEW parked, NEW handles,
         PoolSound(lists, parked, handles, bump), NEW c \in Class,
         NEW hit \in Virgin(lists, c)
  PROVE  HitSound(hit, c, parked, handles)
<1>1. PICK id \in Room(c) :
        hit = [block |-> Carve(id, bump[id], c), lists |-> lists,
               bump |-> [bump EXCEPT ![id] = @ + class_block_bytes(c)]]
  BY DEF Virgin
<1>2. id \in SlabId /\ bump[id] + class_block_bytes(c) <= size[id]
  BY <1>1 DEF Room
<1>3. hit.block = Carve(id, bump[id], c) /\ hit.lists = lists
      /\ hit.bump = [bump EXCEPT ![id] = bump[id] + class_block_bytes(c)]
  BY <1>1
<1>4. class_block_bytes(c) \in Nat
  BY ClassBlock
<1>5. \A i \in SlabId : bump[i] <= hit.bump[i] /\ hit.bump[i] <= size[i]
  BY <1>2, <1>3, <1>4 DEF SlabsSound
<1>6. /\ hit.bump \in [SlabId -> Nat]
      /\ PoolSound(lists, parked, handles, hit.bump)
      /\ InPool(Carve(id, bump[id], c), hit.bump)
      /\ Carve(id, bump[id], c).bytes = class_block_bytes(c)
      /\ ClearOf(Carve(id, bump[id], c), lists, parked, handles)
  <2>1. bump \in [SlabId -> Nat] /\ id \in SlabId
    BY <1>2 DEF SlabsSound
  <2> DEFINE carved == hit.bump
  <2>2. carved = [bump EXCEPT ![id] = bump[id] + class_block_bytes(c)]
    BY <1>3
  <2> HIDE DEF carved
  <2>3. /\ carved \in [SlabId -> Nat]
        /\ PoolSound(lists, parked, handles, carved)
        /\ InPool(Carve(id, bump[id], c), carved)
        /\ Carve(id, bump[id], c).bytes = class_block_bytes(c)
        /\ ClearOf(Carve(id, bump[id], c), lists, parked, handles)
    BY <2>1, <2>2, CarveSound
  <2> QED
    BY <2>3 DEF carved
<1> QED
  BY <1>3, <1>5, <1>6 DEF HitSound

LEMMA OfferSound ==
  ASSUME SlabsSound, NEW lists \in [Class -> SUBSET Block], NEW parked, NEW handles,
         PoolSound(lists, parked, handles, bump), NEW c \in Class,
         NEW hit \in Offers(lists, c)
  PROVE  HitSound(hit, c, parked, handles)
<1>1. hit \in ClassHit(lists, c) \/ hit \in SplitHit(lists, c) \/ hit \in Virgin(lists, c)
  BY DEF Offers
<1> QED
  BY <1>1, ClassHitSound, SplitHitSound, VirginSound

-----------------------------------------------------------------------------
(* Deferred reuse, as DeferredPool has it.                                 *)

Deferral == INSTANCE DeferredPoolProofs
              WITH held <- HeldBy(live), MayOverlap <- Overlaps

(* The assumptions of DeferredReuse, of the instance.                      *)
LEMMA DeferralConfigured ==
  /\ MaxInFlight \in Nat /\ EventFaults \in BOOLEAN
  /\ ReusePolicy \subseteq Deferral!AllPolicies
BY MaxInFlightAssumption, PolicyAssumption DEF AllPolicies, Deferral!AllPolicies

LEMMA SameReclaim ==
  ASSUME NEW s
  PROVE  /\ Deferral!Reclaimable(s) = Reclaimable(s)
         /\ Deferral!StillParked(s) = StillParked(s)
BY DEF Deferral!Reclaimable, Reclaimable, Deferral!StillParked, StillParked,
   Deferral!pending_reusable, pending_reusable, Deferral!StreamIdle, StreamIdle,
   Deferral!event_completed, event_completed, Deferral!EventDone, EventDone,
   Deferral!kNoEventSlot, kNoEventSlot

LEMMA SameRelease ==
  ASSUME NEW entries
  PROVE  Deferral!ReleaseEntries(entries) <=> ReleaseEntries(entries)
BY DEF Deferral!ReleaseEntries, ReleaseEntries, Deferral!SlotsOf, SlotsOf,
   Deferral!kNoEventSlot, kNoEventSlot

LEMMA SameProgress ==
  ASSUME NEW done
  PROVE  Deferral!Progress(done) <=> Progress(done)
BY DEF Deferral!Progress, Progress, Deferral!EventsAfter, EventsAfter,
   Deferral!Less, Less

LEMMA SameDrain ==
  ASSUME NEW parked
  PROVE  Deferral!Drain(parked) <=> Drain(parked)
BY SameProgress, SameRelease DEF Deferral!Drain, Drain, Deferral!Waited, Waited,
   Deferral!kNoEventSlot, kNoEventSlot

LEMMA SameRetire ==
  ASSUME NEW block, NEW s, NEW now
  PROVE  Deferral!Retire(block, s, now) <=> Retire(block, s, now)
BY DEF Deferral!Retire, Retire, Deferral!Park, Park, Deferral!CoarseRule, CoarseRule,
   Deferral!ParkWithEvent, ParkWithEvent, Deferral!EventFails, EventFails,
   Deferral!Recorded, Recorded, Deferral!StreamIdle, StreamIdle,
   Deferral!kNoEventSlot, kNoEventSlot

LEMMA SameSynchronize == Deferral!DeviceSynchronize <=> DeviceSynchronize
<1>1. Deferral!DeviceSynchronize <=> Deferral!Progress([s \in Stream |-> Len(queue[s])])
  BY DEF Deferral!DeviceSynchronize
<1>2. DeviceSynchronize <=> Progress([s \in Stream |-> Len(queue[s])])
  BY DEF DeviceSynchronize
<1> QED
  BY <1>1, <1>2, SameProgress

LEMMA SameComplete ==
  ASSUME NEW s
  PROVE  Deferral!Complete(s) <=> Complete(s)
<1> DEFINE done == [t \in Stream |-> IF t = s THEN 1 ELSE 0]
<1>1. Deferral!Complete(s) <=> queue[s] # <<>> /\ Deferral!Progress(done)
  BY DEF Deferral!Complete
<1>2. Complete(s) <=> queue[s] # <<>> /\ Progress(done)
  BY DEF Complete
<1> QED
  BY <1>1, <1>2, SameProgress

-----------------------------------------------------------------------------
(* The inductive invariant.                                                *)

Handle == [slab : SlabId \cup {kBypassSlabId}, off : Nat, bytes : Nat,
           requested : Nat, home : Stream]

ListType ==
  /\ split \in Splitting
  /\ classes \in [Class -> SUBSET Block]
  /\ bypassed \subseteq [ptr : Nat, bytes : Nat]
  /\ live \subseteq Handle
  /\ ret \in {"kOk", "kInvalidArgument", "kOutOfMemory", "kDriverError"}

(* The address of a block of its own is on record while it is held.        *)
BypassKnown ==
  \A a \in live : a.slab = kBypassSlabId => \E x \in bypassed : x.ptr = a.off

ListInv ==
  ListType /\ SlabsSound /\ PoolSound(classes, pending, live, bump) /\ BypassKnown

(* A request becomes a handle on the block that serves it.                 *)
LEMMA HandEffect ==
  ASSUME NEW block \in Block, NEW bytes \in Nat, NEW s \in Stream, Hand(block, bytes, s)
  PROVE  \E a \in Handle : /\ live' = live \cup {a} /\ ret' = "kOk"
                           /\ BlockOf(a) = block /\ a.home = s /\ a.slab = block.slab
<1> DEFINE a == [slab |-> block.slab, off |-> block.off, bytes |-> block.bytes,
                 requested |-> bytes, home |-> s]
<1>1. a \in Handle /\ a.home = s /\ a.slab = block.slab
  BY DEF Handle, Block
<1>2. BlockOf(a) = block
  BY DEF BlockOf, Block
<1>3. live' = live \cup {a} /\ ret' = "kOk"
  BY DEF Hand
<1> HIDE DEF a
<1> QED
  BY <1>1, <1>2, <1>3

(* What the pool of DeferredPool sees of it.                               *)
Handed(s) ==
  \E b \in Block : /\ Deferral!Free(b)
                   /\ HeldBy(live)' = HeldBy(live) \cup {[block |-> b, home |-> s]}

LEMMA HandIsHanded ==
  ASSUME NEW block \in Block, NEW bytes \in Nat, NEW s \in Stream, Hand(block, bytes, s),
         Overlaps(block, block), ClearOf(block, classes', pending', live)
  PROVE  Handed(s)
<1>1. PICK a \in Handle : live' = live \cup {a} /\ BlockOf(a) = block /\ a.home = s
  BY HandEffect
<1>2. HeldBy(live)' = HeldBy(live) \cup {[block |-> block, home |-> s]}
  BY <1>1 DEF HeldBy
<1>3. Deferral!Free(block)
  BY DEF Deferral!Free, ClearOf, HeldBy
<1> QED
  BY <1>2, <1>3 DEF Handed

(* The lists after the reclaim pass that every call of allocate begins     *)
(* with, and after a drain.                                                *)
LEMMA RefilledSound ==
  ASSUME ListInv, NEW s
  PROVE  /\ Refilled(s) \in [Class -> SUBSET Block]
         /\ PoolSound(Refilled(s), pending \ Reclaimable(s), live, bump)
<1>1. Reclaimable(s) \in SUBSET pending
  BY DEF Reclaimable
<1> QED
  BY <1>1, GiveBackSound DEF Refilled, ListInv, ListType

LEMMA DrainedSound ==
  ASSUME ListInv
  PROVE  /\ WithCached(Parked) \in [Class -> SUBSET Block]
         /\ PoolSound(WithCached(Parked), {}, live, bump)
<1>1. /\ WithCached(Parked) \in [Class -> SUBSET Block]
      /\ PoolSound(WithCached(Parked), pending \ pending, live, bump)
  BY GiveBackSound, pending \in SUBSET pending DEF Parked, ListInv, ListType
<1>2. pending \ pending = {}
  OBVIOUS
<1> QED
  BY <1>1, <1>2

LEMMA PooledClass ==
  ASSUME NEW bytes \in Sizes, Pooled(bytes)
  PROVE  size_class_of(bytes) \in Class
BY RequestHasClass, ConfigAssumption DEF Pooled

(* A block of the pool that is clear of the others is handed out.          *)
LEMMA HandStep ==
  ASSUME ListInv, NEW bytes \in Sizes, NEW s \in AllocStream, NEW block,
         InPool(block, bump'), Hand(block, bytes, s),
         ClearOf(block, classes', pending', live),
         PoolSound(classes', pending', live, bump'),
         classes' \in [Class -> SUBSET Block], SlabsSound',
         UNCHANGED <<split, bypassed>>
  PROVE  ListInv' /\ Handed(s)
<1>1. block \in Block /\ block.slab # kBypassSlabId /\ Overlaps(block, block)
  BY InPoolProperties
<1>2. PICK a \in Handle : /\ live' = live \cup {a} /\ ret' = "kOk"
                          /\ BlockOf(a) = block /\ a.slab = block.slab
  BY <1>1, HandEffect, ConfigAssumption
<1>3. PoolSound(classes', pending', live', bump')
  BY <1>1, <1>2, HandSound
<1>4. ListType'
  BY <1>2 DEF ListInv, ListType
<1>5. BypassKnown'
  BY <1>1, <1>2 DEF ListInv, BypassKnown
<1>6. Handed(s)
  BY <1>1, HandIsHanded, ConfigAssumption
<1> QED
  BY <1>3, <1>4, <1>5, <1>6 DEF ListInv

LEMMA PoolStep ==
  ASSUME ListInv, NEW bytes \in Sizes, NEW s \in AllocStream, AllocateFromPool(bytes, s)
  PROVE  ListInv' /\ Handed(s)
<1> DEFINE c == size_class_of(bytes)
<1>1. c \in Class
  BY PooledClass DEF AllocateFromPool
<1>2. PICK hit \in Offers(Refilled(s), c) :
        /\ classes' = hit.lists /\ bump' = hit.bump
        /\ Hand(hit.block, bytes, s)
  BY DEF AllocateFromPool
<1>3. pending' = pending \ Reclaimable(s) /\ UNCHANGED <<split, size, bypassed>>
  BY DEF AllocateFromPool, ReleaseEntries
<1> HIDE DEF c
<1>4. HitSound(hit, c, pending', live)
  BY <1>1, <1>3, RefilledSound, OfferSound DEF ListInv
<1>5. SlabsSound'
  BY <1>2, <1>3, <1>4 DEF HitSound, ListInv, SlabsSound
<1> QED
  BY <1>2, <1>3, <1>4, <1>5, HandStep DEF HitSound

LEMMA NewSlabStep ==
  ASSUME ListInv, NEW bytes \in Sizes, NEW s \in AllocStream, AllocateFromNewSlab(bytes, s)
  PROVE  ListInv' /\ Handed(s)
<1> DEFINE c == size_class_of(bytes)
<1>1. c \in Class
  BY PooledClass DEF AllocateFromNewSlab, NothingFits
<1>2. PICK id \in AddSlabOk(SlabFor(bytes)) :
        /\ size' = [size EXCEPT ![id] = SlabFor(bytes)]
        /\ bump' = [bump EXCEPT ![id] = Carve(id, 0, c).bytes]
        /\ Hand(Carve(id, 0, c), bytes, s)
  BY DEF AllocateFromNewSlab
<1>3. /\ classes' = Refilled(s) /\ pending' = pending \ Reclaimable(s)
      /\ UNCHANGED <<split, bypassed>>
  BY DEF AllocateFromNewSlab, ReleaseEntries
<1>4. id \in SlabId /\ size[id] = 0
  BY <1>2 DEF AddSlabOk, Live
<1>5. bump[id] = 0
  BY <1>4 DEF ListInv, SlabsSound
<1>6. class_block_bytes(c) \in Nat \ {0} /\ class_block_bytes(c) <= SlabFor(bytes)
      /\ SlabFor(bytes) \in Nat
  BY <1>1, ClassBlock, ConfigAssumption DEF SlabFor, Larger
<1> HIDE DEF c
<1>7. bump' = [bump EXCEPT ![id] = bump[id] + class_block_bytes(c)]
  <2>1. Carve(id, 0, c).bytes = class_block_bytes(c)
    BY DEF Carve
  <2>2. bump[id] + class_block_bytes(c) = class_block_bytes(c)
    BY <1>5, <1>6
  <2> QED
    BY <1>2, <2>1, <2>2
<1>8. /\ PoolSound(classes', pending', live, bump') /\ classes' \in [Class -> SUBSET Block]
      /\ InPool(Carve(id, 0, c), bump')
      /\ ClearOf(Carve(id, 0, c), classes', pending', live)
  BY <1>1, <1>3, <1>4, <1>5, <1>7, RefilledSound, CarveSound DEF ListInv, SlabsSound
<1>9. SlabsSound'
  BY <1>2, <1>4, <1>5, <1>6, <1>7 DEF ListInv, SlabsSound
<1> QED
  BY <1>2, <1>3, <1>8, <1>9, HandStep

LEMMA AfterDrainStep ==
  ASSUME ListInv, NEW bytes \in Sizes, NEW s \in AllocStream, AllocateAfterDrain(bytes, s)
  PROVE  ListInv' /\ Handed(s)
<1> DEFINE c == size_class_of(bytes)
<1>1. c \in Class
  BY PooledClass DEF AllocateAfterDrain, CannotGrow, NothingFits
<1>2. PICK hit \in ClassHit(WithCached(Parked), c) :
        classes' = hit.lists /\ Hand(hit.block, bytes, s)
  BY DEF AllocateAfterDrain
<1>3. pending' = {} /\ UNCHANGED <<split, size, bump, bypassed>>
  BY DEF AllocateAfterDrain, Drain, ReleaseEntries
<1> HIDE DEF c
<1>4. HitSound(hit, c, {}, live) /\ hit.bump = bump
  BY <1>1, DrainedSound, ClassHitSound DEF ListInv
<1>5. SlabsSound'
  BY <1>3 DEF ListInv, SlabsSound
<1> QED
  BY <1>2, <1>3, <1>4, <1>5, HandStep DEF HitSound

(* A block of its own, at an address that no other has.                    *)
LEMMA BypassStep ==
  ASSUME ListInv, NEW bytes \in Sizes, NEW s \in AllocStream, AllocateBypass(bytes, s)
  PROVE  ListInv' /\ Handed(s)
<1>1. PICK ptr \in BypassPtr :
        /\ bypassed' = bypassed \cup {[ptr |-> ptr, bytes |-> bytes]}
        /\ Hand([slab |-> kBypassSlabId, off |-> ptr, bytes |-> bytes], bytes, s)
  BY DEF AllocateBypass
<1> DEFINE block == [slab |-> kBypassSlabId, off |-> ptr, bytes |-> bytes]
<1>2. /\ classes' = Refilled(s) /\ pending' = pending \ Reclaimable(s)
      /\ UNCHANGED <<split, size, bump>>
  BY DEF AllocateBypass, ReleaseEntries
<1>3. ptr \in Nat /\ bytes \in Nat /\ \A x \in bypassed : x.ptr # ptr
  BY ConfigAssumption DEF BypassPtr
<1>4. /\ block \in Block /\ block.slab = kBypassSlabId /\ block.off = ptr
  BY <1>3 DEF Block
<1>5. PICK a \in Handle : /\ live' = live \cup {a} /\ ret' = "kOk"
                          /\ BlockOf(a) = block /\ a.slab = block.slab
  BY <1>1, <1>3, <1>4, HandEffect, ConfigAssumption
<1> HIDE DEF block
<1>6. PoolSound(classes', pending', live, bump') /\ classes' \in [Class -> SUBSET Block]
  BY <1>2, RefilledSound
<1>7. ClearOf(block, classes', pending', live)
  <2>1. ASSUME NEW b, InPool(b, bump') PROVE ~Overlaps(b, block)
    BY <2>1, <1>4, InPoolProperties DEF Overlaps
  <2>2. ASSUME NEW h \in live PROVE ~Overlaps(BlockOf(h), block)
    <3>1. CASE h.slab = kBypassSlabId
      <4>1. h.off # ptr
        BY <1>3, <3>1 DEF ListInv, BypassKnown
      <4> QED
        BY <1>4, <3>1, <4>1 DEF Overlaps, BlockOf
    <3>2. CASE h.slab # kBypassSlabId
      BY <1>4, <3>2 DEF Overlaps, BlockOf
    <3> QED
      BY <3>1, <3>2
  <2> QED
    BY <1>6, <2>1, <2>2 DEF ClearOf, PoolSound, Listed
<1>8. PoolSound(classes', pending', live', bump')
  BY <1>4, <1>5, <1>6, <1>7, HandSound
<1>9. bypassed' \subseteq [ptr : Nat, bytes : Nat]
  BY <1>1, <1>3 DEF ListInv, ListType
<1>10. ListType'
  BY <1>2, <1>5, <1>6, <1>9 DEF ListInv, ListType
<1>11. BypassKnown'
  <2>1. a.off = ptr
    BY <1>4, <1>5 DEF BlockOf
  <2>2. \E x \in bypassed' : x.ptr = ptr
    <3>1. [ptr |-> ptr, bytes |-> bytes] \in bypassed'
      BY <1>1
    <3> QED
      BY <3>1
  <2> QED
    BY <1>1, <1>5, <2>1, <2>2 DEF ListInv, BypassKnown
<1>12. Handed(s)
  <2>1. Overlaps(block, block)
    BY <1>4 DEF Overlaps
  <2> QED
    BY <1>1, <1>3, <1>4, <1>7, <2>1, HandIsHanded, ConfigAssumption DEF block
<1> QED
  BY <1>2, <1>8, <1>10, <1>11, <1>12 DEF ListInv, SlabsSound

(* The calls of allocate that hand out nothing.                            *)
LEMMA NothingHandedStep ==
  ASSUME ListInv, NEW bytes, NEW s,
         AllocateRefused(bytes, s) \/ AllocateBypassFails(bytes, s)
  PROVE  ListInv'
<1>1. ret' \in {"kOk", "kInvalidArgument", "kOutOfMemory", "kDriverError"}
  BY ConfigAssumption DEF AllocateRefused, AllocateBypassFails
<1>2. CASE AllocateRefused(bytes, s)
  <2>1. /\ classes' = WithCached(Parked) /\ pending' = {}
        /\ UNCHANGED <<split, size, bump, bypassed, live>>
    BY <1>2 DEF AllocateRefused, Drain, ReleaseEntries
  <2> QED
    BY <1>1, <2>1, DrainedSound DEF ListInv, ListType, SlabsSound, BypassKnown
<1>3. CASE AllocateBypassFails(bytes, s)
  <2>1. /\ classes' = Refilled(s) /\ pending' = pending \ Reclaimable(s)
        /\ UNCHANGED <<split, size, bump, bypassed, live>>
    BY <1>3 DEF AllocateBypassFails, ReleaseEntries
  <2> QED
    BY <1>1, <2>1, RefilledSound DEF ListInv, ListType, SlabsSound, BypassKnown
<1> QED
  BY <1>2, <1>3

(* deallocate: the block goes from its holder to the list of its class, or *)
(* to the parked blocks.                                                   *)
LEMMA FewerHandles ==
  ASSUME NEW lists, NEW parked, NEW handles, NEW carved,
         PoolSound(lists, parked, handles, carved), NEW fewer \in SUBSET handles
  PROVE  PoolSound(lists, parked, fewer, carved)
BY DEF PoolSound

LEMMA ParkSound ==
  ASSUME NEW lists, NEW parked, NEW handles, NEW carved,
         PoolSound(lists, parked, handles, carved), NEW a \in handles,
         a.slab # kBypassSlabId, NEW p, p.block = BlockOf(a)
  PROVE  PoolSound(lists, parked \cup {p}, handles \ {a}, carved)
<1>1. InPool(BlockOf(a), carved)
  BY DEF PoolSound
<1>2. /\ \A b \in Listed(lists) : ~Overlaps(b, BlockOf(a))
      /\ \A h \in handles \ {a} : ~Overlaps(BlockOf(h), BlockOf(a))
      /\ \A q \in parked : ~Overlaps(BlockOf(a), q.block) /\ ~Overlaps(q.block, BlockOf(a))
  BY DEF PoolSound, Overlaps
<1> QED
  BY <1>1, <1>2 DEF PoolSound

LEMMA DeallocateStep ==
  ASSUME ListInv, NEW a \in live, Deallocate(a)
  PROVE  ListInv'
<1>1. PICK now \in BOOLEAN :
        /\ Retire(BlockOf(a), a.home, now)
        /\ classes' = IF now THEN WithCached({BlockOf(a)}) ELSE classes
  BY DEF Deallocate
<1>2. /\ a.slab # kBypassSlabId /\ live' = live \ {a} /\ ret' = "kOk"
      /\ UNCHANGED <<split, size, bump, bypassed>>
  BY DEF Deallocate
<1>3. \/ now /\ pending' = pending
      \/ ~now /\ \E slot : pending' = pending \cup
                    {[block |-> BlockOf(a), stream |-> a.home, slot |-> slot]}
  <2>1. Deferral!Retire(BlockOf(a), a.home, now)
    BY <1>1, SameRetire
  <2> QED
    BY <2>1, Deferral!RetireEffect, DeferralConfigured
<1>4. PoolSound(classes', pending', live', bump) /\ classes' \in [Class -> SUBSET Block]
  <2>1. CASE ~now
    <3>1. PICK slot : pending' = pending \cup
                        {[block |-> BlockOf(a), stream |-> a.home, slot |-> slot]}
      BY <1>3, <2>1
    <3> DEFINE p == [block |-> BlockOf(a), stream |-> a.home, slot |-> slot]
    <3>2. p.block = BlockOf(a) /\ pending' = pending \cup {p}
      BY <3>1
    <3> HIDE DEF p
    <3>3. PoolSound(classes, pending', live', bump)
      BY <1>2, <3>2, ParkSound DEF ListInv
    <3> QED
      BY <1>1, <2>1, <3>3 DEF ListInv, ListType
  <2>2. CASE now
    <3> DEFINE p == [block |-> BlockOf(a)]
               parked == pending \cup {p}
    <3>1. p.block = BlockOf(a) /\ BlocksOf({p}) = {BlockOf(a)}
      BY DEF BlocksOf
    <3>2. classes' = WithCached({BlockOf(a)}) /\ pending' = pending
      BY <1>1, <1>3, <2>2
    <3> HIDE DEF p
    <3>3. PoolSound(classes, parked, live', bump)
      BY <1>2, <3>1, ParkSound DEF ListInv
    <3>4. parked \ {p} = pending
      <4>1. \A q \in pending : ~Overlaps(BlockOf(a), q.block)
        BY DEF ListInv, PoolSound
      <4>2. Overlaps(BlockOf(a), BlockOf(a))
        BY <1>2, InPoolProperties DEF ListInv, PoolSound
      <4> QED
        BY <3>1, <4>1, <4>2
    <3>5. /\ WithCached(BlocksOf({p})) \in [Class -> SUBSET Block]
          /\ PoolSound(WithCached(BlocksOf({p})), parked \ {p}, live', bump)
      BY <3>3, GiveBackSound, {p} \in SUBSET parked DEF ListInv, ListType
    <3> QED
      BY <3>1, <3>2, <3>4, <3>5
  <2> QED
    BY <1>3, <2>1, <2>2
<1> QED
  BY <1>2, <1>4 DEF ListInv, ListType, SlabsSound, BypassKnown

LEMMA DeallocateBypassStep ==
  ASSUME ListInv, NEW a \in live, DeallocateBypass(a)
  PROVE  ListInv'
<1>1. /\ a.slab = kBypassSlabId /\ bypassed' = {b \in bypassed : b.ptr # a.off}
      /\ live' = live \ {a}
      /\ ret' \in {"kOk"} \cup (DriverFaults \ {"kOutOfMemory"})
      /\ UNCHANGED <<reuseVars, split, size, bump, classes>>
  BY DEF DeallocateBypass
<1>2. PoolSound(classes', pending', live', bump')
  BY <1>1, FewerHandles DEF ListInv, reuseVars
<1>3. ListType' /\ SlabsSound'
  BY <1>1, ConfigAssumption DEF ListInv, ListType, SlabsSound
<1>4. BypassKnown'
  <2> SUFFICES ASSUME NEW h \in live', h.slab = kBypassSlabId
               PROVE  \E x \in bypassed' : x.ptr = h.off
    BY DEF BypassKnown
  <2>1. PICK x \in bypassed : x.ptr = h.off
    BY <1>1 DEF ListInv, BypassKnown
  <2>2. ~Overlaps(BlockOf(h), BlockOf(a))
    BY <1>1 DEF ListInv, PoolSound
  <2>3. h.off # a.off
    BY <1>1, <2>2 DEF Overlaps, BlockOf
  <2> QED
    BY <1>1, <2>1, <2>3
<1> QED
  BY <1>2, <1>3, <1>4 DEF ListInv

LEMMA ReserveStep ==
  ASSUME ListInv, NEW bytes \in Sizes, Reserve(bytes)
  PROVE  ListInv'
<1>1. UNCHANGED <<pending, split, classes, bypassed, live>>
  BY DEF Reserve, reuseVars
<1>2. ret' \in {"kOk", "kInvalidArgument", "kOutOfMemory", "kDriverError"}
  BY ConfigAssumption DEF Reserve, AddSlabFails
<1>3. bump' = bump
  BY DEF Reserve
<1>4. CASE UNCHANGED size
  BY <1>1, <1>2, <1>3, <1>4 DEF ListInv, ListType, SlabsSound, BypassKnown
<1>5. ASSUME NEW id \in AddSlabOk(Larger(bytes, MinSlabBytes)),
             size' = [size EXCEPT ![id] = Larger(bytes, MinSlabBytes)]
      PROVE  ListInv'
  <2>1. id \in SlabId /\ size[id] = 0
    BY <1>5 DEF AddSlabOk, Live
  <2>2. Larger(bytes, MinSlabBytes) \in Nat
    BY ConfigAssumption DEF Larger
  <2>3. SlabsSound'
    BY <1>3, <1>5, <2>1, <2>2 DEF ListInv, SlabsSound
  <2> QED
    BY <1>1, <1>2, <1>3, <2>3 DEF ListInv, ListType, BypassKnown
<1> QED
  BY <1>4, <1>5 DEF Reserve

LEMMA SettleStep ==
  ASSUME ListInv, SettlePending
  PROVE  ListInv'
<1>1. /\ classes' = WithCached(Parked) /\ pending' = {} /\ ret' = "kOk"
      /\ UNCHANGED <<split, size, bump, bypassed, live>>
  BY DEF SettlePending, Drain, ReleaseEntries
<1> QED
  BY <1>1, DrainedSound DEF ListInv, ListType, SlabsSound, BypassKnown

(* trim returns whole slabs, of which no block is held any more.           *)
LEMMA TrimStep ==
  ASSUME ListInv, Trim
  PROVE  ListInv'
<1> DEFINE lists == WithCached(Parked)
<1>1. /\ size' = [id \in SlabId |-> IF id \in UnusedSlabs THEN 0 ELSE size[id]]
      /\ bump' = [id \in SlabId |-> IF id \in UnusedSlabs THEN 0 ELSE bump[id]]
      /\ classes' = [c \in Class |-> {b \in lists[c] : b.slab \notin UnusedSlabs}]
      /\ UNCHANGED <<split, bypassed, live>>
  BY DEF Trim
<1>2. pending' = {}
  BY DEF Trim, Drain, ReleaseEntries
<1>3. ret' \in {"kOk", "kInvalidArgument", "kOutOfMemory", "kDriverError"}
  BY ConfigAssumption DEF Trim
<1>4. SlabsSound'
  BY <1>1 DEF ListInv, SlabsSound
<1>5. lists \in [Class -> SUBSET Block] /\ PoolSound(lists, {}, live, bump)
  BY DrainedSound
<1> HIDE DEF lists
<1>6. classes' \in [Class -> SUBSET Block] /\ \A c \in Class : classes'[c] \subseteq lists[c]
  BY <1>1, <1>5
<1>7. PoolSound(classes', {}, live, bump)
  BY <1>5, <1>6, FewerSound
<1>8. ASSUME NEW b, b.slab \in SlabId, b.slab \notin UnusedSlabs, InPool(b, bump)
      PROVE  InPool(b, bump')
  <2>1. bump'[b.slab] = bump[b.slab]
    BY <1>1, <1>8
  <2> QED
    BY <1>8, <2>1 DEF InPool
<1>9. ASSUME NEW c \in Class, NEW b \in classes'[c]
      PROVE  InPool(b, bump') /\ b.bytes = class_block_bytes(c)
  <2>1. b.slab \notin UnusedSlabs
    BY <1>1, <1>9
  <2> QED
    BY <1>7, <1>8, <2>1, InPoolProperties DEF PoolSound
<1>10. ASSUME NEW a \in live, a.slab # kBypassSlabId
       PROVE  InPool(BlockOf(a), bump')
  <2>1. InPool(BlockOf(a), bump) /\ BlockOf(a).slab = a.slab
    BY <1>7, <1>10 DEF PoolSound, BlockOf
  <2>2. a.slab \notin UnusedSlabs
    BY DEF UnusedSlabs
  <2> QED
    BY <1>8, <2>1, <2>2, InPoolProperties
<1>11. PoolSound(classes', {}, live, bump')
  BY <1>7, <1>9, <1>10 DEF PoolSound
<1> QED
  BY <1>1, <1>2, <1>3, <1>4, <1>6, <1>11 DEF ListInv, ListType, BypassKnown

(* The owner of a block changes the stream it works on.                    *)
LEMMA MoveStep ==
  ASSUME ListInv, NEW a \in live, NEW s \in Stream, Move(a, s)
  PROVE  ListInv'
<1> DEFINE moved == [a EXCEPT !.home = s]
<1>1. /\ moved \in Handle /\ BlockOf(moved) = BlockOf(a)
      /\ moved.slab = a.slab /\ moved.off = a.off
  BY DEF ListInv, ListType, Handle, BlockOf
<1>2. /\ live' = (live \ {a}) \cup {moved}
      /\ UNCHANGED <<reuseVars, split, size, bump, classes, bypassed, ret>>
  BY DEF Move
<1> HIDE DEF moved
<1>3. PoolSound(classes, pending, live \ {a}, bump)
  BY FewerHandles DEF ListInv
<1>4. ClearOf(BlockOf(moved), classes, pending, live \ {a})
  BY <1>1 DEF ListInv, PoolSound, ClearOf, Overlaps
<1>5. moved.slab # kBypassSlabId => InPool(BlockOf(moved), bump)
  BY <1>1 DEF ListInv, PoolSound
<1>6. PoolSound(classes', pending', live', bump')
  BY <1>2, <1>3, <1>4, <1>5, HandSound DEF reuseVars
<1>7. ListType' /\ SlabsSound'
  BY <1>1, <1>2 DEF ListInv, ListType, SlabsSound
<1>8. BypassKnown'
  BY <1>1, <1>2 DEF ListInv, BypassKnown
<1> QED
  BY <1>6, <1>7, <1>8 DEF ListInv

LEMMA ListStep ==
  ASSUME ListInv, [Next]_vars
  PROVE  ListInv'
<1>1. ASSUME NEW s \in AllocStream, AllocateNothing(s)
      PROVE  ListInv'
  BY <1>1 DEF AllocateNothing, ListInv, ListType, SlabsSound, BypassKnown, reuseVars
<1>2. ASSUME NEW bytes \in Sizes \ {0}, NEW s \in AllocStream, Allocate(bytes, s)
      PROVE  ListInv'
  BY <1>2, PoolStep, NewSlabStep, AfterDrainStep, BypassStep, NothingHandedStep
     DEF Allocate
<1>3. ASSUME UNCHANGED <<pending, listVars>>
      PROVE  ListInv'
  BY <1>3 DEF listVars, ListInv, ListType, SlabsSound, BypassKnown
<1>4. ASSUME NEW a \in live, Use(a)
      PROVE  UNCHANGED <<pending, listVars>>
  BY <1>4 DEF Use, reuseVars
<1>5. ASSUME Device
      PROVE  UNCHANGED <<pending, listVars>>
  BY <1>5 DEF Device, reuseVars
<1>6. UNCHANGED vars => UNCHANGED <<pending, listVars>>
  BY DEF vars, reuseVars
<1> QED
  BY <1>1, <1>2, <1>3, <1>4, <1>5, <1>6, DeallocateStep, DeallocateBypassStep,
     ReserveStep, SettleStep, TrimStep, MoveStep DEF Next

-----------------------------------------------------------------------------
(* Every step is a step of DeferredPool, or none.                          *)

LEMMA DeferralFits == Deferral!PoolAssumption
BY ConfigAssumption, OverlapIsSymmetric DEF Deferral!PoolAssumption

(* allocate begins with the reclaim pass, and drains when nothing fits and *)
(* the pool cannot grow.                                                   *)
LEMMA GivesBackOnce ==
  ASSUME NEW s, \/ UNCHANGED deviceVars /\ ReleaseEntries(Reclaimable(s))
                \/ Drain(StillParked(s))
  PROVE  Deferral!GivesBack(s)
<1>1. UNCHANGED deviceVars => UNCHANGED Deferral!deviceVars
  BY DEF deviceVars, Deferral!deviceVars
<1> QED
  BY <1>1, SameReclaim, SameRelease, SameDrain DEF Deferral!GivesBack

LEMMA AllocateDefers ==
  ASSUME ListInv, NEW bytes \in Sizes \ {0}, NEW s \in AllocStream, Allocate(bytes, s)
  PROVE  Deferral!Next
<1>1. Deferral!GivesBack(s)
  BY GivesBackOnce
     DEF Allocate, AllocateFromPool, AllocateFromNewSlab, AllocateAfterDrain,
         AllocateRefused, AllocateBypass, AllocateBypassFails
<1>2. Handed(s) \/ UNCHANGED live
  BY PoolStep, NewSlabStep, AfterDrainStep, BypassStep
     DEF Allocate, AllocateRefused, AllocateBypassFails
<1>3. Deferral!Allocate(s)
  BY <1>1, <1>2 DEF Deferral!Allocate, Handed
<1> QED
  BY <1>3 DEF Deferral!Next

(* A handle is known by its block.                                         *)
LEMMA HandlesDiffer ==
  ASSUME ListInv, NEW a \in live, NEW h \in live, a # h
  PROVE  BlockOf(a) # BlockOf(h)
<1>1. ~Overlaps(BlockOf(a), BlockOf(h))
  BY DEF ListInv, PoolSound
<1>2. Overlaps(BlockOf(a), BlockOf(a))
  <2>1. CASE a.slab = kBypassSlabId
    BY <2>1 DEF Overlaps, BlockOf
  <2>2. CASE a.slab # kBypassSlabId
    BY <2>2, InPoolProperties DEF ListInv, PoolSound
  <2> QED
    BY <2>1, <2>2
<1> QED
  BY <1>1, <1>2

HeldAs(a) == [block |-> BlockOf(a), home |-> a.home]

LEMMA LetGo ==
  ASSUME ListInv, NEW a \in live
  PROVE  /\ HeldAs(a) \in HeldBy(live)
         /\ HeldBy(live \ {a}) = HeldBy(live) \ {HeldAs(a)}
<1>1. \A h \in live : h # a => HeldAs(h) # HeldAs(a)
  <2> SUFFICES ASSUME NEW h \in live, h # a PROVE HeldAs(h) # HeldAs(a)
    OBVIOUS
  <2>1. BlockOf(h) # BlockOf(a)
    BY HandlesDiffer
  <2> QED
    BY <2>1 DEF HeldAs
<1>2. \A handles : HeldBy(handles) = {HeldAs(h) : h \in handles}
  BY DEF HeldBy, HeldAs
<1> QED
  BY <1>1, <1>2

LEMMA DeallocateDefers ==
  ASSUME ListInv, NEW a \in live, Deallocate(a) \/ DeallocateBypass(a)
  PROVE  Deferral!Next
<1> DEFINE h == HeldAs(a)
<1>1. h \in HeldBy(live) /\ h.block = BlockOf(a) /\ h.home = a.home
  BY LetGo DEF HeldAs
<1>2. HeldBy(live)' = HeldBy(live) \ {h}
  <2>1. live' = live \ {a}
    BY DEF Deallocate, DeallocateBypass
  <2> QED
    BY <2>1, LetGo
<1> HIDE DEF h
<1>3. CASE Deallocate(a)
  <2>1. \E now \in BOOLEAN : Deferral!Retire(h.block, h.home, now)
    BY <1>1, <1>3, SameRetire DEF Deallocate
  <2> QED
    BY <1>1, <1>2, <2>1 DEF Deferral!Next, Deferral!Deallocate
<1>4. CASE DeallocateBypass(a)
  <2>1. Deferral!DeviceSynchronize /\ UNCHANGED Deferral!reuseVars
    BY <1>4, SameSynchronize DEF DeallocateBypass, reuseVars, Deferral!reuseVars
  <2> QED
    BY <1>1, <1>2, <2>1 DEF Deferral!Next, Deferral!DeallocateBypass
<1> QED
  BY <1>3, <1>4

LEMMA SettleDefers ==
  ASSUME SettlePending \/ Trim
  PROVE  Deferral!Next
<1>1. \/ Deferral!Drain(pending)
      \/ Deferral!DeviceSynchronize /\ Deferral!ReleaseEntries(pending)
  BY SameDrain, SameSynchronize, SameRelease DEF SettlePending, Trim
<1>2. UNCHANGED live
  BY DEF SettlePending, Trim
<1>3. UNCHANGED HeldBy(live)
  BY <1>2
<1> QED
  BY <1>1, <1>3 DEF Deferral!Next, Deferral!Settle

LEMMA ClientDefers ==
  ASSUME ListInv, NEW a \in live, Use(a) \/ \E s \in Stream : Move(a, s)
  PROVE  Deferral!Next
<1> DEFINE h == HeldAs(a)
<1>1. h \in HeldBy(live) /\ h.block = BlockOf(a) /\ h.home = a.home
  BY LetGo DEF HeldAs
<1>2. CASE Use(a)
  <2>1. /\ queue' = [queue EXCEPT ![a.home] = Append(@, BlockOf(a))] /\ UNCHANGED event
        /\ UNCHANGED live /\ UNCHANGED Deferral!reuseVars
    BY <1>2 DEF Use, Launch, listVars, reuseVars, Deferral!reuseVars
  <2>2. UNCHANGED HeldBy(live)
    BY <2>1
  <2>3. Deferral!Use(h)
    BY <1>1, <2>1, <2>2 DEF Deferral!Use
  <2> QED
    BY <1>1, <2>3 DEF Deferral!Next
<1>3. ASSUME NEW s \in Stream, Move(a, s)
      PROVE  Deferral!Next
  <2> DEFINE moved == [a EXCEPT !.home = s]
             parted == [h EXCEPT !.home = s]
  <2>1. live' = (live \ {a}) \cup {moved} /\ StreamIdle(a.home)
    BY <1>3 DEF Move
  <2>2. HeldAs(moved) = parted
    <3>1. BlockOf(moved) = BlockOf(a) /\ moved.home = s
      BY DEF ListInv, ListType, Handle, BlockOf
    <3> QED
      BY <3>1 DEF HeldAs
  <2>3. HeldBy(live)' = (HeldBy(live) \ {h}) \cup {parted}
    <3>1. \A handles : HeldBy(handles) = {HeldAs(g) : g \in handles}
      BY DEF HeldBy, HeldAs
    <3>2. HeldBy(live') = HeldBy(live \ {a}) \cup {HeldAs(moved)}
      BY <2>1, <3>1
    <3> QED
      BY <2>2, <3>2, LetGo
  <2>4. Deferral!StreamIdle(h.home) /\ UNCHANGED <<Deferral!deviceVars, Deferral!reuseVars>>
    BY <1>1, <1>3, <2>1
       DEF Move, StreamIdle, Deferral!StreamIdle, deviceVars, Deferral!deviceVars,
           reuseVars, Deferral!reuseVars
  <2>5. Deferral!Move(h, s)
    BY <2>3, <2>4 DEF Deferral!Move
  <2> QED
    BY <1>1, <2>5 DEF Deferral!Next
<1> QED
  BY <1>2, <1>3

LEMMA StepDefers ==
  ASSUME ListInv, [Next]_vars
  PROVE  [Deferral!Next]_Deferral!poolVars
<1>1. ASSUME UNCHANGED <<deviceVars, reuseVars, live>>
      PROVE  UNCHANGED Deferral!poolVars
  BY <1>1 DEF Deferral!poolVars, deviceVars, Deferral!deviceVars, reuseVars,
              Deferral!reuseVars
<1>2. ASSUME NEW s \in AllocStream, AllocateNothing(s)
      PROVE  UNCHANGED Deferral!poolVars
  BY <1>1, <1>2 DEF AllocateNothing
<1>3. ASSUME NEW bytes \in Sizes, Reserve(bytes)
      PROVE  UNCHANGED Deferral!poolVars
  BY <1>1, <1>3 DEF Reserve
<1>4. ASSUME Device
      PROVE  Deferral!Next
  <2>1. PICK s \in Stream : Complete(s) /\ UNCHANGED <<reuseVars, listVars>>
    BY <1>4 DEF Device
  <2>2. Deferral!Complete(s) /\ UNCHANGED Deferral!reuseVars /\ UNCHANGED live
    BY <2>1, SameComplete DEF reuseVars, Deferral!reuseVars, listVars
  <2>3. UNCHANGED HeldBy(live)
    BY <2>2
  <2> QED
    BY <2>2, <2>3 DEF Deferral!Next, Deferral!Device
<1>5. CASE UNCHANGED vars
  BY <1>1, <1>5 DEF vars, listVars
<1> QED
  BY <1>2, <1>3, <1>4, <1>5, AllocateDefers, DeallocateDefers, SettleDefers,
     ClientDefers DEF Next

-----------------------------------------------------------------------------
(* The theorems.                                                           *)

LEMMA ListInit == Init => ListInv /\ Deferral!Init
<1> SUFFICES ASSUME Init PROVE ListInv /\ Deferral!Init
  OBVIOUS
<1>1. Deferral!Init
  BY DEF Init, Deferral!Init, DeviceInit, Deferral!DeviceInit, ReuseInit,
         Deferral!ReuseInit, HeldBy
<1>2. SlabsSound /\ BypassKnown
  BY DEF Init, SlabsSound, BypassKnown
<1>3. ListType
  BY DEF Init, ListType
<1>4. PoolSound(classes, pending, live, bump)
  BY DEF Init, ReuseInit, PoolSound, Listed
<1> QED
  BY <1>1, <1>2, <1>3, <1>4 DEF ListInv

(* Whatever the ladder, the requests, the order of the calls and the       *)
(* failures: every block is of its class and inside the carved part of its *)
(* slab, and no byte belongs to two of the clients, the class lists and    *)
(* the parked blocks.                                                      *)
THEOREM BlocksStayApart == Spec => []ListInv
<1>1. ListInv /\ [Next]_vars => ListInv'
  BY ListStep
<1> QED
  BY <1>1, ListInit, PTL DEF Spec

(* The allocator is an instance of deferred reuse.                         *)
THEOREM ListDefers == Spec => Deferral!Spec
<1>1. ListInv /\ [Next]_vars => [Deferral!Next]_Deferral!poolVars
  BY StepDefers
<1> QED
  BY <1>1, ListInit, BlocksStayApart, PTL DEF Spec, Deferral!Spec

(* The fields keep the types they have in the code; every parked entry and *)
(* every slot offered for reuse names an event that exists.                *)
THEOREM TypeCorrect == Spec => []TypeOK
<1>1. Spec => []Deferral!TypeOK
  BY ListDefers, DeferralFits, DeferralConfigured, Deferral!OwnersStayApart, PTL
<1>2. ListInv /\ Deferral!TypeOK => TypeOK
  <2> SUFFICES ASSUME ListInv, Deferral!TypeOK PROVE TypeOK
    OBVIOUS
  <2>1. /\ queue \in [Stream -> Seq(Block)]
        /\ event \in Seq([stream : Stream, after : Nat])
        /\ policy \in ReusePolicy /\ freeSlots \subseteq Slots
    BY DEF Deferral!TypeOK, Deferral!Mark, Deferral!Slots, Slots
  <2>2. pending \subseteq [block : Block, stream : Stream, slot : {kNoEventSlot} \cup Slots]
    BY DEF Deferral!TypeOK, Deferral!Entry, Deferral!Slots, Slots,
           Deferral!SlotsOf, Deferral!kNoEventSlot, kNoEventSlot
  <2> QED
    BY <2>1, <2>2 DEF ListInv, ListType, SlabsSound, Handle, TypeOK
<1> QED
  BY <1>1, <1>2, BlocksStayApart, PTL

(* With one allocating stream, and events that do not fail, no client is   *)
(* given a byte that another holds or that another stream still works on.  *)
THEOREM FreeListImplementsPool ==
  ASSUME Deferral!OneStream
  PROVE  Spec => ImplementsPool
<1>1. Spec => Deferral!ImplementsPool
  BY ListDefers, DeferralFits, DeferralConfigured, Deferral!DeferralImplementsPool, PTL
<1>2. Deferral!Pool!Init => Pool!Init
  BY DEF Deferral!Pool!Init, Pool!Init
<1>3. [Deferral!Pool!Next]_Deferral!Pool!poolVars => [Pool!Next]_Pool!poolVars
  BY DEF Deferral!Pool!Next, Pool!Next, Deferral!Pool!Alloc, Pool!Alloc,
     Deferral!Pool!Free, Pool!Free, Deferral!Pool!Launch, Pool!Launch,
     Deferral!Pool!Move, Pool!Move, Deferral!Pool!Device, Pool!Device,
     Deferral!Pool!Progresses, Pool!Progresses, Deferral!Pool!BusyElsewhere,
     Pool!BusyElsewhere, Deferral!Pool!poolVars, Pool!poolVars
<1> QED
  BY <1>1, <1>2, <1>3, PTL
     DEF Deferral!ImplementsPool, ImplementsPool, Deferral!Pool!Spec, Pool!Spec

(* OutOfMemory after the drain is final, unless blocks are split.          *)
THEOREM RefusedForGood == Spec => RefusalIsFinal
<1>1. ASSUME NEW bytes \in Sizes, NEW s \in AllocStream, AllocateRefused(bytes, s), ~split
      PROVE  Offers(classes, size_class_of(bytes))' = {}
  <2> DEFINE c == size_class_of(bytes)
             tails == {i \in Room(c) : \A h \in Room(c) : i <= h}
  <2>1. Offers(Refilled(s), c) = {} /\ classes'[c] = {} /\ UNCHANGED <<split, size, bump>>
    BY <1>1 DEF AllocateRefused, CannotGrow, NothingFits
  <2>2. tails = {}
    BY <1>1, <2>1 DEF Offers, ClassHit, Virgin
  <2>3. Room(c)' = Room(c)
    BY <2>1 DEF Room, Live
  <2>4. Virgin(classes, c)' = {}
    BY <2>2, <2>3 DEF Virgin
  <2> QED
    BY <1>1, <2>1, <2>4 DEF Offers
<1>2. [Next]_vars => [ret' = "kOutOfMemory" /\ ~split =>
        \A bytes \in Sizes, s \in AllocStream :
          AllocateRefused(bytes, s) => Offers(classes, size_class_of(bytes))' = {}]_vars
  BY <1>1
<1> QED
  BY <1>2, PTL DEF Spec, RefusalIsFinal

-----------------------------------------------------------------------------
(* What the statistics promise.                                            *)

(* Something bounded has a largest element.                                *)
LEMMA LargestElement ==
  ASSUME NEW S \in SUBSET Nat, S # {}, NEW bound \in Nat, \A x \in S : x <= bound
  PROVE  Max(S) \in S /\ \A x \in S : x <= Max(S)
<1> DEFINE above == {n \in Nat : \A x \in S : x <= n}
<1>1. PICK m \in above : \A n \in above : m <= n
  <2>1. above \in SUBSET Nat /\ bound \in above
    OBVIOUS
  <2> HIDE DEF above
  <2> QED
    BY <2>1, LeastElement
<1>2. m \in Nat /\ \A x \in S : x <= m
  OBVIOUS
<1>3. m \in S
  <2> SUFFICES ASSUME m \notin S PROVE FALSE
    OBVIOUS
  <2>1. \A x \in S : x \in Nat /\ x < m
    BY <1>2
  <2>2. m - 1 \in Nat
    <3>1. PICK x \in S : TRUE
      OBVIOUS
    <3> QED
      BY <1>2, <2>1, <3>1
  <2>3. \A x \in S : x <= m - 1
    BY <1>2, <2>1
  <2> QED
    BY <1>1, <1>2, <2>2, <2>3
<1>4. \E x \in S : \A y \in S : x >= y
  BY <1>2, <1>3
<1>5. Max(S) \in S /\ \A y \in S : Max(S) >= y
  BY <1>4 DEF Max
<1> QED
  BY <1>5

(* Whatever the bump pointers allow is found.                              *)
LEMMA FirstOfMany ==
  ASSUME NEW S \in SUBSET Nat, S # {}
  PROVE  {i \in S : \A h \in S : i <= h} # {}
BY LeastElement

LEMMA ServedByList ==
  ASSUME NEW c \in Class, classes[c] # {}
  PROVE  Offers(classes, c) # {}
BY DEF Offers, ClassHit

LEMMA ServedByTail ==
  ASSUME NEW c \in Class, Room(c) # {}
  PROVE  Offers(classes, c) # {}
<1>1. CASE classes[c] # {}
  BY <1>1, ServedByList
<1>2. CASE classes[c] = {} /\ split /\ Splittable(classes, c) # {}
  <2>1. Splittable(classes, c) \in SUBSET Nat
    BY ClassesAreRungs DEF Splittable, Class
  <2>2. PICK w \in SplitSource(classes, c) : TRUE
    BY <1>2, <2>1, FirstOfMany DEF SplitSource
  <2>3. PICK b \in classes[w] : TRUE
    BY <2>2 DEF SplitSource, Splittable
  <2>4. b \in UNION {classes[v] : v \in SplitSource(classes, c)}
    BY <2>2, <2>3
  <2>5. SplitHit(classes, c) # {}
    BY <2>4 DEF SplitHit
  <2> QED
    BY <1>2, <2>5 DEF Offers
<1>3. CASE classes[c] = {} /\ ~(split /\ Splittable(classes, c) # {})
  <2>1. Room(c) \in SUBSET Nat
    BY DEF Room, SlabId
  <2>2. PICK id \in Room(c) : \A h \in Room(c) : id <= h
    BY <2>1, LeastElement
  <2>3. Virgin(classes, c) # {}
    BY <2>2 DEF Virgin
  <2> QED
    BY <1>3, <2>3 DEF Offers
<1> QED
  BY <1>1, <1>2, <1>3

(* The sizes that the lists and the tails have to offer.                   *)
OnOffer == {b.bytes : b \in Cached} \cup UNION {TailServes(id) : id \in SlabId}

LEMMA OnOfferIs ==
  ASSUME ListInv
  PROVE  OnOffer = {class_block_bytes(c) : c \in {d \in Class : classes[d] # {} \/ Room(d) # {}}}
<1>1. ASSUME NEW c \in Class, NEW b \in classes[c] PROVE b.bytes = class_block_bytes(c)
  BY DEF ListInv, PoolSound
<1>2. {b.bytes : b \in Cached} = {class_block_bytes(c) : c \in {d \in Class : classes[d] # {}}}
  <2>1. ASSUME NEW b \in Cached
        PROVE  \E c \in Class : classes[c] # {} /\ b.bytes = class_block_bytes(c)
    BY <1>1 DEF Cached
  <2>2. ASSUME NEW c \in Class, classes[c] # {}
        PROVE  \E b \in Cached : b.bytes = class_block_bytes(c)
    BY <1>1, <2>2 DEF Cached
  <2> QED
    BY <2>1, <2>2
<1>3. UNION {TailServes(id) : id \in SlabId}
        = {class_block_bytes(c) : c \in {d \in Class : Room(d) # {}}}
  <2>1. \A d : Room(d) \subseteq SlabId
    BY DEF Room
  <2> QED
    BY <2>1 DEF TailServes
<1> QED
  BY <1>2, <1>3 DEF OnOffer

(* largest_free_block is the largest request that would be served now, if  *)
(* the threshold is a size of the ladder (the class lists go one size      *)
(* beyond a threshold that is not).                                        *)
ThresholdIsRung == class_block_bytes(size_class_of(LargeAlloc)) = LargeAlloc

LEMMA ExactWhenSound ==
  ASSUME ThresholdIsRung, ListInv
  PROVE  LargestFreeIsExact
<1> DEFINE S == {0} \cup OnOffer
<1>1. LargestFree = Max(S)
  <2>1. S = {0} \cup {b.bytes : b \in Cached} \cup UNION {TailServes(id) : id \in SlabId}
    BY DEF OnOffer
  <2> QED
    BY <2>1 DEF LargestFree
<1>2. ASSUME NEW c \in Class
      PROVE  class_block_bytes(c) \in Nat \ {0} /\ class_block_bytes(c) <= LargeAlloc
  <2>1. size_class_of(LargeAlloc) \in Class /\ c <= size_class_of(LargeAlloc)
    BY ClassesAreRungs DEF Class
  <2>2. class_block_bytes(c) <= class_block_bytes(size_class_of(LargeAlloc))
    <3>1. CASE c = size_class_of(LargeAlloc)
      BY <3>1, <2>1, ClassBlock
    <3>2. CASE c < size_class_of(LargeAlloc)
      BY <3>2, <2>1, BlocksGrow, ClassesAreRungs, ClassBlock
    <3> QED
      BY <2>1, <3>1, <3>2 DEF Class
  <2> QED
    BY <2>2, ClassBlock DEF ThresholdIsRung
<1>3. S \in SUBSET Nat /\ \A x \in S : x <= LargeAlloc
  BY <1>2, OnOfferIs, ClassesAreRungs
<1>4. LargestFree \in S /\ \A x \in S : x <= LargestFree
  BY <1>1, <1>3, LargestElement, ClassesAreRungs
<1> HIDE DEF S
<1>5. LargestFree # 0 =>
        LargestFree <= LargeAlloc /\ Offers(classes, size_class_of(LargestFree)) # {}
  <2> SUFFICES ASSUME LargestFree # 0
               PROVE  Offers(classes, size_class_of(LargestFree)) # {}
    BY <1>3, <1>4
  <2>1. PICK c \in Class : /\ classes[c] # {} \/ Room(c) # {}
                           /\ LargestFree = class_block_bytes(c)
    BY <1>4, OnOfferIs DEF S
  <2>2. size_class_of(LargestFree) = c
    BY <2>1, ClassBlock
  <2> QED
    BY <2>1, <2>2, ServedByList, ServedByTail
<1>6. ASSUME NEW bytes \in 1 .. LargeAlloc, Offers(classes, size_class_of(bytes)) # {}
      PROVE  bytes <= LargestFree
  <2> DEFINE c == size_class_of(bytes)
  <2>1. c \in Class /\ bytes <= class_block_bytes(c)
    BY RequestHasClass, ClassesAreRungs
  <2>2. PICK w \in Class : (classes[w] # {} \/ Room(w) # {}) /\ (w = c \/ c < w)
    BY <1>6, <2>1 DEF Offers, SplitHit, SplitSource, Splittable, Virgin
  <2>3. class_block_bytes(w) \in S
    BY <2>2, OnOfferIs DEF S
  <2>4. class_block_bytes(c) <= class_block_bytes(w)
    BY <1>2, <2>1, <2>2, BlocksGrow, ClassesAreRungs
  <2> QED
    BY <1>2, <1>3, <1>4, <2>1, <2>3, <2>4
<1> QED
  BY <1>5, <1>6 DEF LargestFreeIsExact

(* largest_free_block reports exactly the largest request that allocate    *)
(* would serve without the driver, if the threshold is itself a class size *)
(* (as in the default configuration).                                      *)
THEOREM LargestFreeExact ==
  ASSUME ThresholdIsRung
  PROVE  Spec => []LargestFreeIsExact
BY BlocksStayApart, ExactWhenSound, PTL

-----------------------------------------------------------------------------
(* No carved byte is ever lost.                                            *)

BlocksIn(lists, parked, handles) ==
  Listed(lists) \cup BlocksOf(parked) \cup {BlockOf(a) : a \in handles}

Covered(blocks, carved) ==
  \A id \in SlabId : \A x \in Nat :
    x < carved[id] => \E b \in blocks : b.slab = id /\ Covers(b, x)

TileInv == Covered(BlocksIn(classes, pending, live), bump)

LEMMA CoveredByMore ==
  ASSUME NEW blocks, NEW carved, Covered(blocks, carved), NEW more, blocks \subseteq more
  PROVE  Covered(more, carved)
BY DEF Covered

(* A carve brings the block for the bytes it takes.                        *)
LEMMA CarveCovers ==
  ASSUME bump \in [SlabId -> Nat], NEW c \in Class, NEW id \in SlabId, NEW blocks,
         NEW others, Covered(blocks \cup others, bump),
         NEW carved, carved = [bump EXCEPT ![id] = bump[id] + class_block_bytes(c)]
  PROVE  Covered(blocks \cup {Carve(id, bump[id], c)} \cup others, carved)
<1> DEFINE b == Carve(id, bump[id], c)
<1>1. class_block_bytes(c) \in Nat \ {0}
  BY ClassBlock
<1>2. b.slab = id /\ b.off = bump[id] /\ b.bytes = class_block_bytes(c)
  BY DEF Carve
<1>3. ASSUME NEW i \in SlabId, NEW x \in Nat, x < carved[i]
      PROVE  x < bump[i] \/ (b.slab = i /\ Covers(b, x))
  BY <1>1, <1>2, <1>3 DEF Covers
<1> HIDE DEF b
<1>4. Covered(blocks \cup {b} \cup others, carved)
  BY <1>3 DEF Covered
<1> QED
  BY <1>4 DEF b

(* Nothing is lost when a block is served from the lists or carved.        *)
LEMMA OfferCovers ==
  ASSUME SlabsSound, NEW lists \in [Class -> SUBSET Block], NEW parked, NEW handles,
         PoolSound(lists, parked, handles, bump), NEW c \in Class,
         NEW hit \in Offers(lists, c), NEW others, Covered(Listed(lists) \cup others, bump)
  PROVE  Covered(Listed(hit.lists) \cup {hit.block} \cup others, hit.bump)
<1>1. CASE hit \in ClassHit(lists, c)
  <2>1. PICK b \in lists[c] :
          hit = [block |-> b, lists |-> [lists EXCEPT ![c] = @ \ {b}], bump |-> bump]
    BY <1>1 DEF ClassHit
  <2>2. hit.block = b /\ hit.bump = bump /\ hit.lists = [lists EXCEPT ![c] = @ \ {b}]
    BY <2>1
  <2>3. Listed(lists) \subseteq Listed(hit.lists) \cup {b}
    BY <2>2 DEF Listed
  <2>4. Listed(lists) \cup others \subseteq Listed(hit.lists) \cup {hit.block} \cup others
    BY <2>2, <2>3
  <2> QED
    BY <2>2, <2>4, CoveredByMore, ZenonT(30)
<1>2. CASE hit \in SplitHit(lists, c)
  <2> DEFINE need == class_block_bytes(c)
  <2>1. PICK w \in SplitSource(lists, c) : \E b \in lists[w] :
          hit = [block |-> Piece(b, 0, need),
                 lists |-> Recached(lists, size_class_of(b.bytes), b, need), bump |-> bump]
    BY <1>2 DEF SplitHit
  <2>2. PICK b \in lists[w] :
          hit = [block |-> Piece(b, 0, need),
                 lists |-> Recached(lists, size_class_of(b.bytes), b, need), bump |-> bump]
    BY <2>1
  <2>3. w \in Class /\ c < w
    BY DEF SplitSource, Splittable
  <2>4. b.bytes = class_block_bytes(w) /\ size_class_of(b.bytes) = w /\ b \in Block
    BY <2>3, ListedIsClear, ClassBlock
  <2>5. need \in Nat \ {0} /\ need < b.bytes /\ b.off \in Nat /\ b.bytes \in Nat
    BY <2>3, <2>4, ClassBlock, BlocksGrow, ClassesAreRungs DEF Block
  <2> DEFINE rest == Piece(b, need, b.bytes - need)
             less == [lists EXCEPT ![w] = @ \ {b}]
             r == size_class_of(rest.bytes)
             more == [less EXCEPT ![r] = @ \cup {rest}]
  <2>6. hit.block = Piece(b, 0, need) /\ hit.bump = bump /\ hit.lists = more
    BY <2>2, <2>4 DEF Recached
  <2>7. /\ rest.slab = b.slab /\ rest.off = b.off + need /\ rest.bytes = b.bytes - need
        /\ hit.block.slab = b.slab /\ hit.block.off = b.off /\ hit.block.bytes = need
    BY <2>5, <2>6 DEF Piece
  <2>8. r \in Class
    BY <2>3, <2>4, <2>5, <2>7, RestHasClass
  <2> HIDE DEF need, rest
  <2>9. Listed(lists) \subseteq Listed(more) \cup {b} /\ rest \in Listed(more)
    BY <2>8 DEF Listed
  <2> HIDE DEF more
  <2>10. ASSUME NEW x \in Nat, Covers(b, x)
         PROVE  Covers(hit.block, x) \/ Covers(rest, x)
    BY <2>5, <2>7, <2>10 DEF Covers
  <2> QED
    BY <2>6, <2>7, <2>9, <2>10 DEF Covered
<1>3. CASE hit \in Virgin(lists, c)
  <2>1. PICK id \in Room(c) :
          hit = [block |-> Carve(id, bump[id], c), lists |-> lists,
                 bump |-> [bump EXCEPT ![id] = @ + class_block_bytes(c)]]
    BY <1>3 DEF Virgin
  <2>2. hit.block = Carve(id, bump[id], c) /\ hit.lists = lists
        /\ hit.bump = [bump EXCEPT ![id] = bump[id] + class_block_bytes(c)]
    BY <2>1
  <2>3. id \in SlabId
    BY <2>1 DEF Room
  <2> QED
    BY <2>2, <2>3, CarveCovers DEF SlabsSound
<1> QED
  BY <1>1, <1>2, <1>3 DEF Offers

(* A reclaim pass only moves blocks to the lists.                          *)
LEMMA GiveBackCovers ==
  ASSUME ListInv, TileInv, NEW entries \in SUBSET pending
  PROVE  Covered(Listed(WithCached(BlocksOf(entries)))
                   \cup (BlocksOf(pending \ entries) \cup {BlockOf(a) : a \in live}), bump)
<1>1. Listed(WithCached(BlocksOf(entries))) = Listed(classes) \cup BlocksOf(entries)
  BY GiveBackSound DEF ListInv, ListType
<1>2. BlocksOf(pending) \subseteq BlocksOf(entries) \cup BlocksOf(pending \ entries)
  BY DEF BlocksOf
<1> QED
  BY <1>1, <1>2, CoveredByMore DEF TileInv, BlocksIn

LEMMA RefilledCovers ==
  ASSUME ListInv, TileInv, NEW s
  PROVE  Covered(Listed(Refilled(s)) \cup (BlocksOf(pending \ Reclaimable(s))
                                             \cup {BlockOf(a) : a \in live}), bump)
BY GiveBackCovers, Reclaimable(s) \in SUBSET pending DEF Refilled, Reclaimable

LEMMA DrainedCovers ==
  ASSUME ListInv, TileInv
  PROVE  Covered(Listed(WithCached(Parked)) \cup {BlockOf(a) : a \in live}, bump)
<1>1. Listed(WithCached(Parked)) = Listed(classes) \cup BlocksOf(pending)
  BY GiveBackSound, pending \in SUBSET pending DEF ListInv, ListType, Parked
<1> QED
  BY <1>1 DEF TileInv, BlocksIn

LEMMA HandCovers ==
  ASSUME NEW block \in Block, NEW bytes \in Nat, NEW s \in Stream, Hand(block, bytes, s),
         Covered(Listed(classes') \cup {block}
                   \cup (BlocksOf(pending') \cup {BlockOf(a) : a \in live}), bump')
  PROVE  TileInv'
<1>1. PICK a \in Handle : live' = live \cup {a} /\ BlockOf(a) = block
  BY HandEffect
<1>2. Listed(classes') \cup {block} \cup (BlocksOf(pending') \cup {BlockOf(h) : h \in live})
        = BlocksIn(classes', pending', live')
  BY <1>1 DEF BlocksIn
<1> QED
  BY <1>2 DEF TileInv

LEMMA AllocateTiles ==
  ASSUME ListInv, TileInv, NEW bytes \in Sizes \ {0}, NEW s \in AllocStream,
         Allocate(bytes, s)
  PROVE  TileInv'
<1> DEFINE c == size_class_of(bytes)
           held == {BlockOf(a) : a \in live}
<1>0. bytes \in Nat /\ s \in Stream
  BY ConfigAssumption
<1>1. CASE AllocateFromPool(bytes, s)
  <2>1. PICK hit \in Offers(Refilled(s), c) :
          classes' = hit.lists /\ bump' = hit.bump /\ Hand(hit.block, bytes, s)
    BY <1>1 DEF AllocateFromPool
  <2>2. pending' = pending \ Reclaimable(s) /\ c \in Class
    BY <1>1, PooledClass DEF AllocateFromPool, ReleaseEntries
  <2> HIDE DEF c
  <2>3. /\ hit.block \in Block
        /\ Covered(Listed(hit.lists) \cup {hit.block} \cup (BlocksOf(pending') \cup held),
                   hit.bump)
    <3>1. HitSound(hit, c, pending', live)
      BY <2>1, <2>2, RefilledSound, OfferSound DEF ListInv
    <3>2. Covered(Listed(Refilled(s)) \cup (BlocksOf(pending') \cup held), bump)
      BY <2>2, RefilledCovers
    <3> QED
      BY <2>1, <2>2, <3>1, <3>2, RefilledSound, OfferCovers DEF HitSound, ListInv, InPool
  <2> QED
    BY <1>0, <2>1, <2>3, HandCovers
<1>2. CASE AllocateFromNewSlab(bytes, s)
  <2>1. PICK id \in AddSlabOk(SlabFor(bytes)) :
          /\ bump' = [bump EXCEPT ![id] = Carve(id, 0, c).bytes]
          /\ Hand(Carve(id, 0, c), bytes, s)
    BY <1>2 DEF AllocateFromNewSlab
  <2>2. /\ classes' = Refilled(s) /\ pending' = pending \ Reclaimable(s) /\ c \in Class
        /\ id \in SlabId /\ bump[id] = 0
    BY <1>2, <2>1, PooledClass
       DEF AllocateFromNewSlab, NothingFits, ReleaseEntries, AddSlabOk, Live, ListInv,
           SlabsSound
  <2> HIDE DEF c
  <2>3. class_block_bytes(c) \in Nat /\ Carve(id, 0, c).bytes = class_block_bytes(c)
    BY <2>2, ClassBlock DEF Carve
  <2>4. bump' = [bump EXCEPT ![id] = bump[id] + class_block_bytes(c)]
    <3>1. bump[id] + class_block_bytes(c) = class_block_bytes(c)
      BY <2>2, <2>3
    <3> QED
      BY <2>1, <2>3, <3>1
  <2>5. Covered(Listed(Refilled(s)) \cup (BlocksOf(pending') \cup held), bump)
    BY <2>2, RefilledCovers
  <2>6. Covered(Listed(classes') \cup {Carve(id, 0, c)} \cup (BlocksOf(pending') \cup held),
                bump')
    BY <2>2, <2>4, <2>5, CarveCovers DEF ListInv, SlabsSound
  <2>7. Carve(id, 0, c) \in Block
    BY <2>2, <2>3 DEF Carve, Block
  <2> QED
    BY <1>0, <2>1, <2>6, <2>7, HandCovers
<1>3. CASE AllocateAfterDrain(bytes, s)
  <2>1. PICK hit \in ClassHit(WithCached(Parked), c) :
          classes' = hit.lists /\ Hand(hit.block, bytes, s)
    BY <1>3 DEF AllocateAfterDrain
  <2>2. pending' = {} /\ bump' = bump /\ c \in Class
    BY <1>3, PooledClass DEF AllocateAfterDrain, CannotGrow, NothingFits, Drain, ReleaseEntries
  <2> HIDE DEF c
  <2>3. HitSound(hit, c, {}, live) /\ hit.bump = bump
    BY <2>1, <2>2, DrainedSound, ClassHitSound DEF ListInv
  <2>4. hit \in Offers(WithCached(Parked), c)
    BY <2>1 DEF Offers, ClassHit
  <2>5. Covered(Listed(hit.lists) \cup {hit.block} \cup held, bump')
    BY <2>2, <2>3, <2>4, DrainedSound, DrainedCovers, OfferCovers DEF ListInv
  <2>6. Listed(hit.lists) \cup {hit.block} \cup held
          = Listed(classes') \cup {hit.block} \cup (BlocksOf(pending') \cup held)
    BY <2>1, <2>2 DEF BlocksOf
  <2>7. hit.block \in Block
    BY <2>3 DEF HitSound, InPool
  <2> QED
    BY <1>0, <2>1, <2>5, <2>6, <2>7, HandCovers
<1>4. CASE AllocateRefused(bytes, s)
  <2>1. classes' = WithCached(Parked) /\ pending' = {} /\ UNCHANGED <<bump, live>>
    BY <1>4 DEF AllocateRefused, Drain, ReleaseEntries
  <2>2. Listed(WithCached(Parked)) \cup held \subseteq BlocksIn(classes', pending', live')
    BY <2>1 DEF BlocksIn
  <2> QED
    BY <2>1, <2>2, DrainedCovers, CoveredByMore DEF TileInv
<1>5. CASE AllocateBypass(bytes, s) \/ AllocateBypassFails(bytes, s)
  <2>1. /\ classes' = Refilled(s) /\ pending' = pending \ Reclaimable(s)
        /\ bump' = bump /\ live \subseteq live'
    BY <1>5 DEF AllocateBypass, AllocateBypassFails, ReleaseEntries, Hand
  <2>2. Listed(Refilled(s)) \cup (BlocksOf(pending') \cup held)
          \subseteq BlocksIn(classes', pending', live')
    BY <2>1 DEF BlocksIn
  <2> QED
    BY <2>1, <2>2, RefilledCovers, CoveredByMore DEF TileInv
<1> QED
  BY <1>1, <1>2, <1>3, <1>4, <1>5 DEF Allocate

LEMMA DeallocateTiles ==
  ASSUME ListInv, TileInv, NEW a \in live, Deallocate(a)
  PROVE  TileInv'
<1>1. PICK now \in BOOLEAN :
        /\ Retire(BlockOf(a), a.home, now)
        /\ classes' = IF now THEN WithCached({BlockOf(a)}) ELSE classes
  BY DEF Deallocate
<1>2. a.slab # kBypassSlabId /\ live' = live \ {a} /\ UNCHANGED bump
  BY DEF Deallocate
<1>3. \/ now /\ pending' = pending
      \/ ~now /\ \E slot : pending' = pending \cup
                    {[block |-> BlockOf(a), stream |-> a.home, slot |-> slot]}
  <2>1. Deferral!Retire(BlockOf(a), a.home, now)
    BY <1>1, SameRetire
  <2> QED
    BY <2>1, Deferral!RetireEffect, DeferralConfigured
<1>4. BlockOf(a) \in Listed(classes') \cup BlocksOf(pending')
  <2>1. CASE now
    <3>1. size_class_of(BlockOf(a).bytes) \in Class
      BY <1>2, InPoolProperties DEF ListInv, PoolSound
    <3> QED
      BY <1>1, <2>1, <3>1 DEF WithCached, Listed
  <2>2. CASE ~now
    BY <1>3, <2>2 DEF BlocksOf
  <2> QED
    BY <2>1, <2>2
<1>5. Listed(classes) \subseteq Listed(classes')
  BY <1>1 DEF WithCached, Listed
<1>6. BlocksOf(pending) \subseteq BlocksOf(pending')
  BY <1>3 DEF BlocksOf
<1>7. BlocksIn(classes, pending, live) \subseteq BlocksIn(classes', pending', live')
  BY <1>2, <1>4, <1>5, <1>6 DEF BlocksIn
<1> QED
  BY <1>2, <1>7, CoveredByMore DEF TileInv

LEMMA TrimTiles ==
  ASSUME ListInv, TileInv, Trim
  PROVE  TileInv'
<1> DEFINE lists == WithCached(Parked)
<1>1. /\ bump' = [id \in SlabId |-> IF id \in UnusedSlabs THEN 0 ELSE bump[id]]
      /\ classes' = [c \in Class |-> {b \in lists[c] : b.slab \notin UnusedSlabs}]
      /\ UNCHANGED live
  BY DEF Trim
<1>2. Covered(Listed(lists) \cup {BlockOf(a) : a \in live}, bump)
  BY DrainedCovers
<1> HIDE DEF lists
<1>3. ASSUME NEW b \in Listed(lists), b.slab \notin UnusedSlabs
      PROVE  b \in Listed(classes')
  BY <1>1, <1>3 DEF Listed
<1>4. ASSUME NEW id \in SlabId, NEW x \in Nat, x < bump'[id]
      PROVE  \E b \in BlocksIn(classes', pending', live') : b.slab = id /\ Covers(b, x)
  <2>1. id \notin UnusedSlabs /\ x < bump[id]
    BY <1>1, <1>4
  <2>2. PICK b \in Listed(lists) \cup {BlockOf(a) : a \in live} : b.slab = id /\ Covers(b, x)
    BY <1>2, <2>1 DEF Covered
  <2>3. b \in BlocksIn(classes', pending', live')
    BY <1>1, <1>3, <2>1, <2>2 DEF BlocksIn
  <2> QED
    BY <2>2, <2>3
<1> QED
  BY <1>4 DEF TileInv, Covered

LEMMA DeallocateBypassTiles ==
  ASSUME ListInv, TileInv, NEW a \in live, DeallocateBypass(a)
  PROVE  TileInv'
<1>1. /\ a.slab = kBypassSlabId /\ live' = live \ {a}
      /\ UNCHANGED <<pending, bump, classes>>
  BY DEF DeallocateBypass, reuseVars
<1>2. ASSUME NEW b \in BlocksIn(classes, pending, live), b.slab # kBypassSlabId
      PROVE  b \in BlocksIn(classes', pending', live')
  <2>1. BlockOf(a).slab = kBypassSlabId
    BY <1>1 DEF BlockOf
  <2> QED
    BY <1>1, <1>2, <2>1 DEF BlocksIn
<1>3. \A id \in SlabId : id # kBypassSlabId
  BY DEF SlabId, kBypassSlabId
<1> QED
  BY <1>1, <1>2, <1>3 DEF TileInv, Covered

LEMMA MoveTiles ==
  ASSUME ListInv, TileInv, NEW a \in live, NEW s \in Stream, Move(a, s)
  PROVE  TileInv'
<1> DEFINE moved == [a EXCEPT !.home = s]
<1>1. BlockOf(moved) = BlockOf(a)
  BY DEF ListInv, ListType, Handle, BlockOf
<1>2. live' = (live \ {a}) \cup {moved} /\ UNCHANGED <<pending, bump, classes>>
  BY DEF Move, reuseVars
<1> HIDE DEF moved
<1>3. BlocksIn(classes, pending, live) \subseteq BlocksIn(classes', pending', live')
  BY <1>1, <1>2 DEF BlocksIn
<1> QED
  BY <1>2, <1>3, CoveredByMore DEF TileInv

LEMMA TileStep ==
  ASSUME ListInv, TileInv, [Next]_vars
  PROVE  TileInv'
<1>1. ASSUME UNCHANGED <<classes, pending, live, bump>>
      PROVE  TileInv'
  BY <1>1 DEF TileInv, BlocksIn, Listed, BlocksOf
<1>2. ASSUME NEW s \in AllocStream, AllocateNothing(s)
      PROVE  TileInv'
  BY <1>1, <1>2 DEF AllocateNothing, reuseVars
<1>3. ASSUME NEW bytes \in Sizes, Reserve(bytes)
      PROVE  TileInv'
  BY <1>1, <1>3 DEF Reserve, reuseVars
<1>4. CASE SettlePending
  <2>1. classes' = WithCached(Parked) /\ pending' = {} /\ UNCHANGED <<bump, live>>
    BY <1>4 DEF SettlePending, Drain, ReleaseEntries
  <2>2. Listed(WithCached(Parked)) \cup {BlockOf(a) : a \in live}
          \subseteq BlocksIn(classes', pending', live')
    BY <2>1 DEF BlocksIn
  <2> QED
    BY <2>1, <2>2, DrainedCovers, CoveredByMore DEF TileInv
<1>5. ASSUME (\E a \in live : Use(a)) \/ Device \/ UNCHANGED vars
      PROVE  TileInv'
  BY <1>1, <1>5 DEF Use, Device, vars, listVars, reuseVars
<1> QED
  BY <1>2, <1>3, <1>4, <1>5, AllocateTiles, DeallocateTiles, DeallocateBypassTiles,
     TrimTiles, MoveTiles DEF Next

(* The central equation of validate(): each carved byte has one owner.     *)
LEMMA PartitionFollows ==
  ASSUME ListInv, TileInv
  PROVE  Partition
<1>1. ASSUME NEW id \in SlabId, NEW x \in 0 .. bump[id] - 1
      PROVE  \E o \in Owners(id, x) : Owners(id, x) = {o}
  <2>1. bump[id] \in Nat /\ x \in Nat /\ x < bump[id] /\ id # kBypassSlabId
    BY DEF ListInv, SlabsSound, SlabId, kBypassSlabId
  <2>2. PICK b \in BlocksIn(classes, pending, live) : b.slab = id /\ Covers(b, x)
    BY <2>1 DEF TileInv, Covered
  <2>3. ASSUME NEW d, NEW e, d.slab = id, e.slab = id, Covers(d, x), Covers(e, x),
               d.off \in Nat, e.off \in Nat, d.bytes \in Nat, e.bytes \in Nat
        PROVE  Overlaps(d, e)
    BY <2>1, <2>3 DEF Overlaps, Covers
  <2>4. \A c \in Class : \A e \in classes[c] : e.off \in Nat /\ e.bytes \in Nat
    BY DEF ListInv, ListType, Block
  <2>5. \A p \in pending : p.block.off \in Nat /\ p.block.bytes \in Nat
    BY InPoolProperties DEF ListInv, PoolSound
  <2>6. \A a \in live : /\ BlockOf(a).off \in Nat /\ BlockOf(a).bytes \in Nat
                        /\ BlockOf(a).slab = a.slab
                        /\ Covers(a, x) <=> Covers(BlockOf(a), x)
    BY DEF ListInv, ListType, Handle, BlockOf, Covers
  <2>7. ASSUME NEW a \in live, a.slab = id, Covers(BlockOf(a), x)
        PROVE  Owners(id, x) = {<<"live", a>>}
    <3>1. \A h \in live : h.slab = id /\ Covers(h, x) => h = a
      BY <2>3, <2>6, <2>7 DEF ListInv, PoolSound
    <3>2. \A p \in pending : ~(p.block.slab = id /\ Covers(p.block, x))
      BY <2>3, <2>5, <2>6, <2>7 DEF ListInv, PoolSound
    <3>3. \A c \in Class : \A e \in classes[c] : ~(e.slab = id /\ Covers(e, x))
      BY <2>3, <2>4, <2>6, <2>7 DEF ListInv, PoolSound, Listed
    <3> QED
      BY <2>6, <2>7, <3>1, <3>2, <3>3 DEF Owners
  <2>8. ASSUME NEW p \in pending, p.block.slab = id, Covers(p.block, x)
        PROVE  Owners(id, x) = {<<"parked", p>>}
    <3>1. \A h \in live : ~(h.slab = id /\ Covers(h, x))
      BY <2>3, <2>5, <2>6, <2>8 DEF ListInv, PoolSound
    <3>2. \A q \in pending : q.block.slab = id /\ Covers(q.block, x) => q = p
      BY <2>3, <2>5, <2>8 DEF ListInv, PoolSound
    <3>3. \A c \in Class : \A e \in classes[c] : ~(e.slab = id /\ Covers(e, x))
      BY <2>3, <2>4, <2>5, <2>8 DEF ListInv, PoolSound, Listed
    <3> QED
      BY <2>8, <3>1, <3>2, <3>3 DEF Owners
  <2>9. ASSUME NEW c \in Class, NEW e \in classes[c], e.slab = id, Covers(e, x)
        PROVE  Owners(id, x) = {<<"cached", c, e>>}
    <3>1. \A h \in live : ~(h.slab = id /\ Covers(h, x))
      BY <2>3, <2>4, <2>6, <2>9 DEF ListInv, PoolSound, Listed
    <3>2. \A p \in pending : ~(p.block.slab = id /\ Covers(p.block, x))
      BY <2>3, <2>4, <2>5, <2>9 DEF ListInv, PoolSound, Listed
    <3>3. ASSUME NEW d \in Class, NEW g \in classes[d], g.slab = id, Covers(g, x)
          PROVE  d = c /\ g = e
      <4>1. g = e
        BY <2>3, <2>4, <2>9, <3>3 DEF ListInv, PoolSound, Listed
      <4> QED
        BY <3>3, <4>1, ListedIsClear DEF ListInv
    <3> QED
      BY <2>9, <3>1, <3>2, <3>3 DEF Owners
  <2>10. CASE \E a \in live : b = BlockOf(a)
    BY <2>2, <2>6, <2>7, <2>10
  <2>11. CASE b \in BlocksOf(pending)
    BY <2>2, <2>8, <2>11 DEF BlocksOf
  <2>12. CASE b \in Listed(classes)
    BY <2>2, <2>9, <2>12 DEF Listed
  <2> QED
    BY <2>2, <2>10, <2>11, <2>12 DEF BlocksIn
<1>2. ASSUME NEW b, InPool(b, bump)
      PROVE  /\ b.bytes = class_block_bytes(size_class_of(b.bytes))
             /\ b.slab \in SlabId /\ b.off + b.bytes <= bump[b.slab]
  BY <1>2, InPoolProperties DEF InPool
<1>3. \A b \in Cached \cup Parked : InPool(b, bump)
  BY DEF ListInv, PoolSound, Cached, Parked, BlocksOf
<1>4. \A a \in live : a.slab # kBypassSlabId =>
        /\ InPool(BlockOf(a), bump)
        /\ BlockOf(a).slab = a.slab /\ BlockOf(a).off = a.off /\ BlockOf(a).bytes = a.bytes
  BY DEF ListInv, PoolSound, BlockOf
<1>5. \A c \in Class : \A b \in classes[c] : b.bytes = class_block_bytes(c)
  BY DEF ListInv, PoolSound
<1> QED
  BY <1>1, <1>2, <1>3, <1>4, <1>5 DEF Partition

(* Every carved byte of every slab belongs to exactly one of the clients,  *)
(* the class lists and the parked blocks: allocate, deallocate and trim    *)
(* neither lose a byte nor count one twice.                                *)
THEOREM BytesHaveOneOwner == Spec => []Partition
<1>1. Init => TileInv
  BY ConfigAssumption DEF Init, TileInv, Covered
<1>2. ListInv /\ TileInv /\ [Next]_vars => TileInv'
  BY TileStep
<1>3. ListInv /\ TileInv => Partition
  BY PartitionFollows
<1> QED
  BY <1>1, <1>2, <1>3, BlocksStayApart, PTL DEF Spec

-----------------------------------------------------------------------------
(* What is counted: the other equations of validate().                     *)

(* The size on record of a block of its own is that of its handle, so that *)
(* deallocate takes off what allocate added.                               *)
BypassPaired ==
  /\ \A x, y \in bypassed : x.ptr = y.ptr => x = y
  /\ \A a \in live : a.slab = kBypassSlabId =>
       \E x \in bypassed : x.ptr = a.off /\ x.bytes = a.bytes

CapHonoured == MaxTotalBytes # 0 => ReservedInSlabs <= MaxTotalBytes

BooksInv ==
  /\ IsFiniteSet(live) /\ IsFiniteSet(bypassed)
  /\ stats \in [reserved : Int, in_use : Int, requested : Int]
  /\ BytesAccounted /\ BypassPaired /\ CapHonoured

LEMMA HandleNumbers ==
  ASSUME ListInv
  PROVE  /\ \A a \in live : a.bytes \in Nat /\ a.requested \in Nat
         /\ \A x \in bypassed : x.bytes \in Nat
BY DEF ListInv, ListType, Handle

LEMMA SlabsAreFinite == IsFiniteSet(SlabId)
<1>1. 1 \in Int /\ MaxSlabs \in Int
  BY ConfigAssumption
<1>2. IsFiniteSet(1 .. MaxSlabs)
  BY <1>1, FS_Interval
<1> QED
  BY <1>2 DEF SlabId

(* The bytes of the slabs.                                                 *)
LEMMA SlabsAdded ==
  ASSUME SlabsSound, NEW bytes \in Nat, NEW id \in AddSlabOk(bytes)
  PROVE  /\ SumFunction([size EXCEPT ![id] = bytes]) = ReservedInSlabs + bytes
         /\ ReservedInSlabs \in Nat
         /\ MaxTotalBytes # 0 => ReservedInSlabs + bytes <= MaxTotalBytes
<1>1. id \in SlabId /\ size[id] = 0 /\ ~Refused(bytes)
  BY DEF AddSlabOk, Live
<1>2. IsFiniteSet(SlabId) /\ size \in [SlabId -> Nat]
  BY SlabsAreFinite DEF SlabsSound
<1>3. ReservedInSlabs \in Nat
  BY <1>2, TotalIsNat DEF ReservedInSlabs
<1>4. SumFunction([size EXCEPT ![id] = bytes]) = (SumFunction(size) - size[id]) + bytes
  BY <1>1, <1>2, TotalUpdated
<1>5. MaxTotalBytes # 0 => ReservedInSlabs + bytes <= MaxTotalBytes
  BY <1>1, <1>3, ConfigAssumption DEF Refused
<1> QED
  BY <1>1, <1>3, <1>4, <1>5 DEF ReservedInSlabs

(* What is handed out was not live before: it is clear of what was.        *)
LEMMA HandedIsNew ==
  ASSUME ListInv, NEW s, Handed(s), NEW a, live' = live \cup {a}
  PROVE  a \notin live
<1> SUFFICES ASSUME a \in live PROVE FALSE
  OBVIOUS
<1>1. PICK b \in Block : /\ Deferral!Free(b)
                         /\ HeldBy(live)' = HeldBy(live) \cup {[block |-> b, home |-> s]}
  BY DEF Handed
<1>2. HeldBy(live)' = HeldBy(live)
  BY DEF HeldBy
<1>3. [block |-> b, home |-> s] \in HeldBy(live)
  BY <1>1, <1>2
<1>4. PICK h \in live : BlockOf(h) = b
  BY <1>3 DEF HeldBy
<1>5. ~Overlaps(BlockOf(h), b)
  <2>1. [block |-> BlockOf(h), home |-> h.home] \in HeldBy(live)
    BY DEF HeldBy
  <2> QED
    BY <1>1, <2>1 DEF Deferral!Free
<1>6. Overlaps(BlockOf(h), BlockOf(h))
  <2>1. CASE h.slab = kBypassSlabId
    BY <2>1 DEF Overlaps, BlockOf
  <2>2. CASE h.slab # kBypassSlabId
    BY <2>2, InPoolProperties DEF ListInv, PoolSound
  <2> QED
    BY <2>1, <2>2
<1> QED
  BY <1>4, <1>5, <1>6

(* allocate counts the block and the request it hands out.                 *)
LEMMA HandCounted ==
  ASSUME ListInv, BooksInv, NEW block \in Block, NEW bytes \in Nat, NEW s,
         NEW grown \in Int, Hand(block, bytes, s), Counted(block.bytes, bytes, grown),
         Handed(s), bytes <= block.bytes
  PROVE  /\ IsFiniteSet(live')
         /\ stats' \in [reserved : Int, in_use : Int, requested : Int]
         /\ stats'.reserved = stats.reserved + grown
         /\ stats'.in_use = BytesIn(live') /\ stats'.requested = RequestedOf(live')
         /\ \A a \in live' : a.bytes >= a.requested
<1> DEFINE a == [slab |-> block.slab, off |-> block.off, bytes |-> block.bytes,
                 requested |-> bytes, home |-> s]
<1>1. live' = live \cup {a} /\ a.bytes = block.bytes /\ a.requested = bytes
  BY DEF Hand
<1> HIDE DEF a
<1>2. block.bytes \in Nat
  BY DEF Block
<1>3. a \notin live
  BY <1>1, HandedIsNew
<1>4. IsFiniteSet(live')
  BY <1>1, FS_AddElement DEF BooksInv
<1>5. stats' = [reserved |-> stats.reserved + grown,
                in_use |-> stats.in_use + block.bytes, requested |-> stats.requested + bytes]
  BY DEF Counted
<1>6. /\ stats.in_use = BytesIn(live) /\ stats.requested = RequestedOf(live)
      /\ stats.reserved \in Int /\ stats.in_use \in Int /\ stats.requested \in Int
      /\ \A h \in live : h.bytes >= h.requested
  BY DEF BooksInv, BytesAccounted, BytesIn, RequestedOf
<1>7. BytesIn(live') = BytesIn(live) + block.bytes
  BY <1>1, <1>2, <1>3, BytesOfSome, HandleNumbers DEF BooksInv
<1>8. RequestedOf(live') = RequestedOf(live) + bytes
  BY <1>1, <1>3, RequestedOfSome, HandleNumbers DEF BooksInv
<1> QED
  BY <1>1, <1>2, <1>4, <1>5, <1>6, <1>7, <1>8

LEMMA BooksUnchanged ==
  ASSUME BooksInv, UNCHANGED <<size, bypassed, stats, live>>
  PROVE  BooksInv'
BY DEF BooksInv, BytesAccounted, BypassPaired, CapHonoured, ReservedInSlabs

LEMMA BooksInNumbers ==
  ASSUME ListInv, BooksInv
  PROVE  /\ ReservedInSlabs \in Nat /\ BytesIn(bypassed) \in Nat
         /\ stats.reserved = ReservedInSlabs + BytesIn(bypassed)
         /\ stats.in_use = BytesIn(live) /\ stats.requested = RequestedOf(live)
         /\ \A a \in live : a.bytes >= a.requested
<1>1. ReservedInSlabs \in Nat
  BY TotalIsNat, SlabsAreFinite DEF ReservedInSlabs, ListInv, SlabsSound
<1>2. BytesIn(bypassed) \in Nat
  BY BytesOfSome, HandleNumbers DEF BooksInv
<1> QED
  BY <1>1, <1>2 DEF BooksInv, BytesAccounted, BytesIn, RequestedOf

(* A block of a slab is handed out, perhaps of a new one.                  *)
LEMMA PoolBooks ==
  ASSUME ListInv, BooksInv, NEW block, block \in Block, block.slab # kBypassSlabId,
         NEW bytes \in Nat, bytes <= block.bytes, NEW s, NEW grown \in Nat,
         Hand(block, bytes, s), Counted(block.bytes, bytes, grown), Handed(s),
         ReservedInSlabs' = ReservedInSlabs + grown, CapHonoured', bypassed' = bypassed
  PROVE  BooksInv'
<1>1. /\ IsFiniteSet(live')
      /\ stats' \in [reserved : Int, in_use : Int, requested : Int]
      /\ stats'.reserved = stats.reserved + grown
      /\ stats'.in_use = BytesIn(live') /\ stats'.requested = RequestedOf(live')
      /\ \A a \in live' : a.bytes >= a.requested
  BY HandCounted
<1>2. stats'.reserved = ReservedInSlabs' + BytesIn(bypassed')
  BY <1>1, BooksInNumbers
<1>3. BytesAccounted'
  BY <1>1, <1>2 DEF BytesAccounted, BytesIn, RequestedOf
<1>4. BypassPaired'
  BY DEF Hand, BooksInv, BypassPaired
<1> QED
  BY <1>1, <1>3, <1>4 DEF BooksInv

LEMMA AllocateBooks ==
  ASSUME ListInv, BooksInv, NEW bytes \in Sizes \ {0}, NEW s \in AllocStream,
         \/ AllocateFromPool(bytes, s) \/ AllocateFromNewSlab(bytes, s)
         \/ AllocateAfterDrain(bytes, s)
  PROVE  BooksInv'
<1> DEFINE c == size_class_of(bytes)
<1>1. Handed(s)
  BY PoolStep, NewSlabStep, AfterDrainStep
<1>2. Pooled(bytes) /\ c \in Class /\ bytes \in Nat /\ bytes <= class_block_bytes(c)
  <2>1. Pooled(bytes)
    BY DEF AllocateFromPool, AllocateFromNewSlab, AllocateAfterDrain, CannotGrow, NothingFits
  <2> QED
    BY <2>1, RequestHasClass, ConfigAssumption DEF Pooled
<1>3. CapHonoured /\ ReservedInSlabs \in Nat
  BY BooksInNumbers DEF BooksInv
<1>4. ASSUME NEW block, block \in Block, block.slab # kBypassSlabId,
             block.bytes = class_block_bytes(c), NEW grown \in Nat,
             Hand(block, bytes, s), Counted(block.bytes, bytes, grown),
             ReservedInSlabs' = ReservedInSlabs + grown, CapHonoured', bypassed' = bypassed
      PROVE  BooksInv'
  BY <1>1, <1>2, <1>4, PoolBooks
<1>5. CASE AllocateFromPool(bytes, s)
  <2>1. PICK hit \in Offers(Refilled(s), c) :
          Hand(hit.block, bytes, s) /\ Counted(hit.block.bytes, bytes, 0)
    BY <1>5 DEF AllocateFromPool
  <2>2. UNCHANGED <<size, bypassed>>
    BY <1>5 DEF AllocateFromPool
  <2> HIDE DEF c
  <2>3. HitSound(hit, c, pending \ Reclaimable(s), live)
    BY <1>2, RefilledSound, OfferSound DEF ListInv
  <2>4. hit.block \in Block /\ hit.block.slab # kBypassSlabId
        /\ hit.block.bytes = class_block_bytes(c)
    BY <2>3, InPoolProperties DEF HitSound
  <2>5. ReservedInSlabs' = ReservedInSlabs + 0 /\ CapHonoured'
    BY <1>3, <2>2 DEF ReservedInSlabs, CapHonoured
  <2> QED
    BY <1>4, <2>1, <2>2, <2>4, <2>5
<1>6. CASE AllocateFromNewSlab(bytes, s)
  <2>1. PICK id \in AddSlabOk(SlabFor(bytes)) :
          /\ size' = [size EXCEPT ![id] = SlabFor(bytes)]
          /\ Hand(Carve(id, 0, c), bytes, s)
          /\ Counted(Carve(id, 0, c).bytes, bytes, SlabFor(bytes))
    BY <1>6 DEF AllocateFromNewSlab
  <2>2. bypassed' = bypassed
    BY <1>6 DEF AllocateFromNewSlab
  <2>3. SlabFor(bytes) \in Nat /\ class_block_bytes(c) \in Nat
    BY <1>2, ClassBlock, ConfigAssumption DEF SlabFor, Larger
  <2> HIDE DEF c
  <2>4. /\ ReservedInSlabs' = ReservedInSlabs + SlabFor(bytes)
        /\ MaxTotalBytes # 0 => ReservedInSlabs + SlabFor(bytes) <= MaxTotalBytes
    BY <2>1, <2>3, SlabsAdded DEF ListInv, ReservedInSlabs
  <2>5. CapHonoured'
    BY <2>4 DEF CapHonoured
  <2>6. /\ Carve(id, 0, c) \in Block /\ Carve(id, 0, c).slab # kBypassSlabId
        /\ Carve(id, 0, c).bytes = class_block_bytes(c)
    BY <2>1, <2>3 DEF Carve, Block, AddSlabOk, SlabId, kBypassSlabId
  <2> QED
    BY <1>4, <2>1, <2>2, <2>3, <2>4, <2>5, <2>6
<1>7. CASE AllocateAfterDrain(bytes, s)
  <2>1. PICK hit \in ClassHit(WithCached(Parked), c) :
          Hand(hit.block, bytes, s) /\ Counted(hit.block.bytes, bytes, 0)
    BY <1>7 DEF AllocateAfterDrain
  <2>2. UNCHANGED <<size, bypassed>>
    BY <1>7 DEF AllocateAfterDrain
  <2> HIDE DEF c
  <2>3. HitSound(hit, c, {}, live)
    BY <1>2, DrainedSound, ClassHitSound DEF ListInv
  <2>4. hit.block \in Block /\ hit.block.slab # kBypassSlabId
        /\ hit.block.bytes = class_block_bytes(c)
    BY <2>3, InPoolProperties DEF HitSound
  <2>5. ReservedInSlabs' = ReservedInSlabs + 0 /\ CapHonoured'
    BY <1>3, <2>2 DEF ReservedInSlabs, CapHonoured
  <2> QED
    BY <1>4, <2>1, <2>2, <2>4, <2>5
<1> QED
  BY <1>5, <1>6, <1>7

LEMMA BypassBooks ==
  ASSUME ListInv, BooksInv, NEW bytes \in Sizes, NEW s \in AllocStream,
         AllocateBypass(bytes, s)
  PROVE  BooksInv'
<1>1. PICK ptr \in BypassPtr :
        /\ bypassed' = bypassed \cup {[ptr |-> ptr, bytes |-> bytes]}
        /\ Hand([slab |-> kBypassSlabId, off |-> ptr, bytes |-> bytes], bytes, s)
  BY DEF AllocateBypass
<1>2. Counted(bytes, bytes, bytes) /\ UNCHANGED size
  BY DEF AllocateBypass
<1> DEFINE block == [slab |-> kBypassSlabId, off |-> ptr, bytes |-> bytes]
           x == [ptr |-> ptr, bytes |-> bytes]
<1>3. ptr \in Nat /\ bytes \in Nat /\ \A y \in bypassed : y.ptr # ptr
  BY ConfigAssumption DEF BypassPtr
<1>4. block \in Block /\ block.bytes = bytes /\ Handed(s)
  BY <1>3, BypassStep DEF Block
<1>5. x \notin bypassed /\ x.bytes = bytes /\ x.ptr = ptr
  BY <1>3
<1>6. Hand(block, bytes, s) /\ Counted(block.bytes, bytes, bytes)
  BY <1>1, <1>2
<1>7. bypassed' = bypassed \cup {x}
  BY <1>1
<1>8. BypassPaired'
  <2>1. \A y, z \in bypassed' : y.ptr = z.ptr => y = z
    BY <1>3, <1>5, <1>7 DEF BooksInv, BypassPaired
  <2>2. ASSUME NEW a \in live', a.slab = kBypassSlabId
        PROVE  \E y \in bypassed' : y.ptr = a.off /\ y.bytes = a.bytes
    <3>1. CASE a \in live
      BY <1>7, <2>2, <3>1 DEF BooksInv, BypassPaired
    <3>2. CASE a \notin live
      <4>1. a.off = ptr /\ a.bytes = bytes
        BY <1>6, <2>2, <3>2 DEF Hand
      <4> QED
        BY <1>5, <1>7, <4>1
    <3> QED
      BY <3>1, <3>2
  <2> QED
    BY <2>1, <2>2 DEF BypassPaired
<1> HIDE DEF block, x
<1>9. /\ IsFiniteSet(live')
      /\ stats' \in [reserved : Int, in_use : Int, requested : Int]
      /\ stats'.reserved = stats.reserved + bytes
      /\ stats'.in_use = BytesIn(live') /\ stats'.requested = RequestedOf(live')
      /\ \A a \in live' : a.bytes >= a.requested
  BY <1>3, <1>4, <1>6, HandCounted
<1>10. IsFiniteSet(bypassed')
  BY <1>7, FS_AddElement DEF BooksInv
<1>11. BytesIn(bypassed') = BytesIn(bypassed) + bytes
  BY <1>3, <1>5, <1>7, BytesOfSome, HandleNumbers DEF BooksInv
<1>12. ReservedInSlabs' = ReservedInSlabs /\ CapHonoured'
  BY <1>2 DEF ReservedInSlabs, BooksInv, CapHonoured
<1>13. stats'.reserved = ReservedInSlabs' + BytesIn(bypassed')
  BY <1>3, <1>9, <1>11, <1>12, BooksInNumbers
<1>14. BytesAccounted'
  BY <1>9, <1>13 DEF BytesAccounted, BytesIn, RequestedOf
<1> QED
  BY <1>8, <1>9, <1>10, <1>12, <1>14 DEF BooksInv

(* deallocate takes off what the handle says.                              *)
LEMMA LetGoCounted ==
  ASSUME ListInv, BooksInv, NEW a \in live, NEW returned \in Int,
         live' = live \ {a}, Uncounted(a, returned)
  PROVE  /\ IsFiniteSet(live')
         /\ stats' \in [reserved : Int, in_use : Int, requested : Int]
         /\ stats'.reserved = stats.reserved - returned
         /\ stats'.in_use = BytesIn(live') /\ stats'.requested = RequestedOf(live')
         /\ \A h \in live' : h.bytes >= h.requested
<1>1. IsFiniteSet(live')
  BY FS_Subset, live \ {a} \in SUBSET live DEF BooksInv
<1>2. a.bytes \in Nat /\ a.requested \in Nat
  BY HandleNumbers
<1>3. BytesIn(live') = BytesIn(live) - a.bytes
  BY BytesOfSome, HandleNumbers DEF BooksInv
<1>4. RequestedOf(live') = RequestedOf(live) - a.requested
  BY RequestedOfSome, HandleNumbers DEF BooksInv
<1>5. stats.reserved \in Int /\ stats.in_use \in Int /\ stats.requested \in Int
  BY DEF BooksInv
<1> QED
  BY <1>1, <1>2, <1>3, <1>4, <1>5, BooksInNumbers DEF Uncounted

LEMMA DeallocateBooks ==
  ASSUME ListInv, BooksInv, NEW a \in live, Deallocate(a)
  PROVE  BooksInv'
<1>1. live' = live \ {a} /\ Uncounted(a, 0) /\ UNCHANGED <<size, bypassed>>
  BY DEF Deallocate
<1>2. /\ IsFiniteSet(live')
      /\ stats' \in [reserved : Int, in_use : Int, requested : Int]
      /\ stats'.reserved = stats.reserved - 0
      /\ stats'.in_use = BytesIn(live') /\ stats'.requested = RequestedOf(live')
      /\ \A h \in live' : h.bytes >= h.requested
  <2>1. 0 \in Int
    OBVIOUS
  <2> QED
    BY <1>1, <2>1, LetGoCounted, Zenon
<1>3. ReservedInSlabs' = ReservedInSlabs /\ CapHonoured'
  BY <1>1 DEF ReservedInSlabs, BooksInv, CapHonoured
<1>4. stats'.reserved = ReservedInSlabs' + BytesIn(bypassed')
  BY <1>1, <1>2, <1>3, BooksInNumbers
<1>5. BytesAccounted'
  BY <1>2, <1>4 DEF BytesAccounted, BytesIn, RequestedOf
<1>6. BypassPaired'
  BY <1>1 DEF BooksInv, BypassPaired
<1> QED
  BY <1>1, <1>2, <1>3, <1>5, <1>6 DEF BooksInv

LEMMA DeallocateBypassBooks ==
  ASSUME ListInv, BooksInv, NEW a \in live, DeallocateBypass(a)
  PROVE  BooksInv'
<1>1. /\ a.slab = kBypassSlabId /\ bypassed' = {b \in bypassed : b.ptr # a.off}
      /\ live' = live \ {a} /\ Uncounted(a, a.bytes) /\ UNCHANGED size
  BY DEF DeallocateBypass
<1>2. PICK x \in bypassed : x.ptr = a.off /\ x.bytes = a.bytes
  BY <1>1 DEF BooksInv, BypassPaired
<1>3. bypassed' = bypassed \ {x}
  BY <1>1, <1>2 DEF BooksInv, BypassPaired
<1>4. a.bytes \in Nat /\ a.bytes \in Int
  BY HandleNumbers
<1>5. /\ IsFiniteSet(live')
      /\ stats' \in [reserved : Int, in_use : Int, requested : Int]
      /\ stats'.reserved = stats.reserved - a.bytes
      /\ stats'.in_use = BytesIn(live') /\ stats'.requested = RequestedOf(live')
      /\ \A h \in live' : h.bytes >= h.requested
  BY <1>1, <1>4, LetGoCounted
<1>6. BytesIn(bypassed') = BytesIn(bypassed) - a.bytes
  BY <1>2, <1>3, BytesOfSome, HandleNumbers DEF BooksInv
<1>7. IsFiniteSet(bypassed')
  BY <1>3, FS_Subset, bypassed \ {x} \in SUBSET bypassed DEF BooksInv
<1>8. ReservedInSlabs' = ReservedInSlabs /\ CapHonoured'
  BY <1>1 DEF ReservedInSlabs, BooksInv, CapHonoured
<1>9. stats'.reserved = ReservedInSlabs' + BytesIn(bypassed')
  BY <1>4, <1>5, <1>6, <1>8, BooksInNumbers
<1>10. BytesAccounted'
  BY <1>5, <1>9 DEF BytesAccounted, BytesIn, RequestedOf
<1>11. BypassPaired'
  <2>1. ASSUME NEW h \in live', h.slab = kBypassSlabId
        PROVE  \E y \in bypassed' : y.ptr = h.off /\ y.bytes = h.bytes
    <3>1. PICK y \in bypassed : y.ptr = h.off /\ y.bytes = h.bytes
      BY <1>1, <2>1 DEF BooksInv, BypassPaired
    <3>2. ~Overlaps(BlockOf(h), BlockOf(a))
      BY <1>1, <2>1 DEF ListInv, PoolSound
    <3>3. h.off # a.off
      BY <1>1, <2>1, <3>2 DEF Overlaps, BlockOf
    <3> QED
      BY <1>1, <3>1, <3>3
  <2> QED
    BY <1>3, <2>1 DEF BooksInv, BypassPaired
<1> QED
  BY <1>5, <1>7, <1>8, <1>10, <1>11 DEF BooksInv

LEMMA ReserveBooks ==
  ASSUME ListInv, BooksInv, NEW bytes \in Sizes, Reserve(bytes)
  PROVE  BooksInv'
<1>1. UNCHANGED <<bypassed, live>>
  BY DEF Reserve
<1>2. CASE UNCHANGED <<size, stats>>
  BY <1>1, <1>2, BooksUnchanged
<1> DEFINE more == Larger(bytes, MinSlabBytes)
<1>3. ASSUME NEW id \in AddSlabOk(more), size' = [size EXCEPT ![id] = more],
             Counted(0, 0, more)
      PROVE  BooksInv'
  <2>1. more \in Nat
    BY ConfigAssumption DEF Larger
  <2> HIDE DEF more
  <2>2. /\ ReservedInSlabs' = ReservedInSlabs + more
        /\ MaxTotalBytes # 0 => ReservedInSlabs + more <= MaxTotalBytes
    BY <1>3, <2>1, SlabsAdded DEF ListInv, ReservedInSlabs
  <2>3. stats.reserved \in Int /\ stats.in_use \in Int /\ stats.requested \in Int
    BY DEF BooksInv
  <2>4. /\ stats' \in [reserved : Int, in_use : Int, requested : Int]
        /\ stats'.reserved = ReservedInSlabs' + BytesIn(bypassed')
        /\ stats'.in_use = BytesIn(live') /\ stats'.requested = RequestedOf(live')
    BY <1>1, <1>3, <2>1, <2>2, <2>3, BooksInNumbers DEF Counted
  <2>5. BytesAccounted'
    BY <1>1, <2>4 DEF BooksInv, BytesAccounted, BytesIn, RequestedOf
  <2>6. BypassPaired' /\ CapHonoured'
    BY <1>1, <2>2 DEF BooksInv, BypassPaired, CapHonoured
  <2> QED
    BY <1>1, <2>4, <2>5, <2>6 DEF BooksInv
<1> QED
  BY <1>2, <1>3 DEF Reserve

LEMMA TrimBooks ==
  ASSUME ListInv, BooksInv, Trim
  PROVE  BooksInv'
<1> DEFINE returned == SumFunctionOnSet(size, UnusedSlabs)
<1>1. /\ size' = [id \in SlabId |-> IF id \in UnusedSlabs THEN 0 ELSE size[id]]
      /\ stats' = [stats EXCEPT !.reserved = @ - returned]
      /\ UNCHANGED <<bypassed, live>>
  BY DEF Trim
<1>2. UnusedSlabs \in SUBSET SlabId /\ size \in [SlabId -> Nat]
  BY DEF UnusedSlabs, ListInv, SlabsSound
<1>3. returned \in Nat
  <2>1. IsFiniteSet(UnusedSlabs)
    BY <1>2, SlabsAreFinite, FS_Subset
  <2> QED
    BY <1>2, <2>1, SumIsNat
<1>4. ReservedInSlabs' = ReservedInSlabs - returned
  BY <1>1, <1>2, SlabsAreFinite, TotalCleared DEF ReservedInSlabs
<1> HIDE DEF returned
<1>5. stats \in [reserved : Int, in_use : Int, requested : Int]
  BY DEF BooksInv
<1>6. /\ stats' \in [reserved : Int, in_use : Int, requested : Int]
      /\ stats'.reserved = stats.reserved - returned
      /\ stats'.in_use = stats.in_use /\ stats'.requested = stats.requested
  BY <1>1, <1>3, <1>5
<1>7. BytesAccounted'
  BY <1>1, <1>3, <1>4, <1>6, BooksInNumbers
     DEF BooksInv, BytesAccounted, BytesIn, RequestedOf
<1>8. CapHonoured'
  BY <1>3, <1>4, BooksInNumbers, ConfigAssumption DEF BooksInv, CapHonoured
<1> QED
  BY <1>1, <1>6, <1>7, <1>8 DEF BooksInv, BypassPaired

(* The handle of another stream is as large as before.                     *)
LEMMA MoveBooks ==
  ASSUME ListInv, BooksInv, NEW a \in live, NEW s \in Stream, Move(a, s)
  PROVE  BooksInv'
<1> DEFINE moved == [a EXCEPT !.home = s]
           others == live \ {a}
<1>1. /\ moved \in Handle /\ BlockOf(moved) = BlockOf(a) /\ moved # a
      /\ moved.slab = a.slab /\ moved.off = a.off
      /\ moved.bytes = a.bytes /\ moved.requested = a.requested
  BY DEF Move, ListInv, ListType, Handle, BlockOf
<1>2. live' = others \cup {moved} /\ UNCHANGED <<size, bypassed, stats>>
  BY DEF Move
<1>3. moved \notin others
  <2>1. moved \in live => BlockOf(moved) # BlockOf(a)
    BY <1>1, HandlesDiffer
  <2> QED
    BY <1>1, <2>1
<1>4. IsFiniteSet(others) /\ \A h \in others : h.bytes \in Nat /\ h.requested \in Nat
  BY FS_Subset, others \in SUBSET live, HandleNumbers DEF BooksInv
<1>5. a.bytes \in Nat /\ a.requested \in Nat
  BY HandleNumbers
<1>6. /\ BytesIn(others) = BytesIn(live) - a.bytes
      /\ RequestedOf(others) = RequestedOf(live) - a.requested
      /\ BytesIn(live) \in Nat /\ RequestedOf(live) \in Nat
  BY BytesOfSome, RequestedOfSome, HandleNumbers DEF BooksInv
<1> HIDE DEF moved, others
<1>7. BytesIn(live') = BytesIn(others) + a.bytes
  BY <1>1, <1>2, <1>3, <1>4, <1>5, BytesOfSome
<1>8. RequestedOf(live') = RequestedOf(others) + a.requested
  BY <1>1, <1>2, <1>3, <1>4, <1>5, RequestedOfSome
<1>9. IsFiniteSet(live')
  BY <1>2, <1>4, FS_AddElement
<1>10. stats'.in_use = BytesIn(live') /\ stats'.requested = RequestedOf(live')
  BY <1>2, <1>5, <1>6, <1>7, <1>8, BooksInNumbers
<1>11. \A h \in live' : h.bytes >= h.requested
  BY <1>1, <1>2, BooksInNumbers DEF others
<1>12. BytesAccounted'
  BY <1>2, <1>10, <1>11 DEF BooksInv, BytesAccounted, BytesIn, RequestedOf, ReservedInSlabs
<1>13. BypassPaired' /\ CapHonoured'
  BY <1>1, <1>2 DEF BooksInv, BypassPaired, CapHonoured, ReservedInSlabs, others
<1> QED
  BY <1>2, <1>9, <1>12, <1>13 DEF BooksInv

LEMMA BooksStep ==
  ASSUME ListInv, BooksInv, [Next]_vars
  PROVE  BooksInv'
<1>1. ASSUME NEW s \in AllocStream, AllocateNothing(s)
      PROVE  BooksInv'
  BY <1>1, BooksUnchanged DEF AllocateNothing
<1>2. ASSUME NEW bytes \in Sizes \ {0}, NEW s \in AllocStream, Allocate(bytes, s)
      PROVE  BooksInv'
  <2>1. ASSUME AllocateRefused(bytes, s) \/ AllocateBypassFails(bytes, s)
        PROVE  BooksInv'
    BY <2>1, BooksUnchanged DEF AllocateRefused, AllocateBypassFails
  <2> QED
    BY <1>2, <2>1, AllocateBooks, BypassBooks DEF Allocate
<1>3. CASE SettlePending
  BY <1>3, BooksUnchanged DEF SettlePending
<1>4. ASSUME (\E a \in live : Use(a)) \/ Device \/ UNCHANGED vars
      PROVE  BooksInv'
  BY <1>4, BooksUnchanged DEF Use, Device, vars, listVars
<1> QED
  BY <1>1, <1>2, <1>3, <1>4, DeallocateBooks, DeallocateBypassBooks, ReserveBooks,
     TrimBooks, MoveBooks DEF Next

LEMMA BooksInit == Init => BooksInv
<1> SUFFICES ASSUME Init PROVE BooksInv
  OBVIOUS
<1>1. /\ live = {} /\ bypassed = {} /\ size = [id \in SlabId |-> 0]
      /\ stats = [reserved |-> 0, in_use |-> 0, requested |-> 0]
  BY DEF Init
<1>2. ReservedInSlabs = 0
  <2>1. SumFunctionOnSet(size, SlabId) = 0
    BY <1>1, SlabsAreFinite, SumOfZeros
  <2>2. DOMAIN size = SlabId
    BY <1>1
  <2> QED
    BY <2>1, <2>2 DEF ReservedInSlabs, SumFunction
<1>3. BytesIn(bypassed) = 0 /\ BytesIn(live) = 0 /\ RequestedOf(live) = 0
  BY <1>1, TotalOfNothing DEF BytesIn, RequestedOf
<1>4. BytesAccounted
  BY <1>1, <1>2, <1>3 DEF BytesAccounted, BytesIn, RequestedOf
<1> QED
  BY <1>1, <1>2, <1>4, FS_EmptySet, ConfigAssumption DEF BooksInv, BypassPaired, CapHonoured

(* Everything that validate() checks of the pool holds after every call:   *)
(* the types, one owner of each carved byte, and the counters of reserved, *)
(* used and requested bytes exactly those of what is held; and the slabs   *)
(* never exceed the configured total.                                      *)
THEOREM PoolAlwaysValid == Spec => [](PoolIsValid /\ CapHonoured)
<1>1. ListInv /\ BooksInv /\ [Next]_vars => BooksInv'
  BY BooksStep
<1>2. BooksInv => BytesAccounted /\ CapHonoured
  BY DEF BooksInv
<1>3. TypeOK /\ Partition /\ BytesAccounted => PoolIsValid
  BY DEF PoolIsValid
<1> QED
  BY <1>1, <1>2, <1>3, BooksInit, BlocksStayApart, TypeCorrect, BytesHaveOneOwner, PTL
     DEF Spec
=============================================================================
