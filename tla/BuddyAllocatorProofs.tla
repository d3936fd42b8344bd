------------------------ MODULE BuddyAllocatorProofs ------------------------
(***************************************************************************)
(* What BuddyAllocator keeps for every geometry, every set of streams and  *)
(* request sizes, and every configuration.                                 *)
(***************************************************************************)
EXTENDS BuddyAllocator, BuddyMathProofs, SequenceTheorems

Geometry == MinLog2 .. MaxArenaLog2

(* The tree of a slab is a part of the tree of the largest one, and every  *)
(* block of it has bytes.                                                  *)
LEMMA NodesOfSlab ==
  ASSUME NEW k \in Geometry
  PROVE  k \in 0 .. WordBits - 1 /\ MinLog2 \in 0 .. k /\ NodesOf(k) \subseteq Node
<1>1. /\ k \in 0 .. WordBits - 1 /\ MinLog2 \in 0 .. k
      /\ (k - MinLog2) + 1 \in Exponent /\ (MaxArenaLog2 - MinLog2) + 1 \in Exponent
      /\ (k - MinLog2) + 1 <= (MaxArenaLog2 - MinLog2) + 1
  BY GeometryAssumption, WordBitsAssumption DEF Geometry, Exponent
<1>2. 2^((k - MinLog2) + 1) <= 2^((MaxArenaLog2 - MinLog2) + 1)
  BY <1>1, PowersOrdered
<1>3. 2^((k - MinLog2) + 1) \in Nat /\ 2^((MaxArenaLog2 - MinLog2) + 1) \in Nat
  BY <1>1, PowerPositive
<1> QED
  BY <1>1, <1>2, <1>3 DEF NodesOf, Node, node_count, max_level

LEMMA BlocksOfSlab ==
  \A k \in Geometry : \A n \in NodesOf(k) :
    /\ n \in Node /\ Extent(n) # {}
    /\ BlockBytes(k, n) \in Nat \ {0}
<1> SUFFICES ASSUME NEW k \in Geometry, NEW n \in NodesOf(k)
             PROVE  /\ n \in Node /\ Extent(n) # {}
                    /\ BlockBytes(k, n) \in Nat \ {0}
  OBVIOUS
<1>1. n \in Node /\ MaxArenaLog2 \in Geometry
  BY NodesOfSlab, GeometryAssumption DEF Geometry
<1>2. ASSUME NEW j \in Geometry, n \in NodesOf(j)
      PROVE  BlockBytes(j, n) \in Nat \ {0}
  BY <1>2, NodesOfSlab, LevelOfNode DEF BlockBytes, block_bytes_at_level, NodesOf
<1>3. offset_of(n, MaxArenaLog2) \in Int /\ BlockBytes(MaxArenaLog2, n) \in Nat \ {0}
  <2>1. BlockBytes(MaxArenaLog2, n) \in Nat \ {0}
    BY <1>1, <1>2 DEF Node
  <2>2. index_in_level(n) \in Int
    BY <1>1, NodesOfSlab, LevelOfNode DEF NodesOf, index_in_level
  <2> QED
    BY <2>1, <2>2 DEF offset_of, BlockBytes
<1>4. offset_of(n, MaxArenaLog2) \in Extent(n)
  BY <1>3 DEF Extent
<1> QED
  BY <1>1, <1>2, <1>4

(* A request is given a block of the slab that shares no byte with a block *)
(* already out (alloc_node on a tree of which only blocks are known).      *)
LEMMA CandidateIsVacant ==
  ASSUME NEW k \in Geometry, NEW out \in SUBSET Node, NEW lvl,
         NEW n \in Candidates(k, out, lvl)
  PROVE  /\ n \in NodesOf(k) /\ n \in Node
         /\ \A u \in out : <<u, n>> \notin Overlap
<1>1. NodesOf(k) \subseteq Node
  BY BlocksOfSlab DEF Geometry
<1>2. n \in NodesOf(k) /\ n \in Node
  BY <1>1 DEF Candidates
<1>3. PICK f \in FreeBlocks(k, out) : n \in Pieces(f, lvl)
  BY DEF Candidates
<1>4. ASSUME NEW u \in out, <<u, n>> \in Overlap PROVE FALSE
  <2>1. Extent(u) \cap Extent(n) # {}
    BY <1>4 DEF Overlap
  <2>2. Extent(n) \subseteq Extent(f)
    BY <1>3 DEF Pieces, Encloses
  <2>3. <<u, f>> \notin Overlap
    BY <1>3 DEF FreeBlocks, Vacant
  <2>4. Extent(u) \cap Extent(f) = {}
    BY <2>3, <1>1, <1>3 DEF Overlap, FreeBlocks
  <2> QED
    BY <2>1, <2>2, <2>4
<1> QED
  BY <1>2, <1>4

(* Overlapping is symmetric, and a block of a slab overlaps itself.        *)
LEMMA OverlapIsSymmetric ==
  ASSUME NEW m, NEW n, <<m, n>> \in Overlap
  PROVE  <<n, m>> \in Overlap
BY DEF Overlap

(* A block of a slab has at least one byte.                                *)
LEMMA OverlapIsReflexive ==
  ASSUME NEW k \in Geometry, NEW n \in NodesOf(k)
  PROVE  <<n, n>> \in Overlap
<1>1. n \in Node /\ Extent(n) # {}
  BY BlocksOfSlab DEF Geometry
<1> QED
  BY <1>1 DEF Overlap

(* add_slab never asks for less than one minimum block.                    *)
LEMMA SlabLog2Type ==
  ASSUME NEW bytes \in Nat
  PROVE  SlabLog2(bytes) \in Nat /\ SlabLog2(bytes) >= MinLog2
<1>1. ASSUME NEW x PROVE bit_width(x) \in Nat
  <2> DEFINE powers == {w \in 0 .. WordBits - 1 : 2^w <= x}
  <2>1. IsFiniteSet(0 .. WordBits - 1)
    BY FS_Interval, WordBitsAssumption
  <2>2. IsFiniteSet(powers)
    BY <2>1, FS_Subset
  <2>3. Cardinality(powers) \in Nat
    BY <2>2, FS_CardinalityType
  <2>4. bit_width(x) = Cardinality(powers)
    BY Zenon DEF bit_width
  <2> QED
    BY <2>3, <2>4
<1>2. ceil_log2(bytes) \in Nat
  BY <1>1 DEF ceil_log2
<1> QED
  BY <1>2, GeometryAssumption DEF SlabLog2

-----------------------------------------------------------------------------
(* What the parts that several calls share do to the state.                *)

(* What is left of a sequence without its first d elements.                *)
LEMMA SuffixProperties ==
  ASSUME NEW S, NEW q \in Seq(S), NEW d \in 0 .. Len(q)
  PROVE  /\ SubSeq(q, d + 1, Len(q)) \in Seq(S)
         /\ \A i \in DOMAIN SubSeq(q, d + 1, Len(q)) :
              /\ i + d \in DOMAIN q
              /\ SubSeq(q, d + 1, Len(q))[i] = q[i + d]
<1> DEFINE m == d + 1
           n == Len(q)
           rest == SubSeq(q, m, n)
<1>1. n \in Nat /\ DOMAIN q = 1 .. n /\ \A i \in 1 .. n : q[i] \in S
  BY LenProperties
<1>2. m \in Int /\ n \in Int /\ \A i \in m .. n : q[i] \in S
  BY <1>1
<1> HIDE DEF m, n
<1>3. /\ rest \in Seq(S)
      /\ Len(rest) = IF m <= n THEN n - m + 1 ELSE 0
      /\ \A i \in 1 .. n - m + 1 : rest[i] = q[m + i - 1]
  BY <1>2, SubSeqProperties
<1> HIDE DEF rest
<1>4. DOMAIN rest = 1 .. n - d
  <2>1. DOMAIN rest = 1 .. Len(rest)
    BY <1>3, LenProperties
  <2>2. d \in 0 .. n
    BY DEF n
  <2>3. Len(rest) = n - d
    BY <1>1, <1>3, <2>2 DEF m
  <2> QED
    BY <2>1, <2>3
<1>5. ASSUME NEW i \in DOMAIN rest
      PROVE  i + d \in DOMAIN q /\ rest[i] = q[i + d]
  <2>1. i \in 1 .. n - m + 1 /\ m + i - 1 = i + d /\ i + d \in 1 .. n
    <3>1. d \in 0 .. n
      BY DEF n
    <3> QED
      BY <1>1, <1>4, <3>1 DEF m
  <2> QED
    BY <1>1, <1>3, <2>1
<1> QED
  BY <1>3, <1>5 DEF rest, m, n

(* The device: a stream loses its oldest kernels, an event the kernels it  *)
(* waited for.                                                             *)
LEMMA ProgressEffect ==
  ASSUME queue \in [Stream -> Seq(Block)], event \in Seq(Mark),
         NEW done \in [Stream -> Nat],
         \A s \in Stream : done[s] <= Len(queue[s]),
         Progress(done)
  PROVE  /\ queue' \in [Stream -> Seq(Block)]
         /\ event' \in Seq(Mark)
         /\ DOMAIN event' = DOMAIN event
         /\ \A s \in Stream : \A i \in DOMAIN queue'[s] :
              /\ i + done[s] \in DOMAIN queue[s]
              /\ queue'[s][i] = queue[s][i + done[s]]
         /\ \A e \in DOMAIN event :
              /\ event'[e].stream = event[e].stream
              /\ event'[e].after = Less(event[e].after, done[event[e].stream])
<1>1. ASSUME NEW s \in Stream
      PROVE  /\ queue'[s] \in Seq(Block)
             /\ \A i \in DOMAIN queue'[s] :
                  /\ i + done[s] \in DOMAIN queue[s]
                  /\ queue'[s][i] = queue[s][i + done[s]]
  <2>1. queue[s] \in Seq(Block) /\ done[s] \in 0 .. Len(queue[s])
    BY LenProperties
  <2>2. queue'[s] = SubSeq(queue[s], done[s] + 1, Len(queue[s]))
    BY DEF Progress
  <2> QED
    BY <2>1, <2>2, SuffixProperties
<1>2. queue' \in [Stream -> Seq(Block)]
  BY <1>1 DEF Progress
<1>3. /\ DOMAIN event' = DOMAIN event
      /\ event' = [e \in DOMAIN event |->
                    [stream |-> event[e].stream,
                     after |-> Less(event[e].after, done[event[e].stream])]]
  BY DEF Progress, EventsAfter
<1>4. ASSUME NEW e \in DOMAIN event PROVE event'[e] \in Mark
  <2>1. event[e] \in Mark
    BY LenProperties
  <2> QED
    BY <1>3, <2>1 DEF Mark, Less
<1>5. event' \in Seq(Mark)
  <2>1. Len(event) \in Nat /\ DOMAIN event = 1 .. Len(event)
    BY LenProperties
  <2>2. event' \in [1 .. Len(event) -> Mark]
    BY <1>3, <1>4, <2>1
  <2> QED
    BY <2>1, <2>2, SeqDef
<1> QED
  BY <1>1, <1>2, <1>3, <1>5

(* The device may advance: kernels only ever complete, oldest first, and   *)
(* an event keeps waiting for the kernels it was recorded after.           *)
Advance ==
  /\ queue' \in [Stream -> Seq(Block)]
  /\ event' \in Seq(Mark)
  /\ DOMAIN event' = DOMAIN event
  /\ \A e \in DOMAIN event : event'[e].stream = event[e].stream
  /\ \A s \in Stream : \A i \in DOMAIN queue'[s] : \E j \in DOMAIN queue[s] :
       /\ queue'[s][i] = queue[s][j]
       /\ \A e \in DOMAIN event :
            event[e].stream = s /\ j <= event[e].after => i <= event'[e].after

(* Completing the oldest kernels of each stream is an advance.             *)
LEMMA ProgressAdvances ==
  ASSUME queue \in [Stream -> Seq(Block)], event \in Seq(Mark),
         NEW done \in [Stream -> Nat],
         \A s \in Stream : done[s] <= Len(queue[s]),
         Progress(done)
  PROVE  Advance
<1>1. /\ queue' \in [Stream -> Seq(Block)] /\ event' \in Seq(Mark)
      /\ DOMAIN event' = DOMAIN event
      /\ \A e \in DOMAIN event : event'[e].stream = event[e].stream
  BY ProgressEffect
<1>2. ASSUME NEW s \in Stream, NEW i \in DOMAIN queue'[s]
      PROVE  \E j \in DOMAIN queue[s] :
               /\ queue'[s][i] = queue[s][j]
               /\ \A e \in DOMAIN event :
                    event[e].stream = s /\ j <= event[e].after
                      => i <= event'[e].after
  <2>1. i + done[s] \in DOMAIN queue[s] /\ queue'[s][i] = queue[s][i + done[s]]
    BY <1>2, ProgressEffect
  <2>2. i \in Nat \ {0}
    BY <1>1, LenProperties
  <2>3. ASSUME NEW e \in DOMAIN event, event[e].stream = s,
               i + done[s] <= event[e].after
        PROVE  i <= event'[e].after
    <3> event[e] \in Mark
      BY <2>3, LenProperties
    <3>1. event[e].after \in Nat
      BY DEF Mark
    <3>2. event'[e].after = Less(event[e].after, done[s])
      BY <2>3, ProgressEffect
    <3> QED
      BY <2>2, <2>3, <3>1, <3>2 DEF Less
  <2> QED
    BY <2>1, <2>3
<1> QED
  BY <1>1, <1>2 DEF Advance

(* A step that leaves the device alone is an advance by nothing.           *)
LEMMA UnchangedAdvances ==
  ASSUME TypeOK, UNCHANGED deviceVars
  PROVE  Advance
BY DEF TypeOK, deviceVars, Advance

(* So is the completion of one kernel ...                                  *)
LEMMA CompleteAdvances ==
  ASSUME TypeOK, NEW s \in Stream, Complete(s)
  PROVE  Advance
<1> DEFINE done == [t \in Stream |-> IF t = s THEN 1 ELSE 0]
<1>1. ASSUME NEW t \in Stream PROVE done[t] <= Len(queue[t])
  <2>1. queue[t] \in Seq(Block) /\ Len(queue[t]) \in Nat
    BY LenProperties DEF TypeOK
  <2>2. CASE t = s
    <3>1. Len(queue[s]) \in Nat \ {0}
      BY <2>1, <2>2, EmptySeq DEF Complete
    <3> QED
      BY <2>2, <3>1
  <2>3. CASE t # s
    BY <2>1, <2>3
  <2> QED
    BY <2>2, <2>3
<1>2. done \in [Stream -> Nat] /\ Progress(done)
  BY DEF Complete
<1> HIDE DEF done
<1> QED
  BY <1>1, <1>2, ProgressAdvances DEF TypeOK

(* ... and a cudaFree, after which nothing runs.                           *)
LEMMA SynchronizeAdvances ==
  ASSUME TypeOK, DeviceSynchronize
  PROVE  Advance /\ \A s \in Stream : Running(s)' = {}
<1> DEFINE done == [s \in Stream |-> Len(queue[s])]
<1>1. \A s \in Stream : queue[s] \in Seq(Block) /\ Len(queue[s]) \in Nat
  BY LenProperties DEF TypeOK
<1>2. done \in [Stream -> Nat] /\ \A s \in Stream : done[s] <= Len(queue[s])
  BY <1>1
<1>3. Progress(done)
  BY DEF DeviceSynchronize
<1>4. ASSUME NEW s \in Stream PROVE queue'[s] = << >>
  <2>1. queue'[s] = SubSeq(queue[s], done[s] + 1, Len(queue[s]))
    BY <1>3 DEF Progress
  <2> QED
    BY <1>1, <2>1, SubSeqEmpty
<1>5. \A s \in Stream : Running(s)' = {}
  BY <1>4 DEF Running
<1> HIDE DEF done
<1> QED
  BY <1>2, <1>3, <1>5, ProgressAdvances DEF TypeOK

(* After a drain nothing that was waited for is still running.             *)
LEMMA DrainEffect ==
  ASSUME TypeOK, NEW parked \in SUBSET pending, Drain(parked)
  PROVE  /\ Advance
         /\ ReleaseEntries(pending)
         /\ \A p \in parked :
              IF p.slot = kNoEventSlot
                THEN Running(p.stream)' = {}
                ELSE event[p.slot].stream = p.stream => event'[p.slot].after = 0
<1>1. PICK done \in [Stream -> 0 .. MaxInFlight] :
        /\ \A s \in Stream : done[s] <= Len(queue[s])
        /\ \A p \in parked : Waited(done, p)
        /\ Progress(done)
  BY DEF Drain
<1>2. done \in [Stream -> Nat]
  BY MaxInFlightAssumption
<1>3. Advance
  BY <1>1, <1>2, ProgressAdvances DEF TypeOK
<1>4. ReleaseEntries(pending)
  BY DEF Drain
<1>5. ASSUME NEW p \in parked, p.slot = kNoEventSlot
      PROVE  Running(p.stream)' = {}
  <2>1. p.stream \in Stream /\ done[p.stream] = Len(queue[p.stream])
    BY <1>1, <1>5 DEF Waited, TypeOK, Entry
  <2>2. Len(queue[p.stream]) \in Nat
    BY <2>1, LenProperties DEF TypeOK
  <2>3. queue'[p.stream] = << >>
    BY <1>1, <2>1, <2>2, SubSeqEmpty DEF Progress
  <2> QED
    BY <2>3 DEF Running
<1>6. ASSUME NEW p \in parked, p.slot # kNoEventSlot, event[p.slot].stream = p.stream
      PROVE  event'[p.slot].after = 0
  <2>1. p.stream \in Stream /\ p.slot \in DOMAIN event
    BY <1>6 DEF TypeOK, Entry, SlotsOf, Slots
  <2>2. done[p.stream] >= event[p.slot].after /\ done[p.stream] \in Nat
    BY <1>1, <1>2, <1>6, <2>1 DEF Waited
  <2>3. event[p.slot] \in Mark
    BY <2>1, LenProperties DEF TypeOK
  <2>4. event[p.slot].after \in Nat
    BY <2>3 DEF Mark
  <2>5. event'[p.slot].after = Less(event[p.slot].after, done[p.stream])
    BY <1>1, <1>2, <1>6, <2>1, ProgressEffect DEF TypeOK
  <2> QED
    BY <2>2, <2>4, <2>5 DEF Less
<1> QED
  BY <1>3, <1>4, <1>5, <1>6

(* Entries given back leave the list with their event slots.               *)
LEMMA ReleaseType ==
  ASSUME TypeOK, NEW entries \in SUBSET pending, ReleaseEntries(entries),
         DOMAIN event' = DOMAIN event
  PROVE  /\ policy' \in ReusePolicy /\ pending' \subseteq Entry
         /\ SlotsOf(pending') \subseteq Slots' /\ freeSlots' \subseteq Slots'
BY DEF TypeOK, ReleaseEntries, SlotsOf, Slots

(* Giving entries back leaves sets of nodes.                               *)
LEMMA WithoutType ==
  ASSUME TypeOK, NEW entries
  PROVE  Without(entries) \in [SlabId -> SUBSET Node]
BY DEF TypeOK, Without

(* Retiring a block changes nothing but the list and the events.           *)
LEMMA RetireType ==
  ASSUME TypeOK, NEW block \in PoolBlock, NEW s \in Stream,
         NEW now \in BOOLEAN, Retire(block, s, now)
  PROVE  /\ policy' \in ReusePolicy /\ pending' \subseteq Entry
         /\ event' \in Seq(Mark) /\ queue' = queue
         /\ SlotsOf(pending') \subseteq Slots' /\ freeSlots' \subseteq Slots'
<1>1. event \in Seq(Mark) /\ Len(event) \in Nat /\ DOMAIN event = 1 .. Len(event)
  BY LenProperties DEF TypeOK
<1>2. Len(queue[s]) \in Nat
  BY LenProperties DEF TypeOK
<1>3. ASSUME NEW mark \in Mark
      PROVE  /\ Append(event, mark) \in Seq(Mark)
             /\ DOMAIN Append(event, mark) = 1 .. Len(event) + 1
  BY <1>1, AppendProperties, LenProperties
<1>4. Recorded(s) \in Mark /\ [stream |-> s, after |-> 0] \in Mark
  BY <1>2 DEF Recorded, Mark
<1>5. ASSUME NEW slot \in DOMAIN event, NEW mark \in Mark
      PROVE  /\ [event EXCEPT ![slot] = mark] \in Seq(Mark)
             /\ DOMAIN [event EXCEPT ![slot] = mark] = DOMAIN event
  BY <1>1, ExceptSeq
<1>6. ASSUME NEW slot \in Nat, Park(block, s, slot)
      PROVE  pending' \subseteq Entry /\ SlotsOf(pending') \subseteq SlotsOf(pending) \cup ({slot} \ {kNoEventSlot})
  BY <1>6 DEF Park, TypeOK, Entry, SlotsOf
<1>7. ASSUME CoarseRule(block, s, now)
      PROVE  pending' \subseteq Entry /\ SlotsOf(pending') \subseteq SlotsOf(pending)
  BY <1>6, <1>7 DEF CoarseRule, TypeOK, kNoEventSlot
<1>8. policy' \in ReusePolicy /\ queue' = queue
  BY DEF Retire, TypeOK
<1>9. CASE UNCHANGED <<event, freeSlots>> /\ (Park(block, s, kNoEventSlot) \/ CoarseRule(block, s, now))
  BY <1>1, <1>6, <1>7, <1>8, <1>9 DEF TypeOK, Slots, kNoEventSlot
<1>10. CASE /\ freeSlots = {}
            /\ \E mark \in Mark : event' = Append(event, mark)
            /\ freeSlots' \subseteq {Len(event) + 1}
            /\ Park(block, s, Len(event) + 1) \/ CoarseRule(block, s, now)
  <2>1. event' \in Seq(Mark) /\ DOMAIN event' = 1 .. Len(event) + 1
    BY <1>3, <1>10
  <2>2. Slots \subseteq Slots' /\ Len(event) + 1 \in Slots'
    BY <1>1, <2>1 DEF Slots
  <2>3. pending' \subseteq Entry /\ SlotsOf(pending') \subseteq SlotsOf(pending) \cup {Len(event) + 1}
    BY <1>1, <1>6, <1>7, <1>10
  <2> QED
    BY <1>8, <1>10, <2>1, <2>2, <2>3 DEF TypeOK
<1>11. CASE \E slot \in freeSlots : /\ event' = [event EXCEPT ![slot] = Recorded(s)]
                                   /\ freeSlots' = freeSlots \ {slot}
                                   /\ Park(block, s, slot)
  <2>1. PICK slot \in freeSlots : /\ event' = [event EXCEPT ![slot] = Recorded(s)]
                                  /\ freeSlots' = freeSlots \ {slot}
                                  /\ Park(block, s, slot)
    BY <1>11
  <2>2. slot \in DOMAIN event /\ slot \in Nat
    BY <1>1 DEF TypeOK, Slots
  <2>3. event' \in Seq(Mark) /\ Slots' = Slots
    BY <1>4, <1>5, <2>1, <2>2 DEF Slots
  <2>4. pending' \subseteq Entry /\ SlotsOf(pending') \subseteq SlotsOf(pending) \cup {slot}
    BY <1>6, <2>1, <2>2
  <2> QED
    BY <1>8, <2>1, <2>2, <2>3, <2>4 DEF TypeOK, Slots
<1> QED
  BY <1>4, <1>9, <1>10, <1>11 DEF Retire, ParkWithEvent, EventFails, CoarseRule

-----------------------------------------------------------------------------
(* Type correctness.                                                       *)

(* Node indices are heap indices.                                          *)
LEMMA NodesAreNumbers == Node \subseteq Nat
BY DEF Node, NodesOf

(* Every slab add_slab can make is of a size within the geometry.          *)
LEMMA SlabTriedType ==
  ASSUME NEW floor \in Nat, NEW want, NEW k \in SlabTried(want, floor)
  PROVE  k \in Geometry
BY SlabLog2Type, GeometryAssumption DEF SlabTried, Refused, Geometry

(* make_allocation hands out a well-typed handle.                          *)
LEMMA HandOutType ==
  ASSUME TypeOK, NEW usedNow \in [SlabId -> SUBSET Node], NEW id \in SlabId,
         NEW k \in Geometry, NEW node \in NodesOf(k), NEW bytes \in Nat,
         NEW s \in Stream, HandOut(usedNow, id, k, node, bytes, s)
  PROVE  /\ used' \in [SlabId -> SUBSET Node] /\ live' \subseteq Handle
         /\ ret' = "kOk"
<1>1. node \in Node /\ node \in Nat /\ BlockBytes(k, node) \in Nat
  BY BlocksOfSlab, NodesAreNumbers DEF Geometry
<1> QED
  BY <1>1 DEF HandOut, Hand, TypeOK, Handle, BlockOf, Block, PoolBlock

(* A block that a slab with room offers (AllocateFromSlab and after a      *)
(* drain).                                                                 *)
LEMMA FirstFitType ==
  ASSUME TypeOK, NEW usedNow \in [SlabId -> SUBSET Node], NEW bytes,
         NEW id \in FirstFit(usedNow, bytes),
         NEW node \in FittingBlocks(usedNow, id, bytes)
  PROVE  /\ id \in SlabId /\ Live(id) /\ arena[id] \in Geometry
         /\ node \in NodesOf(arena[id])
<1>1. id \in SlabId /\ Live(id)
  BY DEF FirstFit, Fits
<1>2. arena[id] \in Geometry
  BY <1>1 DEF TypeOK, Live, Geometry
<1> QED
  BY <1>1, <1>2 DEF FittingBlocks, Candidates

(* Every action preserves the types.                                       *)
LEMMA TypeStep ==
  ASSUME TypeOK, [Next]_vars
  PROVE  TypeOK'
<1> USE ConfigAssumption
<1>1. ASSUME NEW bytes \in Nat, NEW s \in AllocStream, AllocateFromSlab(bytes, s)
      PROVE  TypeOK'
  <2> DEFINE back == Reclaimable(s)
  <2>1. PICK id \in FirstFit(Without(back), bytes) :
        \E node \in FittingBlocks(Without(back), id, bytes) :
          HandOut(Without(back), id, arena[id], node, bytes, s)
    BY <1>1 DEF AllocateFromSlab
  <2>2. PICK node \in FittingBlocks(Without(back), id, bytes) :
          HandOut(Without(back), id, arena[id], node, bytes, s)
    BY <2>1
  <2>3. back \in SUBSET pending /\ ReleaseEntries(back)
    BY <1>1 DEF AllocateFromSlab, Reclaimable
  <2>4. UNCHANGED <<deviceVars, arena, bypassed>>
    BY <1>1 DEF AllocateFromSlab
  <2>5. Without(back) \in [SlabId -> SUBSET Node]
    BY WithoutType
  <2> HIDE DEF back
  <2>6. id \in SlabId /\ arena[id] \in Geometry /\ node \in NodesOf(arena[id])
    BY <2>2, <2>5, FirstFitType
  <2>7. /\ used' \in [SlabId -> SUBSET Node] /\ live' \subseteq Handle
        /\ ret' = "kOk"
    BY <2>2, <2>5, <2>6, HandOutType
  <2>8. /\ policy' \in ReusePolicy /\ pending' \subseteq Entry
        /\ SlotsOf(pending') \subseteq Slots' /\ freeSlots' \subseteq Slots'
    BY <2>3, <2>4, ReleaseType DEF deviceVars
  <2> QED
    BY <2>4, <2>7, <2>8 DEF TypeOK, deviceVars
<1>2. ASSUME NEW bytes \in Nat, NEW s \in AllocStream, AllocateFromNewSlab(bytes, s)
      PROVE  TypeOK'
  <2> DEFINE back == Reclaimable(s)
  <2>1. PICK id \in FirstDead, k \in AddSlabOk(Grown(bytes), bytes) :
        \E node \in Candidates(k, {}, level_for_size(bytes, k, MinLog2)) :
          /\ arena' = [arena EXCEPT ![id] = k]
          /\ HandOut(Without(back), id, k, node, bytes, s)
    BY <1>2 DEF AllocateFromNewSlab
  <2>2. PICK node \in Candidates(k, {}, level_for_size(bytes, k, MinLog2)) :
          /\ arena' = [arena EXCEPT ![id] = k]
          /\ HandOut(Without(back), id, k, node, bytes, s)
    BY <2>1
  <2>3. back \in SUBSET pending /\ ReleaseEntries(back)
    BY <1>2 DEF AllocateFromNewSlab, Reclaimable
  <2>4. UNCHANGED <<deviceVars, bypassed>>
    BY <1>2 DEF AllocateFromNewSlab
  <2>5. Without(back) \in [SlabId -> SUBSET Node]
    BY WithoutType
  <2> HIDE DEF back
  <2>6. id \in SlabId /\ k \in Geometry /\ node \in NodesOf(k)
    BY <2>1, <2>2, SlabTriedType DEF FirstDead, AddSlabOk, Candidates
  <2>7. /\ used' \in [SlabId -> SUBSET Node] /\ live' \subseteq Handle
        /\ ret' = "kOk"
    BY <2>2, <2>5, <2>6, HandOutType
  <2>8. /\ policy' \in ReusePolicy /\ pending' \subseteq Entry
        /\ SlotsOf(pending') \subseteq Slots' /\ freeSlots' \subseteq Slots'
    BY <2>3, <2>4, ReleaseType DEF deviceVars
  <2> QED
    BY <2>2, <2>4, <2>6, <2>7, <2>8 DEF TypeOK, deviceVars, Geometry
<1>3. ASSUME NEW bytes \in Nat, NEW s \in AllocStream, AllocateAfterDrain(bytes, s)
      PROVE  TypeOK'
  <2>1. PICK id \in FirstFit(Without(pending), bytes) :
        \E node \in FittingBlocks(Without(pending), id, bytes) :
          HandOut(Without(pending), id, arena[id], node, bytes, s)
    BY <1>3 DEF AllocateAfterDrain
  <2>2. PICK node \in FittingBlocks(Without(pending), id, bytes) :
          HandOut(Without(pending), id, arena[id], node, bytes, s)
    BY <2>1
  <2>3. Advance /\ ReleaseEntries(pending)
    BY <1>3, DrainEffect DEF AllocateAfterDrain, StillParked
  <2>4. UNCHANGED <<arena, bypassed>>
    BY <1>3 DEF AllocateAfterDrain
  <2>5. Without(pending) \in [SlabId -> SUBSET Node]
    BY WithoutType
  <2>6. id \in SlabId /\ arena[id] \in Geometry /\ node \in NodesOf(arena[id])
    BY <2>2, <2>5, FirstFitType
  <2>7. /\ used' \in [SlabId -> SUBSET Node] /\ live' \subseteq Handle
        /\ ret' = "kOk"
    BY <2>2, <2>5, <2>6, HandOutType
  <2>8. /\ policy' \in ReusePolicy /\ pending' \subseteq Entry
        /\ SlotsOf(pending') \subseteq Slots' /\ freeSlots' \subseteq Slots'
    BY <2>3, ReleaseType DEF Advance
  <2> QED
    BY <2>3, <2>4, <2>7, <2>8 DEF TypeOK, Advance
<1>4. ASSUME NEW bytes \in Nat, NEW s \in AllocStream, AllocateRefused(bytes, s)
      PROVE  TypeOK'
  <2>1. Advance /\ ReleaseEntries(pending)
    BY <1>4, DrainEffect DEF AllocateRefused, StillParked
  <2>2. /\ UNCHANGED <<arena, bypassed, stats, live>>
        /\ used' = Without(pending) /\ ret' = "kOutOfMemory"
    BY <1>4 DEF AllocateRefused
  <2>3. /\ policy' \in ReusePolicy /\ pending' \subseteq Entry
        /\ SlotsOf(pending') \subseteq Slots' /\ freeSlots' \subseteq Slots'
    BY <2>1, ReleaseType DEF Advance
  <2> QED
    BY <2>1, <2>2, <2>3, WithoutType DEF TypeOK, Advance
<1>5. ASSUME NEW bytes \in Nat, NEW s \in AllocStream, AllocateBypass(bytes, s)
      PROVE  TypeOK'
  <2>1. PICK ptr \in BypassPtr :
          /\ bypassed' = bypassed \cup {[ptr |-> ptr, bytes |-> bytes]}
          /\ Hand(kBypassSlabId, ptr, bytes, bytes, s)
    BY <1>5 DEF AllocateBypass
  <2>2. ptr \in Nat /\ s \in Stream
    BY DEF BypassPtr
  <2>3. live' \subseteq Handle /\ ret' = "kOk" /\ bypassed' \subseteq [ptr : Nat, bytes : Nat]
    BY <2>1, <2>2, ConfigAssumption DEF Hand, TypeOK, Handle, BlockOf, Block, BypassBlock, BypassPtr
  <2>4. /\ UNCHANGED <<deviceVars, arena>> /\ used' = Without(Reclaimable(s))
        /\ ReleaseEntries(Reclaimable(s)) /\ Reclaimable(s) \in SUBSET pending
    BY <1>5 DEF AllocateBypass, Reclaimable
  <2>5. /\ policy' \in ReusePolicy /\ pending' \subseteq Entry
        /\ SlotsOf(pending') \subseteq Slots' /\ freeSlots' \subseteq Slots'
    BY <2>4, ReleaseType DEF deviceVars
  <2> QED
    BY <2>3, <2>4, <2>5, WithoutType DEF TypeOK, deviceVars
<1>6. ASSUME NEW bytes \in Nat, NEW s \in AllocStream, AllocateBypassFails(bytes, s)
      PROVE  TypeOK'
  <2>1. ret' \in {"kOutOfMemory", "kDriverError"}
    BY <1>6 DEF AllocateBypassFails
  <2>2. /\ UNCHANGED <<deviceVars, arena, bypassed, live>> /\ used' = Without(Reclaimable(s))
        /\ ReleaseEntries(Reclaimable(s)) /\ Reclaimable(s) \in SUBSET pending
    BY <1>6 DEF AllocateBypassFails, Reclaimable
  <2>3. /\ policy' \in ReusePolicy /\ pending' \subseteq Entry
        /\ SlotsOf(pending') \subseteq Slots' /\ freeSlots' \subseteq Slots'
    BY <2>2, ReleaseType DEF deviceVars
  <2> QED
    BY <2>1, <2>2, <2>3, WithoutType DEF TypeOK, deviceVars
<1>7. ASSUME NEW s \in AllocStream, AllocateNothing(s)
      PROVE  TypeOK'
  BY <1>7 DEF AllocateNothing, TypeOK, deviceVars, reuseVars, SlotsOf, Slots
<1>8. ASSUME NEW a \in live, Deallocate(a)
      PROVE  TypeOK'
  <2>1. PICK now \in BOOLEAN :
          /\ Retire(BlockOf(a), a.home, now)
          /\ used' = IF now THEN [used EXCEPT ![a.slab] = @ \ {a.node}] ELSE used
    BY <1>8 DEF Deallocate
  <2>2. UNCHANGED <<arena, bypassed>> /\ live' = live \ {a} /\ ret' = "kOk"
    BY <1>8 DEF Deallocate
  <2>3. a.home \in Stream /\ BlockOf(a) \in PoolBlock
    BY <1>8 DEF Deallocate, TypeOK, Handle, Block, BypassBlock, BlockOf
  <2>4. /\ policy' \in ReusePolicy /\ pending' \subseteq Entry
        /\ event' \in Seq(Mark) /\ queue' = queue
        /\ SlotsOf(pending') \subseteq Slots' /\ freeSlots' \subseteq Slots'
    BY <2>1, <2>3, RetireType
  <2> QED
    BY <2>1, <2>2, <2>4 DEF TypeOK
<1>9. ASSUME NEW a \in live, DeallocateBypass(a)
      PROVE  TypeOK'
  <2>1. Advance
    BY <1>9, SynchronizeAdvances DEF DeallocateBypass
  <2>2. /\ bypassed' \subseteq bypassed /\ live' \subseteq live
        /\ UNCHANGED <<reuseVars, arena, used>>
        /\ ret' \in {"kOk", "kDriverError"}
    BY <1>9 DEF DeallocateBypass
  <2> QED
    BY <2>1, <2>2 DEF TypeOK, Advance, reuseVars, SlotsOf, Slots
<1>10. ASSUME NEW bytes \in Nat, Reserve(bytes)
      PROVE  TypeOK'
  <2>1. UNCHANGED <<deviceVars, reuseVars, bypassed, live, used>>
    BY <1>10 DEF Reserve
  <2>2. ret' \in {"kOk", "kInvalidArgument", "kOutOfMemory", "kDriverError"}
    BY <1>10 DEF Reserve, AddSlabFails
  <2>3. arena' \in [SlabId -> {Dead} \cup MinLog2 .. MaxArenaLog2]
    <3>1. CASE UNCHANGED arena
      BY <3>1 DEF TypeOK
    <3>2. CASE \E id \in FirstDead, k \in AddSlabOk(bytes, bytes) :
                 arena' = [arena EXCEPT ![id] = k]
      BY <3>2, SlabTriedType DEF AddSlabOk, FirstDead, TypeOK, Geometry
    <3> QED
      BY <1>10, <3>1, <3>2 DEF Reserve
  <2> QED
    BY <2>1, <2>2, <2>3 DEF TypeOK, deviceVars, reuseVars, SlotsOf, Slots
<1>11. ASSUME SettlePending
      PROVE  TypeOK'
  <2>1. Advance /\ ReleaseEntries(pending)
    BY <1>11, DrainEffect DEF SettlePending
  <2>2. /\ policy' \in ReusePolicy /\ pending' \subseteq Entry
        /\ SlotsOf(pending') \subseteq Slots' /\ freeSlots' \subseteq Slots'
    BY <2>1, ReleaseType DEF Advance
  <2> QED
    BY <1>11, <2>1, <2>2, WithoutType DEF SettlePending, TypeOK, Advance
<1>12. ASSUME Trim
      PROVE  TypeOK'
  <2>1. Advance /\ ReleaseEntries(pending)
    BY <1>12, DrainEffect, SynchronizeAdvances DEF Trim
  <2>2. /\ policy' \in ReusePolicy /\ pending' \subseteq Entry
        /\ SlotsOf(pending') \subseteq Slots' /\ freeSlots' \subseteq Slots'
    BY <2>1, ReleaseType DEF Advance
  <2>3. /\ arena' = [id \in SlabId |-> IF id \in UnusedSlabs THEN Dead ELSE arena[id]]
        /\ used' = Without(pending) /\ UNCHANGED <<bypassed, live>>
        /\ ret' \in {"kOk", "kDriverError"}
    BY <1>12 DEF Trim
  <2>4. arena' \in [SlabId -> {Dead} \cup MinLog2 .. MaxArenaLog2]
    BY <2>3 DEF TypeOK
  <2> QED
    BY <2>1, <2>2, <2>3, <2>4, WithoutType DEF TypeOK, Advance
<1>13. ASSUME NEW a \in live, Use(a)
      PROVE  TypeOK'
  <2>1. /\ queue' = [queue EXCEPT ![a.home] = Append(@, BlockOf(a))]
        /\ UNCHANGED <<event, reuseVars, poolVars>>
    BY <1>13 DEF Use, Launch
  <2>2. a.home \in Stream /\ BlockOf(a) \in Block
    BY DEF TypeOK, Handle
  <2>3. queue' \in [Stream -> Seq(Block)]
    BY <2>1, <2>2, AppendProperties DEF TypeOK
  <2> QED
    BY <2>1, <2>3 DEF TypeOK, reuseVars, poolVars, SlotsOf, Slots
<1>14. ASSUME NEW a \in live, NEW s \in Stream, Move(a, s)
      PROVE  TypeOK'
  <2>1. [a EXCEPT !.home = s] \in Handle /\ BlockOf([a EXCEPT !.home = s]) = BlockOf(a)
    BY DEF TypeOK, Handle, BlockOf
  <2> QED
    BY <1>14, <2>1 DEF Move, TypeOK, deviceVars, reuseVars, SlotsOf, Slots
<1>15. ASSUME Device
      PROVE  TypeOK'
  <2>1. Advance /\ UNCHANGED <<reuseVars, poolVars>>
    BY <1>15, CompleteAdvances DEF Device
  <2> QED
    BY <2>1 DEF TypeOK, Advance, reuseVars, poolVars, SlotsOf, Slots
<1>16. CASE UNCHANGED vars
  BY <1>16 DEF vars, TypeOK, deviceVars, reuseVars, poolVars, SlotsOf, Slots
<1> QED
  BY <1>1, <1>2, <1>3, <1>4, <1>5, <1>6, <1>7, <1>8, <1>9, <1>10, <1>11,
     <1>12, <1>13, <1>14, <1>15, <1>16 DEF Next, Allocate

(* The fields have their types in every reachable state.                   *)
THEOREM TypeCorrect == Spec => []TypeOK
<1>1. Init => TypeOK
  BY DEF Init, DeviceInit, ReuseInit, TypeOK, SlotsOf, Slots, Live
<1>2. TypeOK /\ [Next]_vars => TypeOK'
  BY TypeStep
<1> QED
  BY <1>1, <1>2, PTL DEF Spec

-----------------------------------------------------------------------------
(* Ownership.                                                              *)

(* Overlap of blocks is symmetric.                                         *)
LEMMA OverlapsIsSymmetric ==
  ASSUME NEW b, NEW c, Overlaps(b, c)
  PROVE  Overlaps(c, b)
BY OverlapIsSymmetric DEF Overlaps

(* A block that is out overlaps itself, so owners that are apart hold      *)
(* different blocks.                                                       *)
LEMMA HeldOverlapsItself ==
  ASSUME TypeOK, UsedIsHeld, NEW b \in Held
  PROVE  Overlaps(b, b) /\ b \in Block
<1>1. b \in Block
  BY DEF TypeOK, Handle, Entry, Held, Parked, Block
<1>2. CASE b \in PoolBlock
  <2>1. /\ b.slab \in SlabId /\ b.slab # kBypassSlabId /\ b.node \in Node
        /\ b = [slab |-> b.slab, node |-> b.node]
    BY <1>2 DEF PoolBlock, SlabId, kBypassSlabId
  <2>2. b.node \in used[b.slab]
    BY <2>1 DEF UsedIsHeld
  <2>3. b.node \in NodesOf(arena[b.slab]) /\ arena[b.slab] \in Geometry
    BY <2>1, <2>2 DEF UsedIsHeld, TypeOK, Live, Geometry
  <2> QED
    BY <1>1, <2>1, <2>3, OverlapIsReflexive DEF Overlaps
<1>3. CASE b \in BypassBlock
  BY <1>1, <1>3 DEF BypassBlock, Overlaps
<1> QED
  BY <1>1, <1>2, <1>3 DEF Block

(* Giving entries back frees their blocks and no other.                    *)
LEMMA GiveBackHeld ==
  ASSUME TypeOK, Ownership, NEW entries \in SUBSET pending,
         NEW id \in SlabId, NEW n \in Node
  PROVE  n \in Without(entries)[id] <=>
           [slab |-> id, node |-> n]
             \in {BlockOf(a) : a \in live} \cup {p.block : p \in pending \ entries}
<1> DEFINE b == [slab |-> id, node |-> n]
           gone == {p.block : p \in entries}
<1>1. n \in Without(entries)[id] <=> n \in used[id] /\ b \notin gone
  <2>1. Without(entries)[id]
          = used[id] \ {p.block.node : p \in {q \in entries : q.block.slab = id}}
    BY DEF Without
  <2>2. ASSUME NEW p \in entries
        PROVE  p.block.slab = id /\ p.block.node = n <=> p.block = b
    BY DEF TypeOK, Entry, PoolBlock
  <2> QED
    BY <2>1, <2>2
<1>2. n \in used[id] <=> b \in Held
  BY DEF Ownership, UsedIsHeld
<1>3. ASSUME NEW p \in entries, NEW q \in pending \ entries PROVE p.block # q.block
  BY HeldOverlapsItself DEF Ownership, OwnersApart, Held, Parked
<1>4. ASSUME NEW p \in entries, NEW a \in live PROVE p.block # BlockOf(a)
  BY HeldOverlapsItself DEF Ownership, OwnersApart, Held, Parked
<1> QED
  BY <1>1, <1>2, <1>3, <1>4 DEF Held, Parked

(* Hence entries may be given back ...                                     *)
LEMMA GiveBackOwnership ==
  ASSUME TypeOK, Ownership, NEW entries \in SUBSET pending,
         used' = Without(entries), pending' = pending \ entries,
         UNCHANGED live,
         bypassed \subseteq bypassed',
         \A id \in SlabId : Without(entries)[id] # {} => arena'[id] = arena[id]
  PROVE  Ownership'
<1>1. OwnersApart'
  BY DEF Ownership, OwnersApart
<1>2. ASSUME NEW id \in SlabId, NEW n \in Node
      PROVE  n \in used'[id] <=> [slab |-> id, node |-> n] \in Held'
  BY GiveBackHeld DEF Held, Parked
<1>3. ASSUME NEW id \in SlabId, used'[id] # {}
      PROVE  Live(id)' /\ used'[id] \subseteq NodesOf(arena'[id])
  <2>1. used'[id] \subseteq used[id] /\ arena'[id] = arena[id]
    BY <1>3 DEF Without
  <2> QED
    BY <1>3, <2>1 DEF Ownership, UsedIsHeld, Live
<1> QED
  BY <1>1, <1>2, <1>3 DEF Ownership, UsedIsHeld

(* ... and a vacant block may be handed out of what is left.               *)
LEMMA HandOutOwnership ==
  ASSUME TypeOK, Ownership, NEW entries \in SUBSET pending,
         NEW id \in SlabId, NEW k \in Geometry, NEW node \in NodesOf(k),
         \A u \in Without(entries)[id] : <<u, node>> \notin Overlap,
         NEW bytes, NEW s, HandOut(Without(entries), id, k, node, bytes, s),
         pending' = pending \ entries, UNCHANGED bypassed,
         \/ UNCHANGED arena /\ arena[id] = k
         \/ ~Live(id) /\ arena' = [arena EXCEPT ![id] = k]
  PROVE  /\ Ownership'
         /\ \E a \in live' : /\ live' = live \cup {a} /\ a.home = s
                            /\ BlockOf(a) = [slab |-> id, node |-> node]
<1> DEFINE new == [slab |-> id, node |-> node, requested |-> bytes,
                   bytes |-> BlockBytes(k, node), home |-> s]
           b == [slab |-> id, node |-> node]
<1>1. /\ live' = live \cup {new} /\ BlockOf(new) = b /\ new.home = s
      /\ used' = [Without(entries) EXCEPT ![id] = @ \cup {node}]
  BY DEF HandOut, Hand, BlockOf
<1>2. node \in Node
  BY BlocksOfSlab DEF Geometry
<1>3. \A h \in SlabId, n \in Node :
        n \in used'[h] <=> n \in Without(entries)[h] \/ [slab |-> h, node |-> n] = b
  BY <1>1, <1>2, WithoutType
<1>4. \A h \in SlabId, n \in Node :
        n \in used'[h] <=> [slab |-> h, node |-> n] \in Held'
  <2>1. Held' = {BlockOf(a) : a \in live} \cup {b} \cup {p.block : p \in pending \ entries}
    BY <1>1 DEF Held, Parked, BlockOf
  <2> QED
    BY <1>3, <2>1, GiveBackHeld
<1>5. ASSUME NEW c \in {BlockOf(a) : a \in live} \cup {p.block : p \in pending \ entries}
      PROVE  ~Overlaps(c, b) /\ ~Overlaps(b, c)
  <2>1. c \in Held /\ id # kBypassSlabId
    BY DEF Held, Parked, SlabId, kBypassSlabId
  <2>2. CASE c.slab = id
    <3>1. c \in PoolBlock
      BY <2>1, <2>2, HeldOverlapsItself DEF Ownership, Block, BypassBlock
    <3>2. c.node \in Node /\ c = [slab |-> id, node |-> c.node]
      BY <2>2, <3>1 DEF PoolBlock
    <3>3. c.node \in Without(entries)[id]
      BY <1>5, <3>2, GiveBackHeld
    <3> QED
      BY <2>1, <2>2, <3>3, OverlapIsSymmetric DEF Overlaps
  <2>3. CASE c.slab # id
    BY <2>3 DEF Overlaps
  <2> QED
    BY <2>2, <2>3
<1>6. OwnersApart'
  <2>1. ASSUME NEW x \in live', NEW y \in live', x # y
        PROVE  ~Overlaps(BlockOf(x), BlockOf(y))
    BY <1>1, <1>5, <2>1 DEF Ownership, OwnersApart
  <2>2. ASSUME NEW x \in live', NEW p \in pending'
        PROVE  ~Overlaps(BlockOf(x), p.block)
    BY <1>1, <1>5, <2>2 DEF Ownership, OwnersApart
  <2>3. ASSUME NEW p \in pending', NEW q \in pending', p # q
        PROVE  ~Overlaps(p.block, q.block)
    BY <2>3 DEF Ownership, OwnersApart
  <2> QED
    BY <2>1, <2>2, <2>3 DEF OwnersApart, BlockOf, Overlaps, kBypassSlabId
<1>7. ASSUME NEW h \in SlabId, used'[h] # {}
      PROVE  Live(h)' /\ used'[h] \subseteq NodesOf(arena'[h])
  <2>1. arena \in [SlabId -> {Dead} \cup MinLog2 .. MaxArenaLog2] /\ k # Dead
    BY GeometryAssumption DEF TypeOK, Geometry, Dead
  <2>2. Without(entries)[h] \subseteq used[h]
    BY DEF Without
  <2>3. CASE h = id
    <3>1. arena'[id] = k /\ (used[id] # {} => arena[id] = k)
      BY <2>1 DEF Ownership, UsedIsHeld, Live
    <3>2. used'[id] = Without(entries)[id] \cup {node}
      BY <1>1, WithoutType
    <3> QED
      BY <2>1, <2>2, <2>3, <3>1, <3>2 DEF Ownership, UsedIsHeld, Live
  <2>4. CASE h # id
    <3>1. used'[h] = Without(entries)[h] /\ arena'[h] = arena[h]
      BY <1>1, <2>1, <2>4, WithoutType
    <3> QED
      BY <1>7, <2>2, <3>1 DEF Ownership, UsedIsHeld, Live
  <2> QED
    BY <2>3, <2>4
<1>8. \A a \in live' : a.slab = kBypassSlabId => \E c \in bypassed' : c.ptr = a.node
  BY <1>1 DEF Ownership, UsedIsHeld, SlabId, kBypassSlabId
<1> QED
  BY <1>1, <1>4, <1>6, <1>7, <1>8 DEF Ownership, UsedIsHeld

(* The three ways a pooled request is served hand out a vacant block,      *)
(* after giving back either what the reclaim pass found or everything.     *)
GivenBack(entries, s) ==
  /\ ReleaseEntries(entries)
  /\ \/ entries = Reclaimable(s) /\ UNCHANGED deviceVars
     \/ entries = pending /\ Drain(StillParked(s))

Served(bytes, s, entries, id, k, node) ==
  /\ GivenBack(entries, s)
  /\ \A u \in Without(entries)[id] : <<u, node>> \notin Overlap
  /\ HandOut(Without(entries), id, k, node, bytes, s)
  /\ UNCHANGED bypassed
  /\ \/ UNCHANGED arena /\ arena[id] = k
     \/ ~Live(id) /\ arena' = [arena EXCEPT ![id] = k]

(* Whatever its outcome, allocate gives entries back and then serves one.  *)
LEMMA AllocateServes ==
  ASSUME TypeOK, Ownership, NEW bytes \in Nat, NEW s \in AllocStream,
         \/ AllocateFromSlab(bytes, s)
         \/ AllocateFromNewSlab(bytes, s)
         \/ AllocateAfterDrain(bytes, s)
  PROVE  \E entries \in SUBSET pending, id \in SlabId, k \in Geometry :
         \E node \in NodesOf(k) : Served(bytes, s, entries, id, k, node)
<1>1. CASE AllocateFromSlab(bytes, s)
  <2> DEFINE back == Reclaimable(s)
  <2>1. PICK id \in FirstFit(Without(back), bytes) :
        \E node \in FittingBlocks(Without(back), id, bytes) :
          HandOut(Without(back), id, arena[id], node, bytes, s)
    BY <1>1 DEF AllocateFromSlab
  <2>2. PICK node \in FittingBlocks(Without(back), id, bytes) :
          HandOut(Without(back), id, arena[id], node, bytes, s)
    BY <2>1
  <2>3. GivenBack(back, s) /\ back \in SUBSET pending /\ UNCHANGED <<arena, bypassed>>
    BY <1>1 DEF AllocateFromSlab, GivenBack, Reclaimable
  <2>4. Without(back) \in [SlabId -> SUBSET Node]
    BY WithoutType
  <2> HIDE DEF back
  <2>5. id \in SlabId /\ arena[id] \in Geometry /\ node \in NodesOf(arena[id])
    BY <2>2, <2>4, FirstFitType
  <2>6. \A u \in Without(back)[id] : <<u, node>> \notin Overlap
    BY <2>2, <2>4, <2>5, CandidateIsVacant DEF FittingBlocks
  <2> QED
    BY <2>2, <2>3, <2>5, <2>6 DEF Served
<1>2. CASE AllocateFromNewSlab(bytes, s)
  <2> DEFINE back == Reclaimable(s)
  <2>1. PICK id \in FirstDead, k \in AddSlabOk(Grown(bytes), bytes) :
        \E node \in Candidates(k, {}, level_for_size(bytes, k, MinLog2)) :
          /\ arena' = [arena EXCEPT ![id] = k]
          /\ HandOut(Without(back), id, k, node, bytes, s)
    BY <1>2 DEF AllocateFromNewSlab
  <2>2. PICK node \in Candidates(k, {}, level_for_size(bytes, k, MinLog2)) :
          /\ arena' = [arena EXCEPT ![id] = k]
          /\ HandOut(Without(back), id, k, node, bytes, s)
    BY <2>1
  <2>3. GivenBack(back, s) /\ back \in SUBSET pending /\ UNCHANGED bypassed
    BY <1>2 DEF AllocateFromNewSlab, GivenBack, Reclaimable
  <2> HIDE DEF back
  <2>4. id \in SlabId /\ ~Live(id) /\ k \in Geometry /\ node \in NodesOf(k)
    BY <2>1, <2>2, SlabTriedType DEF FirstDead, AddSlabOk, Candidates
  <2>5. Without(back)[id] = {}
    BY <2>4 DEF Ownership, UsedIsHeld, Without
  <2> QED
    BY <2>2, <2>3, <2>4, <2>5 DEF Served
<1>3. CASE AllocateAfterDrain(bytes, s)
  <2>1. PICK id \in FirstFit(Without(pending), bytes) :
        \E node \in FittingBlocks(Without(pending), id, bytes) :
          HandOut(Without(pending), id, arena[id], node, bytes, s)
    BY <1>3 DEF AllocateAfterDrain
  <2>2. PICK node \in FittingBlocks(Without(pending), id, bytes) :
          HandOut(Without(pending), id, arena[id], node, bytes, s)
    BY <2>1
  <2>3. GivenBack(pending, s) /\ UNCHANGED <<arena, bypassed>>
    BY <1>3 DEF AllocateAfterDrain, GivenBack, Drain
  <2>4. Without(pending) \in [SlabId -> SUBSET Node]
    BY WithoutType
  <2>5. id \in SlabId /\ arena[id] \in Geometry /\ node \in NodesOf(arena[id])
    BY <2>2, <2>4, FirstFitType
  <2>6. \A u \in Without(pending)[id] : <<u, node>> \notin Overlap
    BY <2>2, <2>4, <2>5, CandidateIsVacant DEF FittingBlocks
  <2> QED
    BY <2>2, <2>3, <2>5, <2>6 DEF Served
<1> QED
  BY <1>1, <1>2, <1>3

(* What a call to deallocate does to the list: the block stays out as a    *)
(* parked entry or, when its stream is idle, goes back at once.            *)
LEMMA RetireEffect ==
  ASSUME NEW block, NEW s, NEW now \in BOOLEAN, Retire(block, s, now)
  PROVE  \/ now /\ StreamIdle(s) /\ pending' = pending
         \/ /\ ~now
            /\ \E slot : pending' = pending \cup
                            {[block |-> block, stream |-> s, slot |-> slot]}
<1>1. CASE CoarseRule(block, s, now)
  BY <1>1 DEF CoarseRule, Park
<1>2. CASE ~now /\ \E slot : Park(block, s, slot)
  BY <1>2 DEF Park
<1> QED
  BY <1>1, <1>2 DEF Retire, ParkWithEvent, EventFails

(* Every action preserves ownership.                                       *)
LEMMA OwnershipStep ==
  ASSUME TypeOK, Ownership, [Next]_vars
  PROVE  Ownership'
<1> USE ConfigAssumption
<1>1. ASSUME NEW bytes \in Nat, NEW s \in AllocStream,
             \/ AllocateFromSlab(bytes, s)
             \/ AllocateFromNewSlab(bytes, s)
             \/ AllocateAfterDrain(bytes, s)
      PROVE  Ownership'
  <2>1. PICK entries \in SUBSET pending, id \in SlabId, k \in Geometry :
          \E node \in NodesOf(k) : Served(bytes, s, entries, id, k, node)
    BY <1>1, AllocateServes
  <2>2. PICK node \in NodesOf(k) : Served(bytes, s, entries, id, k, node)
    BY <2>1
  <2> QED
    BY <2>2, HandOutOwnership DEF Served, GivenBack, ReleaseEntries
<1>2. ASSUME NEW bytes \in Nat, NEW s \in AllocStream, AllocateRefused(bytes, s)
      PROVE  Ownership'
  BY <1>2, GiveBackOwnership DEF AllocateRefused, Drain, ReleaseEntries
<1>3. ASSUME NEW bytes \in Nat, NEW s \in AllocStream, AllocateBypass(bytes, s)
      PROVE  Ownership'
  <2>1. PICK ptr \in BypassPtr :
          /\ bypassed' = bypassed \cup {[ptr |-> ptr, bytes |-> bytes]}
          /\ Hand(kBypassSlabId, ptr, bytes, bytes, s)
    BY <1>3 DEF AllocateBypass
  <2> DEFINE new == [slab |-> kBypassSlabId, node |-> ptr, requested |-> bytes,
                     bytes |-> bytes, home |-> s]
             entries == Reclaimable(s)
  <2>2. /\ UNCHANGED arena /\ used' = Without(entries)
        /\ pending' = pending \ entries /\ entries \in SUBSET pending
    BY <1>3 DEF AllocateBypass, ReleaseEntries, Reclaimable
  <2>3. live' = live \cup {new}
    BY <2>1 DEF Hand
  <2> HIDE DEF entries
  <2>4. ASSUME NEW b \in Held
        PROVE  ~Overlaps(b, BlockOf(new)) /\ ~Overlaps(BlockOf(new), b)
    <3>1. CASE b.slab = kBypassSlabId
      <4>1. PICK a \in live : b = BlockOf(a)
        BY <3>1 DEF Held, Parked, TypeOK, Entry, PoolBlock, SlabId, kBypassSlabId
      <4>2. \E c \in bypassed : c.ptr = b.node
        BY <3>1, <4>1 DEF Ownership, UsedIsHeld, BlockOf
      <4>3. b.node # ptr
        BY <4>2 DEF BypassPtr
      <4> QED
        BY <4>3 DEF Overlaps, BlockOf, kBypassSlabId
    <3>2. CASE b.slab # kBypassSlabId
      BY <3>2 DEF Overlaps, BlockOf
    <3> QED
      BY <3>1, <3>2
  <2>5. OwnersApart'
    <3>1. ASSUME NEW x \in live', NEW y \in live', x # y
          PROVE  ~Overlaps(BlockOf(x), BlockOf(y))
      BY <2>3, <2>4, <3>1 DEF Ownership, OwnersApart, Held
    <3>2. ASSUME NEW x \in live', NEW p \in pending'
          PROVE  ~Overlaps(BlockOf(x), p.block)
      BY <2>2, <2>3, <2>4, <3>2 DEF Ownership, OwnersApart, Held, Parked
    <3> QED
      BY <2>2, <3>1, <3>2 DEF Ownership, OwnersApart, BlockOf, Overlaps, kBypassSlabId
  <2>6. ASSUME NEW id \in SlabId, NEW n \in Node
        PROVE  n \in used'[id] <=> [slab |-> id, node |-> n] \in Held'
    <3>1. BlockOf(new) # [slab |-> id, node |-> n]
      BY DEF BlockOf, SlabId, kBypassSlabId
    <3>2. Held' = {BlockOf(a) : a \in live} \cup {BlockOf(new)}
                    \cup {p.block : p \in pending \ entries}
      BY <2>2, <2>3 DEF Held, Parked, BlockOf
    <3> QED
      BY <2>2, <3>1, <3>2, GiveBackHeld
  <2>7. ASSUME NEW id \in SlabId, used'[id] # {}
        PROVE  Live(id)' /\ used'[id] \subseteq NodesOf(arena'[id])
    BY <2>2, <2>7 DEF Without, Ownership, UsedIsHeld, Live
  <2>8. \A a \in live' : a.slab = kBypassSlabId => \E c \in bypassed' : c.ptr = a.node
    <3>1. bypassed \subseteq bypassed' /\ [ptr |-> ptr, bytes |-> bytes] \in bypassed'
      BY <2>1
    <3>2. \E c \in bypassed' : c.ptr = new.node
      BY <3>1
    <3> QED
      BY <2>3, <3>1, <3>2 DEF Ownership, UsedIsHeld
  <2> QED
    BY <2>5, <2>6, <2>7, <2>8 DEF Ownership, UsedIsHeld
<1>4. ASSUME NEW bytes \in Nat, NEW s \in AllocStream, AllocateBypassFails(bytes, s)
      PROVE  Ownership'
  BY <1>4, GiveBackOwnership DEF AllocateBypassFails, ReleaseEntries, Reclaimable
<1>5. ASSUME NEW a \in live, Deallocate(a)
      PROVE  Ownership'
  <2> DEFINE b == BlockOf(a)
  <2>1. PICK now \in BOOLEAN :
          /\ Retire(b, a.home, now)
          /\ used' = IF now THEN [used EXCEPT ![a.slab] = @ \ {a.node}] ELSE used
    BY <1>5 DEF Deallocate
  <2>2. UNCHANGED <<arena, bypassed>> /\ live' = live \ {a} /\ a.slab # kBypassSlabId
    BY <1>5 DEF Deallocate
  <2>3. /\ a.slab \in SlabId /\ a.node \in Node
        /\ b = [slab |-> a.slab, node |-> a.node] /\ b \in Held
    BY <2>2 DEF TypeOK, Handle, Block, PoolBlock, BypassBlock, BlockOf, Held
  <2>4. ASSUME NEW c \in {BlockOf(x) : x \in live \ {a}} \cup Parked
        PROVE  c # b /\ ~Overlaps(b, c) /\ ~Overlaps(c, b)
    BY <2>3, HeldOverlapsItself, OverlapsIsSymmetric DEF Ownership, OwnersApart, Parked
  <2>5. CASE now
    <3>1. pending' = pending
      BY <2>1, <2>5, RetireEffect
    <3>2. \A id \in SlabId : used'[id] = IF id = a.slab THEN used[id] \ {a.node} ELSE used[id]
      BY <2>1, <2>3, <2>5 DEF TypeOK
    <3>3. ASSUME NEW id \in SlabId, NEW n \in Node
          PROVE  n \in used'[id] <=> [slab |-> id, node |-> n] \in Held'
      <4>1. Held' = {BlockOf(x) : x \in live \ {a}} \cup Parked
        BY <2>2, <3>1 DEF Held, Parked, BlockOf
      <4>2. Held = Held' \cup {b} /\ b \notin Held'
        BY <2>4, <4>1 DEF Held, Parked
      <4>3. [slab |-> id, node |-> n] = b <=> id = a.slab /\ n = a.node
        BY <2>3
      <4>4. n \in used'[id] <=> n \in used[id] /\ ~(id = a.slab /\ n = a.node)
        BY <3>2, ZenonT(30)
      <4> QED
        BY <4>2, <4>3, <4>4 DEF Ownership, UsedIsHeld
    <3> QED
      BY <2>2, <3>1, <3>2, <3>3 DEF Ownership, OwnersApart, UsedIsHeld, Live
  <2>6. CASE ~now
    <3>1. PICK slot : pending' = pending \cup
                        {[block |-> b, stream |-> a.home, slot |-> slot]}
      BY <2>1, <2>6, RetireEffect
    <3>2. Held' = Held /\ used' = used
      <4>1. Parked' = Parked \cup {b}
        <5> DEFINE new == [block |-> b, stream |-> a.home, slot |-> slot]
        <5>1. new.block = b /\ pending' = pending \cup {new}
          BY <3>1
        <5> HIDE DEF new, b
        <5> QED
          BY <5>1 DEF Parked
      <4>2. {BlockOf(x) : x \in live}' = {BlockOf(x) : x \in live \ {a}}
        BY <2>2 DEF BlockOf
      <4>3. {BlockOf(x) : x \in live} = {BlockOf(x) : x \in live \ {a}} \cup {b}
        OBVIOUS
      <4> QED
        BY <2>1, <2>6, <4>1, <4>2, <4>3 DEF Held
    <3>3. OwnersApart'
      BY <2>2, <2>4, <3>1 DEF Ownership, OwnersApart, Parked
    <3> QED
      BY <2>2, <3>2, <3>3 DEF Ownership, UsedIsHeld, Live
  <2> QED
    BY <2>5, <2>6
<1>6. ASSUME NEW a \in live, DeallocateBypass(a)
      PROVE  Ownership'
  <2>1. /\ live' = live \ {a} /\ UNCHANGED <<pending, arena, used>>
        /\ a.slab = kBypassSlabId /\ bypassed' = {c \in bypassed : c.ptr # a.node}
    BY <1>6 DEF DeallocateBypass, reuseVars
  <2>2. ASSUME NEW id \in SlabId, NEW n \in Node
        PROVE  [slab |-> id, node |-> n] \in Held <=> [slab |-> id, node |-> n] \in Held'
    BY <2>1 DEF Held, Parked, BlockOf, SlabId, kBypassSlabId
  <2>3. ASSUME NEW x \in live', x.slab = kBypassSlabId
        PROVE  \E c \in bypassed' : c.ptr = x.node
    <3>1. ~Overlaps(BlockOf(x), BlockOf(a)) /\ \E c \in bypassed : c.ptr = x.node
      BY <2>1, <2>3 DEF Ownership, OwnersApart, UsedIsHeld
    <3>2. x.node # a.node
      BY <2>1, <2>3, <3>1 DEF Overlaps, BlockOf
    <3> QED
      BY <2>1, <3>1, <3>2
  <2> QED
    BY <2>1, <2>2, <2>3 DEF Ownership, OwnersApart, UsedIsHeld, Live
<1>7. ASSUME NEW bytes \in Nat, Reserve(bytes)
      PROVE  Ownership'
  <2>1. UNCHANGED <<pending, bypassed, live, used>>
    BY <1>7 DEF Reserve, reuseVars
  <2>2. ASSUME NEW id \in SlabId, used[id] # {} PROVE arena'[id] = arena[id]
    <3>1. Live(id)
      BY <2>2 DEF Ownership, UsedIsHeld
    <3>2. CASE \E h \in FirstDead, k \in AddSlabOk(bytes, bytes) :
                 arena' = [arena EXCEPT ![h] = k]
      BY <3>1, <3>2 DEF FirstDead, TypeOK
    <3> QED
      BY <1>7, <3>2 DEF Reserve
  <2>3. OwnersApart' /\ Held' = Held
    BY <2>1 DEF Ownership, OwnersApart, Held, Parked
  <2> QED
    BY <2>1, <2>2, <2>3 DEF Ownership, UsedIsHeld, Live
<1>8. ASSUME SettlePending
      PROVE  Ownership'
  BY <1>8, GiveBackOwnership DEF SettlePending, Drain, ReleaseEntries
<1>9. ASSUME Trim
      PROVE  Ownership'
  <2>1. /\ used' = Without(pending) /\ pending' = pending \ pending
        /\ UNCHANGED <<bypassed, live>>
    BY <1>9 DEF Trim, Drain, ReleaseEntries
  <2>2. \A id \in SlabId : Without(pending)[id] # {} => arena'[id] = arena[id]
    BY <1>9 DEF Trim, UnusedSlabs
  <2> QED
    BY <2>1, <2>2, GiveBackOwnership
<1>10. ASSUME NEW a \in live, NEW s \in Stream, Move(a, s)
      PROVE  Ownership'
  <2> DEFINE moved == [a EXCEPT !.home = s]
  <2>1. /\ UNCHANGED <<pending, arena, used, bypassed>>
        /\ live' = (live \ {a}) \cup {moved}
    BY <1>10 DEF Move, reuseVars
  <2>2. BlockOf(moved) = BlockOf(a) /\ moved.slab = a.slab /\ moved.node = a.node
    BY DEF TypeOK, Handle, BlockOf
  <2> HIDE DEF moved
  <2>3. Held' = Held
    BY <2>1, <2>2 DEF Held, Parked, BlockOf
  <2>4. OwnersApart'
    BY <2>1, <2>2 DEF Ownership, OwnersApart
  <2> QED
    BY <2>1, <2>2, <2>3, <2>4 DEF Ownership, UsedIsHeld, Live
<1>11. CASE UNCHANGED <<arena, used, bypassed, live, pending>>
  BY <1>11 DEF Ownership, OwnersApart, UsedIsHeld, Held, Parked, Live
<1> QED
  BY <1>1, <1>2, <1>3, <1>4, <1>5, <1>6, <1>7, <1>8, <1>9, <1>10, <1>11
     DEF Next, Allocate, AllocateNothing, Use, Device, vars, poolVars, reuseVars

(* Two owners never hold a common byte, and the blocks the allocator       *)
(* believes to be out are exactly those somebody holds, for every number   *)
(* of slabs and streams and under every policy and fault.                  *)
THEOREM OwnershipKept == Spec => []Ownership
<1>1. Init => TypeOK /\ Ownership
  <2> SUFFICES ASSUME Init PROVE TypeOK /\ Ownership
    OBVIOUS
  <2>1. TypeOK
    BY DEF Init, DeviceInit, ReuseInit, TypeOK, SlotsOf, Slots, Live
  <2>2. Ownership
    BY DEF Init, ReuseInit, Ownership, OwnersApart, UsedIsHeld, Held, Parked, Live
  <2> QED
    BY <2>1, <2>2
<1>2. TypeOK /\ Ownership /\ [Next]_vars => TypeOK' /\ Ownership'
  BY TypeStep, OwnershipStep
<1>3. Spec => [](TypeOK /\ Ownership)
  BY <1>1, <1>2, PTL DEF Spec
<1> QED
  BY <1>3, PTL

(* If some slab has room for the request, one of them is tried first.      *)
LEMMA FirstFitFinds ==
  ASSUME NEW usedNow, NEW bytes, FirstFit(usedNow, bytes) = {}
  PROVE  \A id \in SlabId : ~Fits(usedNow, id, bytes)
<1> DEFINE fits == {id \in SlabId : Fits(usedNow, id, bytes)}
<1>1. SUFFICES ASSUME fits # {} PROVE FALSE
  OBVIOUS
<1>2. fits \subseteq Nat
  BY DEF SlabId
<1>3. PICK id \in fits : \A h \in fits : ~(<<h, id>> \in OpToRel(<, Nat))
  BY <1>1, <1>2, WFMin, NatLessThanWellFounded, Zenon
<1>4. ASSUME NEW h \in fits PROVE id <= h
  <2>1. h \in Nat /\ id \in Nat
    BY <1>2
  <2>2. ~(h < id)
    BY <1>3, <2>1 DEF OpToRel
  <2> QED
    BY <2>1, <2>2
<1> QED
  BY <1>4 DEF FirstFit

(* A slab that has no room even after everything parked was given back     *)
(* holds a client's block on every block of the requested size.            *)
LEMMA RefusedIsFull ==
  ASSUME TypeOK, Ownership, NEW bytes, NEW s, AllocateRefused(bytes, s),
         NEW id \in SlabId, Live(id), NEW n \in NodesOf(arena[id]),
         <<n, Level(id, bytes)>> \in AtLevel
  PROVE  \E a \in live : Overlaps([slab |-> id, node |-> n], BlockOf(a))
<1>1. ~HasRoom(arena[id], Without(pending)[id], Level(id, bytes))
  BY FirstFitFinds DEF AllocateRefused, Fits
<1>2. PICK u \in Without(pending)[id] : <<u, n>> \in Overlap
  BY <1>1 DEF HasRoom, Vacant
<1>3. u \in Node
  BY <1>2 DEF Overlap
<1>4. PICK a \in live : BlockOf(a) = [slab |-> id, node |-> u]
  <2>1. pending \in SUBSET pending /\ {p.block : p \in pending \ pending} = {}
    OBVIOUS
  <2>2. [slab |-> id, node |-> u] \in {BlockOf(a) : a \in live}
    BY <1>2, <1>3, <2>1, GiveBackHeld
  <2> QED
    BY <2>2
<1>5. id # kBypassSlabId
  BY DEF SlabId, kBypassSlabId
<1> QED
  BY <1>2, <1>4, <1>5, OverlapIsSymmetric DEF Overlaps

(* allocate reports OutOfMemory only when what the clients hold leaves no  *)
(* block of the requested size in any slab.                                *)
THEOREM OomIsTrue == Spec => NoFalseOom
<1>1. TypeOK /\ Ownership /\ [Next]_vars
        => [ret' = "kOutOfMemory" => \A bytes \in Sizes \ {0}, s \in AllocStream :
             AllocateRefused(bytes, s) =>
               \A id \in SlabId : Live(id) =>
                 \A n \in NodesOf(arena[id]) : <<n, Level(id, bytes)>> \in AtLevel =>
                   \E a \in live : Overlaps([slab |-> id, node |-> n], BlockOf(a))]_vars
  BY RefusedIsFull
<1>2. Spec => [](TypeOK /\ Ownership)
  BY TypeCorrect, OwnershipKept, PTL
<1> QED
  BY <1>1, <1>2, PTL DEF Spec, NoFalseOom

-----------------------------------------------------------------------------
(* Event slots.                                                            *)

(* As far as the list of parked blocks goes, a step either leaves it       *)
(* alone, gives entries back, or retires one block.                        *)
LEMMA StepsOnTheList ==
  ASSUME TypeOK, [Next]_vars
  PROVE  \/ Advance /\ UNCHANGED <<pending, freeSlots>>
         \/ /\ queue' \in [Stream -> Seq(Block)] /\ UNCHANGED <<event, pending, freeSlots>>
         \/ Advance /\ \E entries \in SUBSET pending : ReleaseEntries(entries)
         \/ \E a \in live, now \in BOOLEAN :
              BlockOf(a) \in PoolBlock /\ Retire(BlockOf(a), a.home, now)
<1> USE ConfigAssumption
<1>1. ASSUME NEW bytes \in Nat, NEW s \in AllocStream, Allocate(bytes, s)
      PROVE  Advance /\ \E entries \in SUBSET pending : ReleaseEntries(entries)
  <2>1. Reclaimable(s) \in SUBSET pending /\ StillParked(s) \in SUBSET pending
    BY DEF Reclaimable, StillParked
  <2>2. CASE Drain(StillParked(s))
    BY <2>1, <2>2, DrainEffect
  <2>3. CASE UNCHANGED deviceVars /\ ReleaseEntries(Reclaimable(s))
    BY <2>1, <2>3, UnchangedAdvances
  <2> QED
    BY <1>1, <2>2, <2>3 DEF Allocate, AllocateFromSlab, AllocateFromNewSlab,
       AllocateAfterDrain, AllocateRefused, AllocateBypass, AllocateBypassFails
<1>2. ASSUME NEW a \in live, Deallocate(a)
      PROVE  \E now \in BOOLEAN :
               BlockOf(a) \in PoolBlock /\ Retire(BlockOf(a), a.home, now)
  <2>1. BlockOf(a) \in PoolBlock
    BY <1>2 DEF Deallocate, TypeOK, Handle, Block, BypassBlock, BlockOf
  <2> QED
    BY <1>2, <2>1 DEF Deallocate
<1>3. ASSUME NEW a \in live, DeallocateBypass(a)
      PROVE  Advance /\ UNCHANGED <<pending, freeSlots>>
  BY <1>3, SynchronizeAdvances DEF DeallocateBypass, reuseVars
<1>4. ASSUME SettlePending \/ Trim
      PROVE  Advance /\ \E entries \in SUBSET pending : ReleaseEntries(entries)
  BY <1>4, DrainEffect, SynchronizeAdvances DEF SettlePending, Trim
<1>5. ASSUME Device
      PROVE  Advance /\ UNCHANGED <<pending, freeSlots>>
  BY <1>5, CompleteAdvances DEF Device, reuseVars
<1>6. ASSUME NEW a \in live, Use(a)
      PROVE  queue' \in [Stream -> Seq(Block)] /\ UNCHANGED <<event, pending, freeSlots>>
  <2>1. TypeOK'
    BY <1>6, TypeStep DEF Next
  <2> QED
    BY <1>6, <2>1 DEF Use, Launch, reuseVars, TypeOK
<1>7. CASE UNCHANGED <<deviceVars, pending, freeSlots>>
  BY <1>7, UnchangedAdvances
<1> QED
  BY <1>1, <1>2, <1>3, <1>4, <1>5, <1>6, <1>7
     DEF Next, AllocateNothing, Reserve, Move, vars, reuseVars

(* Parking a block adds its event slot, if it has one, to those in use.    *)
LEMMA ParkedSlot ==
  ASSUME NEW block, NEW s, NEW slot, Park(block, s, slot)
  PROVE  SlotsOf(pending') = SlotsOf(pending) \cup ({slot} \ {kNoEventSlot})
<1> DEFINE new == [block |-> block, stream |-> s, slot |-> slot]
<1>1. pending' = pending \cup {new} /\ new.slot = slot
  BY DEF Park
<1> HIDE DEF new
<1> QED
  BY <1>1 DEF SlotsOf

(* Every action preserves the partition of the event slots.                *)
LEMMA SlotsStep ==
  ASSUME TypeOK, EventSlotsPartitioned, [Next]_vars
  PROVE  EventSlotsPartitioned'
<1>1. CASE UNCHANGED <<pending, freeSlots>> /\ DOMAIN event' = DOMAIN event
  BY <1>1 DEF EventSlotsPartitioned, SlotsOf, Slots
<1>2. CASE Advance /\ \E entries \in SUBSET pending : ReleaseEntries(entries)
  <2>1. PICK entries \in SUBSET pending : ReleaseEntries(entries)
    BY <1>2
  <2>2. Slots' = Slots
    BY <1>2 DEF Advance, Slots
  <2>3. /\ SlotsOf(pending) = SlotsOf(pending') \cup SlotsOf(entries)
        /\ SlotsOf(pending') \cap SlotsOf(entries) = {}
    BY <2>1 DEF ReleaseEntries, SlotsOf, EventSlotsPartitioned
  <2> QED
    BY <2>1, <2>2, <2>3 DEF EventSlotsPartitioned, ReleaseEntries
<1>3. ASSUME NEW a \in live, NEW now \in BOOLEAN,
             BlockOf(a) \in PoolBlock, Retire(BlockOf(a), a.home, now)
      PROVE  EventSlotsPartitioned'
  <2>1. CASE UNCHANGED <<event, freeSlots>> /\ (Park(BlockOf(a), a.home, kNoEventSlot) \/ UNCHANGED pending)
    BY <2>1 DEF EventSlotsPartitioned, Park, SlotsOf, Slots
  <2>2. Len(event) \in Nat /\ DOMAIN event = 1 .. Len(event)
    BY LenProperties DEF TypeOK
  <2>3. CASE \E slot \in freeSlots : /\ event' = [event EXCEPT ![slot] = Recorded(a.home)]
                                    /\ freeSlots' = freeSlots \ {slot}
                                    /\ Park(BlockOf(a), a.home, slot)
    <3>1. PICK slot \in freeSlots : /\ event' = [event EXCEPT ![slot] = Recorded(a.home)]
                                    /\ freeSlots' = freeSlots \ {slot}
                                    /\ Park(BlockOf(a), a.home, slot)
      BY <2>3
    <3>2. slot \in Slots /\ slot # kNoEventSlot
      BY <2>2 DEF TypeOK, Slots, kNoEventSlot
    <3>3. Slots' = Slots /\ SlotsOf(pending') = SlotsOf(pending) \cup {slot}
      BY <3>1, <3>2, ParkedSlot, <2>2 DEF Slots
    <3>4. slot \notin SlotsOf(pending)
      BY DEF EventSlotsPartitioned
    <3>5. \A p, q \in pending' : p # q /\ p.slot # kNoEventSlot => p.slot # q.slot
      BY <3>1, <3>2, <3>4 DEF EventSlotsPartitioned, Park, SlotsOf
    <3> QED
      BY <3>1, <3>3, <3>4, <3>5 DEF EventSlotsPartitioned
  <2>4. CASE /\ freeSlots = {}
             /\ \E mark \in Mark : event' = Append(event, mark)
    <3>1. Slots' = Slots \cup {Len(event) + 1} /\ Len(event) + 1 \notin Slots
          /\ Len(event) + 1 # kNoEventSlot
      <4>1. Len(event') = Len(event) + 1 /\ event' \in Seq(Mark)
        BY <2>4, AppendProperties DEF TypeOK
      <4>2. DOMAIN event' = 1 .. Len(event')
        BY <4>1, LenProperties
      <4> QED
        BY <2>2, <4>1, <4>2 DEF Slots, kNoEventSlot
    <3>2. Len(event) + 1 \notin SlotsOf(pending) /\ SlotsOf(pending) = Slots
      BY <2>4, <3>1 DEF EventSlotsPartitioned
    <3>3. CASE Park(BlockOf(a), a.home, Len(event) + 1) /\ freeSlots' = {}
      <4>1. SlotsOf(pending') = SlotsOf(pending) \cup {Len(event) + 1}
        BY <3>1, <3>3, ParkedSlot
      <4>2. \A p, q \in pending' : p # q /\ p.slot # kNoEventSlot => p.slot # q.slot
        BY <3>1, <3>2, <3>3 DEF EventSlotsPartitioned, Park, SlotsOf
      <4> QED
        BY <3>1, <3>2, <3>3, <4>1, <4>2 DEF EventSlotsPartitioned
    <3>4. CASE /\ Park(BlockOf(a), a.home, kNoEventSlot) \/ UNCHANGED pending
               /\ freeSlots' = {Len(event) + 1}
      <4>1. SlotsOf(pending') = SlotsOf(pending)
        BY <3>4 DEF SlotsOf, Park
      <4>2. \A p, q \in pending' : p # q /\ p.slot # kNoEventSlot => p.slot # q.slot
        BY <3>4 DEF EventSlotsPartitioned, Park, kNoEventSlot
      <4> QED
        BY <3>1, <3>2, <3>4, <4>1, <4>2 DEF EventSlotsPartitioned
    <3> QED
      BY <1>3, <2>4, <3>3, <3>4 DEF Retire, CoarseRule, ParkWithEvent, EventFails
  <2>5. Recorded(a.home) \in Mark /\ [stream |-> a.home, after |-> 0] \in Mark
    <3>1. a.home \in Stream /\ Len(queue[a.home]) \in Nat
      BY LenProperties DEF TypeOK, Handle
    <3> QED
      BY <3>1 DEF Recorded, Mark
  <2> QED
    BY <1>3, <2>1, <2>3, <2>4, <2>5 DEF Retire, CoarseRule, ParkWithEvent, EventFails
<1> QED
  BY <1>1, <1>2, <1>3, StepsOnTheList DEF Advance

(* An event slot is never shared by two parked blocks, never offered for   *)
(* reuse while an entry depends on it, and never lost.                     *)
THEOREM SlotsStayPartitioned == Spec => []EventSlotsPartitioned
<1>1. Init => TypeOK /\ EventSlotsPartitioned
  <2> SUFFICES ASSUME Init PROVE TypeOK /\ EventSlotsPartitioned
    OBVIOUS
  <2>1. TypeOK
    BY DEF Init, DeviceInit, ReuseInit, TypeOK, SlotsOf, Slots, Live
  <2>2. EventSlotsPartitioned
    BY DEF Init, DeviceInit, ReuseInit, EventSlotsPartitioned, SlotsOf, Slots
  <2> QED
    BY <2>1, <2>2
<1>2. TypeOK /\ EventSlotsPartitioned /\ [Next]_vars
        => TypeOK' /\ EventSlotsPartitioned'
  BY TypeStep, SlotsStep
<1>3. Spec => [](TypeOK /\ EventSlotsPartitioned)
  BY <1>1, <1>2, PTL DEF Spec
<1> QED
  BY <1>3, PTL

-----------------------------------------------------------------------------
(* Stream order, for a client that allocates for one stream and events     *)
(* that do not fail.                                                       *)

OneStream == (\A s, t \in AllocStream : s = t) /\ EventFaults = FALSE

(* While the device advances no stream starts anything.                    *)
LEMMA AdvanceRuns ==
  ASSUME Advance, NEW s \in Stream
  PROVE  Running(s)' \subseteq Running(s)
BY DEF Advance, Running

(* What a reclaim pass gives back for stream s has no kernel left, unless  *)
(* it was last used on s itself (rule 1) or was parked without an event    *)
(* under a policy that relies on events.                                   *)
LEMMA ReclaimProof ==
  ASSUME TypeOK, MarksCover, NEW s, NEW p \in Reclaimable(s), p.stream # s,
         policy = "kPerFreeEvent" => p.slot # kNoEventSlot
  PROVE  \A b \in Running(p.stream) : ~Overlaps(b, p.block)
<1>1. p \in pending /\ p.stream \in Stream
  BY DEF Reclaimable, TypeOK, Entry
<1>2. CASE StreamIdle(p.stream)
  BY <1>2 DEF StreamIdle, Running
<1>3. CASE policy = "kPerFreeEvent" /\ event_completed(p.slot)
  <2>1. p.slot # kNoEventSlot /\ event[p.slot].after = 0
    BY <1>3 DEF event_completed, EventDone
  <2>2. \A i \in DOMAIN queue[p.stream] : i \in Nat \ {0}
    BY <1>1, LenProperties DEF TypeOK
  <2>3. \A i \in DOMAIN queue[p.stream] : ~Overlaps(queue[p.stream][i], p.block)
    BY <1>1, <2>1, <2>2 DEF MarksCover
  <2> QED
    BY <2>3 DEF Running
<1> QED
  BY <1>2, <1>3 DEF Reclaimable, pending_reusable

(* Neither has a block that a drain has waited for.                        *)
LEMMA DrainProof ==
  ASSUME TypeOK, MarksCover, NEW parked \in SUBSET pending, Drain(parked),
         NEW p \in parked
  PROVE  \A b \in Running(p.stream)' : ~Overlaps(b, p.block)
<1>1. Advance /\ p \in pending /\ p.stream \in Stream
  BY DrainEffect DEF TypeOK, Entry
<1>2. CASE p.slot = kNoEventSlot
  BY <1>2, DrainEffect
<1>3. CASE p.slot # kNoEventSlot
  <2>1. event[p.slot].stream = p.stream /\ p.slot \in DOMAIN event
    BY <1>1, <1>3 DEF MarksCover, TypeOK, SlotsOf, Slots
  <2>2. event'[p.slot].after = 0
    BY <1>3, <2>1, DrainEffect
  <2>3. ASSUME NEW i \in DOMAIN queue'[p.stream], Overlaps(queue'[p.stream][i], p.block)
        PROVE  FALSE
    <3>1. PICK j \in DOMAIN queue[p.stream] :
            /\ queue'[p.stream][i] = queue[p.stream][j]
            /\ \A e \in DOMAIN event :
                 event[e].stream = p.stream /\ j <= event[e].after
                   => i <= event'[e].after
      BY <1>1, <2>3 DEF Advance
    <3>2. i <= 0
      BY <1>1, <1>3, <2>1, <2>2, <2>3, <3>1 DEF MarksCover
    <3>3. i \in Nat \ {0}
      BY <1>1, LenProperties DEF Advance
    <3> QED
      BY <3>2, <3>3
  <2> QED
    BY <2>3 DEF Running
<1> QED
  BY <1>2, <1>3

(* While the device advances events keep covering the kernels before them. *)
LEMMA AdvanceMarks ==
  ASSUME TypeOK, MarksCover, Advance, pending' \subseteq pending
  PROVE  MarksCover'
<1> SUFFICES ASSUME NEW p \in pending', p.slot # kNoEventSlot
             PROVE  /\ event'[p.slot].stream = p.stream
                    /\ \A i \in DOMAIN queue'[p.stream] :
                         Overlaps(queue'[p.stream][i], p.block) => i <= event'[p.slot].after
  BY DEF MarksCover, Overlaps
<1>1. event[p.slot].stream = p.stream /\ p.slot \in DOMAIN event /\ p.stream \in Stream
  BY DEF MarksCover, TypeOK, SlotsOf, Slots, Entry
<1>2. ASSUME NEW i \in DOMAIN queue'[p.stream], Overlaps(queue'[p.stream][i], p.block)
      PROVE  i <= event'[p.slot].after
  <2>1. PICK j \in DOMAIN queue[p.stream] :
          /\ queue'[p.stream][i] = queue[p.stream][j]
          /\ \A e \in DOMAIN event :
               event[e].stream = p.stream /\ j <= event[e].after
                 => i <= event'[e].after
    BY <1>1, <1>2 DEF Advance
  <2> QED
    BY <1>1, <1>2, <2>1 DEF MarksCover
<1> QED
  BY <1>1, <1>2 DEF Advance

(* Entries that were proved finished are given back, and at most one block *)
(* is handed out on the allocating stream.                                 *)
LEMMA GiveBackSharing ==
  ASSUME OneStream, TypeOK, Ownership, Ownership', SharingInv, Advance,
         NEW entries \in SUBSET pending, pending' = pending \ entries,
         policy' = policy,
         \A p \in entries : \/ p.stream \in AllocStream
                            \/ \A b \in Running(p.stream)' : ~Overlaps(b, p.block),
         live \subseteq live', \A a \in live' : a.home \in Stream,
         \A a \in live' \ live : a.home \in AllocStream
  PROVE  SharingInv'
<1>1. ASSUME NEW s \in Stream \ AllocStream, NEW b \in Running(s)'
      PROVE  b \in {BlockOf(x) : x \in live} \cup {p.block : p \in pending'}
  <2>1. b \in Running(s) /\ b \in Held
    BY AdvanceRuns DEF SharingInv, ForeignKernelsHeld
  <2>2. ASSUME NEW p \in entries PROVE b # p.block
    <3>0. Overlaps(p.block, p.block)
      BY HeldOverlapsItself DEF Ownership, Held, Parked
    <3>1. CASE p.stream = s
      BY <2>2, <3>0, <3>1
    <3>2. CASE p.stream # s
      BY <2>1, <2>2, <3>0, <3>2 DEF SharingInv, ParkedOnItsStream
    <3> QED
      BY <3>1, <3>2
  <2> QED
    BY <2>1, <2>2 DEF Held, Parked
<1>2. NoUnorderedSharing'
  <2> SUFFICES ASSUME NEW a \in live', NEW s \in Stream, s # a.home,
                      NEW b \in Running(s)'
               PROVE  ~Overlaps(b, BlockOf(a))
    BY DEF NoUnorderedSharing, BlockOf, Overlaps
  <2>1. b \in Running(s)
    BY AdvanceRuns
  <2>2. CASE a \in live
    BY <2>1, <2>2 DEF SharingInv, NoUnorderedSharing
  <2>3. CASE a \notin live
    <3>1. s \notin AllocStream
      BY <2>3 DEF OneStream
    <3>2. b \in Held
      BY <2>1, <3>1 DEF SharingInv, ForeignKernelsHeld
    <3>3. b \in {BlockOf(x) : x \in live} \cup {p.block : p \in pending'}
      BY <1>1, <3>1
    <3>4. ASSUME NEW x \in live, b = BlockOf(x) PROVE ~Overlaps(b, BlockOf(a))
      BY <2>3, <3>4 DEF Ownership, OwnersApart, BlockOf, Overlaps
    <3>5. ASSUME NEW p \in pending', b = p.block PROVE ~Overlaps(b, BlockOf(a))
      <4>1. ~Overlaps(BlockOf(a), p.block)
        BY DEF Ownership, OwnersApart, BlockOf, Overlaps
      <4> QED
        BY <3>5, <4>1, OverlapsIsSymmetric
    <3> QED
      BY <3>3, <3>4, <3>5
  <2> QED
    BY <2>2, <2>3
<1>3. ParkedOnItsStream'
  BY AdvanceRuns DEF SharingInv, ParkedOnItsStream, Overlaps
<1>4. EventsCover'
  BY AdvanceMarks DEF SharingInv, EventsCover
<1>5. ForeignKernelsHeld'
  BY <1>1 DEF ForeignKernelsHeld, Held, Parked, BlockOf
<1> QED
  BY <1>2, <1>3, <1>4, <1>5 DEF SharingInv

(* A block is parked without an event, or with one of its own that was     *)
(* recorded just now; the events of other entries are left alone.          *)
ParkedAlone(block, s) ==
  \E slot :
    /\ pending' = pending \cup {[block |-> block, stream |-> s, slot |-> slot]}
    /\ slot # kNoEventSlot => slot \notin SlotsOf(pending) /\ event'[slot] = Recorded(s)
    /\ \A e \in DOMAIN event : e # slot => event'[e] = event[e]

(* A retired block comes back idle or is parked once.                      *)
LEMMA RetireParks ==
  ASSUME TypeOK, EventSlotsPartitioned, NEW block, NEW s \in Stream,
         NEW now \in BOOLEAN, Retire(block, s, now)
  PROVE  \/ /\ now /\ StreamIdle(s) /\ UNCHANGED pending
            /\ \A e \in DOMAIN event : event'[e] = event[e]
         \/ ~now /\ ParkedAlone(block, s)
<1>1. event \in Seq(Mark) /\ Len(event) \in Nat /\ DOMAIN event = 1 .. Len(event)
  BY LenProperties DEF TypeOK
<1>2. Len(queue[s]) \in Nat
  BY LenProperties DEF TypeOK
<1>3. Recorded(s) \in Mark /\ [stream |-> s, after |-> 0] \in Mark
  BY <1>2 DEF Recorded, Mark
<1>4. ASSUME NEW mark \in Mark, event' = Append(event, mark)
      PROVE  /\ event'[Len(event) + 1] = mark
             /\ \A e \in DOMAIN event : event'[e] = event[e]
  BY <1>1, <1>4, AppendProperties
<1>5. CASE /\ CoarseRule(block, s, now)
           /\ \A e \in DOMAIN event : event'[e] = event[e]
  BY <1>5 DEF CoarseRule, Park, ParkedAlone
<1>6. CASE ~now /\ ParkWithEvent(block, s)
  <2>1. CASE \E slot \in freeSlots : /\ event' = [event EXCEPT ![slot] = Recorded(s)]
                                    /\ Park(block, s, slot)
    <3>1. PICK slot \in freeSlots : /\ event' = [event EXCEPT ![slot] = Recorded(s)]
                                    /\ Park(block, s, slot)
      BY <2>1
    <3>2. slot \in DOMAIN event /\ slot # kNoEventSlot /\ slot \notin SlotsOf(pending)
      BY <1>1 DEF TypeOK, Slots, EventSlotsPartitioned, kNoEventSlot
    <3> QED
      BY <1>6, <3>1, <3>2 DEF Park, ParkedAlone
  <2>2. CASE event' = Append(event, Recorded(s)) /\ Park(block, s, Len(event) + 1)
    <3>1. /\ Len(event) + 1 # kNoEventSlot /\ Len(event) + 1 \notin SlotsOf(pending)
          /\ event'[Len(event) + 1] = Recorded(s)
          /\ \A e \in DOMAIN event : event'[e] = event[e]
      BY <1>1, <1>3, <1>4, <2>2 DEF TypeOK, Slots, kNoEventSlot
    <3> QED
      BY <1>6, <2>2, <3>1 DEF Park, ParkedAlone
  <2> QED
    BY <1>6, <2>1, <2>2 DEF ParkWithEvent
<1>7. CASE policy = "kSameStreamOnly" /\ ~now /\ Park(block, s, kNoEventSlot) /\ UNCHANGED event
  BY <1>7 DEF Park, ParkedAlone
<1>8. CASE EventFails(block, s, now)
  <2>1. \A e \in DOMAIN event : event'[e] = event[e]
    BY <1>3, <1>4, <1>8 DEF EventFails
  <2> QED
    BY <1>5, <1>8, <2>1 DEF EventFails
<1> QED
  BY <1>5, <1>6, <1>7, <1>8 DEF Retire

(* Where the policy relies on events and these do not fail, a block is not *)
(* parked without one.                                                     *)
LEMMA ParkedWithEvent ==
  ASSUME TypeOK, EventFaults = FALSE, policy = "kPerFreeEvent", NEW block, NEW s,
         NEW now \in BOOLEAN, Retire(block, s, now)
  PROVE  \A p \in pending' : p \in pending \/ p.slot # kNoEventSlot
<1>1. ParkWithEvent(block, s)
  BY DEF Retire, EventFails
<1>2. Len(event) + 1 # kNoEventSlot /\ kNoEventSlot \notin freeSlots
  <2>1. Len(event) \in Nat /\ DOMAIN event = 1 .. Len(event)
    BY LenProperties DEF TypeOK
  <2> QED
    BY <2>1 DEF TypeOK, Slots, kNoEventSlot
<1> QED
  BY <1>1, <1>2 DEF ParkWithEvent, Park

(* A launch puts the client's block at the end of its stream's queue.      *)
LEMMA UseEffect ==
  ASSUME TypeOK, NEW a \in live, Use(a)
  PROVE  /\ a.home \in Stream /\ Len(queue[a.home]) \in Nat
         /\ UNCHANGED <<event, reuseVars, poolVars>>
         /\ queue' = [queue EXCEPT ![a.home] = Append(@, BlockOf(a))]
         /\ DOMAIN queue[a.home] = 1 .. Len(queue[a.home])
         /\ DOMAIN queue'[a.home] = 1 .. Len(queue[a.home]) + 1
         /\ queue'[a.home][Len(queue[a.home]) + 1] = BlockOf(a)
         /\ \A i \in DOMAIN queue[a.home] : queue'[a.home][i] = queue[a.home][i]
         /\ \A s \in Stream : s # a.home => queue'[s] = queue[s]
<1> DEFINE b == BlockOf(a)
           q == queue[a.home]
<1>1. a.home \in Stream /\ b \in Block /\ q \in Seq(Block)
  BY DEF TypeOK, Handle, BlockOf
<1>2. /\ queue' = [queue EXCEPT ![a.home] = Append(@, b)]
      /\ UNCHANGED <<event, reuseVars, poolVars>>
  BY DEF Use, Launch
<1>3. queue'[a.home] = Append(q, b) /\ \A s \in Stream : s # a.home => queue'[s] = queue[s]
  BY <1>1, <1>2 DEF TypeOK
<1> HIDE DEF b, q
<1>4. /\ Append(q, b) \in Seq(Block) /\ Len(Append(q, b)) = Len(q) + 1
      /\ \A i \in 1 .. Len(q) : Append(q, b)[i] = q[i]
      /\ Append(q, b)[Len(q) + 1] = b
  BY <1>1, AppendProperties
<1>5. Len(q) \in Nat /\ DOMAIN q = 1 .. Len(q) /\ DOMAIN Append(q, b) = 1 .. Len(q) + 1
  BY <1>1, <1>4, LenProperties
<1> QED
  BY <1>1, <1>2, <1>3, <1>4, <1>5 DEF b, q

(* Every action leaves the events of parked blocks behind the kernels on   *)
(* them, for any number of allocating streams and whatever events fail:    *)
(* nobody can launch a kernel on bytes that are parked.                    *)
LEMMA MarksStep ==
  ASSUME TypeOK, Ownership, EventSlotsPartitioned, MarksCover, [Next]_vars
  PROVE  MarksCover'
<1> USE ConfigAssumption
<1>1. ASSUME Advance, pending' \subseteq pending
      PROVE  MarksCover'
  BY <1>1, AdvanceMarks
<1>2. ASSUME NEW a \in live, Deallocate(a)
      PROVE  MarksCover'
  <2>1. PICK now \in BOOLEAN : Retire(BlockOf(a), a.home, now)
    BY <1>2 DEF Deallocate
  <2>2. a.home \in Stream /\ queue' = queue
    BY <2>1 DEF TypeOK, Handle, Retire
  <2>3. \A p \in pending : p.slot # kNoEventSlot => p.slot \in DOMAIN event
    BY DEF TypeOK, SlotsOf, Slots
  <2>4. CASE UNCHANGED pending /\ \A e \in DOMAIN event : event'[e] = event[e]
    BY <2>2, <2>3, <2>4 DEF MarksCover, Overlaps
  <2>5. CASE ParkedAlone(BlockOf(a), a.home)
    <3>1. PICK slot :
            /\ pending' = pending \cup
                            {[block |-> BlockOf(a), stream |-> a.home, slot |-> slot]}
            /\ slot # kNoEventSlot => /\ slot \notin SlotsOf(pending)
                                      /\ event'[slot] = Recorded(a.home)
            /\ \A e \in DOMAIN event : e # slot => event'[e] = event[e]
      BY <2>5 DEF ParkedAlone
    <3>2. ASSUME NEW p \in pending, p.slot # kNoEventSlot
          PROVE  /\ event'[p.slot].stream = p.stream
                 /\ \A i \in DOMAIN queue'[p.stream] :
                      Overlaps(queue'[p.stream][i], p.block) => i <= event'[p.slot].after
      <4>1. event'[p.slot] = event[p.slot]
        BY <2>3, <3>1, <3>2 DEF SlotsOf
      <4> QED
        BY <2>2, <3>2, <4>1 DEF MarksCover
    <3>3. ASSUME slot # kNoEventSlot
          PROVE  /\ event'[slot].stream = a.home
                 /\ \A i \in DOMAIN queue'[a.home] : i <= event'[slot].after
      <4>1. \A i \in DOMAIN queue[a.home] : i <= Len(queue[a.home])
        BY <2>2, LenProperties DEF TypeOK
      <4> QED
        BY <2>2, <3>1, <3>3, <4>1 DEF Recorded
    <3> DEFINE new == [block |-> BlockOf(a), stream |-> a.home, slot |-> slot]
    <3>4. new.stream = a.home /\ new.slot = slot /\ pending' = pending \cup {new}
      BY <3>1
    <3> HIDE DEF new
    <3> QED
      BY <3>2, <3>3, <3>4 DEF MarksCover, Overlaps
  <2> QED
    BY <2>1, <2>2, <2>4, <2>5, RetireParks
<1>3. ASSUME NEW a \in live, Use(a)
      PROVE  MarksCover'
  <2>1. UNCHANGED <<event, pending>>
    BY <1>3, UseEffect DEF reuseVars
  <2> SUFFICES ASSUME NEW p \in pending, p.slot # kNoEventSlot,
                      NEW i \in DOMAIN queue'[p.stream],
                      Overlaps(queue'[p.stream][i], p.block)
               PROVE  i \in DOMAIN queue[p.stream] /\ queue'[p.stream][i] = queue[p.stream][i]
    BY <2>1 DEF MarksCover, Overlaps
  <2>2. p.stream \in Stream /\ ~Overlaps(BlockOf(a), p.block)
    BY DEF TypeOK, Entry, Ownership, OwnersApart
  <2>3. CASE p.stream # a.home
    BY <1>3, <2>2, <2>3, UseEffect
  <2>4. CASE p.stream = a.home
    <3>1. i # Len(queue[a.home]) + 1
      BY <1>3, <2>2, <2>4, UseEffect
    <3>2. i \in DOMAIN queue[a.home]
      BY <1>3, <2>4, <3>1, UseEffect
    <3> QED
      BY <1>3, <2>4, <3>2, UseEffect
  <2> QED
    BY <2>3, <2>4
<1>4. CASE Advance /\ UNCHANGED <<pending, freeSlots>>
  BY <1>1, <1>4
<1>5. CASE Advance /\ \E entries \in SUBSET pending : ReleaseEntries(entries)
  BY <1>1, <1>5 DEF ReleaseEntries
<1>6. ASSUME NEW bytes \in Nat, NEW s \in AllocStream, Allocate(bytes, s)
      PROVE  Advance /\ pending' \subseteq pending
  <2>1. Reclaimable(s) \in SUBSET pending /\ StillParked(s) \in SUBSET pending
    BY DEF Reclaimable, StillParked
  <2>2. CASE Drain(StillParked(s))
    BY <2>1, <2>2, DrainEffect DEF ReleaseEntries
  <2>3. CASE UNCHANGED deviceVars /\ ReleaseEntries(Reclaimable(s))
    BY <2>1, <2>3, UnchangedAdvances DEF ReleaseEntries
  <2> QED
    BY <1>6, <2>2, <2>3 DEF Allocate, AllocateFromSlab, AllocateFromNewSlab,
       AllocateAfterDrain, AllocateRefused, AllocateBypass, AllocateBypassFails
<1>7. ASSUME NEW a \in live, DeallocateBypass(a)
      PROVE  Advance /\ pending' \subseteq pending
  BY <1>7, SynchronizeAdvances DEF DeallocateBypass, reuseVars
<1>8. ASSUME SettlePending \/ Trim
      PROVE  Advance /\ pending' \subseteq pending
  BY <1>8, DrainEffect, SynchronizeAdvances DEF SettlePending, Trim, ReleaseEntries
<1>9. ASSUME Device
      PROVE  Advance /\ pending' \subseteq pending
  BY <1>9, CompleteAdvances DEF Device, reuseVars
<1>10. CASE UNCHANGED <<deviceVars, pending>>
  BY <1>1, <1>10, UnchangedAdvances
<1> QED
  BY <1>1, <1>2, <1>3, <1>6, <1>7, <1>8, <1>9, <1>10
     DEF Next, AllocateNothing, Reserve, Move, vars, reuseVars

(* Every entry that leaves the list is accounted for.                      *)
LEMMA LeavesWithProof ==
  ASSUME TypeOK, MarksCover, [Next]_vars, NEW p \in pending \ pending'
  PROVE  \/ policy = "kPerFreeEvent" /\ p.slot = kNoEventSlot
         \/ \A b \in Running(p.stream)' : ~Overlaps(b, p.block)
         \/ \E bytes \in Sizes : p.stream \in AllocStream /\ Allocate(bytes, p.stream)
<1> USE ConfigAssumption
<1> SUFFICES ASSUME policy = "kPerFreeEvent" => p.slot # kNoEventSlot
             PROVE  \/ \A b \in Running(p.stream)' : ~Overlaps(b, p.block)
                    \/ \E bytes \in Sizes : /\ p.stream \in AllocStream
                                          /\ Allocate(bytes, p.stream)
  OBVIOUS
<1>1. p.stream \in Stream
  BY DEF TypeOK, Entry
<1>2. ASSUME NEW bytes \in Sizes, NEW s \in AllocStream, Allocate(bytes, s),
             p.stream # s
      PROVE  \A b \in Running(p.stream)' : ~Overlaps(b, p.block)
  <2>1. StillParked(s) \in SUBSET pending
    BY DEF StillParked
  <2>2. ASSUME p \in Reclaimable(s), Advance
        PROVE  \A b \in Running(p.stream)' : ~Overlaps(b, p.block)
    BY <1>1, <1>2, <2>2, ReclaimProof, AdvanceRuns
  <2>3. CASE UNCHANGED deviceVars /\ ReleaseEntries(Reclaimable(s))
    BY <2>2, <2>3, UnchangedAdvances DEF ReleaseEntries
  <2>4. CASE Drain(StillParked(s))
    <3>1. Advance
      BY <2>1, <2>4, DrainEffect
    <3>2. CASE p \in StillParked(s)
      BY <2>1, <2>4, <3>2, DrainProof
    <3> QED
      BY <2>2, <3>1, <3>2 DEF StillParked
  <2> QED
    BY <1>2, <2>3, <2>4 DEF Allocate, AllocateFromSlab, AllocateFromNewSlab,
       AllocateAfterDrain, AllocateRefused, AllocateBypass, AllocateBypassFails
<1>3. ASSUME SettlePending \/ Trim
      PROVE  \A b \in Running(p.stream)' : ~Overlaps(b, p.block)
  <2>1. CASE Drain(pending)
    BY <2>1, DrainProof
  <2>2. CASE DeviceSynchronize
    BY <1>1, <2>2, SynchronizeAdvances
  <2> QED
    BY <1>3, <2>1, <2>2 DEF SettlePending, Trim
<1>4. ASSUME NEW a \in live, Deallocate(a) PROVE FALSE
  <2>1. pending \subseteq pending'
    BY <1>4, RetireEffect DEF Deallocate
  <2> QED
    BY <2>1
<1> QED
  BY <1>2, <1>3, <1>4
     DEF Next, AllocateNothing, DeallocateBypass, Reserve, Use, Move, Device, vars, reuseVars

(* Whatever the number of streams and whichever events fail, the event of  *)
(* a parked block is never behind a kernel on the block, ...               *)
THEOREM MarksAlwaysCover == Spec => []MarksCover
<1>1. Spec => [](TypeOK /\ Ownership /\ EventSlotsPartitioned)
  BY TypeCorrect, OwnershipKept, SlotsStayPartitioned, PTL
<1>2. Init => MarksCover
  BY DEF Init, ReuseInit, MarksCover
<1>3. TypeOK /\ Ownership /\ EventSlotsPartitioned /\ MarksCover /\ [Next]_vars
        => MarksCover'
  BY MarksStep
<1> QED
  BY <1>1, <1>2, <1>3, PTL DEF Spec

(* ... and so no parked block is given to another stream while a kernel of *)
(* its last stream is left on it, unless it was parked without an event    *)
(* under the policy that relies on events.                                 *)
THEOREM ReclaimIsProved == Spec => ReclaimHasProof
<1>1. TypeOK /\ MarksCover /\ [Next]_vars
        => [\A p \in pending \ pending' :
             \/ policy = "kPerFreeEvent" /\ p.slot = kNoEventSlot
             \/ \A b \in Running(p.stream)' : ~Overlaps(b, p.block)
             \/ \E bytes \in Sizes : p.stream \in AllocStream /\ Allocate(bytes, p.stream)
           ]_vars
  BY LeavesWithProof
<1> QED
  BY <1>1, TypeCorrect, MarksAlwaysCover, PTL DEF Spec, ReclaimHasProof

(* The policy never changes, and while events do not fail every block that *)
(* needs an event has one.                                                 *)
LEMMA CoverStep ==
  ASSUME EventFaults = FALSE, TypeOK, Ownership, EventSlotsPartitioned, EventsCover,
         [Next]_vars
  PROVE  EventsCover'
<1>1. MarksCover'
  BY MarksStep DEF EventsCover
<1>2. policy' = policy
  BY DEF Next, Allocate, AllocateFromSlab, AllocateFromNewSlab, AllocateAfterDrain,
     AllocateRefused, AllocateBypass, AllocateBypassFails, AllocateNothing, Drain,
     ReleaseEntries, Deallocate, Retire, DeallocateBypass, Reserve, SettlePending,
     Trim, Use, Move, Device, vars, reuseVars
<1>3. ASSUME NEW p \in pending', policy = "kPerFreeEvent"
      PROVE  p \in pending \/ p.slot # kNoEventSlot
  <2>1. CASE pending' \subseteq pending
    BY <2>1
  <2>2. CASE \E a \in live, now \in BOOLEAN : Retire(BlockOf(a), a.home, now)
    BY <1>3, <2>2, ParkedWithEvent
  <2> QED
    BY <2>1, <2>2, StepsOnTheList DEF ReleaseEntries
<1> QED
  BY <1>1, <1>2, <1>3 DEF EventsCover

(* Every action preserves the invariant, given the types and ownership.    *)
LEMMA SharingStep ==
  ASSUME OneStream, TypeOK, Ownership, EventSlotsPartitioned, SharingInv,
         [Next]_vars
  PROVE  SharingInv'
<1> USE ConfigAssumption
<1>1. TypeOK' /\ Ownership'
  BY TypeStep, OwnershipStep
<1>0. EventsCover'
  BY CoverStep DEF OneStream, SharingInv
<1>2. \A a \in live' : a.home \in Stream
  BY <1>1 DEF TypeOK, Handle
<1>3. ASSUME NEW bytes \in Nat, NEW s \in AllocStream, Allocate(bytes, s)
      PROVE  SharingInv'
  <2>1. /\ live \subseteq live' /\ policy' = policy
        /\ \A a \in live' \ live : a.home \in AllocStream
    BY <1>3 DEF Allocate, AllocateFromSlab, AllocateFromNewSlab, AllocateAfterDrain,
       AllocateRefused, AllocateBypass, AllocateBypassFails, HandOut, Hand,
       Drain, ReleaseEntries
  <2>2. CASE UNCHANGED deviceVars /\ ReleaseEntries(Reclaimable(s))
    <3>1. Advance /\ Reclaimable(s) \in SUBSET pending
      BY <2>2, UnchangedAdvances DEF Reclaimable
    <3>2. ASSUME NEW p \in Reclaimable(s)
          PROVE  \/ p.stream \in AllocStream
                 \/ \A b \in Running(p.stream)' : ~Overlaps(b, p.block)
      <4>1. CASE p.stream = s
        BY <4>1
      <4>2. CASE p.stream # s
        <5>1. (\A b \in Running(p.stream) : ~Overlaps(b, p.block)) /\ p.stream \in Stream
          BY <3>1, <4>2, ReclaimProof DEF SharingInv, EventsCover, TypeOK, Entry
        <5> QED
          BY <3>1, <5>1, AdvanceRuns
      <4> QED
        BY <4>1, <4>2
    <3> HIDE DEF Reclaimable
    <3> QED
      BY <1>1, <1>2, <2>1, <2>2, <3>1, <3>2, GiveBackSharing DEF ReleaseEntries
  <2>3. CASE Drain(StillParked(s))
    <3>1. StillParked(s) \in SUBSET pending /\ Advance /\ pending' = pending \ pending
      BY <2>3, DrainEffect DEF StillParked, ReleaseEntries
    <3>2. ASSUME NEW p \in pending
          PROVE  \/ p.stream \in AllocStream
                 \/ \A b \in Running(p.stream)' : ~Overlaps(b, p.block)
      <4>1. CASE p \in StillParked(s)
        BY <2>3, <3>1, <4>1, DrainProof DEF SharingInv, EventsCover
      <4>2. CASE p \in Reclaimable(s) /\ p.stream # s
        <5>1. (\A b \in Running(p.stream) : ~Overlaps(b, p.block)) /\ p.stream \in Stream
          BY <4>2, ReclaimProof DEF SharingInv, EventsCover, TypeOK, Entry
        <5> QED
          BY <3>1, <5>1, AdvanceRuns
      <4>3. CASE p.stream = s
        BY <4>3
      <4> QED
        BY <4>1, <4>2, <4>3 DEF StillParked
    <3> QED
      BY <1>1, <1>2, <2>1, <3>1, <3>2, GiveBackSharing
  <2> QED
    BY <1>3, <2>2, <2>3 DEF Allocate, AllocateFromSlab, AllocateFromNewSlab,
       AllocateAfterDrain, AllocateRefused, AllocateBypass, AllocateBypassFails
<1>4. ASSUME NEW a \in live, Deallocate(a)
      PROVE  SharingInv'
  <2> DEFINE b == BlockOf(a)
  <2>1. PICK now \in BOOLEAN : Retire(b, a.home, now)
    BY <1>4 DEF Deallocate
  <2>2. live' = live \ {a} /\ a.home \in Stream /\ b \in Held
    BY <1>4 DEF Deallocate, TypeOK, Handle, Held
  <2>3. queue' = queue /\ policy' = policy
    BY <2>1 DEF Retire
  <2>4. \A s \in Stream : Running(s)' = Running(s)
    BY <2>3 DEF Running
  <2>5. NoUnorderedSharing'
    BY <2>2, <2>4 DEF SharingInv, NoUnorderedSharing, BlockOf, Overlaps
  <2>6. CASE StreamIdle(a.home) /\ UNCHANGED pending
    <3>1. ASSUME NEW s \in Stream \ AllocStream PROVE b \notin Running(s)
      <4>1. CASE s = a.home
        BY <2>6, <4>1 DEF StreamIdle, Running
      <4>2. CASE s # a.home
        BY <2>2, <4>2, HeldOverlapsItself DEF SharingInv, NoUnorderedSharing, Ownership
      <4> QED
        BY <4>1, <4>2
    <3>2. Held \subseteq Held' \cup {b}
      BY <2>2, <2>6 DEF Held, Parked, BlockOf
    <3>3. ForeignKernelsHeld'
      BY <2>4, <3>1, <3>2 DEF SharingInv, ForeignKernelsHeld
    <3>4. ParkedOnItsStream'
      BY <2>4, <2>6 DEF SharingInv, ParkedOnItsStream, Overlaps
    <3> QED
      BY <1>0, <2>5, <3>3, <3>4 DEF SharingInv
  <2>7. CASE \E slot : pending' = pending \cup
                          {[block |-> b, stream |-> a.home, slot |-> slot]}
    <3>1. PICK slot : pending' = pending \cup
                        {[block |-> b, stream |-> a.home, slot |-> slot]}
      BY <2>7
    <3> DEFINE new == [block |-> b, stream |-> a.home, slot |-> slot]
    <3>2. pending' = pending \cup {new} /\ new.block = b /\ new.stream = a.home
      BY <3>1
    <3> HIDE DEF new
    <3>3. Held \subseteq Held'
      <4>1. b \in Parked' /\ Parked \subseteq Parked'
        BY <3>2 DEF Parked
      <4> QED
        BY <2>2, <4>1 DEF Held, BlockOf
    <3>4. ForeignKernelsHeld'
      BY <2>4, <3>3 DEF SharingInv, ForeignKernelsHeld
    <3>5. ParkedOnItsStream'
      BY <2>4, <3>2 DEF SharingInv, ParkedOnItsStream, NoUnorderedSharing, Overlaps
    <3> QED
      BY <1>0, <2>5, <3>4, <3>5 DEF SharingInv
  <2> QED
    BY <2>1, <2>6, <2>7, RetireEffect
<1>5. ASSUME NEW a \in live, DeallocateBypass(a)
      PROVE  SharingInv'
  <2>1. Advance /\ \A s \in Stream : Running(s)' = {}
    BY <1>5, SynchronizeAdvances DEF DeallocateBypass
  <2> QED
    BY <1>0, <2>1 DEF SharingInv, NoUnorderedSharing, ParkedOnItsStream, ForeignKernelsHeld
<1>6. ASSUME SettlePending \/ Trim
      PROVE  SharingInv'
  <2>1. /\ pending' = pending \ pending /\ policy' = policy /\ live' = live
    BY <1>6 DEF SettlePending, Trim, Drain, ReleaseEntries
  <2>2. Advance /\ \A p \in pending : \A b \in Running(p.stream)' : ~Overlaps(b, p.block)
    <3>1. CASE Drain(pending)
      BY <3>1, DrainEffect, DrainProof DEF SharingInv, EventsCover
    <3>2. CASE DeviceSynchronize
      BY <3>2, SynchronizeAdvances DEF TypeOK, Entry
    <3> QED
      BY <1>6, <3>1, <3>2 DEF SettlePending, Trim
  <2> QED
    BY <1>1, <1>2, <2>1, <2>2, GiveBackSharing
<1>7. ASSUME Advance, UNCHANGED <<pending, policy, live>>
      PROVE  SharingInv'
  <2>1. /\ pending' = pending \ {} /\ policy' = policy /\ live' = live
        /\ {} \in SUBSET pending
    BY <1>7
  <2>2. live \subseteq live' /\ \A a \in live' \ live : a.home \in AllocStream
    BY <2>1
  <2> QED
    BY <1>1, <1>2, <1>7, <2>1, <2>2, GiveBackSharing
<1>8. ASSUME NEW a \in live, Use(a)
      PROVE  SharingInv'
  <2> DEFINE b == BlockOf(a)
  <2>1. /\ queue' = [queue EXCEPT ![a.home] = Append(@, b)]
        /\ UNCHANGED <<event, pending, policy, live>>
    BY <1>8 DEF Use, Launch, reuseVars, poolVars
  <2>2. a.home \in Stream /\ b \in Held /\ b \in Block
    BY HeldOverlapsItself DEF TypeOK, Handle, Held, Ownership
  <2>3. \A s \in Stream : s # a.home => queue'[s] = queue[s]
    BY <2>1
  <2>4. /\ DOMAIN queue'[a.home] = 1 .. Len(queue[a.home]) + 1
        /\ DOMAIN queue[a.home] = 1 .. Len(queue[a.home])
        /\ Len(queue[a.home]) \in Nat
        /\ queue'[a.home][Len(queue[a.home]) + 1] = b
        /\ \A i \in 1 .. Len(queue[a.home]) : queue'[a.home][i] = queue[a.home][i]
    BY <1>8, UseEffect
  <2>5. \A s \in Stream : Running(s)' \subseteq
                            IF s = a.home THEN Running(s) \cup {b} ELSE Running(s)
    <3> HIDE DEF b
    <3> SUFFICES ASSUME NEW s \in Stream, NEW c \in Running(s)'
                 PROVE  c \in Running(s) \/ (s = a.home /\ c = b)
      OBVIOUS
    <3>1. PICK i \in DOMAIN queue'[s] : c = queue'[s][i]
      BY DEF Running
    <3>2. CASE s # a.home
      BY <2>3, <3>1, <3>2 DEF Running
    <3>3. CASE s = a.home
      <4>1. CASE i = Len(queue[a.home]) + 1
        BY <2>4, <3>1, <3>3, <4>1
      <4>2. CASE i # Len(queue[a.home]) + 1
        <5>1. i \in 1 .. Len(queue[a.home])
          BY <2>4, <3>3, <4>2
        <5>2. i \in DOMAIN queue[s] /\ c = queue[s][i]
          BY <2>4, <3>1, <3>3, <5>1
        <5> QED
          BY <5>2 DEF Running
      <4> QED
        BY <4>1, <4>2
    <3> QED
      BY <3>2, <3>3
  <2>6. NoUnorderedSharing'
    <3> SUFFICES ASSUME NEW x \in live, NEW s \in Stream, s # x.home,
                        NEW c \in Running(s)'
                 PROVE  ~Overlaps(c, BlockOf(x))
      BY <2>1 DEF NoUnorderedSharing, BlockOf, Overlaps
    <3>1. CASE c \in Running(s)
      BY <3>1 DEF SharingInv, NoUnorderedSharing
    <3>2. CASE s = a.home /\ c = b
      BY <3>2 DEF Ownership, OwnersApart
    <3> QED
      BY <2>5, <3>1, <3>2
  <2>7. ParkedOnItsStream'
    <3> SUFFICES ASSUME NEW p \in pending, NEW s \in Stream, s # p.stream,
                        NEW c \in Running(s)'
                 PROVE  ~Overlaps(c, p.block)
      BY <2>1 DEF ParkedOnItsStream, Overlaps
    <3>1. CASE c \in Running(s)
      BY <3>1 DEF SharingInv, ParkedOnItsStream
    <3>2. CASE c = b
      BY <3>2 DEF Ownership, OwnersApart
    <3> QED
      BY <2>5, <3>1, <3>2
  <2>8. ForeignKernelsHeld'
    <3>1. Held' = Held
      BY <2>1 DEF Held, Parked, BlockOf
    <3> QED
      BY <2>2, <2>5, <3>1 DEF SharingInv, ForeignKernelsHeld
  <2> QED
    BY <1>0, <2>6, <2>7, <2>8 DEF SharingInv
<1>9. ASSUME NEW a \in live, NEW s \in Stream, Move(a, s)
      PROVE  SharingInv'
  <2> DEFINE moved == [a EXCEPT !.home = s]
  <2>1. /\ UNCHANGED <<deviceVars, pending, policy>> /\ StreamIdle(a.home)
        /\ live' = (live \ {a}) \cup {moved}
    BY <1>9 DEF Move, reuseVars
  <2>2. BlockOf(moved) = BlockOf(a) /\ moved.home = s
    BY DEF TypeOK, Handle, BlockOf
  <2> HIDE DEF moved
  <2>3. \A t \in Stream : Running(t)' = Running(t)
    BY <2>1 DEF deviceVars, Running
  <2>4. Running(a.home) = {}
    BY <2>1 DEF StreamIdle, Running
  <2>5. NoUnorderedSharing'
    <3> SUFFICES ASSUME NEW x \in live', NEW t \in Stream, t # x.home,
                        NEW c \in Running(t)
                 PROVE  ~Overlaps(c, BlockOf(x))
      BY <2>3 DEF NoUnorderedSharing, BlockOf, Overlaps
    <3>1. CASE x \in live
      BY <3>1 DEF SharingInv, NoUnorderedSharing
    <3>2. CASE x = moved
      BY <2>2, <2>4, <3>2 DEF SharingInv, NoUnorderedSharing
    <3> QED
      BY <2>1, <3>1, <3>2
  <2>6. ForeignKernelsHeld'
    <3>1. Held' = Held
      BY <2>1, <2>2 DEF Held, Parked, BlockOf
    <3> QED
      BY <2>3, <3>1 DEF SharingInv, ForeignKernelsHeld
  <2>7. ParkedOnItsStream'
    BY <2>1, <2>3 DEF SharingInv, ParkedOnItsStream, Overlaps
  <2> QED
    BY <1>0, <2>5, <2>6, <2>7 DEF SharingInv
<1>10. CASE UNCHANGED <<deviceVars, pending, policy, live>>
  BY <1>7, <1>10, UnchangedAdvances
<1>11. ASSUME Device
      PROVE  SharingInv'
  BY <1>7, <1>11, CompleteAdvances DEF Device, reuseVars, poolVars
<1> QED
  BY <1>3, <1>4, <1>5, <1>6, <1>8, <1>9, <1>10, <1>11
     DEF Next, AllocateNothing, Reserve, vars, reuseVars, poolVars

(* For a client that allocates for one stream, and while events do not     *)
(* fail: each stream works on what it holds, on what it parked last or, if *)
(* it is the allocating one, on free memory, and parked blocks have events *)
(* that cover what still runs on them.                                     *)
THEOREM SharingIsKept ==
  ASSUME OneStream
  PROVE  Spec => []SharingInv
<1>1. Spec => [](TypeOK /\ Ownership /\ EventSlotsPartitioned)
  BY TypeCorrect, OwnershipKept, SlotsStayPartitioned, PTL
<1>2. Init => SharingInv
  BY DEF Init, DeviceInit, ReuseInit, SharingInv, NoUnorderedSharing,
     ParkedOnItsStream, ForeignKernelsHeld, EventsCover, MarksCover, Running
<1>3. TypeOK /\ Ownership /\ EventSlotsPartitioned /\ SharingInv /\ [Next]_vars
        => SharingInv'
  BY SharingStep
<1> QED
  BY <1>1, <1>2, <1>3, PTL DEF Spec

(* Such a client is safe under each of the three policies, whatever        *)
(* streams its kernels run on: no kernel of an earlier owner overlaps the  *)
(* present owner's work.                                                   *)
THEOREM OneStreamIsSafe ==
  ASSUME OneStream
  PROVE  Spec => []NoUnorderedSharing
<1>1. SharingInv => NoUnorderedSharing
  BY DEF SharingInv
<1> QED
  BY <1>1, SharingIsKept, PTL

-----------------------------------------------------------------------------
(* What is counted.  The code compares the bytes of the used nodes with    *)
(* those in use and parked; that the two agree follows from three things   *)
(* every call keeps: the counters are sums over the handles, a handle      *)
(* carries the size of its node, and handles and records of bypassed       *)
(* blocks pair up.                                                         *)

HandleFits(a) ==
  /\ a.requested <= a.bytes
  /\ a.slab # kBypassSlabId => a.bytes = InSlab(a)

BypassPaired ==
  /\ \A x, y \in bypassed : x.ptr = y.ptr => x = y
  /\ \A a \in live : a.slab = kBypassSlabId =>
       \E x \in bypassed : x.ptr = a.node /\ x.bytes = a.bytes
  /\ \A x \in bypassed : \E a \in live : a.slab = kBypassSlabId /\ a.node = x.ptr

Books ==
  /\ stats \in [reserved : Int, in_use : Int, requested : Int]
  /\ stats.reserved = ReservedInSlabs + BytesIn(bypassed)
  /\ stats.in_use = BytesIn(live)
  /\ stats.requested = RequestedOf(live)

BooksInv ==
  /\ IsFiniteSet(bypassed) /\ \A a \in live : HandleFits(a)
  /\ Books /\ BypassPaired /\ CapHonoured

(* There are only so many blocks, hence so many handles and entries.       *)
LEMMA SlabsAreFinite == IsFiniteSet(SlabId)
<1>1. 1 \in Int /\ MaxSlabs \in Int
  BY ConfigAssumption
<1>2. IsFiniteSet(1 .. MaxSlabs)
  BY <1>1, FS_Interval
<1> QED
  BY <1>2 DEF SlabId

LEMMA BlocksAreFinite == IsFiniteSet(Block)
<1>1. IsFiniteSet(Node)
  <2>1. node_count(max_level(MaxArenaLog2, MinLog2)) - 1 \in Int
    <3>1. (MaxArenaLog2 - MinLog2) + 1 \in Exponent
      BY GeometryAssumption, WordBitsAssumption DEF Exponent
    <3> QED
      BY <3>1, PowerPositive DEF node_count, max_level
  <2>2. 0 \in Int
    OBVIOUS
  <2> QED
    BY <2>1, <2>2, FS_Interval DEF Node, NodesOf
<1>2. IsFiniteSet(1 .. MaxBypass)
  <2>1. 1 \in Int /\ MaxBypass \in Int
    BY ConfigAssumption
  <2> QED
    BY <2>1, FS_Interval
<1>3. IsFiniteSet(SlabId \X Node) /\ IsFiniteSet({kBypassSlabId} \X (1 .. MaxBypass))
  BY <1>1, <1>2, SlabsAreFinite, FS_Product, FS_Singleton
<1>4. ASSUME NEW S, NEW T, IsFiniteSet(S \X T)
      PROVE  IsFiniteSet([slab : S, node : T])
  <2> DEFINE f == [x \in S \X T |-> [slab |-> x[1], node |-> x[2]]]
             named == [slab : S, node : T]
  <2>1. ASSUME NEW b \in named PROVE \E x \in S \X T : f[x] = b
    <3>1. <<b.slab, b.node>> \in S \X T /\ f[<<b.slab, b.node>>] = b
      OBVIOUS
    <3> QED
      BY <3>1
  <2>2. f \in [S \X T -> named]
    OBVIOUS
  <2>3. f \in Surjection(S \X T, named)
    BY <2>1, <2>2 DEF Surjection
  <2> HIDE DEF f, named
  <2>4. IsFiniteSet(named)
    BY <1>4, <2>3, FS_Surjection
  <2> QED
    BY <2>4 DEF named
<1> QED
  BY <1>3, <1>4, FS_Union DEF Block, PoolBlock, BypassBlock

LEMMA OwnersAreFinite ==
  ASSUME TypeOK, Ownership
  PROVE  IsFiniteSet(live) /\ IsFiniteSet(pending)
<1>1. \A b \in Held : Overlaps(b, b) /\ b \in Block
  BY HeldOverlapsItself DEF Ownership
<1>2. IsFiniteSet(live)
  <2> DEFINE f == [a \in live |-> BlockOf(a)]
  <2>1. f \in [live -> Block] /\ \A a, h \in live : f[a] = f[h] => a = h
    BY <1>1 DEF Held, Ownership, OwnersApart
  <2>2. f \in Injection(live, Block)
    BY <2>1 DEF Injection, IsInjective
  <2> HIDE DEF f
  <2> QED
    BY <2>2, BlocksAreFinite, FS_Injection
<1>3. IsFiniteSet(pending)
  <2> DEFINE f == [p \in pending |-> p.block]
  <2>1. f \in [pending -> Block] /\ \A p, q \in pending : f[p] = f[q] => p = q
    BY <1>1 DEF Held, Parked, Ownership, OwnersApart
  <2>2. f \in Injection(pending, Block)
    BY <2>1 DEF Injection, IsInjective
  <2> HIDE DEF f
  <2> QED
    BY <2>2, BlocksAreFinite, FS_Injection
<1> QED
  BY <1>2, <1>3

(* A handle on a block of a slab keeps the slab, and its node stays used   *)
(* whatever is given back.                                                 *)
LEMMA LiveInSlab ==
  ASSUME TypeOK, Ownership, NEW a \in live, a.slab # kBypassSlabId
  PROVE  /\ a.slab \in SlabId /\ a.node \in Node
         /\ BlockOf(a) \in PoolBlock /\ BlockOf(a) \in UsedBlocks
         /\ a.node \in used[a.slab] /\ a.node \in Without(pending)[a.slab]
         /\ Live(a.slab) /\ arena[a.slab] \in Geometry
         /\ a.node \in NodesOf(arena[a.slab])
<1>1. /\ a.slab \in SlabId /\ a.node \in Node /\ BlockOf(a) \in PoolBlock
      /\ BlockOf(a) = [slab |-> a.slab, node |-> a.node]
  BY DEF TypeOK, Handle, Block, PoolBlock, BypassBlock, BlockOf
<1>2. BlockOf(a) \in Held
  BY DEF Held
<1>3. a.node \in used[a.slab]
  BY <1>1, <1>2 DEF Ownership, UsedIsHeld
<1>4. a.node \in Without(pending)[a.slab]
  BY <1>1, GiveBackHeld
<1>5. /\ Live(a.slab) /\ a.node \in NodesOf(arena[a.slab])
      /\ arena[a.slab] \in Geometry
  BY <1>1, <1>3 DEF Ownership, UsedIsHeld, TypeOK, Live, Geometry
<1> QED
  BY <1>1, <1>3, <1>4, <1>5 DEF UsedBlocks, BlockOf

(* The block a slab offers is large enough for the request.                *)
LEMMA CandidateServes ==
  ASSUME NEW k \in Geometry, NEW out \in SUBSET Node, NEW bytes \in Nat,
         bytes <= LargeAlloc,
         NEW n \in Candidates(k, out, level_for_size(bytes, k, MinLog2))
  PROVE  n \in NodesOf(k) /\ bytes <= BlockBytes(k, n)
<1> DEFINE lvl == level_for_size(bytes, k, MinLog2)
<1>1. n \in NodesOf(k) /\ level_of(n) = lvl
  BY DEF Candidates, Pieces, AtLevel
<1>2. level_of(n) \in 0 .. k - MinLog2
  BY <1>1, NodesOfSlab, LevelOfNode DEF NodesOf
<1>3. bytes <= 2^WordBits
  <2>1. 2^WordBits \in Nat
    BY PowerPositive, WordBitsAssumption DEF Exponent
  <2> QED
    BY <2>1, ConfigAssumption
<1>4. bytes <= block_bytes_at_level(k, lvl)
  BY <1>1, <1>2, <1>3, NodesOfSlab, LevelServes
<1> QED
  BY <1>1, <1>4 DEF BlockBytes

LEMMA BooksInNumbers ==
  ASSUME TypeOK, Ownership, BooksInv
  PROVE  /\ SlabSizes \in [SlabId -> Nat] /\ ReservedInSlabs \in Nat
         /\ BytesIn(bypassed) \in Nat /\ BytesIn(live) \in Nat
         /\ RequestedOf(live) \in Nat
         /\ \A a \in live : a.bytes \in Nat /\ a.requested \in Nat
         /\ \A x \in bypassed : x.bytes \in Nat
<1>1. ASSUME NEW id \in SlabId PROVE SlabBytes(id) \in Nat
  <2>1. CASE Live(id)
    <3>1. arena[id] \in Exponent
      BY <2>1, GeometryAssumption, WordBitsAssumption DEF TypeOK, Live, Exponent
    <3> QED
      BY <2>1, <3>1, PowerPositive DEF SlabBytes
  <2> QED
    BY <2>1 DEF SlabBytes
<1>2. SlabSizes \in [SlabId -> Nat]
  BY <1>1 DEF SlabSizes
<1>3. ReservedInSlabs \in Nat
  BY <1>2, SlabsAreFinite, TotalIsNat DEF ReservedInSlabs
<1>4. \A a \in live : a.bytes \in Nat /\ a.requested \in Nat
  BY DEF TypeOK, Handle
<1>5. \A x \in bypassed : x.bytes \in Nat
  BY DEF TypeOK
<1> QED
  BY <1>2, <1>3, <1>4, <1>5, OwnersAreFinite, BytesOfSome, RequestedOfSome DEF BooksInv

(* A new slab adds its size, within the cap.                               *)
LEMMA SlabAdded ==
  ASSUME TypeOK, Ownership, BooksInv, NEW bytes \in Nat, NEW want,
         NEW id \in FirstDead, NEW k \in AddSlabOk(want, bytes),
         arena' = [arena EXCEPT ![id] = k]
  PROVE  /\ k \in Geometry /\ 2^k \in Nat
         /\ ReservedInSlabs' = ReservedInSlabs + 2^k /\ CapHonoured'
<1>1. k \in Geometry /\ ~Refused(k)
  BY SlabTriedType DEF AddSlabOk, SlabTried
<1>2. k \in Exponent /\ k # Dead
  BY <1>1, GeometryAssumption, WordBitsAssumption DEF Geometry, Exponent, Dead
<1>3. 2^k \in Nat
  BY <1>2, PowerPositive
<1>4. id \in SlabId /\ SlabSizes[id] = 0
  BY DEF FirstDead, SlabSizes, SlabBytes
<1>5. SlabSizes' = [SlabSizes EXCEPT ![id] = 2^k]
  BY <1>2, <1>4 DEF TypeOK, SlabSizes, SlabBytes, Live
<1>6. SlabSizes \in [SlabId -> Nat] /\ ReservedInSlabs \in Nat
  BY BooksInNumbers
<1>7. SumFunction([SlabSizes EXCEPT ![id] = 2^k]) = (SumFunction(SlabSizes) - SlabSizes[id]) + 2^k
  BY <1>3, <1>4, <1>6, SlabsAreFinite, TotalUpdated
<1>8. ReservedInSlabs' = ReservedInSlabs + 2^k
  BY <1>3, <1>4, <1>5, <1>6, <1>7 DEF ReservedInSlabs
<1>9. CapHonoured'
  BY <1>1, <1>3, <1>6, <1>8, ConfigAssumption DEF CapHonoured, Refused
<1> QED
  BY <1>1, <1>3, <1>8, <1>9

(* Handles keep fitting their nodes while their slabs stay as they are.    *)
LEMMA FitsStill ==
  ASSUME TypeOK, Ownership, BooksInv,
         \A id \in SlabId : Live(id) /\ Without(pending)[id] # {} => arena'[id] = arena[id]
  PROVE  \A a \in live : HandleFits(a)'
<1> SUFFICES ASSUME NEW a \in live PROVE HandleFits(a)'
  OBVIOUS
<1>1. a.slab # kBypassSlabId => arena'[a.slab] = arena[a.slab]
  BY LiveInSlab
<1>2. a.slab # kBypassSlabId => BlockBytes(arena'[a.slab], a.node) = BlockBytes(arena[a.slab], a.node)
  BY <1>1
<1> QED
  BY <1>2 DEF BooksInv, HandleFits, InSlab

(* A handle more is counted with its block and its request.                *)
LEMMA HandCounted ==
  ASSUME TypeOK, Ownership, BooksInv, NEW a, a \notin live, live' = live \cup {a},
         a.bytes \in Nat, a.requested \in Nat, NEW grown \in Int,
         Counted(a.bytes, a.requested, grown),
         BytesIn(bypassed') \in Int,
         ReservedInSlabs' + BytesIn(bypassed') = ReservedInSlabs + BytesIn(bypassed) + grown
  PROVE  Books'
<1>1. /\ BytesIn(live') = BytesIn(live) + a.bytes
      /\ RequestedOf(live') = RequestedOf(live) + a.requested
  BY BooksInNumbers, OwnersAreFinite, BytesOfSome, RequestedOfSome
<1>2. /\ stats.reserved \in Int /\ stats.in_use \in Int /\ stats.requested \in Int
      /\ stats.reserved = ReservedInSlabs + BytesIn(bypassed)
      /\ stats.in_use = BytesIn(live) /\ stats.requested = RequestedOf(live)
  BY DEF BooksInv, Books
<1>3. stats' = [reserved |-> stats.reserved + grown, in_use |-> stats.in_use + a.bytes,
                requested |-> stats.requested + a.requested]
  BY DEF Counted
<1>4. /\ stats' \in [reserved : Int, in_use : Int, requested : Int]
      /\ stats'.reserved = ReservedInSlabs + BytesIn(bypassed) + grown
      /\ stats'.in_use = BytesIn(live') /\ stats'.requested = RequestedOf(live')
  BY <1>1, <1>2, <1>3, BooksInNumbers
<1> QED
  BY <1>4 DEF Books

(* A block of a slab is handed out, perhaps of a new one.                  *)
LEMMA PoolBooks ==
  ASSUME TypeOK, Ownership, BooksInv, NEW entries \in SUBSET pending,
         NEW id \in SlabId, NEW k \in Geometry, NEW bytes \in Nat, NEW s, NEW node,
         node \in Candidates(k, Without(entries)[id], level_for_size(bytes, k, MinLog2)),
         bytes <= LargeAlloc,
         HandOut(Without(entries), id, k, node, bytes, s), NEW grown \in Nat,
         Counted(BlockBytes(k, node), bytes, grown), bypassed' = bypassed,
         \/ UNCHANGED arena /\ arena[id] = k
         \/ ~Live(id) /\ arena' = [arena EXCEPT ![id] = k],
         ReservedInSlabs' = ReservedInSlabs + grown, CapHonoured'
  PROVE  BooksInv'
<1> DEFINE a == [slab |-> id, node |-> node, requested |-> bytes,
                 bytes |-> BlockBytes(k, node), home |-> s]
<1>1. /\ live' = live \cup {a} /\ BlockOf(a) = [slab |-> id, node |-> node]
      /\ a.slab = id /\ a.node = node
      /\ a.bytes = BlockBytes(k, node) /\ a.requested = bytes
  BY DEF HandOut, Hand, BlockOf
<1> HIDE DEF a
<1>2. Without(entries)[id] \in SUBSET Node
  BY WithoutType
<1>3. /\ node \in NodesOf(k) /\ node \in Node /\ bytes <= BlockBytes(k, node)
      /\ BlockBytes(k, node) \in Nat
      /\ \A u \in Without(entries)[id] : <<u, node>> \notin Overlap
  BY <1>2, CandidateServes, CandidateIsVacant, BlocksOfSlab
<1>4. a \notin live
  <2> SUFFICES ASSUME a \in live PROVE FALSE
    OBVIOUS
  <2>1. node \in Without(entries)[id]
    BY <1>1, <1>3, GiveBackHeld
  <2> QED
    BY <1>3, <2>1, OverlapIsReflexive
<1>5. Books'
  <2>1. BytesIn(bypassed') = BytesIn(bypassed) /\ BytesIn(bypassed') \in Int
    BY BooksInNumbers
  <2>2. ReservedInSlabs' + BytesIn(bypassed') = ReservedInSlabs + BytesIn(bypassed) + grown
    BY <2>1, BooksInNumbers
  <2> QED
    BY <1>1, <1>3, <1>4, <2>1, <2>2, HandCounted
<1>6. \A h \in live' : HandleFits(h)'
  <2>1. \A h \in live : HandleFits(h)'
    BY FitsStill DEF TypeOK
  <2>2. arena'[id] = k
    BY DEF TypeOK
  <2>3. HandleFits(a)'
    BY <1>1, <1>3, <2>2 DEF HandleFits, InSlab
  <2> QED
    BY <1>1, <2>1, <2>3
<1>7. BypassPaired'
  BY <1>1 DEF BooksInv, BypassPaired, SlabId, kBypassSlabId
<1> QED
  BY <1>5, <1>6, <1>7 DEF BooksInv

LEMMA AllocateBooks ==
  ASSUME TypeOK, Ownership, BooksInv, NEW bytes \in Sizes \ {0}, NEW s \in AllocStream,
         \/ AllocateFromSlab(bytes, s) \/ AllocateFromNewSlab(bytes, s)
         \/ AllocateAfterDrain(bytes, s)
  PROVE  BooksInv'
<1>1. /\ bytes \in Nat /\ CapHonoured /\ ReservedInSlabs \in Nat /\ bytes <= LargeAlloc
      /\ bypassed' = bypassed
  <2>1. bytes <= LargeAlloc /\ bypassed' = bypassed
    BY DEF AllocateFromSlab, AllocateFromNewSlab, AllocateAfterDrain, CannotGrow
  <2> QED
    BY <2>1, BooksInNumbers, ConfigAssumption DEF BooksInv
<1>2. ASSUME NEW entries \in SUBSET pending, NEW id \in FirstFit(Without(entries), bytes),
             NEW node \in FittingBlocks(Without(entries), id, bytes),
             HandOut(Without(entries), id, arena[id], node, bytes, s),
             Counted(BlockBytes(arena[id], node), bytes, 0), UNCHANGED arena
      PROVE  BooksInv'
  <2>1. id \in SlabId /\ arena[id] \in Geometry
    BY WithoutType, FirstFitType
  <2>2. node \in Candidates(arena[id], Without(entries)[id],
                            level_for_size(bytes, arena[id], MinLog2))
    BY DEF FittingBlocks, Level
  <2>3. ReservedInSlabs' = ReservedInSlabs + 0 /\ CapHonoured'
    BY <1>1, <1>2 DEF ReservedInSlabs, SlabSizes, SlabBytes, Live, CapHonoured
  <2> QED
    BY <1>1, <1>2, <2>1, <2>2, <2>3, PoolBooks
<1>3. CASE AllocateFromSlab(bytes, s)
  BY <1>2, <1>3 DEF AllocateFromSlab, Reclaimable
<1>4. CASE AllocateAfterDrain(bytes, s)
  BY <1>2, <1>4 DEF AllocateAfterDrain
<1>5. CASE AllocateFromNewSlab(bytes, s)
  <2> DEFINE back == Reclaimable(s)
  <2>1. PICK id \in FirstDead, k \in AddSlabOk(Grown(bytes), bytes) :
        \E node \in Candidates(k, {}, level_for_size(bytes, k, MinLog2)) :
          /\ arena' = [arena EXCEPT ![id] = k]
          /\ HandOut(Without(back), id, k, node, bytes, s)
          /\ Counted(BlockBytes(k, node), bytes, 2^k)
    BY <1>5 DEF AllocateFromNewSlab
  <2>2. PICK node \in Candidates(k, {}, level_for_size(bytes, k, MinLog2)) :
          /\ HandOut(Without(back), id, k, node, bytes, s)
          /\ Counted(BlockBytes(k, node), bytes, 2^k)
    BY <2>1
  <2>3. back \in SUBSET pending /\ arena' = [arena EXCEPT ![id] = k]
    BY <2>1 DEF Reclaimable
  <2> HIDE DEF back
  <2>4. /\ k \in Geometry /\ 2^k \in Nat
        /\ ReservedInSlabs' = ReservedInSlabs + 2^k /\ CapHonoured'
    BY <1>1, <2>3, SlabAdded
  <2>5. id \in SlabId /\ ~Live(id)
    BY DEF FirstDead
  <2>6. Without(back)[id] = {}
    BY <2>5 DEF Ownership, UsedIsHeld, Without
  <2> QED
    BY <1>1, <2>2, <2>3, <2>4, <2>5, <2>6, PoolBooks
<1> QED
  BY <1>3, <1>4, <1>5

LEMMA BypassBooks ==
  ASSUME TypeOK, Ownership, BooksInv, NEW bytes \in Sizes, NEW s \in AllocStream,
         AllocateBypass(bytes, s)
  PROVE  BooksInv'
<1>1. PICK ptr \in BypassPtr :
        /\ bypassed' = bypassed \cup {[ptr |-> ptr, bytes |-> bytes]}
        /\ Hand(kBypassSlabId, ptr, bytes, bytes, s)
  BY DEF AllocateBypass
<1>2. Counted(bytes, bytes, bytes) /\ UNCHANGED arena
  BY DEF AllocateBypass
<1> DEFINE a == [slab |-> kBypassSlabId, node |-> ptr, requested |-> bytes,
                 bytes |-> bytes, home |-> s]
           x == [ptr |-> ptr, bytes |-> bytes]
<1>3. ptr \in Nat /\ bytes \in Nat /\ \A y \in bypassed : y.ptr # ptr
  BY ConfigAssumption DEF BypassPtr
<1>4. /\ live' = live \cup {a} /\ bypassed' = bypassed \cup {x}
      /\ a.slab = kBypassSlabId /\ a.node = ptr /\ a.bytes = bytes /\ a.requested = bytes
      /\ x.ptr = ptr /\ x.bytes = bytes
  BY <1>1 DEF Hand
<1> HIDE DEF a, x
<1>5. x \notin bypassed
  BY <1>3, <1>4
<1>6. a \notin live
  BY <1>3, <1>4 DEF BooksInv, BypassPaired
<1>7. ReservedInSlabs' = ReservedInSlabs /\ CapHonoured'
  BY <1>2 DEF ReservedInSlabs, SlabSizes, SlabBytes, Live, BooksInv, CapHonoured
<1>8. /\ BytesIn(bypassed') = BytesIn(bypassed) + bytes
      /\ BytesIn(bypassed) \in Nat
  BY <1>3, <1>4, <1>5, BytesOfSome, BooksInNumbers DEF BooksInv
<1>9. IsFiniteSet(bypassed')
  BY <1>4, FS_AddElement DEF BooksInv
<1>10. Books'
  <2>1. /\ BytesIn(bypassed') \in Int /\ bytes \in Int
        /\ ReservedInSlabs' + BytesIn(bypassed') = ReservedInSlabs + BytesIn(bypassed) + bytes
    BY <1>3, <1>7, <1>8, BooksInNumbers
  <2> QED
    BY <1>2, <1>3, <1>4, <1>6, <2>1, HandCounted
<1>11. \A h \in live' : HandleFits(h)'
  <2>1. \A h \in live : HandleFits(h)'
    BY <1>2, FitsStill
  <2>2. HandleFits(a)'
    BY <1>3, <1>4 DEF HandleFits
  <2> QED
    BY <1>4, <2>1, <2>2
<1>12. BypassPaired'
  <2>1. \A y, z \in bypassed' : y.ptr = z.ptr => y = z
    BY <1>3, <1>4 DEF BooksInv, BypassPaired
  <2>2. \A h \in live' : h.slab = kBypassSlabId =>
          \E y \in bypassed' : y.ptr = h.node /\ y.bytes = h.bytes
    BY <1>4 DEF BooksInv, BypassPaired
  <2>3. \A y \in bypassed' : \E h \in live' : h.slab = kBypassSlabId /\ h.node = y.ptr
    BY <1>4 DEF BooksInv, BypassPaired
  <2> QED
    BY <2>1, <2>2, <2>3 DEF BypassPaired
<1> QED
  BY <1>7, <1>9, <1>10, <1>11, <1>12 DEF BooksInv

(* deallocate takes off what the handle says.                              *)
LEMMA LetGoCounted ==
  ASSUME TypeOK, Ownership, BooksInv, NEW a \in live, NEW returned \in Int,
         live' = live \ {a}, Uncounted(a, returned),
         BytesIn(bypassed') \in Int,
         ReservedInSlabs' + BytesIn(bypassed') = (ReservedInSlabs + BytesIn(bypassed)) - returned
  PROVE  Books'
<1>1. /\ BytesIn(live') = BytesIn(live) - a.bytes
      /\ RequestedOf(live') = RequestedOf(live) - a.requested
  BY BooksInNumbers, OwnersAreFinite, BytesOfSome, RequestedOfSome
<1>2. /\ stats.reserved \in Int /\ stats.in_use \in Int /\ stats.requested \in Int
      /\ stats.reserved = ReservedInSlabs + BytesIn(bypassed)
      /\ stats.in_use = BytesIn(live) /\ stats.requested = RequestedOf(live)
  BY DEF BooksInv, Books
<1>3. stats' = [reserved |-> stats.reserved - returned, in_use |-> stats.in_use - a.bytes,
                requested |-> stats.requested - a.requested]
  BY DEF Uncounted
<1>4. a.bytes \in Nat /\ a.requested \in Nat
  BY BooksInNumbers
<1>5. /\ stats' \in [reserved : Int, in_use : Int, requested : Int]
      /\ stats'.reserved = (ReservedInSlabs + BytesIn(bypassed)) - returned
      /\ stats'.in_use = BytesIn(live') /\ stats'.requested = RequestedOf(live')
  BY <1>1, <1>2, <1>3, <1>4
<1> QED
  BY <1>5 DEF Books

LEMMA SlabsUnchanged ==
  ASSUME TypeOK, Ownership, BooksInv, UNCHANGED arena
  PROVE  /\ ReservedInSlabs' = ReservedInSlabs /\ CapHonoured'
         /\ \A a \in live : HandleFits(a)'
<1>1. \A a \in live : HandleFits(a)'
  BY FitsStill
<1> QED
  BY <1>1 DEF ReservedInSlabs, SlabSizes, SlabBytes, Live, BooksInv, CapHonoured

LEMMA BooksUnchanged ==
  ASSUME TypeOK, Ownership, BooksInv, UNCHANGED <<arena, bypassed, stats, live>>
  PROVE  BooksInv'
<1>1. ReservedInSlabs' = ReservedInSlabs
  BY SlabsUnchanged
<1>2. Books'
  BY <1>1 DEF BooksInv, Books
<1>3. BypassPaired'
  BY DEF BooksInv, BypassPaired
<1> QED
  BY <1>2, <1>3, SlabsUnchanged DEF BooksInv

LEMMA DeallocateBooks ==
  ASSUME TypeOK, Ownership, BooksInv, NEW a \in live, Deallocate(a)
  PROVE  BooksInv'
<1>1. /\ live' = live \ {a} /\ Uncounted(a, 0) /\ UNCHANGED <<arena, bypassed>>
      /\ a.slab # kBypassSlabId
  BY DEF Deallocate
<1>2. BytesIn(bypassed') = BytesIn(bypassed) /\ BytesIn(bypassed) \in Int
      /\ ReservedInSlabs' = ReservedInSlabs /\ ReservedInSlabs \in Int
  BY <1>1, SlabsUnchanged, BooksInNumbers
<1>3. Books'
  <2>1. ReservedInSlabs' + BytesIn(bypassed') = (ReservedInSlabs + BytesIn(bypassed)) - 0
    BY <1>2
  <2> QED
    BY <1>1, <1>2, <2>1, LetGoCounted
<1>4. BypassPaired'
  BY <1>1 DEF BooksInv, BypassPaired
<1> QED
  BY <1>1, <1>3, <1>4, SlabsUnchanged DEF BooksInv

LEMMA DeallocateBypassBooks ==
  ASSUME TypeOK, Ownership, BooksInv, NEW a \in live, DeallocateBypass(a)
  PROVE  BooksInv'
<1>1. /\ a.slab = kBypassSlabId /\ bypassed' = {b \in bypassed : b.ptr # a.node}
      /\ live' = live \ {a} /\ Uncounted(a, a.bytes) /\ UNCHANGED arena
  BY DEF DeallocateBypass
<1>2. PICK x \in bypassed : x.ptr = a.node /\ x.bytes = a.bytes
  BY <1>1 DEF BooksInv, BypassPaired
<1>3. bypassed' = bypassed \ {x}
  BY <1>1, <1>2 DEF BooksInv, BypassPaired
<1>4. a.bytes \in Nat /\ a.bytes \in Int /\ BytesIn(bypassed) \in Nat
  BY BooksInNumbers
<1>5. BytesIn(bypassed') = BytesIn(bypassed) - a.bytes
  BY <1>2, <1>3, BytesOfSome, BooksInNumbers DEF BooksInv
<1>6. IsFiniteSet(bypassed')
  BY <1>3, FS_Subset, bypassed \ {x} \in SUBSET bypassed DEF BooksInv
<1>7. Books'
  <2>1. /\ BytesIn(bypassed') \in Int
        /\ ReservedInSlabs' + BytesIn(bypassed') = (ReservedInSlabs + BytesIn(bypassed)) - a.bytes
    BY <1>1, <1>4, <1>5, SlabsUnchanged, BooksInNumbers
  <2> QED
    BY <1>1, <1>4, <2>1, LetGoCounted
<1>8. BypassPaired'
  <2>1. ASSUME NEW h \in live', h.slab = kBypassSlabId
        PROVE  h.node # a.node
    <3>1. ~Overlaps(BlockOf(h), BlockOf(a))
      BY <1>1, <2>1 DEF Ownership, OwnersApart
    <3> QED
      BY <1>1, <2>1, <3>1 DEF Overlaps, BlockOf
  <2>2. ASSUME NEW h \in live', h.slab = kBypassSlabId
        PROVE  \E y \in bypassed' : y.ptr = h.node /\ y.bytes = h.bytes
    <3>1. PICK y \in bypassed : y.ptr = h.node /\ y.bytes = h.bytes
      BY <1>1, <2>2 DEF BooksInv, BypassPaired
    <3> QED
      BY <1>1, <2>1, <2>2, <3>1
  <2>3. \A y \in bypassed' : \E h \in live' : h.slab = kBypassSlabId /\ h.node = y.ptr
    BY <1>1 DEF BooksInv, BypassPaired
  <2> QED
    BY <1>3, <2>2, <2>3 DEF BooksInv, BypassPaired
<1> QED
  BY <1>1, <1>6, <1>7, <1>8, SlabsUnchanged DEF BooksInv

LEMMA ReserveBooks ==
  ASSUME TypeOK, Ownership, BooksInv, NEW bytes \in Sizes, Reserve(bytes)
  PROVE  BooksInv'
<1>1. UNCHANGED <<bypassed, live>> /\ bytes \in Nat
  BY ConfigAssumption DEF Reserve
<1>2. CASE UNCHANGED <<arena, stats>>
  BY <1>1, <1>2, BooksUnchanged
<1>3. ASSUME NEW id \in FirstDead, NEW k \in AddSlabOk(bytes, bytes),
             arena' = [arena EXCEPT ![id] = k], Counted(0, 0, 2^k)
      PROVE  BooksInv'
  <2>1. 2^k \in Nat /\ ReservedInSlabs' = ReservedInSlabs + 2^k /\ CapHonoured'
    BY <1>1, <1>3, SlabAdded
  <2>2. /\ stats.reserved \in Int /\ stats.in_use \in Int /\ stats.requested \in Int
        /\ stats.reserved = ReservedInSlabs + BytesIn(bypassed)
        /\ stats.in_use = BytesIn(live) /\ stats.requested = RequestedOf(live)
    BY DEF BooksInv, Books
  <2>3. /\ stats' \in [reserved : Int, in_use : Int, requested : Int]
        /\ stats'.reserved = ReservedInSlabs' + BytesIn(bypassed)
        /\ stats'.in_use = stats.in_use /\ stats'.requested = stats.requested
    BY <1>3, <2>1, <2>2, BooksInNumbers DEF Counted
  <2>4. Books'
    BY <1>1, <2>2, <2>3 DEF Books
  <2>5. \A a \in live' : HandleFits(a)'
    <3>1. \A h \in SlabId : Live(h) => arena'[h] = arena[h]
      BY <1>3 DEF FirstDead, TypeOK
    <3> QED
      BY <1>1, <3>1, FitsStill
  <2> QED
    BY <1>1, <2>1, <2>4, <2>5 DEF BooksInv, BypassPaired
<1> QED
  BY <1>2, <1>3 DEF Reserve

LEMMA TrimBooks ==
  ASSUME TypeOK, Ownership, BooksInv, Trim
  PROVE  BooksInv'
<1> DEFINE returned == SumFunctionOnSet(SlabSizes, UnusedSlabs)
<1>1. /\ arena' = [id \in SlabId |-> IF id \in UnusedSlabs THEN Dead ELSE arena[id]]
      /\ stats' = [stats EXCEPT !.reserved = @ - returned]
      /\ UNCHANGED <<bypassed, live>>
  BY DEF Trim
<1>2. UnusedSlabs \in SUBSET SlabId /\ SlabSizes \in [SlabId -> Nat]
  BY BooksInNumbers DEF UnusedSlabs
<1>3. returned \in Nat
  <2>1. IsFiniteSet(UnusedSlabs)
    BY <1>2, SlabsAreFinite, FS_Subset
  <2> QED
    BY <1>2, <2>1, SumIsNat
<1>4. ReservedInSlabs' = ReservedInSlabs - returned
  <2>1. SlabSizes' = [id \in SlabId |-> IF id \in UnusedSlabs THEN 0 ELSE SlabSizes[id]]
    BY <1>1 DEF SlabSizes, SlabBytes, Live
  <2> QED
    BY <1>2, <2>1, SlabsAreFinite, TotalCleared DEF ReservedInSlabs
<1> HIDE DEF returned
<1>5. Books'
  <2>1. stats \in [reserved : Int, in_use : Int, requested : Int]
    BY DEF BooksInv, Books
  <2>2. /\ stats' \in [reserved : Int, in_use : Int, requested : Int]
        /\ stats'.reserved = stats.reserved - returned
        /\ stats'.in_use = stats.in_use /\ stats'.requested = stats.requested
    BY <1>1, <1>3, <2>1
  <2> QED
    BY <1>1, <1>3, <1>4, <2>2, BooksInNumbers DEF BooksInv, Books
<1>6. CapHonoured'
  BY <1>3, <1>4, BooksInNumbers, ConfigAssumption DEF BooksInv, CapHonoured
<1>7. \A a \in live' : HandleFits(a)'
  <2>1. \A id \in SlabId : Without(pending)[id] # {} => arena'[id] = arena[id]
    BY <1>1 DEF UnusedSlabs
  <2> QED
    BY <1>1, <2>1, FitsStill
<1> QED
  BY <1>1, <1>5, <1>6, <1>7 DEF BooksInv, BypassPaired

(* The handle of another stream is as large as before.                     *)
LEMMA MoveBooks ==
  ASSUME TypeOK, Ownership, BooksInv, NEW a \in live, NEW s \in Stream, Move(a, s)
  PROVE  BooksInv'
<1> DEFINE moved == [a EXCEPT !.home = s]
           others == live \ {a}
<1>1. /\ BlockOf(moved) = BlockOf(a) /\ moved # a
      /\ moved.slab = a.slab /\ moved.node = a.node
      /\ moved.bytes = a.bytes /\ moved.requested = a.requested
  BY DEF Move, TypeOK, Handle, BlockOf
<1>2. live' = others \cup {moved} /\ UNCHANGED <<arena, bypassed, stats>>
  BY DEF Move
<1>3. moved \notin others
  <2>1. Overlaps(BlockOf(a), BlockOf(a))
    BY HeldOverlapsItself DEF Ownership, Held
  <2> QED
    BY <1>1, <2>1 DEF Ownership, OwnersApart
<1>4. /\ IsFiniteSet(others)
      /\ \A h \in others : h.bytes \in Nat /\ h.requested \in Nat
  BY FS_Subset, others \in SUBSET live, OwnersAreFinite, BooksInNumbers
<1>5. a.bytes \in Nat /\ a.requested \in Nat
  BY BooksInNumbers
<1>6. /\ BytesIn(others) = BytesIn(live) - a.bytes
      /\ RequestedOf(others) = RequestedOf(live) - a.requested
      /\ BytesIn(live) \in Nat /\ RequestedOf(live) \in Nat
  BY BytesOfSome, RequestedOfSome, OwnersAreFinite, BooksInNumbers
<1>7. \A h \in others : h \in live
  OBVIOUS
<1> HIDE DEF moved, others
<1>8. BytesIn(live') = BytesIn(others) + a.bytes
  BY <1>1, <1>2, <1>3, <1>4, <1>5, BytesOfSome
<1>9. RequestedOf(live') = RequestedOf(others) + a.requested
  BY <1>1, <1>2, <1>3, <1>4, <1>5, RequestedOfSome
<1>10. BytesIn(live') = BytesIn(live) /\ RequestedOf(live') = RequestedOf(live)
  BY <1>5, <1>6, <1>8, <1>9
<1>11. Books'
  BY <1>2, <1>10, SlabsUnchanged DEF BooksInv, Books
<1>12. \A h \in live' : HandleFits(h)'
  <2>1. \A h \in live : HandleFits(h)'
    BY <1>2, SlabsUnchanged
  <2>2. HandleFits(moved)'
    BY <1>1, <2>1 DEF HandleFits, InSlab
  <2> QED
    BY <1>2, <1>7, <2>1, <2>2
<1>13. BypassPaired'
  BY <1>1, <1>2, <1>7 DEF BooksInv, BypassPaired, others
<1> QED
  BY <1>2, <1>11, <1>12, <1>13, SlabsUnchanged DEF BooksInv

LEMMA BooksStep ==
  ASSUME TypeOK, Ownership, BooksInv, [Next]_vars
  PROVE  BooksInv'
<1>1. ASSUME NEW s \in AllocStream, AllocateNothing(s)
      PROVE  BooksInv'
  BY <1>1, BooksUnchanged DEF AllocateNothing
<1>2. ASSUME NEW bytes \in Sizes \ {0}, NEW s \in AllocStream, Allocate(bytes, s)
      PROVE  BooksInv'
  <2>1. ASSUME AllocateRefused(bytes, s) \/ AllocateBypassFails(bytes, s)
        PROVE  BooksInv'
    BY <2>1, BooksUnchanged DEF AllocateRefused, AllocateBypassFails
  <2> QED
    BY <1>2, <2>1, AllocateBooks, BypassBooks DEF Allocate
<1>3. CASE SettlePending
  BY <1>3, BooksUnchanged DEF SettlePending
<1>4. ASSUME (\E a \in live : Use(a)) \/ Device \/ UNCHANGED vars
      PROVE  BooksInv'
  BY <1>4, BooksUnchanged DEF Use, Device, vars, poolVars
<1> QED
  BY <1>1, <1>2, <1>3, <1>4, DeallocateBooks, DeallocateBypassBooks, ReserveBooks,
     TrimBooks, MoveBooks DEF Next

LEMMA BooksInit == Init => BooksInv
<1> SUFFICES ASSUME Init PROVE BooksInv
  OBVIOUS
<1>1. /\ live = {} /\ bypassed = {} /\ arena = [id \in SlabId |-> Dead]
      /\ stats = [reserved |-> 0, in_use |-> 0, requested |-> 0]
  BY DEF Init
<1>2. ReservedInSlabs = 0
  <2>1. SlabSizes = [id \in SlabId |-> 0]
    BY <1>1 DEF SlabSizes, SlabBytes, Live
  <2>2. SumFunctionOnSet(SlabSizes, SlabId) = 0
    BY <2>1, SlabsAreFinite, SumOfZeros
  <2>3. DOMAIN SlabSizes = SlabId
    BY <2>1
  <2> QED
    BY <2>2, <2>3 DEF ReservedInSlabs, SumFunction
<1>3. BytesIn(bypassed) = 0 /\ BytesIn(live) = 0 /\ RequestedOf(live) = 0
  BY <1>1, TotalOfNothing DEF BytesIn, RequestedOf
<1>4. Books
  BY <1>1, <1>2, <1>3 DEF Books
<1> QED
  BY <1>1, <1>2, <1>4, FS_EmptySet, ConfigAssumption DEF BooksInv, BypassPaired, CapHonoured

(* The equations of the code follow.  A used node is the node of exactly   *)
(* one handle or entry, so the bytes of the used nodes are those of the    *)
(* pooled handles plus those parked; the other handles are the bypassed    *)
(* blocks.                                                                 *)
LEMMA BooksAreExact ==
  ASSUME TypeOK, Ownership, BooksInv
  PROVE  BytesAccounted
<1> DEFINE pooled == {a \in live : a.slab # kBypassSlabId}
           direct == live \ pooled
           out == {BlockOf(a) : a \in pooled}
           size == [a \in live |-> a.bytes]
           need == [a \in live |-> a.requested]
           usedSize == [b \in UsedBlocks |-> InSlab(b)]
           parkedSize == [p \in pending |-> InSlab(p.block)]
           bypassSize == [b \in bypassed |-> b.bytes]
<1>1. /\ IsFiniteSet(live) /\ IsFiniteSet(pending) /\ IsFiniteSet(pooled)
      /\ IsFiniteSet(direct) /\ pooled \in SUBSET live
  <2>1. pooled \in SUBSET live /\ direct \in SUBSET live
    OBVIOUS
  <2> QED
    BY <2>1, OwnersAreFinite, FS_Subset
<1>2. /\ UsedBlocks = out \cup Parked /\ out \cap Parked = {}
      /\ \A p \in pending : p.block \in UsedBlocks
  <2>1. \A a \in pooled : BlockOf(a) \in UsedBlocks /\ BlockOf(a) \in PoolBlock
    BY LiveInSlab
  <2>2. ASSUME NEW p \in pending
        PROVE  p.block \in UsedBlocks
    <3>1. p.block \in PoolBlock /\ p.block \in Held
      BY DEF TypeOK, Entry, Held, Parked
    <3>2. /\ p.block.slab \in SlabId /\ p.block.node \in Node
          /\ p.block = [slab |-> p.block.slab, node |-> p.block.node]
      BY <3>1 DEF PoolBlock
    <3> QED
      BY <3>1, <3>2 DEF UsedBlocks, Ownership, UsedIsHeld
  <2>3. ASSUME NEW b \in UsedBlocks
        PROVE  b \in out \cup Parked
    <3>1. /\ b.slab \in SlabId /\ b.node \in Node /\ b.node \in used[b.slab]
          /\ b = [slab |-> b.slab, node |-> b.node] /\ b.slab # kBypassSlabId
      BY DEF UsedBlocks, PoolBlock, SlabId, kBypassSlabId
    <3>2. b \in Held
      BY <3>1 DEF Ownership, UsedIsHeld
    <3> QED
      BY <3>1, <3>2 DEF Held, BlockOf
  <2>4. ASSUME NEW a \in live, NEW p \in pending PROVE BlockOf(a) # p.block
    <3>1. Overlaps(BlockOf(a), BlockOf(a)) /\ ~Overlaps(BlockOf(a), p.block)
      BY HeldOverlapsItself DEF Ownership, OwnersApart, Held
    <3> QED
      BY <3>1
  <2> QED
    BY <2>1, <2>2, <2>3, <2>4 DEF Parked
<1>3. ASSUME NEW b \in UsedBlocks PROVE InSlab(b) \in Nat
  <2>1. /\ b.slab \in SlabId /\ used[b.slab] # {} /\ b.node \in used[b.slab]
    BY DEF UsedBlocks, PoolBlock
  <2>2. b.node \in NodesOf(arena[b.slab]) /\ arena[b.slab] \in Geometry
    BY <2>1 DEF Ownership, UsedIsHeld, TypeOK, Live, Geometry
  <2> QED
    BY <2>2, BlocksOfSlab DEF InSlab
<1>4. \A a, h \in live : BlockOf(a) = BlockOf(h) => a = h
  BY HeldOverlapsItself DEF Ownership, OwnersApart, Held
<1>5. \A p, q \in pending : p.block = q.block => p = q
  BY HeldOverlapsItself DEF Ownership, OwnersApart, Held, Parked
<1>6. IsFiniteSet(UsedBlocks)
  <2>1. UsedBlocks \in SUBSET Block
    BY DEF UsedBlocks, Block
  <2> QED
    BY <2>1, BlocksAreFinite, FS_Subset
<1>7. \A a \in live : size[a] \in Nat /\ need[a] \in Nat /\ need[a] <= size[a]
  BY BooksInNumbers DEF BooksInv, HandleFits
<1>8. SumFunctionOnSet(usedSize, out) = SumFunctionOnSet(size, pooled)
  <2> DEFINE m == [a \in live |-> BlockOf(a)]
  <2>1. \A a \in pooled : usedSize[m[a]] = size[a]
    <3>1. ASSUME NEW a \in pooled PROVE usedSize[BlockOf(a)] = a.bytes
      <4>1. BlockOf(a) \in UsedBlocks /\ a.bytes = InSlab(a)
        BY LiveInSlab DEF BooksInv, HandleFits
      <4>2. InSlab(BlockOf(a)) = InSlab(a)
        BY DEF InSlab, BlockOf
      <4> QED
        BY <4>1, <4>2
    <3> QED
      BY <3>1
  <2>2. \A a, h \in pooled : m[a] = m[h] => a = h
    BY <1>4
  <2>3. out = {m[a] : a \in pooled}
    OBVIOUS
  <2>4. \A a \in pooled : size[a] \in Nat
    BY <1>7
  <2> HIDE DEF m, out, usedSize, size, pooled
  <2>5. SumFunctionOnSet(usedSize, {m[a] : a \in pooled}) = SumFunctionOnSet(size, pooled)
    BY <1>1, <2>1, <2>2, <2>4, SumRenamed
  <2> QED
    BY <2>3, <2>5, Zenon
<1>9. SumFunctionOnSet(usedSize, Parked) = SumFunctionOnSet(parkedSize, pending)
  <2> DEFINE m == [p \in pending |-> p.block]
  <2>1. \A p \in pending : usedSize[m[p]] = parkedSize[p] /\ parkedSize[p] \in Nat
    BY <1>2, <1>3
  <2>2. \A p, q \in pending : m[p] = m[q] => p = q
    BY <1>5
  <2>3. Parked = {m[p] : p \in pending}
    BY DEF Parked
  <2> HIDE DEF m, usedSize, parkedSize
  <2>4. SumFunctionOnSet(usedSize, {m[p] : p \in pending}) = SumFunctionOnSet(parkedSize, pending)
    BY <1>1, <2>1, <2>2, SumRenamed
  <2> QED
    BY <2>3, <2>4, Zenon
<1>10. SumFunctionOnSet(bypassSize, bypassed) = SumFunctionOnSet(size, direct)
  <2> DEFINE m == [a \in live |-> [ptr |-> a.node, bytes |-> a.bytes]]
  <2>1. ASSUME NEW a \in direct PROVE m[a] \in bypassed /\ m[a].bytes = a.bytes
    <3>1. PICK x \in bypassed : x.ptr = a.node /\ x.bytes = a.bytes
      BY DEF BooksInv, BypassPaired
    <3>2. x = [ptr |-> a.node, bytes |-> a.bytes]
      BY <3>1 DEF TypeOK
    <3> QED
      BY <3>1, <3>2
  <2>2. ASSUME NEW x \in bypassed PROVE \E a \in direct : x = m[a]
    <3>1. PICK a \in live : a.slab = kBypassSlabId /\ a.node = x.ptr
      BY DEF BooksInv, BypassPaired
    <3>2. a \in direct /\ m[a] \in bypassed /\ m[a].ptr = x.ptr
      BY <2>1, <3>1
    <3> QED
      BY <3>2 DEF BooksInv, BypassPaired
  <2>3. bypassed = {m[a] : a \in direct}
    BY <2>1, <2>2
  <2>4. \A a \in direct : bypassSize[m[a]] = size[a] /\ size[a] \in Nat
    BY <1>7, <2>1
  <2>5. \A a, h \in direct : m[a] = m[h] => a = h
    <3>1. ASSUME NEW a \in direct, NEW h \in direct, m[a] = m[h]
          PROVE  BlockOf(a) = BlockOf(h)
      BY <3>1 DEF BlockOf
    <3> QED
      BY <1>4, <3>1
  <2> HIDE DEF m, direct, bypassSize, size
  <2>6. SumFunctionOnSet(bypassSize, {m[a] : a \in direct}) = SumFunctionOnSet(size, direct)
    BY <1>1, <2>4, <2>5, SumRenamed
  <2> QED
    BY <2>3, <2>6, Zenon
<1>11. SumFunctionOnSet(usedSize, UsedBlocks)
         = SumFunctionOnSet(usedSize, out) + SumFunctionOnSet(usedSize, Parked)
  <2>1. UsedBlocks \ out = Parked /\ out \in SUBSET UsedBlocks
    BY <1>2
  <2>2. \A b \in UsedBlocks : usedSize[b] \in Nat
    BY <1>3
  <2> HIDE DEF out, usedSize
  <2>3. SumFunctionOnSet(usedSize, UsedBlocks)
         = SumFunctionOnSet(usedSize, out) + SumFunctionOnSet(usedSize, UsedBlocks \ out)
    BY <1>6, <2>1, <2>2, SumOfParts
  <2> QED
    BY <2>1, <2>3, Zenon
<1>12. SumFunctionOnSet(size, live)
         = SumFunctionOnSet(size, pooled) + SumFunctionOnSet(size, direct)
  BY <1>1, <1>7, SumOfParts
<1>13. SumFunctionOnSet(need, live) <= SumFunctionOnSet(size, live)
  BY <1>1, <1>7, SumMonotone
<1>14. /\ SumFunctionOnSet(size, pooled) \in Nat /\ SumFunctionOnSet(size, direct) \in Nat
       /\ SumFunctionOnSet(parkedSize, pending) \in Nat
  <2>1. \A p \in pending : parkedSize[p] \in Nat
    BY <1>2, <1>3
  <2>2. (\A a \in pooled : size[a] \in Nat) /\ (\A a \in direct : size[a] \in Nat)
    BY <1>7
  <2> HIDE DEF pooled, direct, size, parkedSize
  <2> QED
    BY <1>1, <2>1, <2>2, SumIsNat
<1>15. /\ SumFunction(usedSize) = SumFunctionOnSet(usedSize, UsedBlocks)
       /\ SumFunction(parkedSize) = SumFunctionOnSet(parkedSize, pending)
       /\ SumFunction(bypassSize) = SumFunctionOnSet(bypassSize, bypassed)
       /\ BytesIn(bypassed) = SumFunction(bypassSize)
       /\ BytesIn(live) = SumFunctionOnSet(size, live)
       /\ RequestedOf(live) = SumFunctionOnSet(need, live)
  BY DEF SumFunction, BytesIn, RequestedOf
<1>16. /\ stats.reserved = ReservedInSlabs + BytesIn(bypassed)
       /\ stats.in_use = BytesIn(live) /\ stats.requested = RequestedOf(live)
       /\ RequestedOf(live) \in Nat
  BY BooksInNumbers DEF BooksInv, Books
<1> HIDE DEF pooled, direct, out, size, need, usedSize, parkedSize, bypassSize
<1>17. /\ SumFunction(usedSize) = stats.in_use - SumFunction(bypassSize) + SumFunction(parkedSize)
       /\ stats.reserved = ReservedInSlabs + SumFunction(bypassSize)
       /\ stats.requested >= 0 /\ stats.in_use >= stats.requested
  BY <1>8, <1>9, <1>10, <1>11, <1>12, <1>13, <1>14, <1>15, <1>16
<1> QED
  BY <1>17 DEF BytesAccounted, usedSize, parkedSize, bypassSize

(* What validate() compares always agrees: the bytes of the used nodes are *)
(* those in use and parked, those reserved are the slabs' and the bypassed *)
(* blocks', no caller has less than it asked for; and the slabs together   *)
(* never exceed the configured total.                                      *)
THEOREM FootprintStaysExact == Spec => []FootprintIsExact
<1>1. TypeOK /\ Ownership /\ BooksInv /\ [Next]_vars => BooksInv'
  BY BooksStep
<1>2. TypeOK /\ Ownership /\ BooksInv => FootprintIsExact
  BY BooksAreExact DEF BooksInv, FootprintIsExact
<1> QED
  BY <1>1, <1>2, BooksInit, TypeCorrect, OwnershipKept, PTL DEF Spec

-----------------------------------------------------------------------------
(* The buddy allocator implements the stream-ordered pool that             *)
(* memory/allocator.hpp describes: what a client can tell of slabs, parked *)
(* blocks, events and drains is that blocks come and go in stream order.   *)

HeldBy(handles) == {[block |-> BlockOf(a), home |-> a.home] : a \in handles}

(* The streams go on by some number of kernels each.                       *)
LEMMA ProgressIsProgress ==
  ASSUME TypeOK, NEW done \in [Stream -> Nat],
         \A s \in Stream : done[s] <= Len(queue[s]), Progress(done)
  PROVE  Pool!Progresses
<1> SUFFICES ASSUME NEW s \in Stream
             PROVE  \E n \in 0 .. Len(queue[s]) :
                      queue'[s] = SubSeq(queue[s], n + 1, Len(queue[s]))
  BY DEF Pool!Progresses
<1>1. Len(queue[s]) \in Nat
  BY LenProperties DEF TypeOK
<1>2. done[s] \in 0 .. Len(queue[s])
  BY <1>1
<1>3. queue'[s] = SubSeq(queue[s], done[s] + 1, Len(queue[s]))
  BY DEF Progress
<1> QED
  BY <1>2, <1>3

(* Possibly by none.                                                       *)
LEMMA UnchangedIsProgress ==
  ASSUME TypeOK, UNCHANGED queue
  PROVE  Pool!Progresses
<1> SUFFICES ASSUME NEW s \in Stream
             PROVE  \E n \in 0 .. Len(queue[s]) :
                      queue[s] = SubSeq(queue[s], n + 1, Len(queue[s]))
  BY DEF Pool!Progresses
<1> DEFINE q == queue[s]
<1>1. q \in Seq(Block) /\ Len(q) \in Nat
  BY LenProperties DEF TypeOK
<1>2. q = SubSeq(q, 0 + 1, Len(q))
  BY <1>1, SubSeqFull
<1> QED
  BY <1>1, <1>2

LEMMA CompleteIsProgress ==
  ASSUME TypeOK, NEW s \in Stream, Complete(s)
  PROVE  Pool!Progresses
<1> DEFINE done == [t \in Stream |-> IF t = s THEN 1 ELSE 0]
<1>1. ASSUME NEW t \in Stream PROVE done[t] <= Len(queue[t])
  <2>1. queue[t] \in Seq(Block) /\ Len(queue[t]) \in Nat
    BY LenProperties DEF TypeOK
  <2>2. t = s => Len(queue[t]) # 0
    BY <2>1, EmptySeq DEF Complete
  <2> QED
    BY <2>1, <2>2
<1>2. done \in [Stream -> Nat] /\ Progress(done)
  BY DEF Complete
<1> HIDE DEF done
<1> QED
  BY <1>1, <1>2, ProgressIsProgress

LEMMA SynchronizeIsProgress ==
  ASSUME TypeOK, DeviceSynchronize
  PROVE  Pool!Progresses
<1> DEFINE done == [s \in Stream |-> Len(queue[s])]
<1>1. \A s \in Stream : Len(queue[s]) \in Nat
  BY LenProperties DEF TypeOK
<1>2. /\ done \in [Stream -> Nat] /\ Progress(done)
      /\ \A s \in Stream : done[s] <= Len(queue[s])
  BY <1>1 DEF DeviceSynchronize
<1> HIDE DEF done
<1> QED
  BY <1>2, ProgressIsProgress

LEMMA DrainIsProgress ==
  ASSUME TypeOK, NEW parked, Drain(parked)
  PROVE  Pool!Progresses
<1>1. PICK done \in [Stream -> 0 .. MaxInFlight] :
        (\A s \in Stream : done[s] <= Len(queue[s])) /\ Progress(done)
  BY DEF Drain
<1>2. done \in [Stream -> Nat]
  BY MaxInFlightAssumption
<1> QED
  BY <1>1, <1>2, ProgressIsProgress

(* Handles that are apart are told apart by their blocks, so the pool      *)
(* holds one block for every handle.                                       *)
LEMMA HandlesAreBlocks ==
  ASSUME TypeOK, Ownership, NEW a \in live, NEW b \in live, BlockOf(a) = BlockOf(b)
  PROVE  a = b
BY HeldOverlapsItself DEF Ownership, OwnersApart, Held

LEMMA TakenFromHeld ==
  ASSUME TypeOK, Ownership, NEW a \in live
  PROVE  HeldBy(live \ {a}) = HeldBy(live) \ {[block |-> BlockOf(a), home |-> a.home]}
<1>1. ASSUME NEW b \in live \ {a}
      PROVE  [block |-> BlockOf(b), home |-> b.home]
               # [block |-> BlockOf(a), home |-> a.home]
  BY HandlesAreBlocks
<1> QED
  BY <1>1 DEF HeldBy

(* Handing out a block is an allocation of the pool: no client holds any   *)
(* of it, and nothing but the stream that gets it works on it.             *)
LEMMA HandIsAlloc ==
  ASSUME TypeOK, Ownership', NoUnorderedSharing', Pool!Progresses,
         NEW a, a.home \in AllocStream, live' = live \cup {a}
  PROVE  Pool!Alloc \/ Pool!Device
<1> DEFINE h == [block |-> BlockOf(a), home |-> a.home]
<1>1. HeldBy(live') = HeldBy(live) \cup {h}
  BY DEF HeldBy
<1>2. CASE h \in HeldBy(live)
  <2>1. HeldBy(live') = HeldBy(live)
    BY <1>1, <1>2
  <2> QED
    BY <2>1 DEF Pool!Device, HeldBy, BlockOf
<1>3. CASE h \notin HeldBy(live)
  <2>1. a \notin live /\ a \in live'
    BY <1>3 DEF HeldBy
  <2>2. \A g \in HeldBy(live) : ~Overlaps(g.block, h.block)
    BY <2>1 DEF HeldBy, Ownership, OwnersApart, BlockOf, Overlaps
  <2>3. ASSUME NEW s \in Stream \ {a.home}, NEW i \in DOMAIN queue'[s]
        PROVE  ~Overlaps(queue'[s][i], BlockOf(a))
    BY <2>1, <2>3 DEF NoUnorderedSharing, Running, BlockOf, Overlaps
  <2>4. (~Pool!BusyElsewhere(h.block, h.home))'
    BY <2>3 DEF Pool!BusyElsewhere, BlockOf, Overlaps
  <2> QED
    BY <1>1, <1>3, <2>2, <2>4 DEF Pool!Alloc, HeldBy, BlockOf
<1> QED
  BY <1>2, <1>3

(* Each call, launch and completion is a step of the pool, or no step.     *)
LEMMA StepRefines ==
  ASSUME TypeOK, Ownership, Ownership', NoUnorderedSharing', [Next]_vars
  PROVE  [Pool!Next]_Pool!poolVars
<1> USE ConfigAssumption
<1>1. CASE Pool!Progresses /\ UNCHANGED live
  BY <1>1 DEF Pool!Next, Pool!Device, BlockOf
<1>2. ASSUME NEW bytes \in Nat, NEW s \in AllocStream, Allocate(bytes, s)
      PROVE  Pool!Next
  <2>1. Pool!Progresses
    <3>1. CASE UNCHANGED deviceVars
      BY <3>1, UnchangedIsProgress DEF deviceVars
    <3>2. CASE Drain(StillParked(s))
      BY <3>2, DrainIsProgress
    <3> QED
      BY <1>2, <3>1, <3>2 DEF Allocate, AllocateFromSlab, AllocateFromNewSlab,
         AllocateAfterDrain, AllocateRefused, AllocateBypass, AllocateBypassFails
  <2>2. CASE \E slab, node, blockBytes : Hand(slab, node, bytes, blockBytes, s)
    <3>1. PICK slab, node, blockBytes : Hand(slab, node, bytes, blockBytes, s)
      BY <2>2
    <3> DEFINE a == [slab |-> slab, node |-> node, requested |-> bytes,
                     bytes |-> blockBytes, home |-> s]
    <3>2. live' = live \cup {a} /\ a.home \in AllocStream
      BY <3>1 DEF Hand
    <3> HIDE DEF a
    <3> QED
      BY <2>1, <3>2, HandIsAlloc DEF Pool!Next
  <2>3. CASE UNCHANGED live
    BY <1>1, <2>1, <2>3 DEF Pool!Next, Pool!Device
  <2>4. (\E slab, node, blockBytes : Hand(slab, node, bytes, blockBytes, s)) \/ UNCHANGED live
    BY <1>2 DEF Allocate, AllocateFromSlab, AllocateFromNewSlab, AllocateAfterDrain,
       AllocateRefused, AllocateBypass, AllocateBypassFails, HandOut
  <2> QED
    BY <2>2, <2>3, <2>4
<1>3. ASSUME NEW a \in live, Deallocate(a) \/ DeallocateBypass(a)
      PROVE  Pool!Next
  <2>1. Pool!Progresses
    BY <1>3, UnchangedIsProgress, SynchronizeIsProgress
       DEF Deallocate, Retire, DeallocateBypass
  <2>2. live' = live \ {a}
    BY <1>3 DEF Deallocate, DeallocateBypass
  <2>3. HeldBy(live') = HeldBy(live) \ {[block |-> BlockOf(a), home |-> a.home]}
    BY <2>2, TakenFromHeld
  <2>4. [block |-> BlockOf(a), home |-> a.home] \in HeldBy(live)
    BY DEF HeldBy
  <2> QED
    BY <2>1, <2>3, <2>4 DEF Pool!Next, Pool!Free, HeldBy, BlockOf
<1>4. ASSUME SettlePending \/ Trim
      PROVE  Pool!Progresses /\ UNCHANGED live
  BY <1>4, DrainIsProgress, SynchronizeIsProgress DEF SettlePending, Trim
<1>5. ASSUME NEW a \in live, Use(a)
      PROVE  Pool!Next
  <2> DEFINE h == [block |-> BlockOf(a), home |-> a.home]
  <2>1. h \in HeldBy(live)
    BY DEF HeldBy
  <2>2. queue' = [queue EXCEPT ![h.home] = Append(@, h.block)] /\ UNCHANGED live
    BY <1>5 DEF Use, Launch, poolVars
  <2> QED
    BY <2>1, <2>2 DEF Pool!Next, Pool!Launch, HeldBy, BlockOf
<1>6. ASSUME NEW a \in live, NEW s \in Stream, Move(a, s)
      PROVE  Pool!Next
  <2> DEFINE h == [block |-> BlockOf(a), home |-> a.home]
             moved == [a EXCEPT !.home = s]
  <2>1. BlockOf(moved) = BlockOf(a) /\ moved.home = s
    BY DEF TypeOK, Handle, BlockOf
  <2>2. live' = (live \ {a}) \cup {moved} /\ UNCHANGED queue /\ queue[a.home] = << >>
    BY <1>6 DEF Move, deviceVars, StreamIdle
  <2> HIDE DEF moved
  <2>3. HeldBy(live') = (HeldBy(live) \ {h}) \cup {[h EXCEPT !.home = s]}
    <3>1. HeldBy(live') = HeldBy(live \ {a})
                            \cup {[block |-> BlockOf(moved), home |-> moved.home]}
      BY <2>2 DEF HeldBy
    <3> QED
      BY <2>1, <3>1, TakenFromHeld
  <2>4. h \in HeldBy(live)
    BY DEF HeldBy
  <2> QED
    BY <2>2, <2>3, <2>4 DEF Pool!Next, Pool!Move, HeldBy, BlockOf
<1>7. ASSUME Device
      PROVE  Pool!Progresses /\ UNCHANGED live
  BY <1>7, CompleteIsProgress DEF Device, poolVars
<1>8. ASSUME UNCHANGED <<queue, live>>
      PROVE  UNCHANGED Pool!poolVars
  BY <1>8 DEF Pool!poolVars, BlockOf
<1> QED
  BY <1>1, <1>2, <1>3, <1>4, <1>5, <1>6, <1>7, <1>8
     DEF Next, AllocateNothing, Reserve, deviceVars, vars, poolVars

(* With one allocating stream, and events that do not fail, the allocator  *)
(* keeps the promise of allocator.hpp under each of the three policies:    *)
(* the bytes a client is given are not held by another client and, on      *)
(* every stream but its own, not in use.                                   *)
THEOREM BuddyImplementsPool ==
  ASSUME OneStream
  PROVE  Spec => ImplementsPool
<1>1. Init => Pool!Init
  BY DEF Init, DeviceInit, Pool!Init
<1>2. TypeOK /\ Ownership /\ Ownership' /\ NoUnorderedSharing' /\ [Next]_vars
        => [Pool!Next]_Pool!poolVars
  BY StepRefines
<1>3. Spec => [](TypeOK /\ Ownership /\ NoUnorderedSharing)
  BY TypeCorrect, OwnershipKept, OneStreamIsSafe, PTL
<1> QED
  BY <1>1, <1>2, <1>3, PTL DEF Spec, ImplementsPool, Pool!Spec
=============================================================================
