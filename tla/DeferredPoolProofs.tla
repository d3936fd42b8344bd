-------------------------- MODULE DeferredPoolProofs --------------------------
(***************************************************************************)
(* Deferred reuse is safe, whatever the pool's data structures: each step  *)
(* of DeferredPool keeps owners apart, events behind the kernels they are  *)
(* to cover and, for one allocating stream, all unordered work away from   *)
(* the blocks in use.                                                      *)
(***************************************************************************)
EXTENDS DeferredPool, SequenceTheorems, TLAPS

-----------------------------------------------------------------------------
(* What the parts that several calls share do to the state.                *)

(* What is left of a sequence without its first d elements.                *)
LEMMA SuffixProperties ==
  ASSUME NEW S, NEW q \in Seq(S), NEW d \in 0 .. Len(q)
  PROVE  /\ SubSeq(q, d + 1, Len(q)) \in Seq(S)
         /\ \A i \in DOMAIN SubSeq(q, d + 1, Len(q)) :
              /\ i + d \in DOMAIN q
              /\ SubSeq(q, d + 1, Len(q))[i] = q[i + d]
<1> DEFINE m == d + 1
           n == Len(q)
           rest == SubSeq(q, m, n)
<1>1. n \in Nat /\ DOMAIN q = 1 .. n /\ \A i \in 1 .. n : q[i] \in S
  BY LenProperties
<1>2. m \in Int /\ n \in Int /\ \A i \in m .. n : q[i] \in S
  BY <1>1
<1> HIDE DEF m, n
<1>3. /\ rest \in Seq(S)
      /\ Len(rest) = IF m <= n THEN n - m + 1 ELSE 0
      /\ \A i \in 1 .. n - m + 1 : rest[i] = q[m + i - 1]
  BY <1>2, SubSeqProperties
<1> HIDE DEF rest
<1>4. DOMAIN rest = 1 .. n - d
  <2>1. DOMAIN rest = 1 .. Len(rest)
    BY <1>3, LenProperties
  <2>2. d \in 0 .. n
    BY DEF n
  <2>3. Len(rest) = n - d
    BY <1>1, <1>3, <2>2 DEF m
  <2> QED
    BY <2>1, <2>3
<1>5. ASSUME NEW i \in DOMAIN rest
      PROVE  i + d \in DOMAIN q /\ rest[i] = q[i + d]
  <2>1. i \in 1 .. n - m + 1 /\ m + i - 1 = i + d /\ i + d \in 1 .. n
    <3>1. d \in 0 .. n
      BY DEF n
    <3> QED
      BY <1>1, <1>4, <3>1 DEF m
  <2> QED
    BY <1>1, <1>3, <2>1
<1> QED
  BY <1>3, <1>5 DEF rest, m, n

(* The device: a stream loses its oldest kernels, an event the kernels it  *)
(* waited for.                                                             *)
LEMMA ProgressEffect ==
  ASSUME queue \in [Stream -> Seq(Block)], event \in Seq(Mark),
         NEW done \in [Stream -> Nat],
         \A s \in Stream : done[s] <= Len(queue[s]),
         Progress(done)
  PROVE  /\ queue' \in [Stream -> Seq(Block)]
         /\ event' \in Seq(Mark)
         /\ DOMAIN event' = DOMAIN event
         /\ \A s \in Stream : \A i \in DOMAIN queue'[s] :
              /\ i + done[s] \in DOMAIN queue[s]
              /\ queue'[s][i] = queue[s][i + done[s]]
         /\ \A e \in DOMAIN event :
              /\ event'[e].stream = event[e].stream
              /\ event'[e].after = Less(event[e].after, done[event[e].stream])
<1>1. ASSUME NEW s \in Stream
      PROVE  /\ queue'[s] \in Seq(Block)
             /\ \A i \in DOMAIN queue'[s] :
                  /\ i + done[s] \in DOMAIN queue[s]
                  /\ queue'[s][i] = queue[s][i + done[s]]
  <2>1. queue[s] \in Seq(Block) /\ done[s] \in 0 .. Len(queue[s])
    BY LenProperties
  <2>2. queue'[s] = SubSeq(queue[s], done[s] + 1, Len(queue[s]))
    BY DEF Progress
  <2> QED
    BY <2>1, <2>2, SuffixProperties
<1>2. queue' \in [Stream -> Seq(Block)]
  BY <1>1 DEF Progress
<1>3. /\ DOMAIN event' = DOMAIN event
      /\ event' = [e \in DOMAIN event |->
                    [stream |-> event[e].stream,
                     after |-> Less(event[e].after, done[event[e].stream])]]
  BY DEF Progress, EventsAfter
<1>4. ASSUME NEW e \in DOMAIN event PROVE event'[e] \in Mark
  <2>1. event[e] \in Mark
    BY LenProperties
  <2> QED
    BY <1>3, <2>1 DEF Mark, Less
<1>5. event' \in Seq(Mark)
  <2>1. Len(event) \in Nat /\ DOMAIN event = 1 .. Len(event)
    BY LenProperties
  <2>2. event' \in [1 .. Len(event) -> Mark]
    BY <1>3, <1>4, <2>1
  <2> QED
    BY <2>1, <2>2, SeqDef
<1> QED
  BY <1>1, <1>2, <1>3, <1>5

(* The device may advance: kernels only ever complete, oldest first, and   *)
(* an event keeps waiting for the kernels it was recorded after.           *)
Advance ==
  /\ queue' \in [Stream -> Seq(Block)]
  /\ event' \in Seq(Mark)
  /\ DOMAIN event' = DOMAIN event
  /\ \A e \in DOMAIN event : event'[e].stream = event[e].stream
  /\ \A s \in Stream : \A i \in DOMAIN queue'[s] : \E j \in DOMAIN queue[s] :
       /\ queue'[s][i] = queue[s][j]
       /\ \A e \in DOMAIN event :
            event[e].stream = s /\ j <= event[e].after => i <= event'[e].after

(* Completing the oldest kernels of each stream is an advance.             *)
LEMMA ProgressAdvances ==
  ASSUME queue \in [Stream -> Seq(Block)], event \in Seq(Mark),
         NEW done \in [Stream -> Nat],
         \A s \in Stream : done[s] <= Len(queue[s]),
         Progress(done)
  PROVE  Advance
<1>1. /\ queue' \in [Stream -> Seq(Block)] /\ event' \in Seq(Mark)
      /\ DOMAIN event' = DOMAIN event
      /\ \A e \in DOMAIN event : event'[e].stream = event[e].stream
  BY ProgressEffect
<1>2. ASSUME NEW s \in Stream, NEW i \in DOMAIN queue'[s]
      PROVE  \E j \in DOMAIN queue[s] :
               /\ queue'[s][i] = queue[s][j]
               /\ \A e \in DOMAIN event :
                    event[e].stream = s /\ j <= event[e].after
                      => i <= event'[e].after
  <2>1. i + done[s] \in DOMAIN queue[s] /\ queue'[s][i] = queue[s][i + done[s]]
    BY <1>2, ProgressEffect
  <2>2. i \in Nat \ {0}
    BY <1>1, LenProperties
  <2>3. ASSUME NEW e \in DOMAIN event, event[e].stream = s,
               i + done[s] <= event[e].after
        PROVE  i <= event'[e].after
    <3> event[e] \in Mark
      BY <2>3, LenProperties
    <3>1. event[e].after \in Nat
      BY DEF Mark
    <3>2. event'[e].after = Less(event[e].after, done[s])
      BY <2>3, ProgressEffect
    <3> QED
      BY <2>2, <2>3, <3>1, <3>2 DEF Less
  <2> QED
    BY <2>1, <2>3
<1> QED
  BY <1>1, <1>2 DEF Advance

(* A step that leaves the device alone is an advance by nothing.           *)
LEMMA UnchangedAdvances ==
  ASSUME TypeOK, UNCHANGED deviceVars
  PROVE  Advance
BY DEF TypeOK, deviceVars, Advance

(* So is the completion of one kernel ...                                  *)
LEMMA CompleteAdvances ==
  ASSUME TypeOK, NEW s \in Stream, Complete(s)
  PROVE  Advance
<1> DEFINE done == [t \in Stream |-> IF t = s THEN 1 ELSE 0]
<1>1. ASSUME NEW t \in Stream PROVE done[t] <= Len(queue[t])
  <2>1. queue[t] \in Seq(Block) /\ Len(queue[t]) \in Nat
    BY LenProperties DEF TypeOK
  <2>2. CASE t = s
    <3>1. Len(queue[s]) \in Nat \ {0}
      BY <2>1, <2>2, EmptySeq DEF Complete
    <3> QED
      BY <2>2, <3>1
  <2>3. CASE t # s
    BY <2>1, <2>3
  <2> QED
    BY <2>2, <2>3
<1>2. done \in [Stream -> Nat] /\ Progress(done)
  BY DEF Complete
<1> HIDE DEF done
<1> QED
  BY <1>1, <1>2, ProgressAdvances DEF TypeOK

(* ... and a cudaFree, after which nothing runs.                           *)
LEMMA SynchronizeAdvances ==
  ASSUME TypeOK, DeviceSynchronize
  PROVE  Advance /\ \A s \in Stream : Running(s)' = {}
<1> DEFINE done == [s \in Stream |-> Len(queue[s])]
<1>1. \A s \in Stream : queue[s] \in Seq(Block) /\ Len(queue[s]) \in Nat
  BY LenProperties DEF TypeOK
<1>2. done \in [Stream -> Nat] /\ \A s \in Stream : done[s] <= Len(queue[s])
  BY <1>1
<1>3. Progress(done)
  BY DEF DeviceSynchronize
<1>4. ASSUME NEW s \in Stream PROVE queue'[s] = << >>
  <2>1. queue'[s] = SubSeq(queue[s], done[s] + 1, Len(queue[s]))
    BY <1>3 DEF Progress
  <2> QED
    BY <1>1, <2>1, SubSeqEmpty
<1>5. \A s \in Stream : Running(s)' = {}
  BY <1>4 DEF Running
<1> HIDE DEF done
<1> QED
  BY <1>2, <1>3, <1>5, ProgressAdvances DEF TypeOK

(* After a drain nothing that was waited for is still running.             *)
LEMMA DrainEffect ==
  ASSUME TypeOK, NEW parked \in SUBSET pending, Drain(parked)
  PROVE  /\ Advance
         /\ ReleaseEntries(pending)
         /\ \A p \in parked :
              IF p.slot = kNoEventSlot
                THEN Running(p.stream)' = {}
                ELSE event[p.slot].stream = p.stream => event'[p.slot].after = 0
<1>1. PICK done \in [Stream -> 0 .. MaxInFlight] :
        /\ \A s \in Stream : done[s] <= Len(queue[s])
        /\ \A p \in parked : Waited(done, p)
        /\ Progress(done)
  BY DEF Drain
<1>2. done \in [Stream -> Nat]
  BY MaxInFlightAssumption
<1>3. Advance
  BY <1>1, <1>2, ProgressAdvances DEF TypeOK
<1>4. ReleaseEntries(pending)
  BY DEF Drain
<1>5. ASSUME NEW p \in parked, p.slot = kNoEventSlot
      PROVE  Running(p.stream)' = {}
  <2>1. p.stream \in Stream /\ done[p.stream] = Len(queue[p.stream])
    BY <1>1, <1>5 DEF Waited, TypeOK, Entry
  <2>2. Len(queue[p.stream]) \in Nat
    BY <2>1, LenProperties DEF TypeOK
  <2>3. queue'[p.stream] = << >>
    BY <1>1, <2>1, <2>2, SubSeqEmpty DEF Progress
  <2> QED
    BY <2>3 DEF Running
<1>6. ASSUME NEW p \in parked, p.slot # kNoEventSlot, event[p.slot].stream = p.stream
      PROVE  event'[p.slot].after = 0
  <2>1. p.stream \in Stream /\ p.slot \in DOMAIN event
    BY <1>6 DEF TypeOK, Entry, SlotsOf, Slots
  <2>2. done[p.stream] >= event[p.slot].after /\ done[p.stream] \in Nat
    BY <1>1, <1>2, <1>6, <2>1 DEF Waited
  <2>3. event[p.slot] \in Mark
    BY <2>1, LenProperties DEF TypeOK
  <2>4. event[p.slot].after \in Nat
    BY <2>3 DEF Mark
  <2>5. event'[p.slot].after = Less(event[p.slot].after, done[p.stream])
    BY <1>1, <1>2, <1>6, <2>1, ProgressEffect DEF TypeOK
  <2> QED
    BY <2>2, <2>4, <2>5 DEF Less
<1> QED
  BY <1>3, <1>4, <1>5, <1>6

(* Entries given back leave the list with their event slots.               *)
LEMMA ReleaseType ==
  ASSUME TypeOK, NEW entries \in SUBSET pending, ReleaseEntries(entries),
         DOMAIN event' = DOMAIN event
  PROVE  /\ policy' \in ReusePolicy /\ pending' \subseteq Entry
         /\ SlotsOf(pending') \subseteq Slots' /\ freeSlots' \subseteq Slots'
BY DEF TypeOK, ReleaseEntries, SlotsOf, Slots

(* Retiring a block changes nothing but the list and the events.           *)
LEMMA RetireType ==
  ASSUME TypeOK, NEW block \in Block, NEW s \in Stream,
         NEW now \in BOOLEAN, Retire(block, s, now)
  PROVE  /\ policy' \in ReusePolicy /\ pending' \subseteq Entry
         /\ event' \in Seq(Mark) /\ queue' = queue
         /\ SlotsOf(pending') \subseteq Slots' /\ freeSlots' \subseteq Slots'
<1>1. event \in Seq(Mark) /\ Len(event) \in Nat /\ DOMAIN event = 1 .. Len(event)
  BY LenProperties DEF TypeOK
<1>2. Len(queue[s]) \in Nat
  BY LenProperties DEF TypeOK
<1>3. ASSUME NEW mark \in Mark
      PROVE  /\ Append(event, mark) \in Seq(Mark)
             /\ DOMAIN Append(event, mark) = 1 .. Len(event) + 1
  BY <1>1, AppendProperties, LenProperties
<1>4. Recorded(s) \in Mark /\ [stream |-> s, after |-> 0] \in Mark
  BY <1>2 DEF Recorded, Mark
<1>5. ASSUME NEW slot \in DOMAIN event, NEW mark \in Mark
      PROVE  /\ [event EXCEPT ![slot] = mark] \in Seq(Mark)
             /\ DOMAIN [event EXCEPT ![slot] = mark] = DOMAIN event
  BY <1>1, ExceptSeq
<1>6. ASSUME NEW slot \in Nat, Park(block, s, slot)
      PROVE  pending' \subseteq Entry /\ SlotsOf(pending') \subseteq SlotsOf(pending) \cup ({slot} \ {kNoEventSlot})
  BY <1>6 DEF Park, TypeOK, Entry, SlotsOf
<1>7. ASSUME CoarseRule(block, s, now)
      PROVE  pending' \subseteq Entry /\ SlotsOf(pending') \subseteq SlotsOf(pending)
  BY <1>6, <1>7 DEF CoarseRule, TypeOK, kNoEventSlot
<1>8. policy' \in ReusePolicy /\ queue' = queue
  BY DEF Retire, TypeOK
<1>9. CASE UNCHANGED <<event, freeSlots>> /\ (Park(block, s, kNoEventSlot) \/ CoarseRule(block, s, now))
  BY <1>1, <1>6, <1>7, <1>8, <1>9 DEF TypeOK, Slots, kNoEventSlot
<1>10. CASE /\ freeSlots = {}
            /\ \E mark \in Mark : event' = Append(event, mark)
            /\ freeSlots' \subseteq {Len(event) + 1}
            /\ Park(block, s, Len(event) + 1) \/ CoarseRule(block, s, now)
  <2>1. event' \in Seq(Mark) /\ DOMAIN event' = 1 .. Len(event) + 1
    BY <1>3, <1>10
  <2>2. Slots \subseteq Slots' /\ Len(event) + 1 \in Slots'
    BY <1>1, <2>1 DEF Slots
  <2>3. pending' \subseteq Entry /\ SlotsOf(pending') \subseteq SlotsOf(pending) \cup {Len(event) + 1}
    BY <1>1, <1>6, <1>7, <1>10
  <2> QED
    BY <1>8, <1>10, <2>1, <2>2, <2>3 DEF TypeOK
<1>11. CASE \E slot \in freeSlots : /\ event' = [event EXCEPT ![slot] = Recorded(s)]
                                   /\ freeSlots' = freeSlots \ {slot}
                                   /\ Park(block, s, slot)
  <2>1. PICK slot \in freeSlots : /\ event' = [event EXCEPT ![slot] = Recorded(s)]
                                  /\ freeSlots' = freeSlots \ {slot}
                                  /\ Park(block, s, slot)
    BY <1>11
  <2>2. slot \in DOMAIN event /\ slot \in Nat
    BY <1>1 DEF TypeOK, Slots
  <2>3. event' \in Seq(Mark) /\ Slots' = Slots
    BY <1>4, <1>5, <2>1, <2>2 DEF Slots
  <2>4. pending' \subseteq Entry /\ SlotsOf(pending') \subseteq SlotsOf(pending) \cup {slot}
    BY <1>6, <2>1, <2>2
  <2> QED
    BY <1>8, <2>1, <2>2, <2>3, <2>4 DEF TypeOK, Slots
<1> QED
  BY <1>4, <1>9, <1>10, <1>11 DEF Retire, ParkWithEvent, EventFails, CoarseRule

(* What a call to deallocate does to the list: the block stays out as a    *)
(* parked entry or, when its stream is idle, goes back at once.            *)
LEMMA RetireEffect ==
  ASSUME NEW block, NEW s, NEW now \in BOOLEAN, Retire(block, s, now)
  PROVE  \/ now /\ StreamIdle(s) /\ pending' = pending
         \/ /\ ~now
            /\ \E slot : pending' = pending \cup
                            {[block |-> block, stream |-> s, slot |-> slot]}
<1>1. CASE CoarseRule(block, s, now)
  BY <1>1 DEF CoarseRule, Park
<1>2. CASE ~now /\ \E slot : Park(block, s, slot)
  BY <1>2 DEF Park
<1> QED
  BY <1>1, <1>2 DEF Retire, ParkWithEvent, EventFails

(* A reclaim pass, with or without the wait for what is still parked, and  *)
(* a settle or trim let the device advance and give entries back.          *)
LEMMA GivesBackEffect ==
  ASSUME TypeOK, NEW s, GivesBack(s)
  PROVE  Advance /\ \E entries \in SUBSET pending : ReleaseEntries(entries)
<1>1. Reclaimable(s) \in SUBSET pending /\ StillParked(s) \in SUBSET pending
  BY DEF Reclaimable, StillParked
<1> QED
  BY <1>1, DrainEffect, UnchangedAdvances DEF GivesBack

LEMMA SettleEffect ==
  ASSUME TypeOK, Settle
  PROVE  Advance /\ ReleaseEntries(pending)
BY DrainEffect, SynchronizeAdvances DEF Settle

(* As far as the device and the list of parked blocks go, a step lets the  *)
(* device advance and gives entries back, or retires one block, or         *)
(* launches one kernel.                                                    *)
LEMMA StepsOnTheList ==
  ASSUME TypeOK, [Next]_poolVars
  PROVE  \/ Advance /\ UNCHANGED reuseVars
         \/ Advance /\ \E entries \in SUBSET pending : ReleaseEntries(entries)
         \/ \E h \in held, now \in BOOLEAN : Retire(h.block, h.home, now)
         \/ \E h \in held : Use(h)
BY GivesBackEffect, SettleEffect, UnchangedAdvances, SynchronizeAdvances,
   CompleteAdvances
   DEF Next, Allocate, Deallocate, DeallocateBypass, Move, Device, poolVars

-----------------------------------------------------------------------------
(* Types and ownership.                                                    *)

(* A launch puts the client's block at the end of its stream's queue.      *)
LEMMA UseEffect ==
  ASSUME TypeOK, NEW h \in held, Use(h)
  PROVE  /\ h.home \in Stream /\ Len(queue[h.home]) \in Nat
         /\ UNCHANGED <<event, reuseVars, held>>
         /\ queue' \in [Stream -> Seq(Block)]
         /\ queue' = [queue EXCEPT ![h.home] = Append(@, h.block)]
         /\ DOMAIN queue[h.home] = 1 .. Len(queue[h.home])
         /\ DOMAIN queue'[h.home] = 1 .. Len(queue[h.home]) + 1
         /\ queue'[h.home][Len(queue[h.home]) + 1] = h.block
         /\ \A i \in DOMAIN queue[h.home] : queue'[h.home][i] = queue[h.home][i]
         /\ \A s \in Stream : s # h.home => queue'[s] = queue[s]
<1> DEFINE b == h.block
           q == queue[h.home]
<1>1. h.home \in Stream /\ b \in Block /\ q \in Seq(Block)
  BY DEF TypeOK
<1>2. /\ queue' = [queue EXCEPT ![h.home] = Append(@, b)]
      /\ UNCHANGED <<event, reuseVars, held>>
  BY DEF Use
<1>3. queue'[h.home] = Append(q, b) /\ \A s \in Stream : s # h.home => queue'[s] = queue[s]
  BY <1>1, <1>2 DEF TypeOK
<1> HIDE DEF b, q
<1>4. /\ Append(q, b) \in Seq(Block) /\ Len(Append(q, b)) = Len(q) + 1
      /\ \A i \in 1 .. Len(q) : Append(q, b)[i] = q[i]
      /\ Append(q, b)[Len(q) + 1] = b
  BY <1>1, AppendProperties
<1>5. Len(q) \in Nat /\ DOMAIN q = 1 .. Len(q) /\ DOMAIN Append(q, b) = 1 .. Len(q) + 1
  BY <1>1, <1>4, LenProperties
<1>6. queue' \in [Stream -> Seq(Block)]
  BY <1>1, <1>2, <1>3, <1>4 DEF TypeOK, q
<1> QED
  BY <1>1, <1>2, <1>3, <1>4, <1>5, <1>6 DEF b, q
(* Every action preserves the types.                                       *)
LEMMA TypeStep ==
  ASSUME PoolAssumption, TypeOK, [Next]_poolVars
  PROVE  TypeOK'
<1>1. held' \subseteq [block : Block, home : Stream]
  <2>1. ASSUME NEW s \in AllocStream, Allocate(s)
        PROVE  held' \subseteq [block : Block, home : Stream]
    BY <2>1 DEF Allocate, TypeOK, PoolAssumption
  <2>2. ASSUME NEW h \in held, NEW s \in Stream, Move(h, s)
        PROVE  held' \subseteq [block : Block, home : Stream]
    <3>1. [h EXCEPT !.home = s] \in [block : Block, home : Stream]
      BY DEF TypeOK
    <3> QED
      BY <2>2, <3>1 DEF Move, TypeOK
  <2> QED
    BY <2>1, <2>2 DEF Next, Deallocate, DeallocateBypass, Settle, Use, Device,
       poolVars, TypeOK
<1>2. CASE Advance /\ UNCHANGED reuseVars
  BY <1>1, <1>2 DEF TypeOK, Advance, reuseVars, SlotsOf, Slots
<1>3. CASE Advance /\ \E entries \in SUBSET pending : ReleaseEntries(entries)
  BY <1>1, <1>3, ReleaseType DEF TypeOK, Advance
<1>4. ASSUME NEW h \in held, NEW now \in BOOLEAN, Retire(h.block, h.home, now)
      PROVE  TypeOK'
  <2>1. h.block \in Block /\ h.home \in Stream
    BY DEF TypeOK
  <2> QED
    BY <1>1, <1>4, <2>1, RetireType DEF TypeOK
<1>5. ASSUME NEW h \in held, Use(h)
      PROVE  TypeOK'
  BY <1>1, <1>5, UseEffect DEF TypeOK, reuseVars, SlotsOf, Slots
<1> QED
  BY <1>2, <1>3, <1>4, <1>5, StepsOnTheList

(* Every action preserves ownership.                                       *)
LEMMA ApartStep ==
  ASSUME PoolAssumption, TypeOK, OwnersApart, [Next]_poolVars
  PROVE  OwnersApart'
<1>1. ASSUME NEW s \in AllocStream, Allocate(s)
      PROVE  OwnersApart'
  <2>1. pending' \subseteq pending
    BY <1>1, GivesBackEffect DEF Allocate, ReleaseEntries
  <2>2. CASE UNCHANGED held
    BY <2>1, <2>2 DEF OwnersApart
  <2>3. ASSUME NEW b \in Block, Free(b), held' = held \cup {[block |-> b, home |-> s]}
        PROVE  OwnersApart'
    <3> DEFINE new == [block |-> b, home |-> s]
    <3>1. held' = held \cup {new} /\ new.block = b
      BY <2>3
    <3> HIDE DEF new
    <3>2. \A h \in held : ~MayOverlap(h.block, b) /\ ~MayOverlap(b, h.block)
      BY <2>3 DEF Free, PoolAssumption, TypeOK
    <3>3. \A p \in pending' : ~MayOverlap(b, p.block)
      BY <2>1, <2>3 DEF Free, PoolAssumption, TypeOK, Entry
    <3> QED
      BY <2>1, <2>3, <3>1, <3>2, <3>3 DEF OwnersApart, Free
  <2> QED
    BY <1>1, <2>2, <2>3 DEF Allocate
<1>2. ASSUME NEW h \in held, Deallocate(h)
      PROVE  OwnersApart'
  <2>1. held' = held \ {h}
    BY <1>2 DEF Deallocate
  <2>2. CASE pending' = pending
    BY <2>1, <2>2 DEF OwnersApart
  <2>3. ASSUME NEW slot,
               pending' = pending \cup
                 {[block |-> h.block, stream |-> h.home, slot |-> slot]}
        PROVE  OwnersApart'
    <3> DEFINE new == [block |-> h.block, stream |-> h.home, slot |-> slot]
    <3>1. pending' = pending \cup {new} /\ new.block = h.block
      BY <2>3
    <3> HIDE DEF new
    <3>2. \A p \in pending : ~MayOverlap(h.block, p.block) /\ ~MayOverlap(p.block, h.block)
      BY DEF OwnersApart, PoolAssumption, TypeOK, Entry
    <3> QED
      BY <2>1, <3>1, <3>2 DEF OwnersApart
  <2> QED
    BY <1>2, <2>2, <2>3, RetireEffect DEF Deallocate
<1>3. CASE held' \subseteq held /\ pending' \subseteq pending
  BY <1>3 DEF OwnersApart
<1>4. ASSUME NEW h \in held, NEW s \in Stream, Move(h, s)
      PROVE  OwnersApart'
  <2> DEFINE moved == [h EXCEPT !.home = s]
  <2>1. held' = (held \ {h}) \cup {moved} /\ moved.block = h.block
    BY <1>4 DEF Move, TypeOK
  <2>2. pending' = pending
    BY <1>4 DEF Move, reuseVars
  <2> HIDE DEF moved
  <2> QED
    BY <2>1, <2>2 DEF OwnersApart
<1>5. CASE Settle
  BY <1>3, <1>5, SettleEffect DEF Settle, ReleaseEntries
<1> QED
  BY <1>1, <1>2, <1>3, <1>4, <1>5 DEF Next, DeallocateBypass, Use, Device, poolVars, reuseVars

-----------------------------------------------------------------------------
(* Event slots.                                                            *)

(* Parking a block adds its event slot, if it has one, to those in use.    *)
LEMMA ParkedSlot ==
  ASSUME NEW block, NEW s, NEW slot, Park(block, s, slot)
  PROVE  SlotsOf(pending') = SlotsOf(pending) \cup ({slot} \ {kNoEventSlot})
<1> DEFINE new == [block |-> block, stream |-> s, slot |-> slot]
<1>1. pending' = pending \cup {new} /\ new.slot = slot
  BY DEF Park
<1> HIDE DEF new
<1> QED
  BY <1>1 DEF SlotsOf

(* Every action preserves the partition of the event slots.                *)
LEMMA SlotsStep ==
  ASSUME TypeOK, EventSlotsPartitioned, [Next]_poolVars
  PROVE  EventSlotsPartitioned'
<1>1. CASE UNCHANGED <<pending, freeSlots>> /\ DOMAIN event' = DOMAIN event
  BY <1>1 DEF EventSlotsPartitioned, SlotsOf, Slots
<1>2. CASE Advance /\ \E entries \in SUBSET pending : ReleaseEntries(entries)
  <2>1. PICK entries \in SUBSET pending : ReleaseEntries(entries)
    BY <1>2
  <2>2. Slots' = Slots
    BY <1>2 DEF Advance, Slots
  <2>3. /\ SlotsOf(pending) = SlotsOf(pending') \cup SlotsOf(entries)
        /\ SlotsOf(pending') \cap SlotsOf(entries) = {}
    BY <2>1 DEF ReleaseEntries, SlotsOf, EventSlotsPartitioned
  <2> QED
    BY <2>1, <2>2, <2>3 DEF EventSlotsPartitioned, ReleaseEntries
<1>3. ASSUME NEW h \in held, NEW now \in BOOLEAN,
             Retire(h.block, h.home, now)
      PROVE  EventSlotsPartitioned'
  <2>1. CASE UNCHANGED <<event, freeSlots>> /\ (Park(h.block, h.home, kNoEventSlot) \/ UNCHANGED pending)
    BY <2>1 DEF EventSlotsPartitioned, Park, SlotsOf, Slots
  <2>2. Len(event) \in Nat /\ DOMAIN event = 1 .. Len(event)
    BY LenProperties DEF TypeOK
  <2>3. CASE \E slot \in freeSlots : /\ event' = [event EXCEPT ![slot] = Recorded(h.home)]
                                    /\ freeSlots' = freeSlots \ {slot}
                                    /\ Park(h.block, h.home, slot)
    <3>1. PICK slot \in freeSlots : /\ event' = [event EXCEPT ![slot] = Recorded(h.home)]
                                    /\ freeSlots' = freeSlots \ {slot}
                                    /\ Park(h.block, h.home, slot)
      BY <2>3
    <3>2. slot \in Slots /\ slot # kNoEventSlot
      BY <2>2 DEF TypeOK, Slots, kNoEventSlot
    <3>3. Slots' = Slots /\ SlotsOf(pending') = SlotsOf(pending) \cup {slot}
      BY <3>1, <3>2, ParkedSlot, <2>2 DEF Slots
    <3>4. slot \notin SlotsOf(pending)
      BY DEF EventSlotsPartitioned
    <3>5. \A p, q \in pending' : p # q /\ p.slot # kNoEventSlot => p.slot # q.slot
      BY <3>1, <3>2, <3>4 DEF EventSlotsPartitioned, Park, SlotsOf
    <3> QED
      BY <3>1, <3>3, <3>4, <3>5 DEF EventSlotsPartitioned
  <2>4. CASE /\ freeSlots = {}
             /\ \E mark \in Mark : event' = Append(event, mark)
    <3>1. Slots' = Slots \cup {Len(event) + 1} /\ Len(event) + 1 \notin Slots
          /\ Len(event) + 1 # kNoEventSlot
      <4>1. Len(event') = Len(event) + 1 /\ event' \in Seq(Mark)
        BY <2>4, AppendProperties DEF TypeOK
      <4>2. DOMAIN event' = 1 .. Len(event')
        BY <4>1, LenProperties
      <4> QED
        BY <2>2, <4>1, <4>2 DEF Slots, kNoEventSlot
    <3>2. Len(event) + 1 \notin SlotsOf(pending) /\ SlotsOf(pending) = Slots
      BY <2>4, <3>1 DEF EventSlotsPartitioned
    <3>3. CASE Park(h.block, h.home, Len(event) + 1) /\ freeSlots' = {}
      <4>1. SlotsOf(pending') = SlotsOf(pending) \cup {Len(event) + 1}
        BY <3>1, <3>3, ParkedSlot
      <4>2. \A p, q \in pending' : p # q /\ p.slot # kNoEventSlot => p.slot # q.slot
        BY <3>1, <3>2, <3>3 DEF EventSlotsPartitioned, Park, SlotsOf
      <4> QED
        BY <3>1, <3>2, <3>3, <4>1, <4>2 DEF EventSlotsPartitioned
    <3>4. CASE /\ Park(h.block, h.home, kNoEventSlot) \/ UNCHANGED pending
               /\ freeSlots' = {Len(event) + 1}
      <4>1. SlotsOf(pending') = SlotsOf(pending)
        BY <3>4 DEF SlotsOf, Park
      <4>2. \A p, q \in pending' : p # q /\ p.slot # kNoEventSlot => p.slot # q.slot
        BY <3>4 DEF EventSlotsPartitioned, Park, kNoEventSlot
      <4> QED
        BY <3>1, <3>2, <3>4, <4>1, <4>2 DEF EventSlotsPartitioned
    <3> QED
      BY <1>3, <2>4, <3>3, <3>4 DEF Retire, CoarseRule, ParkWithEvent, EventFails
  <2>5. Recorded(h.home) \in Mark /\ [stream |-> h.home, after |-> 0] \in Mark
    <3>1. h.home \in Stream /\ Len(queue[h.home]) \in Nat
      BY LenProperties DEF TypeOK
    <3> QED
      BY <3>1 DEF Recorded, Mark
  <2> QED
    BY <1>3, <2>1, <2>3, <2>4, <2>5 DEF Retire, CoarseRule, ParkWithEvent, EventFails
<1> QED
  BY <1>1, <1>2, <1>3, StepsOnTheList, UseEffect DEF Advance, reuseVars

-----------------------------------------------------------------------------
(* Stream order.                                                           *)

(* While the device advances no stream starts anything.                    *)
LEMMA AdvanceRuns ==
  ASSUME Advance, NEW s \in Stream
  PROVE  Running(s)' \subseteq Running(s)
BY DEF Advance, Running

(* What a reclaim pass gives back for stream s has no kernel left, unless  *)
(* it was last used on s itself (rule 1) or was parked without an event    *)
(* under a policy that relies on events.                                   *)
LEMMA ReclaimProof ==
  ASSUME TypeOK, MarksCover, NEW s, NEW p \in Reclaimable(s), p.stream # s,
         policy = "kPerFreeEvent" => p.slot # kNoEventSlot
  PROVE  \A b \in Running(p.stream) : ~MayOverlap(b, p.block)
<1>1. p \in pending /\ p.stream \in Stream
  BY DEF Reclaimable, TypeOK, Entry
<1>2. CASE StreamIdle(p.stream)
  BY <1>2 DEF StreamIdle, Running
<1>3. CASE policy = "kPerFreeEvent" /\ event_completed(p.slot)
  <2>1. p.slot # kNoEventSlot /\ event[p.slot].after = 0
    BY <1>3 DEF event_completed, EventDone
  <2>2. \A i \in DOMAIN queue[p.stream] : i \in Nat \ {0}
    BY <1>1, LenProperties DEF TypeOK
  <2>3. \A i \in DOMAIN queue[p.stream] : ~MayOverlap(queue[p.stream][i], p.block)
    BY <1>1, <2>1, <2>2 DEF MarksCover
  <2> QED
    BY <2>3 DEF Running
<1> QED
  BY <1>2, <1>3 DEF Reclaimable, pending_reusable

(* Neither has a block that a drain has waited for.                        *)
LEMMA DrainProof ==
  ASSUME TypeOK, MarksCover, NEW parked \in SUBSET pending, Drain(parked),
         NEW p \in parked
  PROVE  \A b \in Running(p.stream)' : ~MayOverlap(b, p.block)
<1>1. Advance /\ p \in pending /\ p.stream \in Stream
  BY DrainEffect DEF TypeOK, Entry
<1>2. CASE p.slot = kNoEventSlot
  BY <1>2, DrainEffect
<1>3. CASE p.slot # kNoEventSlot
  <2>1. event[p.slot].stream = p.stream /\ p.slot \in DOMAIN event
    BY <1>1, <1>3 DEF MarksCover, TypeOK, SlotsOf, Slots
  <2>2. event'[p.slot].after = 0
    BY <1>3, <2>1, DrainEffect
  <2>3. ASSUME NEW i \in DOMAIN queue'[p.stream], MayOverlap(queue'[p.stream][i], p.block)
        PROVE  FALSE
    <3>1. PICK j \in DOMAIN queue[p.stream] :
            /\ queue'[p.stream][i] = queue[p.stream][j]
            /\ \A e \in DOMAIN event :
                 event[e].stream = p.stream /\ j <= event[e].after
                   => i <= event'[e].after
      BY <1>1, <2>3 DEF Advance
    <3>2. i <= 0
      BY <1>1, <1>3, <2>1, <2>2, <2>3, <3>1 DEF MarksCover
    <3>3. i \in Nat \ {0}
      BY <1>1, LenProperties DEF Advance
    <3> QED
      BY <3>2, <3>3
  <2> QED
    BY <2>3 DEF Running
<1> QED
  BY <1>2, <1>3

(* While the device advances events keep covering the kernels before them. *)
LEMMA AdvanceMarks ==
  ASSUME TypeOK, MarksCover, Advance, pending' \subseteq pending
  PROVE  MarksCover'
<1> SUFFICES ASSUME NEW p \in pending', p.slot # kNoEventSlot
             PROVE  /\ event'[p.slot].stream = p.stream
                    /\ \A i \in DOMAIN queue'[p.stream] :
                         MayOverlap(queue'[p.stream][i], p.block) => i <= event'[p.slot].after
  BY DEF MarksCover
<1>1. event[p.slot].stream = p.stream /\ p.slot \in DOMAIN event /\ p.stream \in Stream
  BY DEF MarksCover, TypeOK, SlotsOf, Slots, Entry
<1>2. ASSUME NEW i \in DOMAIN queue'[p.stream], MayOverlap(queue'[p.stream][i], p.block)
      PROVE  i <= event'[p.slot].after
  <2>1. PICK j \in DOMAIN queue[p.stream] :
          /\ queue'[p.stream][i] = queue[p.stream][j]
          /\ \A e \in DOMAIN event :
               event[e].stream = p.stream /\ j <= event[e].after
                 => i <= event'[e].after
    BY <1>1, <1>2 DEF Advance
  <2> QED
    BY <1>1, <1>2, <2>1 DEF MarksCover
<1> QED
  BY <1>1, <1>2 DEF Advance

(* A block is parked without an event, or with one of its own that was     *)
(* recorded just now; the events of other entries are left alone.          *)
ParkedAlone(block, s) ==
  \E slot :
    /\ pending' = pending \cup {[block |-> block, stream |-> s, slot |-> slot]}
    /\ slot # kNoEventSlot => slot \notin SlotsOf(pending) /\ event'[slot] = Recorded(s)
    /\ \A e \in DOMAIN event : e # slot => event'[e] = event[e]

(* A retired block comes back idle or is parked once.                      *)
LEMMA RetireParks ==
  ASSUME TypeOK, EventSlotsPartitioned, NEW block, NEW s \in Stream,
         NEW now \in BOOLEAN, Retire(block, s, now)
  PROVE  \/ /\ now /\ StreamIdle(s) /\ UNCHANGED pending
            /\ \A e \in DOMAIN event : event'[e] = event[e]
         \/ ~now /\ ParkedAlone(block, s)
<1>1. event \in Seq(Mark) /\ Len(event) \in Nat /\ DOMAIN event = 1 .. Len(event)
  BY LenProperties DEF TypeOK
<1>2. Len(queue[s]) \in Nat
  BY LenProperties DEF TypeOK
<1>3. Recorded(s) \in Mark /\ [stream |-> s, after |-> 0] \in Mark
  BY <1>2 DEF Recorded, Mark
<1>4. ASSUME NEW mark \in Mark, event' = Append(event, mark)
      PROVE  /\ event'[Len(event) + 1] = mark
             /\ \A e \in DOMAIN event : event'[e] = event[e]
  BY <1>1, <1>4, AppendProperties
<1>5. CASE /\ CoarseRule(block, s, now)
           /\ \A e \in DOMAIN event : event'[e] = event[e]
  BY <1>5 DEF CoarseRule, Park, ParkedAlone
<1>6. CASE ~now /\ ParkWithEvent(block, s)
  <2>1. CASE \E slot \in freeSlots : /\ event' = [event EXCEPT ![slot] = Recorded(s)]
                                    /\ Park(block, s, slot)
    <3>1. PICK slot \in freeSlots : /\ event' = [event EXCEPT ![slot] = Recorded(s)]
                                    /\ Park(block, s, slot)
      BY <2>1
    <3>2. slot \in DOMAIN event /\ slot # kNoEventSlot /\ slot \notin SlotsOf(pending)
      BY <1>1 DEF TypeOK, Slots, EventSlotsPartitioned, kNoEventSlot
    <3> QED
      BY <1>6, <3>1, <3>2 DEF Park, ParkedAlone
  <2>2. CASE event' = Append(event, Recorded(s)) /\ Park(block, s, Len(event) + 1)
    <3>1. /\ Len(event) + 1 # kNoEventSlot /\ Len(event) + 1 \notin SlotsOf(pending)
          /\ event'[Len(event) + 1] = Recorded(s)
          /\ \A e \in DOMAIN event : event'[e] = event[e]
      BY <1>1, <1>3, <1>4, <2>2 DEF TypeOK, Slots, kNoEventSlot
    <3> QED
      BY <1>6, <2>2, <3>1 DEF Park, ParkedAlone
  <2> QED
    BY <1>6, <2>1, <2>2 DEF ParkWithEvent
<1>7. CASE policy = "kSameStreamOnly" /\ ~now /\ Park(block, s, kNoEventSlot) /\ UNCHANGED event
  BY <1>7 DEF Park, ParkedAlone
<1>8. CASE EventFails(block, s, now)
  <2>1. \A e \in DOMAIN event : event'[e] = event[e]
    BY <1>3, <1>4, <1>8 DEF EventFails
  <2> QED
    BY <1>5, <1>8, <2>1 DEF EventFails
<1> QED
  BY <1>5, <1>6, <1>7, <1>8 DEF Retire

(* Where the policy relies on events and these do not fail, a block is not *)
(* parked without one.                                                     *)
LEMMA ParkedWithEvent ==
  ASSUME TypeOK, EventFaults = FALSE, policy = "kPerFreeEvent", NEW block, NEW s,
         NEW now \in BOOLEAN, Retire(block, s, now)
  PROVE  \A p \in pending' : p \in pending \/ p.slot # kNoEventSlot
<1>1. ParkWithEvent(block, s)
  BY DEF Retire, EventFails
<1>2. Len(event) + 1 # kNoEventSlot /\ kNoEventSlot \notin freeSlots
  <2>1. Len(event) \in Nat /\ DOMAIN event = 1 .. Len(event)
    BY LenProperties DEF TypeOK
  <2> QED
    BY <2>1 DEF TypeOK, Slots, kNoEventSlot
<1> QED
  BY <1>1, <1>2 DEF ParkWithEvent, Park

(* Every action leaves the events of parked blocks behind the kernels on   *)
(* them, for any number of allocating streams and whatever events fail:    *)
(* nobody can launch a kernel on bytes that are parked.                    *)
LEMMA MarksStep ==
  ASSUME PoolAssumption, TypeOK, OwnersApart, EventSlotsPartitioned, MarksCover,
         [Next]_poolVars
  PROVE  MarksCover'
<1>1. ASSUME Advance, pending' \subseteq pending
      PROVE  MarksCover'
  BY <1>1, AdvanceMarks
<1>2. ASSUME NEW h \in held, NEW now \in BOOLEAN, Retire(h.block, h.home, now)
      PROVE  MarksCover'
  <2>1. h.home \in Stream /\ queue' = queue
    BY <1>2 DEF TypeOK, Retire
  <2>2. \A p \in pending : p.slot # kNoEventSlot => p.slot \in DOMAIN event
    BY DEF TypeOK, SlotsOf, Slots
  <2>3. CASE UNCHANGED pending /\ \A e \in DOMAIN event : event'[e] = event[e]
    BY <2>1, <2>2, <2>3 DEF MarksCover
  <2>4. CASE ParkedAlone(h.block, h.home)
    <3>1. PICK slot :
            /\ pending' = pending \cup
                            {[block |-> h.block, stream |-> h.home, slot |-> slot]}
            /\ slot # kNoEventSlot => /\ slot \notin SlotsOf(pending)
                                      /\ event'[slot] = Recorded(h.home)
            /\ \A e \in DOMAIN event : e # slot => event'[e] = event[e]
      BY <2>4 DEF ParkedAlone
    <3>2. ASSUME NEW p \in pending, p.slot # kNoEventSlot
          PROVE  /\ event'[p.slot].stream = p.stream
                 /\ \A i \in DOMAIN queue'[p.stream] :
                      MayOverlap(queue'[p.stream][i], p.block) => i <= event'[p.slot].after
      <4>1. event'[p.slot] = event[p.slot]
        BY <2>2, <3>1, <3>2 DEF SlotsOf
      <4> QED
        BY <2>1, <3>2, <4>1 DEF MarksCover
    <3>3. ASSUME slot # kNoEventSlot
          PROVE  /\ event'[slot].stream = h.home
                 /\ \A i \in DOMAIN queue'[h.home] : i <= event'[slot].after
      <4>1. \A i \in DOMAIN queue[h.home] : i <= Len(queue[h.home])
        BY <2>1, LenProperties DEF TypeOK
      <4> QED
        BY <2>1, <3>1, <3>3, <4>1 DEF Recorded
    <3> DEFINE new == [block |-> h.block, stream |-> h.home, slot |-> slot]
    <3>4. new.stream = h.home /\ new.slot = slot /\ pending' = pending \cup {new}
      BY <3>1
    <3> HIDE DEF new
    <3> QED
      BY <3>2, <3>3, <3>4 DEF MarksCover
  <2> QED
    BY <1>2, <2>1, <2>3, <2>4, RetireParks
<1>3. ASSUME NEW h \in held, Use(h)
      PROVE  MarksCover'
  <2>1. UNCHANGED <<event, pending>>
    BY <1>3, UseEffect DEF reuseVars
  <2> SUFFICES ASSUME NEW p \in pending, p.slot # kNoEventSlot,
                      NEW i \in DOMAIN queue'[p.stream],
                      MayOverlap(queue'[p.stream][i], p.block)
               PROVE  i \in DOMAIN queue[p.stream] /\ queue'[p.stream][i] = queue[p.stream][i]
    BY <2>1 DEF MarksCover
  <2>2. p.stream \in Stream /\ ~MayOverlap(h.block, p.block)
    BY DEF TypeOK, Entry, OwnersApart
  <2>3. CASE p.stream # h.home
    BY <1>3, <2>2, <2>3, UseEffect
  <2>4. CASE p.stream = h.home
    <3>1. i # Len(queue[h.home]) + 1
      BY <1>3, <2>2, <2>4, UseEffect
    <3>2. i \in DOMAIN queue[h.home]
      BY <1>3, <2>4, <3>1, UseEffect
    <3> QED
      BY <1>3, <2>4, <3>2, UseEffect
  <2> QED
    BY <2>3, <2>4
<1> QED
  BY <1>1, <1>2, <1>3, StepsOnTheList DEF ReleaseEntries, reuseVars

(* What a reclaim pass on behalf of s gives back has no kernel left, unless *)
(* it was last used on s itself.                                           *)
LEMMA GivenBackWithProof ==
  ASSUME TypeOK, MarksCover, NEW s, GivesBack(s), NEW p \in pending \ pending',
         policy = "kPerFreeEvent" => p.slot # kNoEventSlot
  PROVE  p.stream = s \/ \A b \in Running(p.stream)' : ~MayOverlap(b, p.block)
<1> SUFFICES ASSUME p.stream # s
             PROVE  \A b \in Running(p.stream)' : ~MayOverlap(b, p.block)
  OBVIOUS
<1>1. Advance /\ p.stream \in Stream
  BY GivesBackEffect DEF TypeOK, Entry
<1>2. CASE p \in Reclaimable(s)
  BY <1>1, <1>2, ReclaimProof, AdvanceRuns
<1>3. CASE Drain(StillParked(s)) /\ p \notin Reclaimable(s)
  <2>1. p \in StillParked(s) /\ StillParked(s) \in SUBSET pending
    BY <1>3 DEF StillParked
  <2> QED
    BY <1>3, <2>1, DrainProof
<1> QED
  BY <1>2, <1>3 DEF GivesBack, ReleaseEntries

LEMMA SettledWithProof ==
  ASSUME TypeOK, MarksCover, Settle, NEW p \in pending
  PROVE  \A b \in Running(p.stream)' : ~MayOverlap(b, p.block)
BY DrainProof, SynchronizeAdvances DEF Settle, TypeOK, Entry

(* Every entry that leaves the list is accounted for.                      *)
LEMMA LeavesWithProof ==
  ASSUME TypeOK, MarksCover, [Next]_poolVars, NEW p \in pending \ pending'
  PROVE  \/ policy = "kPerFreeEvent" /\ p.slot = kNoEventSlot
         \/ \A b \in Running(p.stream)' : ~MayOverlap(b, p.block)
         \/ p.stream \in AllocStream /\ Allocate(p.stream)
<1>1. ASSUME NEW s \in AllocStream, Allocate(s)
      PROVE  \/ policy = "kPerFreeEvent" /\ p.slot = kNoEventSlot
             \/ \A b \in Running(p.stream)' : ~MayOverlap(b, p.block)
             \/ p.stream = s
  BY <1>1, GivenBackWithProof DEF Allocate
<1>2. ASSUME NEW h \in held, Deallocate(h) PROVE FALSE
  <2>1. pending \subseteq pending'
    BY <1>2, RetireEffect DEF Deallocate
  <2> QED
    BY <2>1
<1> QED
  BY <1>1, <1>2, SettledWithProof
     DEF Next, DeallocateBypass, Use, Move, Device, poolVars, reuseVars

(* The policy never changes, and while events do not fail every block that *)
(* needs an event has one.                                                 *)
LEMMA CoverStep ==
  ASSUME PoolAssumption, EventFaults = FALSE, TypeOK, OwnersApart,
         EventSlotsPartitioned, EventsCover, [Next]_poolVars
  PROVE  EventsCover'
<1>1. MarksCover'
  BY MarksStep DEF EventsCover
<1>2. policy' = policy
  BY StepsOnTheList DEF ReleaseEntries, Retire, Use, reuseVars
<1>3. ASSUME NEW p \in pending', policy = "kPerFreeEvent"
      PROVE  p \in pending \/ p.slot # kNoEventSlot
  <2>1. CASE pending' \subseteq pending
    BY <2>1
  <2>2. CASE \E h \in held, now \in BOOLEAN : Retire(h.block, h.home, now)
    BY <1>3, <2>2, ParkedWithEvent
  <2> QED
    BY <2>1, <2>2, StepsOnTheList DEF ReleaseEntries, Use, reuseVars
<1> QED
  BY <1>1, <1>2, <1>3 DEF EventsCover

(* Stream order needs a client that allocates for one stream only, and     *)
(* events that do not fail.                                                *)
OneStream == (\A s, t \in AllocStream : s = t) /\ EventFaults = FALSE

(* Entries without kernels of foreign streams are given back, and at most  *)
(* one block is handed out, on the allocating stream.                      *)
LEMMA GiveBackSharing ==
  ASSUME PoolAssumption, OneStream, TypeOK, TypeOK', OwnersApart, OwnersApart',
         SharingInv, EventsCover', Advance, pending' \subseteq pending,
         \A p \in pending \ pending' :
           \/ p.stream \in AllocStream
           \/ \A b \in Running(p.stream)' : ~MayOverlap(b, p.block),
         held \subseteq held', \A h \in held' \ held : h.home \in AllocStream
  PROVE  SharingInv'
<1>1. ASSUME NEW s \in Stream \ AllocStream, NEW b \in Running(s)'
      PROVE  b \in {h.block : h \in held} \cup {p.block : p \in pending'}
  <2>1. b \in Running(s) /\ b \in Owned
    BY AdvanceRuns DEF SharingInv, ForeignKernelsHeld
  <2>2. ASSUME NEW p \in pending \ pending' PROVE b # p.block
    BY <1>1, <2>1 DEF OwnersApart, SharingInv, ParkedOnItsStream
  <2> QED
    BY <2>1, <2>2 DEF Owned
<1>2. NoUnorderedSharing'
  <2> SUFFICES ASSUME NEW h \in held', NEW s \in Stream, s # h.home,
                      NEW b \in Running(s)'
               PROVE  ~MayOverlap(b, h.block)
    BY DEF NoUnorderedSharing
  <2>1. CASE h \in held
    BY <2>1, AdvanceRuns DEF SharingInv, NoUnorderedSharing
  <2>2. CASE h \notin held
    <3>1. s \notin AllocStream
      BY <2>2 DEF OneStream
    <3>2. b \in {g.block : g \in held} \cup {p.block : p \in pending'}
      BY <1>1, <3>1
    <3>3. ASSUME NEW g \in held, b = g.block PROVE ~MayOverlap(b, h.block)
      BY <2>2, <3>3 DEF OwnersApart
    <3>4. ASSUME NEW p \in pending', b = p.block PROVE ~MayOverlap(b, h.block)
      <4>1. h.block \in Block /\ p.block \in Block /\ ~MayOverlap(h.block, p.block)
        BY DEF OwnersApart, TypeOK, Entry
      <4> QED
        BY <3>4, <4>1 DEF PoolAssumption
    <3> QED
      BY <3>2, <3>3, <3>4
  <2> QED
    BY <2>1, <2>2
<1>3. ParkedOnItsStream'
  BY AdvanceRuns DEF SharingInv, ParkedOnItsStream
<1>4. ForeignKernelsHeld'
  BY <1>1 DEF ForeignKernelsHeld, Owned
<1> QED
  BY <1>2, <1>3, <1>4 DEF SharingInv

(* Every action preserves the invariant.                                   *)
LEMMA SharingStep ==
  ASSUME PoolAssumption, OneStream, TypeOK, OwnersApart, EventSlotsPartitioned,
         SharingInv, [Next]_poolVars
  PROVE  SharingInv'
<1>1. TypeOK' /\ OwnersApart' /\ EventsCover'
  BY TypeStep, ApartStep, CoverStep DEF OneStream, SharingInv
<1>2. ASSUME NEW s \in AllocStream, Allocate(s)
      PROVE  SharingInv'
  <2>1. Advance /\ pending' \subseteq pending
    BY <1>2, GivesBackEffect DEF Allocate, ReleaseEntries
  <2>2. ASSUME NEW p \in pending \ pending'
        PROVE  \/ p.stream \in AllocStream
               \/ \A b \in Running(p.stream)' : ~MayOverlap(b, p.block)
    BY <1>2, GivenBackWithProof DEF Allocate, SharingInv, EventsCover
  <2>3. held \subseteq held' /\ \A h \in held' \ held : h.home \in AllocStream
    BY <1>2 DEF Allocate
  <2> QED
    BY <1>1, <2>1, <2>2, <2>3, GiveBackSharing
<1>3. CASE Settle
  <2>1. Advance /\ pending' \subseteq pending /\ held' = held
    BY <1>3, SettleEffect DEF ReleaseEntries, Settle
  <2>2. \A p \in pending : \A b \in Running(p.stream)' : ~MayOverlap(b, p.block)
    BY <1>3, SettledWithProof DEF SharingInv, EventsCover
  <2> QED
    BY <1>1, <2>1, <2>2, GiveBackSharing
<1>4. ASSUME Advance, UNCHANGED <<reuseVars, held>>
      PROVE  SharingInv'
  <2>1. pending' \subseteq pending /\ pending \ pending' = {} /\ held \subseteq held'
        /\ held' \ held = {}
    BY <1>4 DEF reuseVars
  <2> QED
    BY <1>1, <1>4, <2>1, GiveBackSharing
<1>5. ASSUME NEW h \in held, Deallocate(h)
      PROVE  SharingInv'
  <2>1. PICK now \in BOOLEAN : Retire(h.block, h.home, now)
    BY <1>5 DEF Deallocate
  <2>2. held' = held \ {h} /\ h.home \in Stream /\ queue' = queue
    BY <1>5, <2>1 DEF Deallocate, TypeOK, Retire
  <2>3. \A s \in Stream : Running(s)' = Running(s)
    BY <2>2 DEF Running
  <2>4. NoUnorderedSharing'
    BY <2>2, <2>3 DEF SharingInv, NoUnorderedSharing
  <2>5. CASE StreamIdle(h.home) /\ UNCHANGED pending
    <3>1. ASSUME NEW s \in Stream \ AllocStream PROVE h.block \notin Running(s)
      <4>1. CASE s = h.home
        BY <2>5, <4>1 DEF StreamIdle, Running
      <4>2. CASE s # h.home
        BY <4>2 DEF SharingInv, NoUnorderedSharing, OwnersApart
      <4> QED
        BY <4>1, <4>2
    <3>2. Owned \subseteq Owned' \cup {h.block}
      BY <2>2, <2>5 DEF Owned
    <3>3. ForeignKernelsHeld'
      BY <2>3, <3>1, <3>2 DEF SharingInv, ForeignKernelsHeld
    <3>4. ParkedOnItsStream'
      BY <2>3, <2>5 DEF SharingInv, ParkedOnItsStream
    <3> QED
      BY <1>1, <2>4, <3>3, <3>4 DEF SharingInv
  <2>6. ASSUME NEW slot, pending' = pending \cup
                          {[block |-> h.block, stream |-> h.home, slot |-> slot]}
        PROVE  SharingInv'
    <3> DEFINE new == [block |-> h.block, stream |-> h.home, slot |-> slot]
    <3>1. pending' = pending \cup {new} /\ new.block = h.block /\ new.stream = h.home
      BY <2>6
    <3> HIDE DEF new
    <3>2. Owned \subseteq Owned'
      BY <2>2, <3>1 DEF Owned
    <3>3. ForeignKernelsHeld'
      BY <2>3, <3>2 DEF SharingInv, ForeignKernelsHeld
    <3>4. ParkedOnItsStream'
      BY <2>3, <3>1 DEF SharingInv, ParkedOnItsStream, NoUnorderedSharing
    <3> QED
      BY <1>1, <2>4, <3>3, <3>4 DEF SharingInv
  <2> QED
    BY <2>1, <2>5, <2>6, RetireEffect
<1>6. ASSUME NEW h \in held, DeallocateBypass(h)
      PROVE  SharingInv'
  <2>1. \A s \in Stream : Running(s)' = {}
    BY <1>6, SynchronizeAdvances DEF DeallocateBypass
  <2> QED
    BY <1>1, <2>1 DEF SharingInv, NoUnorderedSharing, ParkedOnItsStream, ForeignKernelsHeld
<1>7. ASSUME NEW h \in held, Use(h)
      PROVE  SharingInv'
  <2>1. UNCHANGED <<pending, held>> /\ h.block \in Owned
    BY <1>7 DEF Use, reuseVars, Owned
  <2>2. ASSUME NEW s \in Stream, NEW b \in Running(s)'
        PROVE  b \in Running(s) \/ (s = h.home /\ b = h.block)
    <3>1. PICK i \in DOMAIN queue'[s] : b = queue'[s][i]
      BY DEF Running
    <3>2. CASE i \in DOMAIN queue[s] /\ queue'[s][i] = queue[s][i]
      BY <3>1, <3>2 DEF Running
    <3>3. CASE s = h.home /\ i = Len(queue[s]) + 1
      BY <1>7, <3>1, <3>3, UseEffect
    <3>4. CASE s = h.home /\ i # Len(queue[s]) + 1
      <4>1. i \in DOMAIN queue[s]
        BY <1>7, <3>1, <3>4, UseEffect
      <4> QED
        BY <1>7, <3>2, <3>4, <4>1, UseEffect
    <3>5. CASE s # h.home
      BY <1>7, <3>1, <3>2, <3>5, UseEffect
    <3> QED
      BY <3>3, <3>4, <3>5
  <2>3. NoUnorderedSharing'
    BY <2>1, <2>2 DEF SharingInv, NoUnorderedSharing, OwnersApart
  <2>4. ParkedOnItsStream'
    BY <2>1, <2>2 DEF SharingInv, ParkedOnItsStream, OwnersApart
  <2>5. ForeignKernelsHeld'
    BY <2>1, <2>2 DEF SharingInv, ForeignKernelsHeld, Owned
  <2> QED
    BY <1>1, <2>3, <2>4, <2>5 DEF SharingInv
<1>8. ASSUME NEW h \in held, NEW t \in Stream, Move(h, t)
      PROVE  SharingInv'
  <2> DEFINE moved == [h EXCEPT !.home = t]
  <2>1. /\ held' = (held \ {h}) \cup {moved} /\ moved.block = h.block /\ moved.home = t
        /\ UNCHANGED <<queue, pending>> /\ Running(h.home) = {}
    BY <1>8 DEF Move, TypeOK, StreamIdle, Running, deviceVars, reuseVars
  <2> HIDE DEF moved
  <2>2. \A s \in Stream : Running(s)' = Running(s)
    BY <2>1 DEF Running
  <2>3. NoUnorderedSharing'
    BY <2>1, <2>2 DEF SharingInv, NoUnorderedSharing
  <2>4. ParkedOnItsStream'
    BY <2>1, <2>2 DEF SharingInv, ParkedOnItsStream
  <2>5. ForeignKernelsHeld'
    BY <2>1, <2>2 DEF SharingInv, ForeignKernelsHeld, Owned
  <2> QED
    BY <1>1, <2>3, <2>4, <2>5 DEF SharingInv
<1> QED
  BY <1>2, <1>3, <1>4, <1>5, <1>6, <1>7, <1>8, CompleteAdvances, UnchangedAdvances
     DEF Next, Device, poolVars

-----------------------------------------------------------------------------
(* The invariants of the specification.                                    *)

(* At the start nothing is held, parked or running.                        *)
LEMMA InitHolds ==
  ASSUME Init
  PROVE  TypeOK /\ OwnersApart /\ EventSlotsPartitioned /\ SharingInv
<1>1. TypeOK
  BY DEF Init, DeviceInit, ReuseInit, TypeOK, SlotsOf, Slots
<1>2. OwnersApart /\ EventSlotsPartitioned
  BY DEF Init, DeviceInit, ReuseInit, OwnersApart, EventSlotsPartitioned, SlotsOf, Slots
<1>3. SharingInv
  BY DEF Init, DeviceInit, ReuseInit, SharingInv, NoUnorderedSharing,
     ParkedOnItsStream, ForeignKernelsHeld, EventsCover, MarksCover, Running
<1> QED
  BY <1>1, <1>2, <1>3

(* No two owners share a byte, event slots are partitioned, and events     *)
(* stay behind the kernels they are to cover, for any number of allocating *)
(* streams and whatever events fail.                                       *)
THEOREM OwnersStayApart ==
  ASSUME PoolAssumption
  PROVE  Spec => [](TypeOK /\ OwnersApart /\ EventSlotsPartitioned /\ MarksCover)
<1>1. Init => TypeOK /\ OwnersApart /\ EventSlotsPartitioned /\ MarksCover
  BY InitHolds DEF SharingInv, EventsCover
<1>2. TypeOK /\ OwnersApart /\ EventSlotsPartitioned /\ MarksCover /\ [Next]_poolVars
        => (TypeOK /\ OwnersApart /\ EventSlotsPartitioned /\ MarksCover)'
  BY TypeStep, ApartStep, SlotsStep, MarksStep
<1> QED
  BY <1>1, <1>2, PTL DEF Spec

(* No parked block is given to another stream while a kernel of its last   *)
(* stream is left on it.                                                   *)
THEOREM ReclaimIsProved ==
  ASSUME PoolAssumption
  PROVE  Spec => ReclaimHasProof
<1>1. TypeOK /\ MarksCover /\ [Next]_poolVars
        => [\A p \in pending \ pending' :
             \/ policy = "kPerFreeEvent" /\ p.slot = kNoEventSlot
             \/ \A b \in Running(p.stream)' : ~MayOverlap(b, p.block)
             \/ p.stream \in AllocStream /\ Allocate(p.stream)
           ]_poolVars
  BY LeavesWithProof
<1> QED
  BY <1>1, OwnersStayApart, PTL DEF Spec, ReclaimHasProof

(* For one allocating stream: each stream works on what it holds, on what  *)
(* it parked last or, if it is the allocating one, on free memory.         *)
THEOREM SharingIsKept ==
  ASSUME PoolAssumption, OneStream
  PROVE  Spec => []SharingInv
<1>1. Init => SharingInv
  BY InitHolds
<1>2. TypeOK /\ OwnersApart /\ EventSlotsPartitioned /\ SharingInv /\ [Next]_poolVars
        => SharingInv'
  BY SharingStep
<1> QED
  BY <1>1, <1>2, OwnersStayApart, PTL DEF Spec

-----------------------------------------------------------------------------
(* The refinement.                                                         *)

(* The streams go on by some number of kernels each.                       *)
LEMMA ProgressIsProgress ==
  ASSUME TypeOK, NEW done \in [Stream -> Nat],
         \A s \in Stream : done[s] <= Len(queue[s]), Progress(done)
  PROVE  Pool!Progresses
<1> SUFFICES ASSUME NEW s \in Stream
             PROVE  \E n \in 0 .. Len(queue[s]) :
                      queue'[s] = SubSeq(queue[s], n + 1, Len(queue[s]))
  BY DEF Pool!Progresses
<1>1. Len(queue[s]) \in Nat
  BY LenProperties DEF TypeOK
<1>2. done[s] \in 0 .. Len(queue[s])
  BY <1>1
<1>3. queue'[s] = SubSeq(queue[s], done[s] + 1, Len(queue[s]))
  BY DEF Progress
<1> QED
  BY <1>2, <1>3

(* Possibly by none.                                                       *)
LEMMA UnchangedIsProgress ==
  ASSUME TypeOK, UNCHANGED queue
  PROVE  Pool!Progresses
<1> SUFFICES ASSUME NEW s \in Stream
             PROVE  \E n \in 0 .. Len(queue[s]) :
                      queue[s] = SubSeq(queue[s], n + 1, Len(queue[s]))
  BY DEF Pool!Progresses
<1> DEFINE q == queue[s]
<1>1. q \in Seq(Block) /\ Len(q) \in Nat
  BY LenProperties DEF TypeOK
<1>2. q = SubSeq(q, 0 + 1, Len(q))
  BY <1>1, SubSeqFull
<1> QED
  BY <1>1, <1>2

LEMMA CompleteIsProgress ==
  ASSUME TypeOK, NEW s \in Stream, Complete(s)
  PROVE  Pool!Progresses
<1> DEFINE done == [t \in Stream |-> IF t = s THEN 1 ELSE 0]
<1>1. ASSUME NEW t \in Stream PROVE done[t] <= Len(queue[t])
  <2>1. queue[t] \in Seq(Block) /\ Len(queue[t]) \in Nat
    BY LenProperties DEF TypeOK
  <2>2. t = s => Len(queue[t]) # 0
    BY <2>1, EmptySeq DEF Complete
  <2> QED
    BY <2>1, <2>2
<1>2. done \in [Stream -> Nat] /\ Progress(done)
  BY DEF Complete
<1> HIDE DEF done
<1> QED
  BY <1>1, <1>2, ProgressIsProgress

LEMMA SynchronizeIsProgress ==
  ASSUME TypeOK, DeviceSynchronize
  PROVE  Pool!Progresses
<1> DEFINE done == [s \in Stream |-> Len(queue[s])]
<1>1. \A s \in Stream : Len(queue[s]) \in Nat
  BY LenProperties DEF TypeOK
<1>2. /\ done \in [Stream -> Nat] /\ Progress(done)
      /\ \A s \in Stream : done[s] <= Len(queue[s])
  BY <1>1 DEF DeviceSynchronize
<1> HIDE DEF done
<1> QED
  BY <1>2, ProgressIsProgress

LEMMA DrainIsProgress ==
  ASSUME TypeOK, NEW parked, Drain(parked)
  PROVE  Pool!Progresses
<1>1. PICK done \in [Stream -> 0 .. MaxInFlight] :
        (\A s \in Stream : done[s] <= Len(queue[s])) /\ Progress(done)
  BY DEF Drain
<1>2. done \in [Stream -> Nat]
  BY MaxInFlightAssumption
<1> QED
  BY <1>1, <1>2, ProgressIsProgress

(* Handing out a block is an allocation of the pool: no client holds any   *)
(* of it, and nothing but the stream that gets it works on it.             *)
LEMMA HandIsAlloc ==
  ASSUME OwnersApart', NoUnorderedSharing', Pool!Progresses, NEW h,
         h.home \in AllocStream, held' = held \cup {h}, h \notin held
  PROVE  Pool!Alloc
<1>1. \A g \in held : ~MayOverlap(g.block, h.block)
  BY DEF OwnersApart
<1>2. ASSUME NEW s \in Stream \ {h.home}, NEW i \in DOMAIN queue'[s]
      PROVE  ~MayOverlap(queue'[s][i], h.block)
  BY <1>2 DEF NoUnorderedSharing, Running
<1>3. (~Pool!BusyElsewhere(h.block, h.home))'
  BY <1>2 DEF Pool!BusyElsewhere
<1> QED
  BY <1>1, <1>3 DEF Pool!Alloc

(* Each call, launch and completion is a step of the pool, or no step.     *)
LEMMA StepRefines ==
  ASSUME TypeOK, OwnersApart', NoUnorderedSharing', [Next]_poolVars
  PROVE  [Pool!Next]_Pool!poolVars
<1>1. CASE Pool!Progresses /\ UNCHANGED held
  BY <1>1 DEF Pool!Next, Pool!Device
<1>2. ASSUME NEW s \in AllocStream, Allocate(s)
      PROVE  Pool!Next
  <2>1. Pool!Progresses
    BY <1>2, UnchangedIsProgress, DrainIsProgress DEF Allocate, GivesBack, deviceVars
  <2>2. CASE UNCHANGED held
    BY <1>1, <2>1, <2>2 DEF Pool!Next, Pool!Device
  <2>3. ASSUME NEW b \in Block, Free(b), held' = held \cup {[block |-> b, home |-> s]}
        PROVE  Pool!Next
    <3>1. [block |-> b, home |-> s] \notin held
      BY <2>3 DEF Free
    <3> QED
      BY <2>1, <2>3, <3>1, HandIsAlloc DEF Pool!Next
  <2> QED
    BY <1>2, <2>2, <2>3 DEF Allocate
<1>3. ASSUME NEW h \in held, Deallocate(h) \/ DeallocateBypass(h)
      PROVE  Pool!Next
  <2>1. Pool!Progresses
    BY <1>3, UnchangedIsProgress, SynchronizeIsProgress
       DEF Deallocate, Retire, DeallocateBypass
  <2> QED
    BY <1>3, <2>1 DEF Pool!Next, Pool!Free, Deallocate, DeallocateBypass
<1>4. CASE Settle
  BY <1>1, <1>4, DrainIsProgress, SynchronizeIsProgress DEF Settle
<1>5. ASSUME NEW h \in held, Use(h)
      PROVE  Pool!Next
  BY <1>5 DEF Use, Pool!Next, Pool!Launch
<1>6. ASSUME NEW h \in held, NEW s \in Stream, Move(h, s)
      PROVE  Pool!Next
  BY <1>6 DEF Move, StreamIdle, deviceVars, Pool!Next, Pool!Move
<1>7. ASSUME Device
      PROVE  Pool!Progresses /\ UNCHANGED held
  BY <1>7, CompleteIsProgress DEF Device
<1>8. CASE UNCHANGED poolVars
  BY <1>8 DEF poolVars, deviceVars, Pool!poolVars
<1> QED
  BY <1>1, <1>2, <1>3, <1>4, <1>5, <1>6, <1>7, <1>8 DEF Next

(* With one allocating stream, and events that do not fail, the bytes a    *)
(* client is given are not held by another client and, on every stream but *)
(* its own, not in use.                                                    *)
THEOREM DeferralImplementsPool ==
  ASSUME PoolAssumption, OneStream
  PROVE  Spec => ImplementsPool
<1>1. Init => Pool!Init
  BY DEF Init, DeviceInit, Pool!Init
<1>2. TypeOK /\ OwnersApart' /\ NoUnorderedSharing' /\ [Next]_poolVars
        => [Pool!Next]_Pool!poolVars
  BY StepRefines
<1>3. SharingInv => NoUnorderedSharing
  BY DEF SharingInv
<1> QED
  BY <1>1, <1>2, <1>3, OwnersStayApart, SharingIsKept, PTL
     DEF Spec, ImplementsPool, Pool!Spec
=============================================================================
