--------------------------- MODULE PlanningProofs ---------------------------
(***************************************************************************)
(* The vector clocks of any schedule that HappensBefore::build accepts are *)
(* exact.  kahn_order lists the nodes of any graph the client can build    *)
(* level by level, each after its predecessors, and what plan_streams      *)
(* returns is a schedule that build accepts, in which every dependency     *)
(* (and every barrier of the level policy) is covered by the order of a    *)
(* stream or by a wait.                                                    *)
(*                                                                         *)
(* The planner is sound, for every graph, schedule policy, number of       *)
(* streams, memory policy and alignment.  PackInv is what packing keeps:   *)
(* each tensor at the lowest offset its conflicts leave, the arena never   *)
(* larger than one buffer for each tensor, and two tensors share a byte    *)
(* only where the policy found that one is done with it before the other   *)
(* is produced.  PlanInv adds what the schedule in use is, from the        *)
(* theorems about plan_streams and the clocks; together they order every   *)
(* access to the bytes two tensors share.                                  *)
(***************************************************************************)
EXTENDS Planning, FiniteSums, SequenceTheorems

-----------------------------------------------------------------------------
(* The vector clocks are exact, for every schedule: any number of nodes,   *)
(* streams, events and waits.                                              *)

(* A non-empty set of integers with an upper bound has a maximum.          *)
LEMMA MaxIsMaximum ==
  ASSUME NEW S \in SUBSET Int, S # {}, NEW b \in Int, \A x \in S : x <= b
  PROVE  Max(S) \in S /\ \A x \in S : x <= Max(S)
<1> DEFINE D == {b - x : x \in S}
<1>1. D \subseteq Nat /\ D # {}
  <2>1. \A x \in S : b - x \in Nat
    OBVIOUS
  <2>2. PICK x \in S : TRUE
    OBVIOUS
  <2>3. b - x \in D
    OBVIOUS
  <2> QED BY <2>1, <2>3
<1>2. PICK d \in D : \A e \in D : ~ (<<e, d>> \in OpToRel(<, Nat))
  BY <1>1, WFMin, NatLessThanWellFounded, Zenon
<1>3. PICK m \in S : d = b - m
  BY <1>2
<1>4. \A x \in S : m >= x
  <2> TAKE x \in S
  <2>1. b - x \in D /\ b - x \in Nat /\ d \in Nat
    BY <1>1
  <2>2. ~ (b - x < d)
    BY <1>2, <2>1 DEF OpToRel
  <2> QED BY <2>1, <2>2, <1>3
<1> DEFINE P(m_) == \A y \in S : m_ >= y
<1>5. \E m_ \in S : P(m_)
  BY <1>4
<1>6. Max(S) = CHOOSE m_ \in S : P(m_)
  BY DEF Max
<1> HIDE DEF P
<1>7. Max(S) \in S /\ P(Max(S))
  BY <1>5, <1>6
<1> QED BY <1>7 DEF P

(* Node v knows of node u: its clock has reached u on the stream of u.     *)
Known(v, u) == clock[v][sa.stream[u]] >= sa.issue[u]

(* What is known of the nodes the walk has passed.                         *)
Own == \A j \in 1 .. pos : clock[sa.order[j]][sa.stream[sa.order[j]]] = sa.issue[sa.order[j]]

Past == \A j \in 1 .. pos, i \in Scheduled : Known(sa.order[j], sa.order[i]) => i <= j

Dominates ==
  \A j \in 1 .. pos, w \in Scheduled :
    Known(sa.order[j], w) => \A s \in Stream : clock[w][s] <= clock[sa.order[j]][s]

Follows == \A j \in 1 .. pos, w \in Scheduled : Edge(w, sa.order[j]) => Known(sa.order[j], w)

Justified ==
  \A j \in 1 .. pos, u \in Scheduled :
    Known(sa.order[j], u) /\ u # sa.order[j] =>
      \/ Edge(u, sa.order[j])
      \/ \E w \in Scheduled : Edge(w, sa.order[j]) /\ w # u /\ Known(w, u)

ClockType ==
  /\ ScheduleType /\ Valid /\ InOrder
  /\ pos \in 0 .. Len(sa.stream)
  /\ clock \in [Scheduled -> [Stream -> -1 .. Len(sa.stream)]]

ClockInv == ClockType /\ Own /\ Past /\ Dominates /\ Follows /\ Justified

-----------------------------------------------------------------------------

(* Edges lead forward in the order of the walk.                            *)
LEMMA EdgesGoForward ==
  ASSUME ClockType, NEW i \in Scheduled, NEW j \in Scheduled,
         Edge(sa.order[i], sa.order[j])
  PROVE  i < j
<1>1. sa.order[i] \in Scheduled /\ sa.order[j] \in Scheduled
  BY DEF ClockType, InOrder
<1>2. CASE NextOnStream(sa.order[i], sa.order[j])
  <2>1. sa.issue[sa.order[i]] < sa.issue[sa.order[j]]
    BY <1>1, <1>2 DEF NextOnStream, ClockType, ScheduleType
  <2> QED BY <2>1, <1>2 DEF NextOnStream, ClockType, InOrder
<1>3. CASE Awaits(sa.order[j], sa.order[i])
  BY <1>3 DEF ClockType, InOrder
<1> QED BY <1>2, <1>3 DEF Edge

(* What the type of a schedule says of its streams, issue indices and order. *)
LEMMA ScheduleFacts ==
  ASSUME ClockType
  PROVE  /\ Len(sa.stream) \in Nat /\ Scheduled = 1 .. Len(sa.stream)
         /\ \A v \in Scheduled : /\ sa.stream[v] \in Stream
                                 /\ sa.issue[v] \in Nat /\ sa.issue[v] < Len(sa.stream)
         /\ \A i \in Scheduled : sa.order[i] \in Scheduled
         /\ \A v \in Scheduled : \E i \in Scheduled : sa.order[i] = v
         /\ 1 .. pos \subseteq Scheduled
<1>1. Len(sa.stream) \in Nat /\ Scheduled = 1 .. Len(sa.stream)
  BY LenProperties DEF ClockType, ScheduleType, Scheduled
<1>2. \A v \in Scheduled : sa.stream[v] \in Nat
  BY <1>1, ElementOfSeq DEF ClockType, ScheduleType
<1>3. \A v \in Scheduled : sa.stream[v] \in Stream
  BY <1>2 DEF ClockType, ScheduleType, Valid, Stream
<1>4. \A v \in Scheduled : sa.issue[v] \in Nat /\ sa.issue[v] < Len(sa.stream)
  BY <1>1, SMTT(30) DEF ClockType, ScheduleType
<1>5. /\ \A i \in Scheduled : sa.order[i] \in Scheduled
      /\ \A v \in Scheduled : \E i \in Scheduled : sa.order[i] = v
  BY DEF ClockType, InOrder
<1>6. 1 .. pos \subseteq Scheduled
  BY <1>1 DEF ClockType
<1> QED BY <1>1, <1>3, <1>4, <1>5, <1>6

(* What one step of the walk computes for its node.                        *)
LEMMA ClockOfEffect ==
  ASSUME ClockType, NEW v \in Scheduled
  PROVE  /\ ClockOf(v) \in [Stream -> -1 .. Len(sa.stream)]
         /\ ClockOf(v)[sa.stream[v]] = sa.issue[v]
         /\ \A s \in Stream \ {sa.stream[v]} :
              /\ \A w \in Scheduled : Edge(w, v) => clock[w][s] <= ClockOf(v)[s]
              /\ \/ ClockOf(v)[s] = -1
                 \/ \E w \in Scheduled : Edge(w, v) /\ ClockOf(v)[s] = clock[w][s]
<1> DEFINE before == {u \in Scheduled : Edge(u, v)}
           seen(s) == {-1} \cup {clock[u][s] : u \in before}
<1>0. Len(sa.stream) \in Nat /\ sa.stream[v] \in Stream
      /\ sa.issue[v] \in -1 .. Len(sa.stream)
  BY ScheduleFacts, SMTT(30)
<1>1. ClockOf(v) = [s \in Stream |-> IF s = sa.stream[v] THEN sa.issue[v] ELSE Max(seen(s))]
  BY DEF ClockOf
<1>2. ASSUME NEW s \in Stream
      PROVE  /\ Max(seen(s)) \in seen(s) /\ \A x \in seen(s) : x <= Max(seen(s))
             /\ seen(s) \subseteq -1 .. Len(sa.stream)
  <2>1. \A u \in Scheduled : clock[u][s] \in -1 .. Len(sa.stream)
    BY DEF ClockType
  <2>2. seen(s) \subseteq -1 .. Len(sa.stream)
    BY <2>1, <1>0
  <2> DEFINE T == seen(s)
  <2>3. T \in SUBSET Int /\ T # {} /\ (\A x \in T : x <= Len(sa.stream)) /\ Len(sa.stream) \in Int
    BY <2>2, <1>0
  <2> HIDE DEF T
  <2>4. Max(T) \in T /\ \A x \in T : x <= Max(T)
    BY <2>3, MaxIsMaximum
  <2> QED BY <2>2, <2>4 DEF T
<1>3. ClockOf(v)[sa.stream[v]] = sa.issue[v]
  BY <1>0, <1>1
<1>4. ASSUME NEW s \in Stream \ {sa.stream[v]}
      PROVE  ClockOf(v)[s] = Max(seen(s))
  BY <1>1
<1>5. ASSUME NEW s \in Stream \ {sa.stream[v]}, NEW w \in Scheduled, Edge(w, v)
      PROVE  clock[w][s] <= ClockOf(v)[s]
  <2>1. clock[w][s] \in seen(s)
    BY <1>5
  <2> HIDE DEF seen
  <2> QED BY <2>1, <1>2, <1>4
<1>6. ASSUME NEW s \in Stream \ {sa.stream[v]}
      PROVE  \/ ClockOf(v)[s] = -1
             \/ \E w \in Scheduled : Edge(w, v) /\ ClockOf(v)[s] = clock[w][s]
  BY <1>2, <1>4
<1>7. ClockOf(v) \in [Stream -> -1 .. Len(sa.stream)]
  <2>1. \A s \in Stream : Max(seen(s)) \in -1 .. Len(sa.stream)
    BY <1>2
  <2> HIDE DEF seen
  <2> QED BY <1>0, <1>1, <2>1
<1> QED BY <1>3, <1>5, <1>6, <1>7

(* The step that absorbs the node v at place p of the order.               *)
LEMMA AbsorbEffect ==
  ASSUME ClockType, Absorb
  PROVE  LET p == pos + 1
             v == sa.order[p]
         IN  /\ p \in Scheduled /\ v \in Scheduled
             /\ pos' = p /\ sa' = sa
             /\ clock' \in [Scheduled -> [Stream -> -1 .. Len(sa.stream)]]
             /\ clock'[v] = ClockOf(v)
             /\ \A w \in Scheduled : w # v => clock'[w] = clock[w]
             /\ \A j \in 1 .. pos : sa.order[j] \in Scheduled /\ sa.order[j] # v
<1>0. /\ Len(sa.stream) \in Nat /\ Scheduled = 1 .. Len(sa.stream)
      /\ (\A i \in Scheduled : sa.order[i] \in Scheduled) /\ 1 .. pos \subseteq Scheduled
      /\ pos \in 0 .. Len(sa.stream) /\ pos < Len(sa.stream)
  BY ScheduleFacts DEF Absorb, ClockType
<1>1. pos + 1 \in Scheduled /\ sa.order[pos + 1] \in Scheduled
  BY <1>0
<1>2. pos' = pos + 1 /\ sa' = sa
      /\ clock' = [clock EXCEPT ![sa.order[pos + 1]] = ClockOf(sa.order[pos + 1])]
  BY DEF Absorb
<1>3. ClockOf(sa.order[pos + 1]) \in [Stream -> -1 .. Len(sa.stream)]
  BY <1>1, ClockOfEffect
<1>4. clock \in [Scheduled -> [Stream -> -1 .. Len(sa.stream)]]
  BY DEF ClockType
<1>5. \A j \in 1 .. pos : sa.order[j] \in Scheduled /\ sa.order[j] # sa.order[pos + 1]
  <2> TAKE j \in 1 .. pos
  <2>1. j \in Scheduled /\ j # pos + 1
    BY <1>0
  <2> QED BY <2>1, <1>0, <1>1 DEF ClockType, InOrder
<1> QED BY <1>1, <1>2, <1>3, <1>4, <1>5

(* Absorbing a node keeps the clocks well typed.                         *)
LEMMA TypeStep == ASSUME ClockType, Absorb PROVE ClockType'
<1>1. sa' = sa /\ pos' \in 0 .. Len(sa.stream)
      /\ clock' \in [Scheduled -> [Stream -> -1 .. Len(sa.stream)]]
  BY AbsorbEffect, ScheduleFacts
<1> QED BY <1>1 DEF ClockType, ScheduleType, Valid, InOrder, Awaits, Scheduled, Stream

(* Whatever the absorbed node knows of another it learnt over an edge.     *)
LEMMA LearntOverAnEdge ==
  ASSUME ClockInv, Absorb, NEW u \in Scheduled, u # sa.order[pos + 1],
         clock'[sa.order[pos + 1]][sa.stream[u]] >= sa.issue[u]
  PROVE  \E k \in 1 .. pos : Edge(sa.order[k], sa.order[pos + 1]) /\ Known(sa.order[k], u)
<1> DEFINE v == sa.order[pos + 1]
<1>1. ClockType
  BY DEF ClockInv
<1>2. pos + 1 \in Scheduled /\ v \in Scheduled /\ sa' = sa /\ clock'[v] = ClockOf(v)
  BY <1>1, AbsorbEffect
<1>3. ClockOf(v)[sa.stream[u]] >= sa.issue[u]
  BY <1>2
<1>4. sa.stream[u] \in Stream /\ sa.issue[u] \in Nat /\ sa.issue[v] \in Nat
  BY <1>1, <1>2, ScheduleFacts
<1>5. \A w \in Scheduled : Edge(w, v) => \E k \in 1 .. pos : w = sa.order[k]
  <2> TAKE w \in Scheduled
  <2> HAVE Edge(w, v)
  <2>1. PICK k \in Scheduled : sa.order[k] = w
    BY <1>1, ScheduleFacts
  <2>2. k < pos + 1
    BY <1>1, <1>2, <2>1, EdgesGoForward
  <2>3. Scheduled = 1 .. Len(sa.stream) /\ Len(sa.stream) \in Nat /\ pos \in 0 .. Len(sa.stream)
    BY <1>1, ScheduleFacts DEF ClockType
  <2>4. k \in 1 .. pos
    BY <2>2, <2>3
  <2> QED BY <2>1, <2>4
<1>6. CASE sa.stream[u] # sa.stream[v]
  <2>1. ClockOf(v)[sa.stream[u]] # -1
    BY <1>3, <1>4
  <2> DEFINE s == sa.stream[u]
  <2>a. s \in Stream \ {sa.stream[v]}
    BY <1>4, <1>6
  <2>b. \A t \in Stream \ {sa.stream[v]} :
          \/ ClockOf(v)[t] = -1
          \/ \E w \in Scheduled : Edge(w, v) /\ ClockOf(v)[t] = clock[w][t]
    <3> HIDE DEF v
    <3> QED BY <1>1, <1>2, ClockOfEffect
  <2>2. PICK w \in Scheduled : Edge(w, v) /\ ClockOf(v)[s] = clock[w][s]
    BY <2>a, <2>b, <2>1
  <2> QED BY <1>3, <1>5, <2>2 DEF Known
<1>7. CASE sa.stream[u] = sa.stream[v]
  <2>1. ClockOf(v)[sa.stream[u]] = sa.issue[v]
    <3> HIDE DEF v
    <3> QED BY <1>1, <1>2, <1>7, ClockOfEffect
  <2>2. sa.issue[u] # sa.issue[v]
    BY <1>1, <1>2, <1>7 DEF ClockType, Valid
  <2>3. sa.issue[u] < sa.issue[v]
    BY <1>3, <1>4, <2>1, <2>2
  <2>c. \A i \in Scheduled : sa.issue[i] > 0 =>
          \E j \in Scheduled : sa.stream[j] = sa.stream[i] /\ sa.issue[j] = sa.issue[i] - 1
    BY <1>1 DEF ClockType, Valid
  <2>d. sa.issue[v] > 0
    BY <1>4, <2>3
  <2>4. PICK w \in Scheduled : sa.stream[w] = sa.stream[v] /\ sa.issue[w] = sa.issue[v] - 1
    BY <1>2, <2>c, <2>d
  <2>5. Edge(w, v)
    BY <2>4 DEF Edge, NextOnStream
  <2>6. PICK k \in 1 .. pos : w = sa.order[k]
    BY <1>5, <2>5
  <2>7. clock[w][sa.stream[w]] = sa.issue[w]
    BY <2>6 DEF ClockInv, Own
  <2>8. Known(w, u)
    BY <1>4, <1>7, <2>3, <2>4, <2>7 DEF Known
  <2> QED BY <2>5, <2>6, <2>8
<1> QED BY <1>6, <1>7

-----------------------------------------------------------------------------

(* What a step does to the clocks of the nodes passed, all in one place.   *)
LEMMA StepFacts ==
  ASSUME ClockInv, Absorb
  PROVE  /\ sa' = sa /\ pos' = pos + 1 /\ pos \in Nat
         /\ pos + 1 \in Scheduled /\ 1 .. pos \subseteq Scheduled
         /\ clock'[sa.order[pos + 1]] = ClockOf(sa.order[pos + 1])
         /\ \A w \in Scheduled : w # sa.order[pos + 1] => clock'[w] = clock[w]
         /\ \A j \in 1 .. pos : clock'[sa.order[j]] = clock[sa.order[j]]
         /\ \A i, j \in Scheduled : i # j => sa.order[i] # sa.order[j]
         /\ \A j \in 1 .. pos + 1 : j \in 1 .. pos \/ j = pos + 1
<1>1. ClockType
  BY DEF ClockInv
<1>2. pos \in Nat /\ 1 .. pos \subseteq Scheduled
  BY <1>1, ScheduleFacts DEF ClockType
<1>3. /\ pos' = pos + 1 /\ sa' = sa /\ pos + 1 \in Scheduled
      /\ clock'[sa.order[pos + 1]] = ClockOf(sa.order[pos + 1])
      /\ \A w \in Scheduled : w # sa.order[pos + 1] => clock'[w] = clock[w]
      /\ \A j \in 1 .. pos : sa.order[j] \in Scheduled /\ sa.order[j] # sa.order[pos + 1]
  BY <1>1, AbsorbEffect
<1>4. \A i, j \in Scheduled : i # j => sa.order[i] # sa.order[j]
  BY <1>1 DEF ClockType, InOrder
<1>5. \A j \in 1 .. pos : clock'[sa.order[j]] = clock[sa.order[j]]
  BY <1>3
<1>6. \A j \in 1 .. pos + 1 : j \in 1 .. pos \/ j = pos + 1
  BY <1>2
<1> QED BY <1>2, <1>3, <1>4, <1>5, <1>6

(* A clock and an issue index are comparable integers.                   *)
LEMMA ClockValues ==
  ASSUME ClockType, NEW v \in Scheduled, NEW s \in Stream
  PROVE  clock[v][s] \in Int /\ ClockOf(v)[s] \in Int
<1>1. clock[v][s] \in -1 .. Len(sa.stream) /\ Len(sa.stream) \in Nat
  BY ScheduleFacts DEF ClockType
<1>2. ClockOf(v)[s] \in -1 .. Len(sa.stream)
  BY ClockOfEffect
<1> QED BY <1>1, <1>2

(* The absorbed node knows its own place on its stream.                  *)
LEMMA OwnStep == ASSUME ClockInv, Absorb PROVE Own'
<1>0. ClockType /\ Own
  BY DEF ClockInv
<1>1. SUFFICES ASSUME NEW j \in 1 .. pos + 1
      PROVE  clock'[sa.order[j]][sa.stream[sa.order[j]]] = sa.issue[sa.order[j]]
  BY StepFacts DEF Own
<1>2. CASE j \in 1 .. pos
  BY <1>0, <1>2, StepFacts DEF Own
<1>3. CASE j = pos + 1
  <2>1. sa.order[j] \in Scheduled /\ clock'[sa.order[j]] = ClockOf(sa.order[j])
    BY <1>0, <1>3, StepFacts, ScheduleFacts
  <2> QED BY <1>0, <2>1, ClockOfEffect
<1> QED BY <1>2, <1>3, StepFacts

(* It knows only nodes absorbed before it.                               *)
LEMMA PastStep == ASSUME ClockInv, Absorb PROVE Past'
<1>0. ClockType /\ Past
  BY DEF ClockInv
<1>1. SUFFICES ASSUME NEW j \in 1 .. pos + 1, NEW i \in Scheduled,
                      clock'[sa.order[j]][sa.stream[sa.order[i]]] >= sa.issue[sa.order[i]]
               PROVE  i <= j
  BY StepFacts DEF Past, Known, Scheduled
<1>2. CASE j \in 1 .. pos
  BY <1>0, <1>1, <1>2, StepFacts DEF Past, Known
<1>3. CASE j = pos + 1 /\ i # j
  <2>1. sa.order[i] \in Scheduled /\ sa.order[i] # sa.order[pos + 1]
    BY <1>0, <1>3, StepFacts, ScheduleFacts
  <2>2. PICK k \in 1 .. pos : Known(sa.order[k], sa.order[i])
    BY <1>1, <1>3, <2>1, LearntOverAnEdge
  <2>3. i <= k
    BY <1>0, <2>2 DEF Past
  <2>4. i \in Int /\ pos \in Nat
    BY <1>0, StepFacts, ScheduleFacts
  <2> QED BY <1>3, <2>3, <2>4
<1>4. CASE i = j
  BY <1>4
<1> QED BY <1>2, <1>3, <1>4, StepFacts

(* It knows all that a node it knows of knew.                            *)
LEMMA DominatesStep == ASSUME ClockInv, Absorb PROVE Dominates'
<1>0. ClockType /\ Past /\ Dominates
  BY DEF ClockInv
<1>1. SUFFICES ASSUME NEW j \in 1 .. pos + 1, NEW w \in Scheduled, NEW s \in Stream,
                      clock'[sa.order[j]][sa.stream[w]] >= sa.issue[w]
               PROVE  clock'[w][s] <= clock'[sa.order[j]][s]
  BY StepFacts DEF Dominates, Known, Scheduled, Stream
<1> DEFINE v == sa.order[pos + 1]
<1>2. CASE j \in 1 .. pos
  <2>1. PICK i \in Scheduled : sa.order[i] = w
    BY <1>0, ScheduleFacts
  <2>2. Known(sa.order[j], w)
    BY <1>1, <1>2, StepFacts DEF Known
  <2>3. i <= j
    BY <1>0, <1>2, <2>1, <2>2 DEF Past
  <2>4. i \in Int /\ pos \in Nat
    BY <1>0, StepFacts, ScheduleFacts
  <2>5. i # pos + 1
    BY <1>2, <2>3, <2>4
  <2>6. w # v
    BY <2>1, <2>5, StepFacts
  <2>7. clock'[w] = clock[w] /\ clock'[sa.order[j]] = clock[sa.order[j]]
    BY <1>2, <2>6, StepFacts
  <2> QED BY <1>0, <1>2, <2>2, <2>7 DEF Dominates
<1>3. CASE j = pos + 1
  <2>0. v \in Scheduled /\ clock'[v] = ClockOf(v)
    BY <1>0, StepFacts, ScheduleFacts
  <2>1. CASE w = v
    <3>1. clock'[v][s] \in Int
      BY <1>0, <2>0, ClockValues
    <3> QED BY <1>3, <2>1, <3>1
  <2>2. CASE w # v
    <3>1. PICK k \in 1 .. pos : Edge(sa.order[k], v) /\ Known(sa.order[k], w)
      BY <1>1, <1>3, <2>2, LearntOverAnEdge
    <3> DEFINE x == sa.order[k]
    <3>2. clock[w][s] <= clock[x][s]
      BY <1>0, <3>1 DEF Dominates
    <3>3. x \in Scheduled
      BY <1>0, StepFacts, ScheduleFacts
    <3>4. clock[x][s] <= ClockOf(v)[s]
      <4>1. CASE s # sa.stream[v]
        <5> HIDE DEF v, x
        <5> QED BY <1>0, <2>0, <3>1, <3>3, <4>1, ClockOfEffect DEF x
      <4>2. CASE s = sa.stream[v]
        <5>1. ~ Known(x, v)
          <6>1. Known(x, v) => pos + 1 <= k
            BY <1>0, StepFacts DEF Past
          <6>2. ~ (pos + 1 <= k)
            BY StepFacts
          <6> QED BY <6>1, <6>2
        <5>2. ClockOf(v)[s] = sa.issue[v]
          BY <1>0, <2>0, <4>2, ClockOfEffect
        <5>3. sa.issue[v] \in Int /\ clock[x][s] \in Int
          <6>1. sa.issue[v] \in Nat
            BY <1>0, <2>0, ScheduleFacts
          <6>2. clock[x][s] \in Int
            BY <1>0, <3>3, ClockValues
          <6> QED BY <6>1, <6>2
        <5> QED BY <4>2, <5>1, <5>2, <5>3 DEF Known
      <4> QED BY <4>1, <4>2
    <3>5. clock[w][s] \in Int /\ clock[x][s] \in Int /\ ClockOf(v)[s] \in Int
      BY <1>0, <2>0, <3>3, ClockValues
    <3>6. clock[w][s] <= ClockOf(v)[s]
      BY <3>2, <3>4, <3>5
    <3>7. clock'[w] = clock[w]
      BY <2>2, StepFacts
    <3> QED BY <1>3, <2>0, <3>6, <3>7
  <2> QED BY <2>1, <2>2
<1> QED BY <1>2, <1>3, StepFacts

(* It knows of its direct predecessors.                                  *)
LEMMA FollowsStep == ASSUME ClockInv, Absorb PROVE Follows'
<1>0. ClockType /\ Own /\ Follows
  BY DEF ClockInv
<1>1. SUFFICES ASSUME NEW j \in 1 .. pos + 1, NEW w \in Scheduled, Edge(w, sa.order[j])
               PROVE  clock'[sa.order[j]][sa.stream[w]] >= sa.issue[w]
  BY StepFacts DEF Follows, Known, Scheduled, Edge, NextOnStream, Awaits
<1> DEFINE v == sa.order[pos + 1]
<1>2. CASE j \in 1 .. pos
  BY <1>0, <1>1, <1>2, StepFacts DEF Follows, Known
<1>3. CASE j = pos + 1
  <2>0. v \in Scheduled /\ clock'[v] = ClockOf(v) /\ Edge(w, v)
    BY <1>0, <1>1, <1>3, StepFacts, ScheduleFacts
  <2>1. PICK i \in Scheduled : sa.order[i] = w
    BY <1>0, ScheduleFacts
  <2>2. i < pos + 1
    BY <1>0, <2>0, <2>1, StepFacts, EdgesGoForward
  <2>3. i \in 1 .. pos /\ pos \in Nat
    BY <1>0, <2>2, StepFacts, ScheduleFacts
  <2>a. \A x \in Scheduled : sa.stream[x] \in Stream /\ sa.issue[x] \in Nat
    BY <1>0, ScheduleFacts
  <2>4. /\ sa.stream[w] \in Stream /\ sa.issue[w] \in Int /\ sa.issue[v] \in Int
        /\ sa.stream[v] \in Stream
    BY <2>0, <2>a
  <2>5. CASE sa.stream[w] # sa.stream[v]
    <3>1. clock[w][sa.stream[w]] = sa.issue[w]
      BY <1>0, <2>1, <2>3 DEF Own
    <3>2. clock[w][sa.stream[w]] <= ClockOf(v)[sa.stream[w]]
      <4> HIDE DEF v
      <4> QED BY <1>0, <2>0, <2>4, <2>5, ClockOfEffect
    <3>3. ClockOf(v)[sa.stream[w]] \in Int
      BY <1>0, <2>0, <2>4, ClockValues
    <3> QED BY <1>3, <2>0, <2>4, <3>1, <3>2, <3>3
  <2>6. CASE sa.stream[w] = sa.stream[v]
    <3>1. ClockOf(v)[sa.stream[w]] = sa.issue[v]
      <4> HIDE DEF v
      <4> QED BY <1>0, <2>0, <2>6, ClockOfEffect
    <3>2. sa.issue[v] < sa.issue[w] => pos + 1 < i
      BY <1>0, <2>1, <2>6, StepFacts DEF ClockType, InOrder
    <3>3. ~ (sa.issue[v] < sa.issue[w])
      BY <2>3, <3>2
    <3> QED BY <1>3, <2>0, <2>4, <3>1, <3>3
  <2> QED BY <2>5, <2>6
<1> QED BY <1>2, <1>3, StepFacts

(* What it knows it has by an edge, or from a predecessor.               *)
LEMMA JustifiedStep == ASSUME ClockInv, Absorb PROVE Justified'
<1>0. ClockType /\ Justified
  BY DEF ClockInv
<1>1. SUFFICES ASSUME NEW j \in 1 .. pos + 1, NEW u \in Scheduled,
                      clock'[sa.order[j]][sa.stream[u]] >= sa.issue[u], u # sa.order[j]
               PROVE  \/ Edge(u, sa.order[j])
                      \/ \E w \in Scheduled : /\ Edge(w, sa.order[j]) /\ w # u
                                              /\ clock'[w][sa.stream[u]] >= sa.issue[u]
  BY StepFacts DEF Justified, Known, Scheduled, Edge, NextOnStream, Awaits
<1> DEFINE v == sa.order[pos + 1]
<1>2. CASE j \in 1 .. pos
  <2>1. Known(sa.order[j], u)
    BY <1>1, <1>2, StepFacts DEF Known
  <2>2. CASE Edge(u, sa.order[j])
    BY <2>2
  <2>3. CASE \E w \in Scheduled : Edge(w, sa.order[j]) /\ w # u /\ Known(w, u)
    <3>1. PICK w \in Scheduled : Edge(w, sa.order[j]) /\ w # u /\ Known(w, u)
      BY <2>3
    <3>2. PICK i \in Scheduled : sa.order[i] = w
      BY <1>0, ScheduleFacts
    <3>3. i < j
      BY <1>0, <1>2, <3>1, <3>2, StepFacts, EdgesGoForward
    <3>4. i # pos + 1
      BY <1>0, <1>2, <3>3, StepFacts, ScheduleFacts
    <3>5. clock'[w] = clock[w]
      BY <3>2, <3>4, StepFacts
    <3> QED BY <3>1, <3>5 DEF Known
  <2> QED BY <1>0, <1>1, <1>2, <2>1, <2>2, <2>3 DEF Justified
<1>3. CASE j = pos + 1
  <2>1. PICK k \in 1 .. pos : Edge(sa.order[k], v) /\ Known(sa.order[k], u)
    BY <1>1, <1>3, LearntOverAnEdge
  <2>2. sa.order[k] \in Scheduled /\ clock'[sa.order[k]] = clock[sa.order[k]]
    BY <1>0, StepFacts, ScheduleFacts
  <2>3. CASE sa.order[k] = u
    BY <1>3, <2>1, <2>3
  <2>4. CASE sa.order[k] # u
    <3>1. clock'[sa.order[k]][sa.stream[u]] >= sa.issue[u]
      BY <2>1, <2>2 DEF Known
    <3> QED BY <1>3, <2>1, <2>2, <2>4, <3>1
  <2> QED BY <2>3, <2>4
<1> QED BY <1>2, <1>3, StepFacts

-----------------------------------------------------------------------------

(* Before the first node is absorbed nothing is claimed.                 *)
LEMMA ClockInvInit == HBInit => ClockInv
<1> SUFFICES ASSUME HBInit PROVE ClockInv
  OBVIOUS
<1>1. Len(sa.stream) \in Nat
  BY LenProperties DEF HBInit, ScheduleType
<1>2. Unknown \in [Scheduled -> [Stream -> -1 .. Len(sa.stream)]]
  BY <1>1 DEF Unknown
<1>3. ClockType
  BY <1>1, <1>2 DEF HBInit, ClockType
<1>4. 1 .. pos = {}
  BY DEF HBInit
<1> QED BY <1>3, <1>4 DEF ClockInv, Own, Past, Dominates, Follows, Justified

(* Every step of happens_before keeps the invariant.                     *)
LEMMA ClockInvStep == ClockInv /\ [Absorb]_hbVars => ClockInv'
<1> SUFFICES ASSUME ClockInv, [Absorb]_hbVars PROVE ClockInv'
  OBVIOUS
<1>1. CASE Absorb
  <2>1. ClockType'
    BY <1>1, TypeStep DEF ClockInv
  <2> QED BY <1>1, <2>1, OwnStep, PastStep, DominatesStep, FollowsStep, JustifiedStep
          DEF ClockInv
<1>2. CASE UNCHANGED hbVars
  <2>1. sa' = sa /\ clock' = clock /\ pos' = pos
    BY <1>2 DEF hbVars
  <2>2. ClockType'
    BY <2>1 DEF ClockInv, ClockType, ScheduleType, Valid, InOrder, Awaits, Scheduled, Stream
  <2>3. Own' /\ Past'
    BY <2>1 DEF ClockInv, Own, Past, Known, Scheduled
  <2>4. Dominates'
    BY <2>1 DEF ClockInv, Dominates, Known, Scheduled, Stream
  <2>5. Follows' /\ Justified'
    BY <2>1 DEF ClockInv, Follows, Justified, Known, Edge, NextOnStream, Awaits, Scheduled
  <2> QED BY <2>2, <2>3, <2>4, <2>5 DEF ClockInv
<1> QED BY <1>1, <1>2

(* The invariant makes clock comparison the same as reachability.        *)
LEMMA ClockInvIsExact == ClockInv => ClocksAreReachability
<1> SUFFICES ASSUME ClockInv, NEW u \in Scheduled, NEW v \in Absorbed
    PROVE  precedes(u, v) <=>
             Edge(u, v) \/ \E w \in Scheduled : Edge(w, v) /\ precedes(u, w)
  BY DEF ClocksAreReachability
<1>0. ClockType /\ Past /\ Dominates /\ Follows /\ Justified
  BY DEF ClockInv
<1>1. PICK j \in 1 .. pos : v = sa.order[j]
  BY DEF Absorbed
<1>2. j \in Scheduled /\ v \in Scheduled /\ Scheduled \subseteq Int
  <2>1. Scheduled = 1 .. Len(sa.stream) /\ 1 .. pos \subseteq Scheduled
        /\ \A i \in Scheduled : sa.order[i] \in Scheduled
    BY <1>0, ScheduleFacts
  <2>2. j \in Scheduled
    BY <2>1
  <2>3. v \in Scheduled
    BY <1>1, <2>1, <2>2
  <2>4. Scheduled \subseteq Int
    BY <2>1
  <2> QED
    BY <2>2, <2>3, <2>4
<1>3. ASSUME NEW w \in Scheduled, Edge(w, v)
      PROVE  \E i \in 1 .. pos : w = sa.order[i] /\ i < j
  <2>1. PICK i \in Scheduled : sa.order[i] = w
    BY <1>0, ScheduleFacts
  <2>2. i < j
    BY <1>0, <1>1, <1>2, <1>3, <2>1, EdgesGoForward
  <2>3. Scheduled = 1 .. Len(sa.stream) /\ Len(sa.stream) \in Nat /\ pos \in Int
    BY <1>0, ScheduleFacts DEF ClockType
  <2>4. i \in 1 .. pos
    BY <2>2, <2>3
  <2> QED BY <2>1, <2>2, <2>4
<1>4. ASSUME precedes(u, v)
      PROVE  Edge(u, v) \/ \E w \in Scheduled : Edge(w, v) /\ precedes(u, w)
  BY <1>0, <1>1, <1>4 DEF precedes, Justified, Known
<1>5. ASSUME Edge(u, v) PROVE precedes(u, v)
  <2>1. u # v
    <3>1. PICK i \in 1 .. pos : u = sa.order[i] /\ i < j
      BY <1>3, <1>5
    <3>2. 1 .. pos \subseteq Scheduled /\ i # j
      BY <1>0, <1>2, <3>1, ScheduleFacts
    <3> QED BY <1>0, <1>1, <1>2, <3>1, <3>2 DEF ClockType, InOrder
  <2> QED BY <1>0, <1>1, <1>5, <2>1 DEF precedes, Follows, Known
<1>6. ASSUME NEW w \in Scheduled, Edge(w, v), precedes(u, w)
      PROVE  precedes(u, v)
  <2>1. Known(v, w) /\ Known(w, u)
    BY <1>0, <1>1, <1>6 DEF precedes, Follows, Known
  <2>2. clock[w][sa.stream[u]] <= clock[v][sa.stream[u]]
    BY <1>0, <1>1, <2>1, ScheduleFacts DEF Dominates
  <2>a. sa.stream[u] \in Stream /\ sa.issue[u] \in Nat
    BY <1>0, ScheduleFacts
  <2>3. clock[w][sa.stream[u]] \in Int /\ clock[v][sa.stream[u]] \in Int
    BY <1>0, <1>2, <2>a, ClockValues
  <2>4. Known(v, u)
    BY <2>1, <2>2, <2>3, <2>a DEF Known
  <2>5. u # v
    <3>1. PICK i \in 1 .. pos : w = sa.order[i] /\ i < j
      BY <1>3, <1>6
    <3>2. Known(w, v) => j <= i
      BY <1>0, <1>1, <1>2, <3>1 DEF Past
    <3> QED BY <1>2, <2>1, <3>1, <3>2
  <2> QED BY <2>4, <2>5 DEF precedes, Known
<1> QED BY <1>4, <1>5, <1>6

(* For every schedule that build accepts, at every step of the walk, the   *)
(* clocks of the nodes passed are exactly reachability over the edges.     *)
THEOREM ClocksAreExact == HBSpec => []ClocksAreReachability
<1>1. HBSpec => []ClockInv
  BY ClockInvInit, ClockInvStep, PTL DEF HBSpec
<1> QED BY <1>1, ClockInvIsExact, PTL

-----------------------------------------------------------------------------
(* Counting the elements below an element numbers a set in ascending order. *)

LEMMA BelowIsMonotone ==
  ASSUME NEW S \in SUBSET Nat, IsFiniteSet(S), NEW x \in S, NEW z \in Nat, x < z
  PROVE  Below(S, x) \in Nat /\ Below(S, z) \in Nat /\ Below(S, x) < Below(S, z)
<1> DEFINE A == {y \in S : y < x}
           B == {y \in S : y < z}
<1>0. \A y \in S : y \in Nat
  OBVIOUS
<1>1. A \subseteq B /\ A \subseteq S /\ B \subseteq S /\ x \in B /\ x \notin A
  <2>1. \A y \in S : y < x => y < z
    BY <1>0
  <2>2. ~(x < x)
    BY <1>0
  <2> QED
    BY <2>1, <2>2
<1> HIDE DEF A, B
<1>2. IsFiniteSet(B) /\ IsFiniteSet(A) /\ Cardinality(A) \in Nat /\ Cardinality(B) \in Nat
  BY <1>1, FS_Subset, FS_CardinalityType
<1>3. Cardinality(A) <= Cardinality(B) /\ Cardinality(A) # Cardinality(B)
  BY <1>1, <1>2, FS_Subset
<1>4. Cardinality(A) < Cardinality(B)
  BY <1>2, <1>3
<1> QED
  BY <1>2, <1>4 DEF Below, A, B

LEMMA BelowNumbers ==
  ASSUME NEW S \in SUBSET Nat, IsFiniteSet(S)
  PROVE  /\ Cardinality(S) \in Nat
         /\ \A x \in S : Below(S, x) \in 0 .. Cardinality(S) - 1
         /\ \A x, z \in S : (Below(S, x) < Below(S, z)) <=> (x < z)
         /\ \A x, z \in S : Below(S, x) = Below(S, z) => x = z
         /\ \A i \in 0 .. Cardinality(S) - 1 : \E x \in S : Below(S, x) = i
<1> DEFINE n == Cardinality(S)
           T == 0 .. n - 1
           f == [x \in S |-> Below(S, x)]
<1>1. n \in Nat
  BY FS_CardinalityType
<1>2. ASSUME NEW x \in S
      PROVE  Below(S, x) \in T
  <2> DEFINE A == {y \in S : y < x}
  <2>1. A \subseteq S /\ A # S
    OBVIOUS
  <2> HIDE DEF A
  <2>2. IsFiniteSet(A) /\ Cardinality(A) <= n /\ Cardinality(A) # n /\ Cardinality(A) \in Nat
    BY <2>1, FS_Subset, FS_CardinalityType
  <2>3. Cardinality(A) \in T
    BY <1>1, <2>2
  <2> QED
    BY <2>3 DEF Below, A
<1>3. \A x, z \in S : x < z => Below(S, x) < Below(S, z)
  BY BelowIsMonotone
<1>4. \A x, z \in S : /\ (Below(S, x) < Below(S, z)) <=> (x < z)
                      /\ Below(S, x) = Below(S, z) => x = z
  <2> SUFFICES ASSUME NEW x \in S, NEW z \in S
               PROVE  /\ (Below(S, x) < Below(S, z)) <=> (x < z)
                      /\ Below(S, x) = Below(S, z) => x = z
    OBVIOUS
  <2>1. Below(S, x) \in Int /\ Below(S, z) \in Int /\ x \in Nat /\ z \in Nat
    BY <1>1, <1>2
  <2>2. x < z \/ x = z \/ z < x
    BY <2>1
  <2>3. /\ x < z => Below(S, x) < Below(S, z)
        /\ z < x => Below(S, z) < Below(S, x)
    BY <1>3
  <2> QED
    BY <2>1, <2>2, <2>3
<1>5. \A i \in T : \E x \in S : Below(S, x) = i
  <2>1. f \in Injection(S, T)
    BY <1>2, <1>4 DEF Injection, IsInjective
  <2>2. IsFiniteSet(T) /\ Cardinality(T) = n
    <3>1. 0 \in Int /\ n - 1 \in Int /\ (0 > n - 1 <=> n = 0)
      BY <1>1
    <3>2. IsFiniteSet(T) /\ Cardinality(T) = IF 0 > n - 1 THEN 0 ELSE (n - 1) - 0 + 1
      BY <3>1, FS_Interval
    <3> QED
      BY <1>1, <3>1, <3>2
  <2>3. f \in Surjection(S, T)
    <3> HIDE DEF T, f, n
    <3>1. n = Cardinality(S)
      BY DEF n
    <3> QED
      BY <2>1, <2>2, <3>1, FS_Injection
  <2> QED
    BY <2>3 DEF Surjection
<1> QED
  BY <1>1, <1>2, <1>4, <1>5

LEMMA AscendingLists ==
  ASSUME NEW S \in SUBSET Nat, IsFiniteSet(S)
  PROVE  /\ Ascending(S) \in Seq(S) /\ Len(Ascending(S)) = Cardinality(S)
         /\ Cardinality(S) \in Nat
         /\ \A x \in S : \E i \in 1 .. Cardinality(S) : Ascending(S)[i] = x
         /\ \A i, j \in 1 .. Cardinality(S) : i < j => Ascending(S)[i] < Ascending(S)[j]
<1> DEFINE n == Cardinality(S)
           a == Ascending(S)
<1>1. n \in Nat
  BY BelowNumbers
<1>2. a = [i \in 1 .. n |-> CHOOSE x \in S : Below(S, x) = i - 1]
  BY DEF Ascending
<1>3. ASSUME NEW i \in 1 .. n
      PROVE  a[i] \in S /\ Below(S, a[i]) = i - 1
  <2>1. i - 1 \in 0 .. Cardinality(S) - 1
    BY <1>1
  <2>2. \E x \in S : Below(S, x) = i - 1
    BY <2>1, BelowNumbers
  <2> QED
    BY <1>2, <2>2
<1> HIDE DEF a, n
<1>4. a \in [1 .. n -> S]
  BY <1>2, <1>3
<1>5. a \in Seq(S) /\ Len(a) = n
  BY <1>1, <1>4
<1>6. ASSUME NEW x \in S
      PROVE  \E i \in 1 .. n : a[i] = x
  <2>1. Below(S, x) \in 0 .. n - 1
    BY BelowNumbers DEF n
  <2>2. Below(S, x) + 1 \in 1 .. n /\ (Below(S, x) + 1) - 1 = Below(S, x)
    BY <1>1, <2>1
  <2>3. Below(S, a[Below(S, x) + 1]) = Below(S, x) /\ a[Below(S, x) + 1] \in S
    BY <1>3, <2>2
  <2>4. a[Below(S, x) + 1] = x
    <3> DEFINE z == a[Below(S, x) + 1]
    <3>1. z \in S /\ Below(S, z) = Below(S, x)
      BY <2>3
    <3> HIDE DEF z
    <3>2. z = x
      BY <3>1, BelowNumbers
    <3> QED
      BY <3>2 DEF z
  <2> QED
    BY <2>2, <2>4
<1>7. ASSUME NEW i \in 1 .. n, NEW j \in 1 .. n, i < j
      PROVE  a[i] < a[j]
  <2>1. Below(S, a[i]) < Below(S, a[j])
    BY <1>1, <1>3, <1>7
  <2> QED
    BY <1>3, <2>1, BelowNumbers
<1> QED
  BY <1>1, <1>5, <1>6, <1>7 DEF a, n

-----------------------------------------------------------------------------
(* The queue of kahn_order, for any predecessors pred[1], .., pred[N] of    *)
(* lower numbers, and the longest paths d from a source.                    *)

IsDepth(d, pred, N) ==
  \A m \in 1 .. N :
    /\ d[m] \in Nat
    /\ \A p \in pred[m] : d[p] < d[m]
    /\ d[m] = 0 \/ \E p \in pred[m] : d[m] = d[p] + 1

Firsts(line, i) == {line[b] : b \in 1 .. i}

(* Taken and waiting nodes in one line, the first i of them taken: nobody  *)
(* stands in it twice, it ascends by depth, and those in it are exactly    *)
(* the nodes whose predecessors are taken.                                 *)
Lined(line, i, pred, N, d) ==
  /\ line \in Seq(1 .. N) /\ i \in 0 .. Len(line)
  /\ \A a, b \in 1 .. Len(line) : a < b => line[a] # line[b] /\ d[line[a]] <= d[line[b]]
  /\ \A m \in 1 .. N : pred[m] \subseteq Firsts(line, i) <=> \E a \in 1 .. Len(line) : line[a] = m
  /\ \A a \in 1 .. Len(line) : \A p \in pred[line[a]] : \E b \in 1 .. a - 1 : line[b] = p

(* As long as a node is not taken, one waits: the first of them.           *)
LEMMA SomeoneWaits ==
  ASSUME NEW N \in Nat, NEW pred, NEW d, NEW line, NEW i, Lined(line, i, pred, N, d),
         \A m \in 1 .. N : pred[m] \subseteq 1 .. m - 1, i < N
  PROVE  i < Len(line)
<1>1. line \in Seq(1 .. N) /\ Len(line) \in Nat /\ i \in 0 .. Len(line) /\ i \in Nat
  BY LenProperties DEF Lined
<1> DEFINE Left == {m \in 1 .. N : m \notin Firsts(line, i)}
<1>2. Left # {}
  <2> SUFFICES ASSUME 1 .. N \subseteq Firsts(line, i) PROVE FALSE
    OBVIOUS
  <2> DEFINE f == [b \in 1 .. i |-> line[b]]
  <2>1. \A b \in 1 .. i : line[b] \in 1 .. N
    BY <1>1, ElementOfSeq
  <2>2. f \in Surjection(1 .. i, 1 .. N)
    BY <2>1 DEF Surjection, Firsts
  <2> HIDE DEF f
  <2>3. IsFiniteSet(1 .. i) /\ Cardinality(1 .. i) = i /\ Cardinality(1 .. N) = N
    <3>1. 1 \in Int /\ i \in Int /\ N \in Int
      BY <1>1
    <3>2. /\ IsFiniteSet(1 .. i) /\ Cardinality(1 .. i) = IF 1 > i THEN 0 ELSE i - 1 + 1
          /\ Cardinality(1 .. N) = IF 1 > N THEN 0 ELSE N - 1 + 1
      BY <3>1, FS_Interval
    <3> QED
      BY <1>1, <3>2
  <2>4. Cardinality(1 .. N) <= Cardinality(1 .. i)
    BY <2>2, <2>3, FS_Surjection
  <2> QED
    BY <1>1, <2>3, <2>4
<1>3. PICK m \in Left : \A u \in Left : m <= u
  <2>1. Left \in SUBSET Nat
    OBVIOUS
  <2> HIDE DEF Left
  <2> QED
    BY <1>2, <2>1, LeastElement
<1>4. pred[m] \subseteq Firsts(line, i)
  <2>1. \A p \in pred[m] : p \in 1 .. N /\ p < m
    OBVIOUS
  <2> QED
    BY <1>3, <2>1
<1>5. PICK a \in 1 .. Len(line) : line[a] = m
  BY <1>4 DEF Lined
<1>6. a \notin 1 .. i
  BY <1>5 DEF Firsts
<1> QED
  BY <1>1, <1>5, <1>6

(* Taking the next one lets those in that waited for it last.              *)
(* A position beyond the first of two sequences, in the second.            *)
LEMMA InTheSecond ==
  ASSUME NEW l \in Nat, NEW r \in Nat, NEW a \in 1 .. l + r, ~(a <= l)
  PROVE  a - l \in 1 .. r
OBVIOUS

LEMMA NextIsTaken ==
  ASSUME NEW N \in Nat, NEW pred, NEW d, NEW line, NEW i, Lined(line, i, pred, N, d),
         IsDepth(d, pred, N), \A m \in 1 .. N : pred[m] \subseteq 1 .. m - 1, i < Len(line),
         NEW R, R = {m \in 1 .. N : /\ line[i + 1] \in pred[m]
                                    /\ pred[m] \subseteq Firsts(line, i + 1)}
  PROVE  Lined(line \o Ascending(R), i + 1, pred, N, d)
<1> DEFINE n == line[i + 1]
           A == Ascending(R)
           l == Len(line)
           r == Len(A)
           new == line \o A
<1>1. line \in Seq(1 .. N) /\ l \in Nat /\ i \in Nat /\ i + 1 \in 1 .. l /\ n \in 1 .. N
      /\ \A a \in 1 .. l : line[a] \in 1 .. N
  BY LenProperties, ElementOfSeq DEF Lined
<1>2. R \in SUBSET Nat /\ IsFiniteSet(R) /\ R \subseteq 1 .. N
  <2>1. R \subseteq 1 .. N /\ IsFiniteSet(1 .. N)
    BY FS_Interval
  <2> QED
    BY <2>1, FS_Subset
<1>3. /\ A \in Seq(R) /\ r \in Nat
      /\ \A x \in R : \E a \in 1 .. r : A[a] = x
      /\ \A a, b \in 1 .. r : a < b => A[a] < A[b]
  BY <1>2, AscendingLists, ZenonT(30)
<1>4. A \in Seq(1 .. N) /\ \A a \in 1 .. r : A[a] \in R
  <2>1. \A a \in 1 .. r : A[a] \in R
    BY <1>3, ElementOfSeq
  <2>2. A \in Seq(1 .. N)
    BY <1>2, <1>3, SeqMonotonic
  <2> QED
    BY <2>1, <2>2
<1> HIDE DEF A
<1>5. /\ new \in Seq(1 .. N) /\ Len(new) = l + r
      /\ \A a \in 1 .. l + r : new[a] = IF a <= l THEN line[a] ELSE A[a - l]
  BY <1>1, <1>4, ConcatProperties
<1> HIDE DEF new, l, r, n
<1>6. ASSUME NEW m \in R
      PROVE  /\ m \in 1 .. N /\ n \in pred[m] /\ pred[m] \subseteq Firsts(line, i + 1)
             /\ d[m] = d[n] + 1
             /\ \A a \in 1 .. l : line[a] # m
             /\ \A p \in pred[m] : \E a \in 1 .. i + 1 : line[a] = p
  <2>1. m \in 1 .. N /\ n \in pred[m] /\ pred[m] \subseteq Firsts(line, i + 1)
    BY <1>6 DEF n
  <2>2. \A p \in pred[m] : \E a \in 1 .. i + 1 : line[a] = p
    BY <2>1 DEF Firsts
  <2>3. ASSUME NEW p \in pred[m] PROVE p \in 1 .. N /\ d[p] <= d[n] /\ d[p] \in Nat /\ d[n] \in Nat
    <3>1. PICK a \in 1 .. i + 1 : line[a] = p
      BY <2>2
    <3>2. a \in 1 .. l /\ i + 1 \in 1 .. l /\ (a < i + 1 \/ a = i + 1)
      BY <1>1, <3>1
    <3>3. p \in 1 .. N /\ d[p] \in Nat /\ d[n] \in Nat
      BY <1>1, <3>1, <3>2 DEF IsDepth
    <3>4. d[p] <= d[n]
      BY <3>1, <3>2, <3>3 DEF Lined, n, l
    <3> QED
      BY <3>3, <3>4
  <2>4. d[m] = d[n] + 1
    <3>1. d[m] \in Nat /\ d[n] < d[m] /\ (d[m] = 0 \/ \E p \in pred[m] : d[m] = d[p] + 1)
      BY <2>1 DEF IsDepth
    <3> QED
      BY <2>1, <2>3, <3>1
  <2>5. n \notin Firsts(line, i)
    <3> SUFFICES ASSUME NEW b \in 1 .. i, line[b] = n PROVE FALSE
      BY DEF Firsts
    <3>1. b \in 1 .. l /\ i + 1 \in 1 .. l /\ b < i + 1
      BY <1>1
    <3> QED
      BY <3>1 DEF Lined, n, l
  <2>6. \A a \in 1 .. l : line[a] # m
    BY <2>1, <2>5 DEF Lined, l
  <2> QED
    BY <2>1, <2>2, <2>4, <2>6
<1>7. ASSUME NEW a \in 1 .. l
      PROVE  d[line[a]] \in Nat /\ d[n] \in Nat /\ d[line[a]] <= d[n] + 1
  <2>1. line[a] \in 1 .. N /\ d[line[a]] \in Nat /\ d[n] \in Nat
    BY <1>1 DEF IsDepth
  <2>2. d[line[a]] = 0 \/ \E p \in pred[line[a]] : d[line[a]] = d[p] + 1
    BY <2>1 DEF IsDepth
  <2>3. ASSUME NEW p \in pred[line[a]] PROVE d[p] \in Nat /\ d[p] <= d[n]
    <3>1. pred[line[a]] \subseteq Firsts(line, i)
      BY <2>1 DEF Lined, l
    <3>2. PICK b \in 1 .. i : line[b] = p
      BY <3>1 DEF Firsts
    <3>3. b \in 1 .. l /\ i + 1 \in 1 .. l /\ b < i + 1
      BY <1>1, <3>2
    <3>4. d[p] \in Nat
      BY <1>1, <3>2, <3>3 DEF IsDepth
    <3> QED
      BY <3>2, <3>3, <3>4 DEF Lined, n, l
  <2> QED
    BY <2>1, <2>2, <2>3
<1>8. ASSUME NEW a \in 1 .. l + r, NEW b \in 1 .. l + r, a < b
      PROVE  new[a] # new[b] /\ d[new[a]] <= d[new[b]]
  <2>1. CASE b <= l
    <3>1. a \in 1 .. l /\ b \in 1 .. l /\ new[a] = line[a] /\ new[b] = line[b]
      BY <1>1, <1>3, <1>5, <1>8, <2>1
    <3> QED
      BY <1>8, <3>1 DEF Lined, l
  <2>2. CASE a <= l /\ ~(b <= l)
    <3>1. a \in 1 .. l /\ b - l \in 1 .. r /\ new[a] = line[a] /\ new[b] = A[b - l]
      BY <1>1, <1>3, <1>5, <1>8, <2>2, SMTT(30)
    <3>2. A[b - l] \in R
      BY <1>4, <3>1
    <3>3. d[A[b - l]] = d[n] + 1 /\ line[a] # A[b - l]
      BY <1>6, <3>1, <3>2
    <3>4. d[line[a]] <= d[n] + 1
      BY <1>7, <3>1
    <3> QED
      BY <3>1, <3>3, <3>4
  <2>3. CASE ~(a <= l)
    <3>0. ~(b <= l) /\ a - l < b - l
      BY <1>1, <1>3, <1>8, <2>3, SMTT(30)
    <3>1. /\ a - l \in 1 .. r /\ b - l \in 1 .. r /\ a - l < b - l
          /\ new[a] = A[a - l] /\ new[b] = A[b - l]
      <4>1. a - l \in 1 .. r /\ b - l \in 1 .. r
        BY <1>1, <1>3, <1>8, <2>3, <3>0, InTheSecond
      <4> QED
        BY <1>5, <1>8, <2>3, <3>0, <4>1
    <3>2. A[a - l] \in R /\ A[b - l] \in R /\ A[a - l] < A[b - l]
      BY <1>3, <1>4, <3>1
    <3>3. d[A[a - l]] = d[n] + 1 /\ d[A[b - l]] = d[n] + 1 /\ d[n] \in Nat
      BY <1>1, <1>6, <3>2 DEF IsDepth
    <3> QED
      BY <1>2, <3>1, <3>2, <3>3
  <2> QED
    BY <1>1, <1>3, <2>1, <2>2, <2>3
<1>9. Firsts(new, i + 1) = Firsts(line, i) \cup {n} /\ Firsts(line, i + 1) = Firsts(line, i) \cup {n}
  <2>1. \A b \in 1 .. i + 1 : new[b] = line[b]
    BY <1>1, <1>3, <1>5
  <2>2. \A b \in 1 .. i + 1 : b \in 1 .. i \/ b = i + 1
    BY <1>1
  <2>3. 1 .. i \subseteq 1 .. i + 1 /\ i + 1 \in 1 .. i + 1
    BY <1>1
  <2> QED
    BY <2>1, <2>2, <2>3 DEF Firsts, n
<1>10. ASSUME NEW m \in 1 .. N
       PROVE  pred[m] \subseteq Firsts(new, i + 1) <=> \E a \in 1 .. l + r : new[a] = m
  <2>1. (\E a \in 1 .. l + r : new[a] = m) <=> (\E a \in 1 .. l : line[a] = m) \/ m \in R
    <3>1. ASSUME NEW a \in 1 .. l + r, new[a] = m
          PROVE  (\E b \in 1 .. l : line[b] = m) \/ m \in R
      <4>1. CASE a <= l
        <5>1. a \in 1 .. l /\ new[a] = line[a]
          BY <1>1, <1>5, <3>1, <4>1
        <5> QED
          BY <3>1, <5>1
      <4>2. CASE ~(a <= l)
        <5>0. a - l \in 1 .. r
          BY <1>1, <1>3, <4>2, InTheSecond
        <5>1. a - l \in 1 .. r /\ new[a] = A[a - l]
          BY <1>5, <4>2, <5>0
        <5> QED
          BY <1>4, <3>1, <5>1
      <4> QED
        BY <4>1, <4>2
    <3>2. ASSUME NEW a \in 1 .. l PROVE a \in 1 .. l + r /\ new[a] = line[a]
      BY <1>1, <1>3, <1>5, SMTT(30)
    <3>3. ASSUME m \in R PROVE \E a \in 1 .. l + r : new[a] = m
      <4>1. PICK a \in 1 .. r : A[a] = m
        BY <1>3, <3>3
      <4>2. a + l \in 1 .. l + r /\ new[a + l] = A[a]
        <5>1. a + l \in 1 .. l + r /\ ~(a + l <= l) /\ (a + l) - l = a
          BY <1>1, <1>3
        <5> QED
          BY <1>5, <5>1
      <4> QED
        BY <4>1, <4>2
    <3> QED
      BY <3>1, <3>2, <3>3
  <2>2. (\E a \in 1 .. l : line[a] = m) <=> pred[m] \subseteq Firsts(line, i)
    BY DEF Lined, l
  <2>3. m \in R <=> n \in pred[m] /\ pred[m] \subseteq Firsts(line, i) \cup {n}
    BY <1>9 DEF n
  <2> QED
    BY <1>9, <2>1, <2>2, <2>3
<1>11. ASSUME NEW a \in 1 .. l + r, NEW p \in pred[new[a]]
       PROVE  \E b \in 1 .. a - 1 : new[b] = p
  <2>1. CASE a <= l
    <3>1. a \in 1 .. l /\ new[a] = line[a]
      BY <1>1, <1>3, <1>5, <2>1
    <3>2. PICK b \in 1 .. a - 1 : line[b] = p
      BY <1>11, <3>1 DEF Lined, l
    <3>3. new[b] = line[b]
      BY <1>1, <1>3, <1>5, <3>1, <3>2
    <3> QED
      BY <3>2, <3>3
  <2>2. CASE ~(a <= l)
    <3>0. a - l \in 1 .. r
      BY <1>1, <1>3, <1>11, <2>2, InTheSecond
    <3>1. a - l \in 1 .. r /\ new[a] = A[a - l]
      BY <1>5, <1>11, <2>2, <3>0
    <3>2. new[a] \in R
      BY <1>4, <3>1
    <3>3. PICK b \in 1 .. i + 1 : line[b] = p
      BY <1>6, <1>11, <3>2
    <3>4. b \in 1 .. a - 1 /\ new[b] = line[b]
      <4>1. b \in 1 .. l /\ a \in Nat /\ b \in 1 .. l + r
        BY <1>1, <1>3, <1>11, <3>3, SMTT(30)
      <4>2. b \in 1 .. a - 1
        BY <1>1, <2>2, <4>1
      <4>3. new[b] = line[b]
        BY <1>5, <4>1
      <4> QED
        BY <4>2, <4>3
    <3> QED
      BY <3>3, <3>4
  <2> QED
    BY <2>1, <2>2
<1>12. i + 1 \in 0 .. Len(new)
  BY <1>1, <1>3, <1>5
<1>13. Lined(new, i + 1, pred, N, d)
  BY <1>5, <1>8, <1>10, <1>11, <1>12 DEF Lined
<1> QED
  BY <1>13 DEF new, A

KahnStart(pred, N) ==
  [frontier |-> Ascending({n \in 1 .. N : pred[n] = {}}), order |-> <<>>]

KahnStep(was, pred, N) ==
  [frontier |-> Extend(was.frontier,
                  {m \in 1 .. N : /\ Head(was.frontier) \in pred[m]
                                  /\ pred[m] \subseteq
                                       Range(Append(was.order, Head(was.frontier)))}),
   order |-> Append(was.order, Head(was.frontier))]

IsKahn(k, pred, N, upTo) ==
  k = [i \in 0 .. upTo |-> IF i = 0 THEN KahnStart(pred, N) ELSE KahnStep(k[i - 1], pred, N)]

LEMMA KahnExists ==
  ASSUME NEW N \in Nat, NEW pred
  PROVE  \E k : IsKahn(k, pred, N, N)
<1> DEFINE Bad == {n \in 0 .. N : ~\E k : IsKahn(k, pred, N, n)}
<1> SUFFICES ASSUME Bad # {} PROVE FALSE
  OBVIOUS
<1>1. PICK n \in Bad : \A m \in Bad : n <= m
  <2>1. Bad \in SUBSET Nat
    OBVIOUS
  <2> HIDE DEF Bad
  <2> QED
    BY <2>1, LeastElement
<1>2. n \in 0 .. N /\ ~\E k : IsKahn(k, pred, N, n)
  OBVIOUS
<1>3. CASE n = 0
  <2> DEFINE k == [i \in 0 .. 0 |-> KahnStart(pred, N)]
  <2>1. k = [i \in 0 .. 0 |-> IF i = 0 THEN KahnStart(pred, N) ELSE KahnStep(k[i - 1], pred, N)]
    OBVIOUS
  <2> HIDE DEF k
  <2> QED
    BY <1>2, <1>3, <2>1 DEF IsKahn
<1>4. CASE n # 0
  <2>1. n - 1 \in 0 .. N /\ ~(n <= n - 1) /\ n \in Nat /\ n > 0
    BY <1>2, <1>4
  <2>2. PICK h : IsKahn(h, pred, N, n - 1)
    BY <1>1, <2>1
  <2> DEFINE k == [i \in 0 .. n |-> IF i = n THEN KahnStep(h[n - 1], pred, N) ELSE h[i]]
  <2>3. ASSUME NEW i \in 0 .. n
        PROVE  k[i] = IF i = 0 THEN KahnStart(pred, N) ELSE KahnStep(k[i - 1], pred, N)
    <3>1. CASE i = n
      <4>1. n - 1 \in 0 .. n /\ n - 1 # n
        BY <2>1
      <4>2. k[n - 1] = h[n - 1]
        BY <4>1
      <4> QED
        BY <2>1, <3>1, <4>2
    <3>2. CASE i # n
      <4>1. i \in 0 .. n - 1 /\ (i # 0 => i - 1 \in 0 .. n /\ i - 1 # n)
        BY <2>1, <2>3, <3>2
      <4>2. h[i] = IF i = 0 THEN KahnStart(pred, N) ELSE KahnStep(h[i - 1], pred, N)
        BY <2>2, <4>1 DEF IsKahn
      <4>3. k[i] = h[i] /\ (i # 0 => k[i - 1] = h[i - 1])
        BY <2>3, <3>2, <4>1
      <4> QED
        BY <4>2, <4>3
    <3> QED
      BY <3>1, <3>2
  <2>4. DOMAIN k = 0 .. n /\ k = [i \in 0 .. n |-> k[i]]
    OBVIOUS
  <2> HIDE DEF k
  <2>5. k = [i \in 0 .. n |-> IF i = 0 THEN KahnStart(pred, N) ELSE KahnStep(k[i - 1], pred, N)]
    BY <2>3, <2>4
  <2> QED
    BY <1>2, <2>5 DEF IsKahn
<1> QED
  BY <1>3, <1>4

(* The two parts of the queue, as one line.                                *)
Queued(was, i, pred, N, d) ==
  /\ was.order \in Seq(1 .. N) /\ was.frontier \in Seq(1 .. N) /\ Len(was.order) = i
  /\ Lined(was.order \o was.frontier, i, pred, N, d)

LEMMA StartIsQueued ==
  ASSUME NEW N \in Nat, NEW pred, NEW d, IsDepth(d, pred, N)
  PROVE  Queued(KahnStart(pred, N), 0, pred, N, d)
<1> DEFINE R == {n \in 1 .. N : pred[n] = {}}
           A == Ascending(R)
<1>1. R \in SUBSET Nat /\ IsFiniteSet(R) /\ R \subseteq 1 .. N
  <2>1. R \subseteq 1 .. N /\ IsFiniteSet(1 .. N)
    BY FS_Interval
  <2> QED
    BY <2>1, FS_Subset
<1>2. /\ A \in Seq(R) /\ Len(A) \in Nat
      /\ \A x \in R : \E a \in 1 .. Len(A) : A[a] = x
      /\ \A a, b \in 1 .. Len(A) : a < b => A[a] < A[b]
  BY <1>1, AscendingLists
<1>3. \A a \in 1 .. Len(A) : A[a] \in R
  BY <1>2, ElementOfSeq
<1>4. A \in Seq(1 .. N)
  BY <1>1, <1>2, SeqMonotonic
<1>5. KahnStart(pred, N).frontier = A /\ KahnStart(pred, N).order = <<>>
  BY DEF KahnStart
<1>6. <<>> \o A = A
  BY <1>4, ConcatEmptySeq
<1>7. \A m \in R : d[m] = 0 /\ pred[m] = {} /\ m \in 1 .. N
  BY DEF IsDepth
<1>8. \A m \in 1 .. N : m \in R <=> pred[m] \subseteq {}
  OBVIOUS
<1>9. Firsts(A, 0) = {}
  BY DEF Firsts
<1> HIDE DEF A, R
<1>10. \A a, b \in 1 .. Len(A) : a < b => A[a] # A[b] /\ d[A[a]] <= d[A[b]]
  <2> SUFFICES ASSUME NEW a \in 1 .. Len(A), NEW b \in 1 .. Len(A), a < b
               PROVE  A[a] # A[b] /\ d[A[a]] <= d[A[b]]
    OBVIOUS
  <2>1. A[a] \in R /\ A[b] \in R /\ A[a] < A[b]
    BY <1>2, <1>3
  <2>2. A[a] \in Nat /\ A[b] \in Nat
    BY <1>1, <2>1
  <2> QED
    BY <1>7, <2>1, <2>2
<1>11. \A m \in 1 .. N : pred[m] \subseteq Firsts(A, 0) <=> \E a \in 1 .. Len(A) : A[a] = m
  BY <1>2, <1>3, <1>8, <1>9
<1>12. Lined(A, 0, pred, N, d)
  <2>1. 0 \in 0 .. Len(A)
    BY <1>2
  <2>2. \A a \in 1 .. Len(A) : pred[A[a]] = {}
    BY <1>3, <1>7
  <2> QED
    BY <1>4, <1>10, <1>11, <2>1, <2>2 DEF Lined
<1> QED
  BY <1>4, <1>5, <1>6, <1>12 DEF Queued

LEMMA StepIsQueued ==
  ASSUME NEW N \in Nat, NEW pred, NEW d, IsDepth(d, pred, N),
         \A m \in 1 .. N : pred[m] \subseteq 1 .. m - 1,
         NEW was, NEW i \in Nat, i < N, Queued(was, i, pred, N, d)
  PROVE  Queued(KahnStep(was, pred, N), i + 1, pred, N, d)
<1> DEFINE o == was.order
           f == was.frontier
           line == o \o f
           taken == Append(o, Head(f))
           R == {m \in 1 .. N : line[i + 1] \in pred[m] /\ pred[m] \subseteq Firsts(line, i + 1)}
           A == Ascending(R)
<1>1. o \in Seq(1 .. N) /\ f \in Seq(1 .. N) /\ Len(o) = i /\ Len(f) \in Nat
  BY LenProperties DEF Queued
<1>2. Lined(line, i, pred, N, d)
  BY DEF Queued
<1>3. /\ line \in Seq(1 .. N) /\ Len(line) = i + Len(f)
      /\ \A a \in 1 .. i + Len(f) : line[a] = IF a <= i THEN o[a] ELSE f[a - i]
  BY <1>1, ConcatProperties
<1> HIDE DEF o, f, line
<1>4. i < Len(line)
  BY <1>2, SomeoneWaits
<1>5. f # <<>> /\ Len(f) >= 1
  <2>1. Len(f) >= 1
    BY <1>1, <1>3, <1>4
  <2> QED
    BY <2>1, Len(<<>>) = 0
<1>6. /\ Head(f) = f[1] /\ Head(f) \in 1 .. N /\ Tail(f) \in Seq(1 .. N)
      /\ Len(Tail(f)) = Len(f) - 1 /\ \A a \in 1 .. Len(f) - 1 : Tail(f)[a] = f[a + 1]
  BY <1>1, <1>5, HeadTailProperties
<1>7. line[i + 1] = Head(f)
  <2>1. i + 1 \in 1 .. i + Len(f) /\ ~(i + 1 <= i) /\ (i + 1) - i = 1
    BY <1>1, <1>5
  <2>2. line[i + 1] = f[1]
    BY <1>3, <2>1
  <2> QED
    BY <1>6, <2>2
<1>8. /\ taken \in Seq(1 .. N) /\ Len(taken) = i + 1
      /\ \A a \in 1 .. i : taken[a] = o[a] /\ taken[i + 1] = Head(f)
  BY <1>1, <1>6, AppendProperties
<1>9. taken[i + 1] = Head(f)
  BY <1>1, <1>6, AppendProperties
<1>10. \A a \in 1 .. i + 1 : taken[a] = line[a]
  <2> SUFFICES ASSUME NEW a \in 1 .. i + 1 PROVE taken[a] = line[a]
    OBVIOUS
  <2>1. CASE a = i + 1
    BY <1>7, <1>9, <2>1
  <2>2. CASE a # i + 1
    <3>1. a \in 1 .. i /\ a \in 1 .. i + Len(f) /\ a <= i
      BY <1>1, <2>2
    <3> QED
      BY <1>3, <1>8, <3>1
  <2> QED
    BY <2>1, <2>2
<1> HIDE DEF taken
<1>11. Range(taken) = Firsts(line, i + 1)
  <2>1. DOMAIN taken = 1 .. i + 1
    BY <1>8, LenProperties
  <2> QED
    BY <1>10, <2>1 DEF Range, Firsts
<1>12. /\ KahnStep(was, pred, N).order = taken
       /\ KahnStep(was, pred, N).frontier = Tail(f) \o A
  <2>1. KahnStep(was, pred, N).order = taken
    BY DEF KahnStep, taken, o, f
  <2>2. KahnStep(was, pred, N).frontier
          = Extend(f, {m \in 1 .. N : Head(f) \in pred[m] /\ pred[m] \subseteq Range(taken)})
    BY DEF KahnStep, taken, o, f
  <2>3. {m \in 1 .. N : Head(f) \in pred[m] /\ pred[m] \subseteq Range(taken)} = R
    BY <1>7, <1>11
  <2> QED
    BY <2>1, <2>2, <2>3 DEF Extend
<1>13. A \in Seq(1 .. N)
  <2>1. R \subseteq 1 .. N /\ IsFiniteSet(1 .. N)
    BY FS_Interval
  <2>2. IsFiniteSet(R) /\ R \in SUBSET Nat
    BY <2>1, FS_Subset
  <2> HIDE DEF R
  <2>3. A \in Seq(R)
    BY <2>2, AscendingLists
  <2> QED
    BY <2>1, <2>3, SeqMonotonic
<1>14. Lined(line \o A, i + 1, pred, N, d)
  BY <1>2, <1>4, NextIsTaken
<1> HIDE DEF A, R
<1>15. taken \o Tail(f) = line
  <2>1. /\ taken \o Tail(f) \in Seq(1 .. N) /\ Len(taken \o Tail(f)) = (i + 1) + (Len(f) - 1)
        /\ \A a \in 1 .. (i + 1) + (Len(f) - 1) :
             (taken \o Tail(f))[a] = IF a <= i + 1 THEN taken[a] ELSE Tail(f)[a - (i + 1)]
    <3> DEFINE t == Tail(f)
    <3>1. t \in Seq(1 .. N) /\ taken \in Seq(1 .. N) /\ Len(t) = Len(f) - 1 /\ Len(taken) = i + 1
      BY <1>6, <1>8
    <3> HIDE DEF t
    <3>2. /\ taken \o t \in Seq(1 .. N) /\ Len(taken \o t) = Len(taken) + Len(t)
          /\ \A a \in 1 .. Len(taken) + Len(t) :
               (taken \o t)[a] = IF a <= Len(taken) THEN taken[a] ELSE t[a - Len(taken)]
      BY <3>1, ConcatProperties
    <3>3. /\ taken \o t \in Seq(1 .. N) /\ Len(taken \o t) = (i + 1) + (Len(f) - 1)
          /\ \A a \in 1 .. (i + 1) + (Len(f) - 1) :
               (taken \o t)[a] = IF a <= i + 1 THEN taken[a] ELSE t[a - (i + 1)]
      BY <3>1, <3>2
    <3> QED
      BY <3>3 DEF t
  <2>2. (i + 1) + (Len(f) - 1) = i + Len(f)
    BY <1>1
  <2>3. ASSUME NEW a \in 1 .. i + Len(f)
        PROVE  (taken \o Tail(f))[a] = line[a]
    <3>1. (taken \o Tail(f))[a] = IF a <= i + 1 THEN taken[a] ELSE Tail(f)[a - (i + 1)]
      BY <2>1, <2>2
    <3>2. CASE a <= i + 1
      <4>1. a \in 1 .. i + 1
        BY <1>1, <3>2
      <4> QED
        BY <1>10, <3>1, <3>2, <4>1
    <3>3. CASE ~(a <= i + 1)
      <4>1. a - (i + 1) \in 1 .. Len(f) - 1 /\ (a - (i + 1)) + 1 = a - i /\ ~(a <= i)
        BY <1>1, <3>3
      <4>2. Tail(f)[a - (i + 1)] = f[(a - (i + 1)) + 1]
        BY <1>6, <4>1
      <4>3. line[a] = f[a - i]
        BY <1>3, <4>1
      <4> QED
        BY <3>1, <3>3, <4>1, <4>2, <4>3
    <3> QED
      BY <3>2, <3>3
  <2>4. \A a \in 1 .. Len(taken \o Tail(f)) : (taken \o Tail(f))[a] = line[a]
    BY <2>1, <2>2, <2>3
  <2> QED
    BY <1>3, <2>1, <2>2, <2>4, SeqEqual
<1>16. taken \o (Tail(f) \o A) = line \o A
  <2>1. (taken \o Tail(f)) \o A = taken \o (Tail(f) \o A)
    <3> DEFINE t == Tail(f)
    <3>1. t \in Seq(1 .. N) /\ taken \in Seq(1 .. N) /\ A \in Seq(1 .. N)
      BY <1>6, <1>8, <1>13
    <3> HIDE DEF t
    <3>2. (taken \o t) \o A = taken \o (t \o A)
      BY <3>1, ConcatAssociative, SMTT(30)
    <3> QED
      BY <3>2 DEF t
  <2> QED
    BY <1>15, <2>1
<1>17. Tail(f) \o A \in Seq(1 .. N)
  BY <1>6, <1>13, ConcatProperties
<1> QED
  BY <1>8, <1>12, <1>14, <1>16, <1>17 DEF Queued

(* A topological order, level by level.                                    *)
Topological(order, pred, N, d) ==
  /\ order \in Seq(1 .. N) /\ Len(order) = N
  /\ \A m \in 1 .. N : \E a \in 1 .. N : order[a] = m
  /\ \A a, b \in 1 .. N : a < b => order[a] # order[b] /\ d[order[a]] <= d[order[b]]
  /\ \A a \in 1 .. N : \A p \in pred[order[a]] : \E b \in 1 .. a - 1 : order[b] = p

LEMMA QueueEmpties ==
  ASSUME NEW N \in Nat, NEW pred, NEW d, NEW was, Queued(was, N, pred, N, d)
  PROVE  Topological(was.order, pred, N, d)
<1> DEFINE o == was.order
           f == was.frontier
           line == o \o f
<1>1. o \in Seq(1 .. N) /\ f \in Seq(1 .. N) /\ Len(o) = N /\ Len(f) \in Nat
  BY LenProperties DEF Queued
<1>2. Lined(line, N, pred, N, d)
  BY DEF Queued
<1>3. /\ line \in Seq(1 .. N) /\ Len(line) = N + Len(f)
      /\ \A a \in 1 .. N + Len(f) : line[a] = IF a <= N THEN o[a] ELSE f[a - N]
  BY <1>1, ConcatProperties, ZenonT(30)
<1> HIDE DEF o, f, line
<1>4. \A a \in 1 .. N : a \in 1 .. Len(line) /\ line[a] = o[a] /\ o[a] \in 1 .. N
  <2> SUFFICES ASSUME NEW a \in 1 .. N
               PROVE  a \in 1 .. Len(line) /\ line[a] = o[a] /\ o[a] \in 1 .. N
    OBVIOUS
  <2>1. a \in 1 .. N + Len(f) /\ a <= N
    BY <1>1
  <2>2. o[a] \in 1 .. N
    BY <1>1, ElementOfSeq
  <2> QED
    BY <1>3, <2>1, <2>2
<1>5. \A a, b \in 1 .. N : a < b => o[a] # o[b] /\ d[o[a]] <= d[o[b]]
  <2> SUFFICES ASSUME NEW a \in 1 .. N, NEW b \in 1 .. N, a < b
               PROVE  o[a] # o[b] /\ d[o[a]] <= d[o[b]]
    OBVIOUS
  <2>1. a \in 1 .. Len(line) /\ b \in 1 .. Len(line)
    BY <1>4
  <2>2. line[a] # line[b] /\ d[line[a]] <= d[line[b]]
    BY <1>2, <2>1 DEF Lined
  <2> QED
    BY <1>4, <2>2
<1>6. \A m \in 1 .. N : \E a \in 1 .. N : o[a] = m
  <2> DEFINE g == [a \in 1 .. N |-> o[a]]
  <2>1. \A a, b \in 1 .. N : o[a] = o[b] => a = b
    <3> SUFFICES ASSUME NEW a \in 1 .. N, NEW b \in 1 .. N, a # b PROVE o[a] # o[b]
      OBVIOUS
    <3>1. a < b \/ b < a
      OBVIOUS
    <3> QED
      BY <1>5, <3>1
  <2>2. g \in Injection(1 .. N, 1 .. N)
    BY <1>4, <2>1 DEF Injection, IsInjective
  <2>3. IsFiniteSet(1 .. N)
    BY FS_Interval
  <2> HIDE DEF g
  <2>4. g \in Surjection(1 .. N, 1 .. N)
    BY <2>2, <2>3, FS_Injection
  <2>5. \A m \in 1 .. N : \E a \in 1 .. N : g[a] = m
    BY <2>4 DEF Surjection
  <2> QED
    BY <2>5 DEF g
<1>7. ASSUME NEW a \in 1 .. N, NEW p \in pred[o[a]]
      PROVE  \E b \in 1 .. a - 1 : o[b] = p
  <2>1. PICK b \in 1 .. a - 1 : line[b] = p
    BY <1>2, <1>4, <1>7 DEF Lined
  <2>2. b \in 1 .. N
    OBVIOUS
  <2> QED
    BY <1>4, <2>1, <2>2
<1>8. Topological(o, pred, N, d)
  BY <1>1, <1>5, <1>6, <1>7 DEF Topological
<1> QED
  BY <1>8 DEF o

(* What kahn_order returns.                                                *)
LEMMA KahnIsTopological ==
  ASSUME Len(nodes) \in Nat, NodeId = 1 .. Len(nodes), \A n \in NodeId : Preds(n) \subseteq 1 .. n - 1,
         NEW d, IsDepth(d, [n \in NodeId |-> Preds(n)], Len(nodes))
  PROVE  Topological(KahnOrder, [n \in NodeId |-> Preds(n)], Len(nodes), d)
<1> DEFINE N == Len(nodes)
           pred == [n \in NodeId |-> Preds(n)]
           k == CHOOSE h : IsKahn(h, pred, N, N)
<1>1. KahnOrder = k[N].order
  BY DEF KahnOrder, IsKahn, KahnStart, KahnStep
<1>2. IsKahn(k, pred, N, N)
  BY KahnExists
<1>3. /\ N \in Nat /\ NodeId = 1 .. N /\ IsDepth(d, pred, N)
      /\ \A m \in 1 .. N : pred[m] \subseteq 1 .. m - 1
  OBVIOUS
<1> HIDE DEF k, pred, N
<1> DEFINE Bad == {i \in 0 .. N : ~Queued(k[i], i, pred, N, d)}
<1>4. Bad = {}
  <2> SUFFICES ASSUME Bad # {} PROVE FALSE
    OBVIOUS
  <2>1. PICK i \in Bad : \A j \in Bad : i <= j
    <3>1. Bad \in SUBSET Nat
      OBVIOUS
    <3> HIDE DEF Bad
    <3> QED
      BY <3>1, LeastElement
  <2>2. i \in 0 .. N /\ ~Queued(k[i], i, pred, N, d)
    OBVIOUS
  <2>3. k[i] = IF i = 0 THEN KahnStart(pred, N) ELSE KahnStep(k[i - 1], pred, N)
    BY <1>2, <2>2 DEF IsKahn
  <2>4. i # 0
    BY <1>3, <2>2, <2>3, StartIsQueued
  <2>5. i - 1 \in 0 .. N /\ i - 1 \in Nat /\ i - 1 < N /\ ~(i <= i - 1) /\ (i - 1) + 1 = i
    BY <1>3, <2>2, <2>4
  <2>6. Queued(k[i - 1], i - 1, pred, N, d)
    BY <2>1, <2>5
  <2>7. Queued(KahnStep(k[i - 1], pred, N), (i - 1) + 1, pred, N, d)
    BY <1>3, <2>5, <2>6, StepIsQueued
  <2> QED
    BY <2>2, <2>3, <2>4, <2>5, <2>7
<1>5. Queued(k[N], N, pred, N, d)
  BY <1>3, <1>4
<1>6. Topological(k[N].order, pred, N, d)
  BY <1>3, <1>5, QueueEmpties
<1> QED
  BY <1>1, <1>6 DEF pred, N

-----------------------------------------------------------------------------
(* Recursion along the edges, which lead to higher numbers: depths from     *)
(* the sources, and who is alive from the sinks.                           *)

DeepestPred(h, preds) == Deepest({h[p] + 1 : p \in preds})
IsPathLength(h, pred, n) == h = [m \in 1 .. n |-> DeepestPred(h, pred[m])]

LEMMA DepthsExist ==
  ASSUME NEW N \in Nat, NEW pred, \A m \in 1 .. N : pred[m] \subseteq 1 .. m - 1
  PROVE  \E h : IsPathLength(h, pred, N)
<1> DEFINE Bad == {n \in 0 .. N : ~\E h : IsPathLength(h, pred, n)}
<1> SUFFICES ASSUME Bad # {} PROVE FALSE
  OBVIOUS
<1>1. PICK n \in Bad : \A m \in Bad : n <= m
  <2>1. Bad \in SUBSET Nat
    OBVIOUS
  <2> HIDE DEF Bad
  <2> QED
    BY <2>1, LeastElement
<1>2. n \in 0 .. N /\ ~\E h : IsPathLength(h, pred, n)
  OBVIOUS
<1>3. n # 0
  <2> SUFFICES ASSUME n = 0 PROVE FALSE
    OBVIOUS
  <2> DEFINE h == [m \in {} |-> 0]
  <2>1. h = [m \in 1 .. 0 |-> DeepestPred(h, pred[m])]
    OBVIOUS
  <2> HIDE DEF h
  <2> QED
    BY <1>2, <2>1 DEF IsPathLength
<1>4. n - 1 \in 0 .. N /\ ~(n <= n - 1) /\ n \in 1 .. N
  BY <1>2, <1>3
<1>5. PICK h : IsPathLength(h, pred, n - 1)
  BY <1>1, <1>4
<1> DEFINE k == [m \in 1 .. n |-> IF m = n THEN DeepestPred(h, pred[n]) ELSE h[m]]
<1>6. ASSUME NEW m \in 1 .. n
      PROVE  DeepestPred(k, pred[m]) = DeepestPred(h, pred[m])
  <2>1. \A p \in pred[m] : p \in 1 .. n /\ p # n
    <3>1. pred[m] \subseteq 1 .. m - 1
      BY <1>4
    <3> QED
      BY <1>4, <3>1
  <2>2. \A p \in pred[m] : k[p] = h[p]
    BY <2>1
  <2> HIDE DEF k
  <2>3. {k[p] + 1 : p \in pred[m]} = {h[p] + 1 : p \in pred[m]}
    BY <2>2
  <2> QED
    BY <2>3 DEF DeepestPred
<1>7. ASSUME NEW m \in 1 .. n
      PROVE  k[m] = DeepestPred(h, pred[m])
  <2>1. CASE m = n
    BY <2>1
  <2>2. CASE m # n
    <3>1. m \in 1 .. n - 1
      BY <1>4, <2>2
    <3>2. h[m] = DeepestPred(h, pred[m])
      BY <1>5, <3>1 DEF IsPathLength
    <3> QED
      BY <2>2, <3>2
  <2> QED
    BY <2>1, <2>2
<1>8. k = [m \in 1 .. n |-> k[m]]
  OBVIOUS
<1> HIDE DEF k
<1>9. k = [m \in 1 .. n |-> DeepestPred(k, pred[m])]
  BY <1>6, <1>7, <1>8
<1> QED
  BY <1>2, <1>9 DEF IsPathLength

LEMMA PathLengthsAreDepths ==
  ASSUME NEW N \in Nat, NEW pred, \A m \in 1 .. N : pred[m] \subseteq 1 .. m - 1,
         NEW h, IsPathLength(h, pred, N)
  PROVE  IsDepth(h, pred, N)
<1>1. ASSUME NEW m \in 1 .. N, \A p \in pred[m] : h[p] \in 0 .. p - 1
      PROVE  /\ h[m] \in 0 .. m - 1
             /\ \A p \in pred[m] : h[p] < h[m]
             /\ h[m] = 0 \/ \E p \in pred[m] : h[m] = h[p] + 1
  <2> DEFINE S == {0} \cup {h[p] + 1 : p \in pred[m]}
  <2>1. \A p \in pred[m] : p \in 1 .. m - 1 /\ h[p] + 1 \in 0 .. m - 1 /\ h[p] \in Nat
    BY <1>1
  <2>2. S \in SUBSET Int /\ S # {} /\ m - 1 \in Int /\ \A x \in S : x <= m - 1 /\ x >= 0
    BY <2>1
  <2>3. h[m] = Max(S)
    BY DEF IsPathLength, DeepestPred, Deepest
  <2>4. \A p \in pred[m] : h[p] + 1 \in S
    OBVIOUS
  <2>5. \A x \in S : x = 0 \/ \E p \in pred[m] : x = h[p] + 1
    OBVIOUS
  <2> HIDE DEF S
  <2>6. h[m] \in S /\ \A x \in S : x <= h[m]
    BY <2>2, <2>3, MaxIsMaximum
  <2>7. h[m] \in 0 .. m - 1
    <3>1. h[m] \in Int /\ h[m] <= m - 1 /\ h[m] >= 0 /\ m - 1 \in Int
      BY <2>2, <2>6
    <3> QED
      BY <3>1
  <2>8. \A p \in pred[m] : h[p] < h[m]
    BY <2>1, <2>4, <2>6, <2>7
  <2> QED
    BY <2>5, <2>6, <2>7, <2>8
<1> DEFINE Bad == {m \in 1 .. N : h[m] \notin 0 .. m - 1}
<1>2. Bad = {}
  <2> SUFFICES ASSUME Bad # {} PROVE FALSE
    OBVIOUS
  <2>1. PICK m \in Bad : \A u \in Bad : m <= u
    <3>1. Bad \in SUBSET Nat
      OBVIOUS
    <3> HIDE DEF Bad
    <3> QED
      BY <3>1, LeastElement
  <2>2. \A p \in pred[m] : p \in 1 .. N /\ p < m
    OBVIOUS
  <2>3. \A p \in pred[m] : p \notin Bad
    BY <2>1, <2>2
  <2>4. \A p \in pred[m] : h[p] \in 0 .. p - 1
    BY <2>2, <2>3
  <2> QED
    BY <1>1, <2>4
<1>3. \A m \in 1 .. N : \A p \in pred[m] : h[p] \in 0 .. p - 1
  BY <1>2
<1>4. \A m \in 1 .. N : /\ h[m] \in 0 .. m - 1
                        /\ \A p \in pred[m] : h[p] < h[m]
                        /\ h[m] = 0 \/ \E p \in pred[m] : h[m] = h[p] + 1
  BY <1>1, <1>3
<1> QED
  BY <1>4 DEF IsDepth

(* Who is an output or has a successor that is alive.                      *)
IsAlive(a, out, succ, low, N) ==
  a = [n \in low .. N |-> out[n] \/ \E s \in succ[n] : a[s]]

LEMMA AliveExists ==
  ASSUME NEW N \in Nat, NEW out, NEW succ, \A n \in 1 .. N : succ[n] \subseteq n + 1 .. N
  PROVE  \E a : IsAlive(a, out, succ, 1, N)
<1> DEFINE Bad == {j \in 0 .. N : ~\E a : IsAlive(a, out, succ, N - j + 1, N)}
<1> SUFFICES ASSUME Bad # {} PROVE FALSE
  <2>1. N \notin Bad /\ N \in 0 .. N /\ N - N + 1 = 1
    OBVIOUS
  <2> QED
    BY <2>1
<1>1. PICK j \in Bad : \A m \in Bad : j <= m
  <2>1. Bad \in SUBSET Nat
    OBVIOUS
  <2> HIDE DEF Bad
  <2> QED
    BY <2>1, LeastElement
<1> DEFINE n == N - j + 1
<1>2. j \in 0 .. N /\ ~\E a : IsAlive(a, out, succ, n, N)
  OBVIOUS
<1>3. j # 0
  <2> SUFFICES ASSUME j = 0 PROVE FALSE
    OBVIOUS
  <2> DEFINE a == [m \in {} |-> TRUE]
  <2>1. n .. N = {}
    BY <1>2
  <2>2. a = [m \in n .. N |-> out[m] \/ \E s \in succ[m] : a[s]]
    BY <2>1
  <2> HIDE DEF a
  <2> QED
    BY <1>2, <2>2 DEF IsAlive
<1>4. j - 1 \in 0 .. N /\ ~(j <= j - 1) /\ n \in 1 .. N /\ N - (j - 1) + 1 = n + 1
  BY <1>2, <1>3
<1>5. PICK b : IsAlive(b, out, succ, n + 1, N)
  <2>1. j - 1 \notin Bad
    BY <1>1, <1>4
  <2>2. \E b : IsAlive(b, out, succ, N - (j - 1) + 1, N)
    BY <1>4, <2>1
  <2> QED
    BY <1>4, <2>2
<1> HIDE DEF n
<1> DEFINE a == [m \in n .. N |-> out[m] \/ \E s \in succ[m] : b[s]]
<1>6. ASSUME NEW m \in n .. N
      PROVE  \A s \in succ[m] : a[s] = b[s]
  <2> TAKE s \in succ[m]
  <2>1. m \in 1 .. N
    BY <1>4
  <2>2. s \in m + 1 .. N
    BY <2>1
  <2>3. s \in n .. N /\ s \in n + 1 .. N
    BY <1>4, <2>1, <2>2
  <2>4. a[s] = (out[s] \/ \E u \in succ[s] : b[u])
    BY <2>3
  <2>5. b[s] = (out[s] \/ \E u \in succ[s] : b[u])
    BY <1>5, <2>3 DEF IsAlive
  <2> QED
    BY <2>4, <2>5
<1>7. \A m \in n .. N : (out[m] \/ \E s \in succ[m] : b[s]) = (out[m] \/ \E s \in succ[m] : a[s])
  BY <1>6
<1>8. a = [m \in n .. N |-> out[m] \/ \E s \in succ[m] : b[s]]
  OBVIOUS
<1> HIDE DEF a
<1>9. a = [m \in n .. N |-> out[m] \/ \E s \in succ[m] : a[s]]
  BY <1>7, <1>8
<1> QED
  BY <1>2, <1>9 DEF IsAlive

-----------------------------------------------------------------------------
(* The shapes of a graph.                                                  *)

LEMMA DomainIsFinite ==
  ASSUME NEW S, NEW s \in Seq(S)
  PROVE  /\ Len(s) \in Nat /\ DOMAIN s = 1 .. Len(s) /\ IsFiniteSet(DOMAIN s)
         /\ DOMAIN s \subseteq Nat /\ \A i \in DOMAIN s : s[i] \in S
<1>1. Len(s) \in Nat /\ DOMAIN s = 1 .. Len(s)
  OBVIOUS
<1>2. IsFiniteSet(1 .. Len(s))
  BY <1>1, FS_Interval
<1>3. ASSUME NEW i \in DOMAIN s
      PROVE  s[i] \in S
  BY <1>1, <1>3, ElementOfSeq
<1> QED
  BY <1>1, <1>2, <1>3

IsProduct(h, shape) ==
  h = [S \in SUBSET DOMAIN shape |->
         IF S = {} THEN 1
         ELSE shape[CHOOSE x \in S : TRUE] * h[S \ {CHOOSE x \in S : TRUE}]]

LEMMA ProductExists ==
  ASSUME NEW shape \in Seq(Nat)
  PROVE  \E h : IsProduct(h, shape) /\ h \in [SUBSET DOMAIN shape -> Nat]
<1> DEFINE D == DOMAIN shape
           pick == [S \in SUBSET D |-> CHOOSE x \in S : TRUE]
           step == [p \in D \X Nat |-> shape[p[1]] * p[2]]
<1>1. IsFiniteSet(D) /\ \A i \in D : shape[i] \in Nat
  BY DomainIsFinite
<1>2. Picks(pick, D)
  BY DEF Picks
<1>3. step \in [D \X Nat -> Nat]
  <2>1. \A p \in D \X Nat : shape[p[1]] \in Nat /\ p[2] \in Nat
    BY <1>1
  <2>2. \A p \in D \X Nat : shape[p[1]] * p[2] \in Nat
    BY <2>1
  <2> HIDE DEF D
  <2> QED
    BY <2>2
<1>4. \A S \in SUBSET D : pick[S] = CHOOSE x \in S : TRUE
  OBVIOUS
<1>5. \A i \in D, n \in Nat : step[<<i, n>>] = shape[i] * n
  OBVIOUS
<1> HIDE DEF pick, step, D
<1>6. PICK h : FoldsUp(h, 1, pick, step, D)
  BY <1>1, <1>2, FoldsExist
<1>7. h \in [SUBSET D -> Nat]
  BY <1>1, <1>2, <1>3, <1>6, FoldsHaveType
<1>8. \A S \in SUBSET D :
        (IF S = {} THEN 1 ELSE step[<<pick[S], h[S \ {pick[S]}]>>])
          = (IF S = {} THEN 1
             ELSE shape[CHOOSE x \in S : TRUE] * h[S \ {CHOOSE x \in S : TRUE}])
  <2> SUFFICES ASSUME NEW S \in SUBSET D, S # {}
               PROVE  step[<<pick[S], h[S \ {pick[S]}]>>]
                        = shape[CHOOSE x \in S : TRUE] * h[S \ {CHOOSE x \in S : TRUE}]
    OBVIOUS
  <2>1. pick[S] \in D /\ h[S \ {pick[S]}] \in Nat
    BY <1>2, <1>7 DEF Picks
  <2>2. step[<<pick[S], h[S \ {pick[S]}]>>] = shape[pick[S]] * h[S \ {pick[S]}]
    BY <1>5, <2>1
  <2> QED
    BY <1>4, <2>2
<1>9. IsProduct(h, shape)
  BY <1>6, <1>8 DEF FoldsUp, IsProduct, D
<1> QED
  BY <1>7, <1>9 DEF D

(* The number of elements of a shape.                                      *)
LEMMA NumelIsNat ==
  ASSUME NEW shape \in Seq(Nat)
  PROVE  numel(shape) \in Nat
<1> DEFINE h == CHOOSE h : IsProduct(h, shape)
<1>1. numel(shape) = h[DOMAIN shape]
  BY DEF numel, FoldFunction, FoldFunctionOnSet, MapThenFoldSet, IsProduct
<1>2. IsProduct(h, shape)
  BY ProductExists
<1> HIDE DEF h
<1> DEFINE Bad == {S \in SUBSET DOMAIN shape : h[S] \notin Nat}
<1>3. IsFiniteSet(DOMAIN shape) /\ \A i \in DOMAIN shape : shape[i] \in Nat
  BY DomainIsFinite
<1>4. ASSUME Bad # {} PROVE FALSE
  <2>1. \A S \in Bad : IsFiniteSet(S)
    BY <1>3, FS_Subset
  <2>2. PICK S \in Bad : \A U \in Bad : ~(U \subseteq S /\ U # S)
    <3> HIDE DEF Bad
    <3> QED
      BY <1>4, <2>1, SmallestSet
  <2>3. S \in SUBSET DOMAIN shape /\ h[S] \notin Nat
    OBVIOUS
  <2> DEFINE x == CHOOSE x \in S : TRUE
  <2>4. h[S] = IF S = {} THEN 1 ELSE shape[x] * h[S \ {x}]
    BY <1>2, <2>3 DEF IsProduct
  <2>5. CASE S # {}
    <3>1. x \in S
      BY <2>5
    <3> HIDE DEF x
    <3>2. S \ {x} \subseteq S /\ S \ {x} # S /\ S \ {x} \in SUBSET DOMAIN shape
      BY <2>3, <3>1
    <3>3. h[S \ {x}] \in Nat
      BY <2>2, <3>2
    <3>4. shape[x] \in Nat
      BY <1>3, <2>3, <3>1
    <3>5. shape[x] * h[S \ {x}] \in Nat
      BY <3>3, <3>4
    <3> QED
      BY <2>3, <2>4, <2>5, <3>5
  <2> QED
    BY <2>3, <2>4, <2>5
<1>5. DOMAIN shape \in SUBSET DOMAIN shape
  OBVIOUS
<1> QED
  BY <1>1, <1>4, <1>5

-----------------------------------------------------------------------------
(* What the client builds, and what finalize derives of it.                *)

(* A node has one output of its own, and inputs that were there before.    *)
NodeOK(n) ==
  /\ nodes[n].op \in OpKinds /\ nodes[n].inputs \in Seq(Nat)
  /\ InputsOf(n) \subseteq TensorId /\ nodes[n].output \in TensorId
  /\ tensors[nodes[n].output].producer = n
  /\ \A t \in InputsOf(n) : tensors[t].producer < n
  /\ infer_shapes(nodes[n].op, ShapesOf(nodes[n].inputs)) # {}

TensorOK(t) ==
  /\ tensors[t].producer \in 0 .. Len(nodes)
  /\ tensors[t].input <=> tensors[t].producer = 0
  /\ tensors[t].producer # 0 => nodes[tensors[t].producer].output = t
  /\ tensors[t].consumers \subseteq NodeId

DerivedOK ==
  /\ \A n \in NodeId :
       /\ nodes[n].preds = Preds(n) /\ nodes[n].dead \in BOOLEAN
       /\ ~nodes[n].dead <=> \/ tensors[nodes[n].output].output
                             \/ \E s \in Succs(n) : ~nodes[s].dead
  /\ IsDepth([n \in NodeId |-> nodes[n].depth], [n \in NodeId |-> Preds(n)], Len(nodes))
  /\ \A t \in TensorId : tensors[t].consumers = Consumers(t)

GraphOK ==
  /\ tensors \in Seq(TensorRecord)
  /\ Len(nodes) \in Nat /\ NodeId = 1 .. Len(nodes)
  /\ ~finalized => nodes \in Seq(NodeRecord)
  /\ \A n \in NodeId : NodeOK(n)
  /\ \A t \in TensorId : TensorOK(t)
  /\ finalized => DerivedOK

LEMMA ShapesAreSequences == Shape \subseteq Seq(Nat)
<1> SUFFICES ASSUME NEW s \in Shape PROVE s \in Seq(Nat)
  OBVIOUS
<1>1. s \in Seq(Nat \ {0}) /\ Nat \ {0} \subseteq Nat
  BY DEF Shape
<1> QED
  BY <1>1, SeqMonotonic

LEMMA GraphFacts ==
  ASSUME GraphOK
  PROVE  /\ Len(tensors) \in Nat /\ TensorId = 1 .. Len(tensors)
         /\ \A t \in TensorId : tensors[t] \in TensorRecord
         /\ Len(nodes) \in Nat /\ NodeId = 1 .. Len(nodes)
BY DomainIsFinite DEF GraphOK, TensorId

(* The shape an operator infers for its output is one.                     *)
LEMMA InferredShapes ==
  ASSUME NEW op \in OpKinds, NEW in \in Seq(Shape)
  PROVE  infer_shapes(op, in) \subseteq Shape
<1>1. \A i \in 1 .. Len(in) : in[i] \in Shape
  BY ElementOfSeq
<1> DEFINE P == Nat \ {0}
<1>2. infer_gemm(in) \subseteq Shape
  <2> SUFFICES ASSUME Len(in) = 2, rank(in[1]) = 2, rank(in[2]) = 2
               PROVE  <<in[1][1], in[2][2]>> \in Shape
    BY DEF infer_gemm
  <2>1. in[1] \in Seq(P) /\ in[2] \in Seq(P)
    BY <1>1 DEF Shape
  <2> HIDE DEF P
  <2>2. in[1][1] \in P /\ in[2][2] \in P
    BY <2>1 DEF rank
  <2> QED
    BY <2>2 DEF Shape, P
<1>3. infer_bias_act(in) \subseteq Shape
  BY <1>1 DEF infer_bias_act
<1>4. infer_reduce(in) \subseteq Shape
  <2>1. <<1>> \in Shape
    BY DEF Shape
  <2> SUFFICES ASSUME Len(in) = 1, rank(in[1]) # 1
               PROVE  SubSeq(in[1], 1, rank(in[1]) - 1) \in Shape
    BY <2>1 DEF infer_reduce
  <2>2. in[1] \in Seq(P) /\ in[1] # <<>>
    BY <1>1 DEF Shape
  <2> HIDE DEF P
  <2>3. Len(in[1]) \in Nat /\ Len(in[1]) > 1
    BY <2>2 DEF rank
  <2>4. /\ SubSeq(in[1], 1, Len(in[1]) - 1) \in Seq(P)
        /\ Len(SubSeq(in[1], 1, Len(in[1]) - 1)) = Len(in[1]) - 1
    BY <2>2, <2>3
  <2>5. SubSeq(in[1], 1, Len(in[1]) - 1) # <<>>
    <3> DEFINE n == Len(in[1]) - 1
               s == SubSeq(in[1], 1, n)
    <3>1. Len(s) = n /\ n \in Nat /\ n # 0
      BY <2>3, <2>4
    <3> HIDE DEF s, n
    <3>2. s # <<>>
      BY <3>1, Len(<<>>) = 0
    <3> QED
      BY <3>2 DEF s, n
  <2> QED
    BY <2>4, <2>5 DEF rank, Shape, P
<1>5. infer_softmax(in) \subseteq Shape
  BY <1>1 DEF infer_softmax
<1> QED
  BY <1>2, <1>3, <1>4, <1>5 DEF infer_shapes, OpKinds

(* A node's inputs have shapes.                                            *)
LEMMA InputShapesOf ==
  ASSUME GraphOK, NEW inputs \in Seq(Nat), Range(inputs) \subseteq TensorId
  PROVE  ShapesOf(inputs) \in Seq(Shape) /\ Len(ShapesOf(inputs)) = Len(inputs)
<1>1. Len(inputs) \in Nat /\ DOMAIN inputs = 1 .. Len(inputs)
  BY DomainIsFinite
<1>2. \A i \in DOMAIN inputs : tensors[inputs[i]].shape \in Shape
  <2>1. \A i \in DOMAIN inputs : inputs[i] \in TensorId
    BY DEF Range
  <2> QED
    BY <2>1, GraphFacts DEF TensorRecord
<1>3. ShapesOf(inputs) \in [1 .. Len(inputs) -> Shape]
  BY <1>1, <1>2 DEF ShapesOf
<1> HIDE DEF Shape
<1> QED
  BY <1>1, <1>3

-----------------------------------------------------------------------------
(* Construction keeps the graph in order.                                  *)

(* An element more.                                                        *)
LEMMA AppendOne ==
  ASSUME NEW S, NEW s \in Seq(S), NEW e \in S
  PROVE  /\ Append(s, e) \in Seq(S) /\ Len(Append(s, e)) = Len(s) + 1 /\ Len(s) \in Nat
         /\ DOMAIN s = 1 .. Len(s) /\ DOMAIN Append(s, e) = 1 .. Len(s) + 1
         /\ \A i \in 1 .. Len(s) : Append(s, e)[i] = s[i]
         /\ Append(s, e)[Len(s) + 1] = e
BY AppendProperties, LenProperties

LEMMA NewTensorType ==
  ASSUME NEW shape \in Shape, NEW producer \in Nat
  PROVE  NewTensor(shape, producer) \in TensorRecord
BY DEF NewTensor, TensorRecord

LEMMA NewNodeType ==
  ASSUME NEW op \in OpKinds, NEW inputs \in Seq(Nat), NEW output \in Nat
  PROVE  NewNode(op, inputs, output) \in NodeRecord
BY DEF NewNode, NodeRecord

(* What depends on shapes and edges only is the same when they are.        *)
LEMMA NodeStaysOK ==
  ASSUME GraphOK, NEW n \in NodeId, TensorId \subseteq TensorId',
         nodes'[n].op = nodes[n].op, nodes'[n].inputs = nodes[n].inputs,
         nodes'[n].output = nodes[n].output,
         \A t \in TensorId : /\ tensors'[t].shape = tensors[t].shape
                             /\ tensors'[t].producer = tensors[t].producer
  PROVE  NodeOK(n)'
<1>1. NodeOK(n)
  BY DEF GraphOK
<1>2. InputsOf(n)' = InputsOf(n) /\ InputsOf(n) \subseteq TensorId
  BY <1>1 DEF InputsOf, NodeOK
<1>3. \A i \in DOMAIN nodes[n].inputs : nodes[n].inputs[i] \in TensorId
  BY <1>2 DEF InputsOf, Range
<1>4. ShapesOf(nodes[n].inputs)' = ShapesOf(nodes[n].inputs)
  BY <1>3 DEF ShapesOf
<1> QED
  BY <1>1, <1>2, <1>4 DEF NodeOK

LEMMA SameGraph ==
  ASSUME GraphOK, UNCHANGED <<tensors, nodes, finalized>>
  PROVE  GraphOK'
<1>1. /\ TensorId' = TensorId /\ NodeId' = NodeId
      /\ \A n : Preds(n)' = Preds(n) /\ InputsOf(n)' = InputsOf(n)
  BY DEF TensorId, NodeId, Preds, InputsOf
<1>2. \A n : Succs(n)' = Succs(n)
  BY <1>1 DEF Succs
<1>3. \A t : Consumers(t)' = Consumers(t)
  BY <1>1 DEF Consumers
<1>4. \A s : ShapesOf(s)' = ShapesOf(s)
  BY DEF ShapesOf
<1>5. \A n : NodeOK(n)' <=> NodeOK(n)
  BY <1>1, <1>4 DEF NodeOK
<1>6. \A t : TensorOK(t)' <=> TensorOK(t)
  BY <1>1 DEF TensorOK
<1>7. DerivedOK' <=> DerivedOK
  <2>1. [n \in NodeId |-> Preds(n)]' = [n \in NodeId |-> Preds(n)]
    BY <1>1
  <2>2. [n \in NodeId |-> nodes[n].depth]' = [n \in NodeId |-> nodes[n].depth]
    BY <1>1
  <2> QED
    BY <1>1, <1>2, <1>3, <2>1, <2>2 DEF DerivedOK
<1> QED
  BY <1>1, <1>5, <1>6, <1>7 DEF GraphOK

LEMMA AddInputStep ==
  ASSUME GraphOK, NEW shape \in InputShapes, AddInput(shape)
  PROVE  GraphOK'
<1>1. CASE UNCHANGED <<tensors, nodes, finalized>>
  BY <1>1, SameGraph
<1>2. CASE /\ ValidShape(shape) /\ ~finalized
           /\ tensors' = Append(tensors, NewTensor(shape, kInvalidNode))
           /\ UNCHANGED <<nodes, finalized>>
  <2>1. shape \in Seq(Int)
    BY GraphAssumption
  <2>2. shape \in Shape
    <3>1. Len(shape) \in Nat /\ DOMAIN shape = 1 .. Len(shape) /\ Len(shape) >= 1
      BY <1>2, <2>1 DEF ValidShape, rank
    <3>2. \A i \in 1 .. Len(shape) : shape[i] \in Nat \ {0}
      <4> SUFFICES ASSUME NEW i \in 1 .. Len(shape) PROVE shape[i] \in Nat \ {0}
        OBVIOUS
      <4>1. shape[i] \in Int /\ shape[i] > 0
        BY <1>2, <2>1, <3>1, ElementOfSeq DEF ValidShape
      <4> QED
        BY <4>1
    <3>3. shape \in Seq(Nat \ {0})
      <4> DEFINE P == Nat \ {0}
      <4>1. \A i \in 1 .. Len(shape) : shape[i] \in P
        BY <3>2
      <4> HIDE DEF P
      <4>2. shape \in Seq(P)
        BY <2>1, <3>1, <4>1
      <4> QED
        BY <4>2 DEF P
    <3>4. shape # <<>>
      BY <3>1, Len(<<>>) = 0
    <3> QED
      BY <3>3, <3>4 DEF Shape
  <2> DEFINE new == NewTensor(shape, kInvalidNode)
             T == Len(tensors)
  <2>3. new \in TensorRecord /\ new.producer = 0 /\ new.input /\ new.consumers = {}
    BY <2>2, NewTensorType DEF kInvalidNode, NewTensor
  <2>4. tensors' = Append(tensors, new) /\ tensors \in Seq(TensorRecord)
    BY <1>2 DEF GraphOK
  <2> HIDE DEF new
  <2>5. /\ tensors' \in Seq(TensorRecord) /\ T \in Nat /\ TensorId = 1 .. T /\ TensorId' = 1 .. T + 1
        /\ \A i \in 1 .. T : tensors'[i] = tensors[i]
        /\ tensors'[T + 1] = new
    BY <2>3, <2>4, AppendOne DEF TensorId
  <2> HIDE DEF T
  <2>6. TensorId \subseteq TensorId' /\ NodeId' = NodeId
    BY <1>2, <2>5 DEF NodeId
  <2>7. \A n \in NodeId : NodeOK(n)'
    BY <1>2, <2>5, <2>6, NodeStaysOK
  <2>8. \A t \in TensorId' : TensorOK(t)'
    <3> SUFFICES ASSUME NEW t \in 1 .. T + 1 PROVE TensorOK(t)'
      BY <2>5
    <3>1. CASE t \in 1 .. T
      <4>1. TensorOK(t)
        BY <2>5, <3>1 DEF GraphOK
      <4> QED
        BY <1>2, <2>5, <2>6, <3>1, <4>1 DEF TensorOK
    <3>2. CASE t = T + 1
      <4>1. /\ tensors'[t].producer = 0 /\ tensors'[t].input /\ tensors'[t].consumers = {}
            /\ 0 \in 0 .. Len(nodes')
        <5>1. tensors'[t] = new
          BY <2>5, <3>2
        <5>2. Len(nodes') \in Nat
          BY <1>2 DEF GraphOK
        <5> QED
          BY <2>3, <5>1, <5>2
      <4> QED
        BY <4>1 DEF TensorOK
    <3> QED
      BY <2>5, <3>1, <3>2
  <2> QED
    BY <1>2, <2>5, <2>6, <2>7, <2>8 DEF GraphOK
<1> QED
  BY <1>1, <1>2 DEF AddInput, Fails

LEMMA AddNodeStep ==
  ASSUME GraphOK, NEW op \in Ops, NEW inputs \in Seq(Nat), AddNode(op, inputs)
  PROVE  GraphOK'
<1>1. CASE UNCHANGED <<tensors, nodes, finalized>>
  BY <1>1, SameGraph
<1>2. CASE /\ ~finalized
           /\ \E shape \in Inferred(op, inputs) :
                tensors' = Append(tensors, NewTensor(shape, Len(nodes) + 1))
           /\ nodes' = Append(nodes, NewNode(op, inputs, Len(tensors) + 1))
           /\ UNCHANGED finalized
  <2>1. PICK shape \in Inferred(op, inputs) :
          tensors' = Append(tensors, NewTensor(shape, Len(nodes) + 1))
    BY <1>2
  <2>2. Range(inputs) \subseteq TensorId /\ shape \in infer_shapes(op, ShapesOf(inputs))
    BY <2>1 DEF Inferred
  <2>3. op \in OpKinds /\ ShapesOf(inputs) \in Seq(Shape)
    BY <2>2, InputShapesOf, GraphAssumption
  <2>4. shape \in Shape
    BY <2>2, <2>3, InferredShapes
  <2> DEFINE T == Len(tensors)
             N == Len(nodes)
             tensor == NewTensor(shape, N + 1)
             node == NewNode(op, inputs, T + 1)
  <2>5. /\ tensors \in Seq(TensorRecord) /\ nodes \in Seq(NodeRecord) /\ T \in Nat /\ N \in Nat
        /\ NodeId = 1 .. N /\ TensorId = 1 .. T
    BY <1>2, GraphFacts DEF GraphOK
  <2>6. /\ tensor \in TensorRecord /\ tensor.producer = N + 1 /\ ~tensor.input
        /\ tensor.consumers = {}
    <3>1. N + 1 \in Nat /\ N + 1 # 0
      BY <2>5
    <3> QED
      BY <2>4, <3>1, NewTensorType DEF NewTensor, kInvalidNode
  <2>7. node \in NodeRecord /\ node.op = op /\ node.inputs = inputs /\ node.output = T + 1
    BY <2>3, <2>5, NewNodeType, SMTT(30) DEF NewNode
  <2>8. tensors' = Append(tensors, tensor) /\ nodes' = Append(nodes, node)
    BY <1>2, <2>1
  <2> HIDE DEF tensor, node
  <2>9. /\ tensors' \in Seq(TensorRecord) /\ TensorId' = 1 .. T + 1
        /\ \A i \in 1 .. T : tensors'[i] = tensors[i]
        /\ tensors'[T + 1] = tensor
    BY <2>5, <2>6, <2>8, AppendOne DEF TensorId
  <2>10. /\ nodes' \in Seq(NodeRecord) /\ NodeId' = 1 .. N + 1 /\ Len(nodes') = N + 1
         /\ \A i \in 1 .. N : nodes'[i] = nodes[i]
         /\ nodes'[N + 1] = node
    BY <2>5, <2>7, <2>8, AppendOne DEF NodeId
  <2> HIDE DEF T, N
  <2>11. TensorId \subseteq TensorId' /\ NodeId \subseteq NodeId'
    BY <2>5, <2>9, <2>10
  <2>12. ASSUME NEW n \in 1 .. N PROVE NodeOK(n)'
    <3>1. n \in NodeId /\ nodes'[n] = nodes[n]
      BY <2>5, <2>10, <2>12
    <3> QED
      BY <2>5, <2>9, <2>11, <3>1, NodeStaysOK
  <2>13. ASSUME NEW m, m = N + 1
         PROVE  NodeOK(m)'
    <3>0. nodes'[m].op = op /\ nodes'[m].inputs = inputs /\ nodes'[m].output = T + 1
      BY <2>7, <2>10, <2>13
    <3>1. InputsOf(m)' = Range(inputs)
      BY <3>0 DEF InputsOf
    <3>2. ASSUME NEW t \in Range(inputs)
          PROVE  t \in TensorId' /\ tensors'[t].producer < m
      <4>1. t \in TensorId /\ TensorOK(t) /\ tensors'[t] = tensors[t]
        BY <2>2, <2>5, <2>9, <3>2 DEF GraphOK
      <4>2. tensors[t].producer \in 0 .. N
        BY <4>1 DEF TensorOK, N
      <4> QED
        BY <2>5, <2>11, <2>13, <4>1, <4>2
    <3>3. ShapesOf(inputs)' = ShapesOf(inputs)
      <4>1. \A i \in DOMAIN inputs : inputs[i] \in 1 .. T
        BY <2>2, <2>5 DEF Range
      <4> QED
        BY <2>9, <4>1 DEF ShapesOf
    <3>4. T + 1 \in TensorId' /\ tensors'[T + 1].producer = m
      BY <2>5, <2>6, <2>9, <2>13
    <3> QED
      BY <2>2, <2>3, <2>11, <2>13, <3>0, <3>1, <3>2, <3>3, <3>4 DEF NodeOK
  <2>14. ASSUME NEW t \in 1 .. T PROVE TensorOK(t)'
    <3>1. TensorOK(t) /\ tensors'[t] = tensors[t]
      BY <2>5, <2>9, <2>14 DEF GraphOK
    <3>2. tensors[t].producer \in 0 .. N
      BY <3>1 DEF TensorOK, N
    <3>3. tensors[t].producer \in 0 .. N + 1
          /\ (tensors[t].producer # 0 => nodes'[tensors[t].producer] = nodes[tensors[t].producer])
      BY <2>5, <2>10, <3>2
    <3> QED
      BY <2>10, <2>11, <3>1, <3>3 DEF TensorOK
  <2>15. ASSUME NEW u, u = T + 1
         PROVE  TensorOK(u)'
    <3>1. N + 1 \in 0 .. N + 1 /\ N + 1 # 0
      BY <2>5
    <3> QED
      <4>1. /\ tensors'[u].producer = N + 1 /\ ~tensors'[u].input
            /\ tensors'[u].consumers = {} /\ nodes'[N + 1].output = u
        BY <2>6, <2>7, <2>9, <2>10, <2>15
      <4> QED
        BY <2>10, <3>1, <4>1 DEF TensorOK
  <2>16. \A n \in NodeId' : NodeOK(n)'
    <3>1. \A n \in 1 .. N + 1 : n \in 1 .. N \/ n = N + 1
      BY <2>5
    <3> SUFFICES ASSUME NEW n \in 1 .. N + 1 PROVE NodeOK(n)'
      BY <2>10
    <3>2. CASE n \in 1 .. N
      BY <2>12, <3>2
    <3>3. CASE n = N + 1
      BY <2>13, <3>3
    <3> QED
      BY <3>1, <3>2, <3>3
  <2>17. \A t \in TensorId' : TensorOK(t)'
    <3>1. \A t \in 1 .. T + 1 : t \in 1 .. T \/ t = T + 1
      BY <2>5
    <3> SUFFICES ASSUME NEW t \in 1 .. T + 1 PROVE TensorOK(t)'
      BY <2>9
    <3>2. CASE t \in 1 .. T
      BY <2>14, <3>2
    <3>3. CASE t = T + 1
      BY <2>15, <3>3
    <3> QED
      BY <3>1, <3>2, <3>3
  <2>18. Len(nodes') \in Nat /\ NodeId' = 1 .. Len(nodes')
    BY <2>5, <2>10
  <2> QED
    BY <1>2, <2>9, <2>10, <2>16, <2>17, <2>18 DEF GraphOK
<1> QED
  BY <1>1, <1>2 DEF AddNode, Fails

LEMMA MarkOutputStep ==
  ASSUME GraphOK, NEW t, MarkOutput(t)
  PROVE  GraphOK'
<1>1. CASE UNCHANGED <<tensors, nodes, finalized>>
  BY <1>1, SameGraph
<1>2. CASE /\ ~finalized /\ t \in TensorId /\ tensors' = [tensors EXCEPT ![t].output = TRUE]
           /\ UNCHANGED <<nodes, finalized>>
  <2>1. t \in 1 .. Len(tensors) /\ tensors[t] \in TensorRecord /\ tensors \in Seq(TensorRecord)
    BY <1>2, GraphFacts DEF GraphOK
  <2> DEFINE e == [tensors[t] EXCEPT !.output = TRUE]
  <2>2. /\ e \in TensorRecord /\ e.producer = tensors[t].producer /\ e.input = tensors[t].input
        /\ e.consumers = tensors[t].consumers /\ e.shape = tensors[t].shape
    BY <2>1 DEF TensorRecord
  <2>3. tensors' = [tensors EXCEPT ![t] = e]
    BY <1>2
  <2> HIDE DEF e
  <2>4. /\ tensors' \in Seq(TensorRecord) /\ Len(tensors') = Len(tensors)
        /\ \A u \in 1 .. Len(tensors) : tensors'[u] = IF u = t THEN e ELSE tensors[u]
    BY <2>1, <2>2, <2>3, ExceptSeq
  <2>5. TensorId' = TensorId /\ NodeId' = NodeId /\ TensorId = 1 .. Len(tensors)
    BY <1>2, <2>4, GraphFacts, LenProperties DEF TensorId, NodeId
  <2>6. \A u \in TensorId : /\ tensors'[u].shape = tensors[u].shape
                            /\ tensors'[u].producer = tensors[u].producer
                            /\ tensors'[u].input = tensors[u].input
                            /\ tensors'[u].consumers = tensors[u].consumers
    BY <2>2, <2>4, <2>5
  <2>7. \A n \in NodeId : NodeOK(n)'
    BY <1>2, <2>5, <2>6, NodeStaysOK
  <2>8. \A u \in TensorId : TensorOK(u)'
    BY <1>2, <2>5, <2>6 DEF TensorOK, GraphOK
  <2> QED
    BY <1>2, <2>4, <2>5, <2>7, <2>8 DEF GraphOK
<1> QED
  BY <1>1, <1>2 DEF MarkOutput, Fails

(* Edges lead from lower to higher numbers.                                *)
LEMMA EdgesAscend ==
  ASSUME GraphOK
  PROVE  /\ \A n \in NodeId : Preds(n) \subseteq 1 .. n - 1 /\ Preds(n) \subseteq NodeId
         /\ \A n \in NodeId : Succs(n) \subseteq n + 1 .. Len(nodes) /\ Succs(n) \subseteq NodeId
<1>1. Len(nodes) \in Nat /\ NodeId = 1 .. Len(nodes)
  BY DEF GraphOK
<1>2. ASSUME NEW n \in NodeId, NEW p \in Preds(n)
      PROVE  p \in 1 .. n - 1 /\ p \in NodeId
  <2>1. PICK t \in InputsOf(n) : p = tensors[t].producer /\ p # 0
    BY <1>2 DEF Preds, kInvalidNode
  <2>2. t \in TensorId /\ tensors[t].producer < n
    BY <1>2, <2>1 DEF GraphOK, NodeOK
  <2>3. tensors[t].producer \in 0 .. Len(nodes)
    BY <2>2 DEF GraphOK, TensorOK
  <2> QED
    BY <1>1, <2>1, <2>2, <2>3
<1>3. ASSUME NEW n \in NodeId, NEW m \in Succs(n)
      PROVE  m \in n + 1 .. Len(nodes) /\ m \in NodeId
  <2>1. m \in NodeId /\ n \in Preds(m)
    BY <1>3 DEF Succs
  <2>2. n \in 1 .. m - 1
    BY <1>2, <2>1
  <2> QED
    BY <1>1, <2>1, <2>2
<1> QED
  BY <1>2, <1>3

LEMMA FinalizeStep ==
  ASSUME GraphOK, Finalize
  PROVE  GraphOK'
<1>1. CASE UNCHANGED <<tensors, nodes, finalized>>
  BY <1>1, SameGraph
<1>2. CASE /\ ~finalized
           /\ tensors' = [t \in TensorId |-> [tensors[t] EXCEPT !.consumers = Consumers(t)]]
           /\ nodes' = Derived
           /\ finalized' = TRUE
  <2> DEFINE N == Len(nodes)
             T == Len(tensors)
             pred == [n \in NodeId |-> Preds(n)]
             succ == [n \in NodeId |-> Succs(n)]
             out == [n \in NodeId |-> tensors[nodes[n].output].output]
             h == CHOOSE d : IsPathLength(d, pred, N)
             a == CHOOSE b : IsAlive(b, out, succ, 1, N)
  <2>1. /\ T \in Nat /\ TensorId = 1 .. T /\ N \in Nat /\ NodeId = 1 .. N
        /\ tensors \in Seq(TensorRecord) /\ nodes \in Seq(NodeRecord)
        /\ \A t \in TensorId : tensors[t] \in TensorRecord
        /\ \A n \in NodeId : nodes[n] \in NodeRecord
    <3>1. tensors \in Seq(TensorRecord) /\ nodes \in Seq(NodeRecord)
      BY <1>2 DEF GraphOK
    <3> QED
      BY <3>1, GraphFacts, ElementOfSeq
  <2>2. Depth = h
    BY <2>1 DEF Depth, IsPathLength, DeepestPred
  <2>3. Alive = a
    BY <2>1 DEF Alive, IsAlive
  <2>4. /\ \A n \in 1 .. N : pred[n] \subseteq 1 .. n - 1
        /\ \A n \in 1 .. N : succ[n] \subseteq n + 1 .. N
    BY <2>1, EdgesAscend
  <2>5. IsPathLength(h, pred, N) /\ IsAlive(a, out, succ, 1, N)
    <3>1. N \in Nat
      BY <2>1
    <3> HIDE DEF N, pred, succ, out
    <3>2. \E d : IsPathLength(d, pred, N)
      BY <2>4, <3>1, DepthsExist
    <3>3. \E b : IsAlive(b, out, succ, 1, N)
      BY <2>4, <3>1, AliveExists
    <3> QED
      BY <3>2, <3>3
  <2> HIDE DEF h, a
  <2>6. IsDepth(h, pred, N)
    <3>1. N \in Nat
      BY <2>1
    <3> HIDE DEF N, pred
    <3> QED
      BY <2>4, <2>5, <3>1, PathLengthsAreDepths
  <2>7. ASSUME NEW n \in NodeId
        PROVE  a[n] <=> tensors[nodes[n].output].output \/ \E s \in Succs(n) : a[s]
    <3>1. a[n] = (out[n] \/ \E s \in succ[n] : a[s])
      BY <2>1, <2>5, <2>7 DEF IsAlive
    <3> QED
      BY <2>7, <3>1
  <2>8. NodeId' = NodeId /\ DOMAIN nodes' = NodeId
    BY <1>2 DEF NodeId, Derived
  <2>9. Len(nodes') = N
    <3> DEFINE g == nodes'
               R == {g[n] : n \in 1 .. N}
    <3>1. g = [n \in 1 .. N |-> g[n]]
      BY <1>2, <2>1 DEF Derived
    <3>2. N \in Nat
      BY <2>1
    <3> HIDE DEF g, N
    <3>3. g \in [1 .. N -> R]
      BY <3>1
    <3> HIDE DEF R
    <3>4. g \in Seq(R) /\ Len(g) = N
      BY <3>2, <3>3
    <3> QED
      BY <3>4 DEF g
  <2>10. ASSUME NEW n \in NodeId
         PROVE  /\ nodes'[n].op = nodes[n].op /\ nodes'[n].inputs = nodes[n].inputs
                /\ nodes'[n].output = nodes[n].output
                /\ nodes'[n].preds = Preds(n) /\ nodes'[n].depth = h[n]
                /\ nodes'[n].dead = ~a[n]
    <3>1. nodes[n] \in NodeRecord
      BY <2>1, <2>10
    <3> QED
      BY <1>2, <2>2, <2>3, <2>10, <3>1 DEF Derived, NodeRecord
  <2>11. TensorId' = TensorId
    BY <1>2 DEF TensorId
  <2>12. ASSUME NEW t \in TensorId
         PROVE  /\ tensors'[t] \in TensorRecord /\ tensors'[t].consumers = Consumers(t)
                /\ tensors'[t].shape = tensors[t].shape /\ tensors'[t].producer = tensors[t].producer
                /\ tensors'[t].input = tensors[t].input /\ tensors'[t].output = tensors[t].output
    <3>1. tensors[t] \in TensorRecord /\ Consumers(t) \in SUBSET Nat
      BY <2>1, <2>12 DEF Consumers
    <3> QED
      BY <1>2, <2>12, <3>1 DEF TensorRecord
  <2>13. tensors' \in Seq(TensorRecord)
    <3>1. tensors' \in [1 .. T -> TensorRecord]
      BY <1>2, <2>1, <2>12
    <3> HIDE DEF TensorRecord
    <3> QED
      BY <2>1, <3>1
  <2>14. \A n \in NodeId : InputsOf(n)' = InputsOf(n) /\ InputsOf(n) \subseteq TensorId
    BY <2>10 DEF InputsOf, GraphOK, NodeOK
  <2>15. \A n \in NodeId : Preds(n)' = Preds(n)
    <3> SUFFICES ASSUME NEW n \in NodeId PROVE Preds(n)' = Preds(n)
      OBVIOUS
    <3>1. \A t \in InputsOf(n) : tensors'[t].producer = tensors[t].producer
      BY <2>12, <2>14
    <3> QED
      BY <2>14, <3>1 DEF Preds
  <2>16. \A n : Succs(n)' = Succs(n)
    BY <2>8, <2>15 DEF Succs
  <2>17. \A t : Consumers(t)' = Consumers(t)
    BY <2>8, <2>14 DEF Consumers
  <2>18. \A n \in NodeId : NodeOK(n)'
    BY <2>10, <2>11, <2>12, NodeStaysOK
  <2>19. \A t \in TensorId : TensorOK(t)'
    <3> SUFFICES ASSUME NEW t \in TensorId PROVE TensorOK(t)'
      OBVIOUS
    <3>1. TensorOK(t)
      BY DEF GraphOK
    <3>2. tensors[t].producer # 0 => tensors[t].producer \in NodeId
      BY <2>1, <3>1 DEF TensorOK
    <3>3. Consumers(t) \subseteq NodeId
      BY DEF Consumers
    <3> QED
      BY <2>8, <2>9, <2>10, <2>12, <3>1, <3>2, <3>3 DEF TensorOK
  <2>20. DerivedOK'
    <3>1. \A t \in TensorId' : tensors'[t].consumers = Consumers(t)'
      BY <2>11, <2>12, <2>17
    <3>2. [n \in NodeId |-> Preds(n)]' = pred
      BY <2>8, <2>15
    <3>3. IsDepth([n \in NodeId |-> nodes[n].depth], [n \in NodeId |-> Preds(n)], Len(nodes))'
      <4> DEFINE g == [n \in NodeId |-> nodes[n].depth]'
      <4>1. \A n \in 1 .. N : g[n] = h[n]
        BY <2>1, <2>8, <2>10
      <4>2. \A n \in 1 .. N : \A p \in pred[n] : p \in 1 .. N
        BY <2>4
      <4> HIDE DEF g, pred
      <4>3. IsDepth(g, pred, N)
        BY <2>6, <4>1, <4>2 DEF IsDepth
      <4> QED
        BY <2>9, <3>2, <4>3 DEF g
    <3>4. ASSUME NEW n \in NodeId
          PROVE  /\ nodes'[n].preds = Preds(n)' /\ nodes'[n].dead \in BOOLEAN
                 /\ ~nodes'[n].dead <=> \/ tensors'[nodes'[n].output].output
                                        \/ \E s \in Succs(n)' : ~nodes'[s].dead
      <4>1. \A s \in Succs(n) : s \in NodeId /\ (~nodes'[s].dead <=> a[s])
        <5>1. \A s \in Succs(n) : s \in NodeId
          BY DEF Succs
        <5> QED
          BY <2>10, <5>1
      <4>2. nodes[n].output \in TensorId
        BY <3>4 DEF GraphOK, NodeOK
      <4>3. tensors'[nodes'[n].output].output = tensors[nodes[n].output].output
        BY <2>10, <2>12, <3>4, <4>2
      <4>4. ~nodes'[n].dead <=> a[n]
        BY <2>10, <3>4
      <4>5. nodes'[n].dead \in BOOLEAN
        BY <2>10, <3>4
      <4>6. nodes'[n].preds = Preds(n)'
        BY <2>10, <2>15, <3>4
      <4> QED
        BY <2>7, <2>16, <3>4, <4>1, <4>3, <4>4, <4>5, <4>6
    <3> QED
      BY <2>8, <3>1, <3>3, <3>4 DEF DerivedOK
  <2> QED
    BY <1>2, <2>1, <2>8, <2>9, <2>11, <2>13, <2>18, <2>19, <2>20 DEF GraphOK
<1> QED
  BY <1>1, <1>2 DEF Finalize, Fails

-----------------------------------------------------------------------------
(* What is scheduled.                                                      *)

(* The alive nodes, level by level, each after its predecessors.           *)
LiveOK(live) ==
  /\ live \in Seq(NodeId) /\ Len(live) \in Nat /\ DOMAIN live = 1 .. Len(live)
  /\ \A i \in 1 .. Len(live) : live[i] \in NodeId
  /\ \A i, j \in 1 .. Len(live) :
       i < j => live[i] # live[j] /\ nodes[live[i]].depth <= nodes[live[j]].depth
  /\ \A n \in NodeId : ~nodes[n].dead <=> \E i \in 1 .. Len(live) : live[i] = n
  /\ \A i \in 1 .. Len(live) : \A p \in nodes[live[i]].preds : \E j \in 1 .. i - 1 : live[j] = p

LEMMA OrderFacts ==
  ASSUME GraphOK, finalized
  PROVE  Topological(topological_order, [n \in NodeId |-> Preds(n)], Len(nodes),
                     [n \in NodeId |-> nodes[n].depth])
<1> DEFINE d == [n \in NodeId |-> nodes[n].depth]
           pred == [n \in NodeId |-> Preds(n)]
<1>1. Len(nodes) \in Nat /\ NodeId = 1 .. Len(nodes) /\ \A n \in NodeId : Preds(n) \subseteq 1 .. n - 1
  BY EdgesAscend DEF GraphOK
<1>2. IsDepth(d, pred, Len(nodes))
  BY DEF GraphOK, DerivedOK
<1> HIDE DEF d
<1>3. Topological(KahnOrder, pred, Len(nodes), d)
  BY <1>1, <1>2, KahnIsTopological
<1> QED
  BY <1>3 DEF d, topological_order

LEMMA LiveFacts ==
  ASSUME GraphOK, finalized
  PROVE  LiveOK(LiveOrder)
<1> DEFINE order == topological_order
           N == Len(nodes)
           S == {i \in DOMAIN order : ~nodes[order[i]].dead}
           at == Ascending(S)
           live == LiveOrder
           l == Cardinality(S)
<1>1. /\ N \in Nat /\ NodeId = 1 .. N
      /\ order \in Seq(1 .. N) /\ Len(order) = N /\ DOMAIN order = 1 .. N
      /\ \A m \in 1 .. N : \E a \in 1 .. N : order[a] = m
      /\ \A a, b \in 1 .. N : a < b => order[a] # order[b]
                                       /\ nodes[order[a]].depth <= nodes[order[b]].depth
      /\ \A a \in 1 .. N : \A p \in Preds(order[a]) : \E b \in 1 .. a - 1 : order[b] = p
      /\ \A a \in 1 .. N : order[a] \in 1 .. N
  <2> DEFINE d == [n \in NodeId |-> nodes[n].depth]
             pred == [n \in NodeId |-> Preds(n)]
  <2>1. N \in Nat /\ NodeId = 1 .. N
    BY DEF GraphOK
  <2>2. Topological(order, pred, N, d)
    BY OrderFacts
  <2> HIDE DEF N, order
  <2>3. order \in Seq(1 .. N) /\ Len(order) = N
    BY <2>2 DEF Topological
  <2>4. DOMAIN order = 1 .. N /\ \A a \in 1 .. N : order[a] \in 1 .. N
    BY <2>3, DomainIsFinite
  <2>5. \A n \in 1 .. N : d[n] = nodes[n].depth /\ pred[n] = Preds(n)
    BY <2>1
  <2> HIDE DEF d, pred
  <2>6. \A a \in 1 .. N : d[order[a]] = nodes[order[a]].depth /\ pred[order[a]] = Preds(order[a])
    BY <2>4, <2>5
  <2>7. \A a, b \in 1 .. N : a < b => order[a] # order[b] /\ d[order[a]] <= d[order[b]]
    BY <2>2 DEF Topological
  <2>8. \A a \in 1 .. N : \A p \in pred[order[a]] : \E b \in 1 .. a - 1 : order[b] = p
    BY <2>2 DEF Topological
  <2>9. \A m \in 1 .. N : \E a \in 1 .. N : order[a] = m
    BY <2>2 DEF Topological
  <2>10. \A a, b \in 1 .. N : a < b => order[a] # order[b]
                                       /\ nodes[order[a]].depth <= nodes[order[b]].depth
    BY <2>6, <2>7
  <2>11. \A a \in 1 .. N : \A p \in Preds(order[a]) : \E b \in 1 .. a - 1 : order[b] = p
    BY <2>6, <2>8
  <2> QED
    BY <2>1, <2>3, <2>4, <2>9, <2>10, <2>11
<1> HIDE DEF order, N
<1>15. \A a, b \in 1 .. N : order[a] = order[b] => a = b
  <2> SUFFICES ASSUME NEW a \in 1 .. N, NEW b \in 1 .. N, a # b PROVE order[a] # order[b]
    OBVIOUS
  <2>1. a < b \/ b < a
    OBVIOUS
  <2> QED
    BY <1>1, <2>1
<1>16. \A a, b \in 1 .. N : a < b => nodes[order[a]].depth <= nodes[order[b]].depth
  BY <1>1
<1>17. N \in Nat
  BY <1>1
<1>2. S \in SUBSET Nat /\ IsFiniteSet(S) /\ S \subseteq 1 .. N
  <2>1. S \subseteq 1 .. N /\ IsFiniteSet(1 .. N)
    BY <1>1, FS_Interval
  <2> QED
    BY <1>1, <2>1, FS_Subset
<1>3. /\ at \in Seq(S) /\ Len(at) = l /\ l \in Nat
      /\ \A x \in S : \E i \in 1 .. l : at[i] = x
      /\ \A i, j \in 1 .. l : i < j => at[i] < at[j]
  <2> HIDE DEF S
  <2> QED
    BY <1>2, AscendingLists
<1>4. \A i \in 1 .. l : at[i] \in S
  <2> HIDE DEF S, at, l
  <2> QED
    BY <1>3, ElementOfSeq
<1>5. DOMAIN at = 1 .. l
  <2> HIDE DEF S, at, l
  <2> QED
    BY <1>3, LenProperties
<1>6. live = [i \in DOMAIN at |-> order[at[i]]]
  BY DEF LiveOrder, order
<1>7. \A i \in 1 .. l : /\ live[i] = order[at[i]] /\ at[i] \in 1 .. N
                        /\ live[i] \in NodeId /\ ~nodes[live[i]].dead
  <2>1. \A i \in 1 .. l : at[i] \in 1 .. N /\ ~nodes[order[at[i]]].dead
    BY <1>2, <1>4
  <2> HIDE DEF at, S, l, live
  <2> QED
    BY <1>1, <1>5, <1>6, <2>1
<1>8. live \in [1 .. l -> NodeId]
  BY <1>5, <1>6, <1>7
<1>9. \A x \in 1 .. N : ~nodes[order[x]].dead => \E i \in 1 .. l : at[i] = x
  BY <1>1, <1>3
<1> HIDE DEF at, S, l, live
<1>10. live \in Seq(NodeId) /\ Len(live) = l /\ DOMAIN live = 1 .. l
  BY <1>3, <1>8
<1>11. ASSUME NEW i \in 1 .. l, NEW j \in 1 .. l, i < j
       PROVE  live[i] # live[j] /\ nodes[live[i]].depth <= nodes[live[j]].depth
  <2>1. at[i] \in 1 .. N /\ at[j] \in 1 .. N /\ at[i] < at[j]
    BY <1>3, <1>7, <1>11
  <2>2. live[i] = order[at[i]] /\ live[j] = order[at[j]]
    BY <1>7, <1>11
  <2> QED
    BY <1>15, <1>16, <2>1, <2>2
<1>12. ASSUME NEW n \in NodeId
       PROVE  ~nodes[n].dead <=> \E i \in 1 .. l : live[i] = n
  <2>1. PICK x \in 1 .. N : order[x] = n
    BY <1>1, <1>12
  <2>2. ~nodes[n].dead => \E i \in 1 .. l : live[i] = n
    BY <1>7, <1>9, <2>1
  <2> QED
    BY <1>7, <2>2
<1>13. ASSUME NEW i \in 1 .. l, NEW p \in nodes[live[i]].preds
       PROVE  \E j \in 1 .. i - 1 : live[j] = p
  <2>1. live[i] \in NodeId /\ p \in Preds(live[i]) /\ ~nodes[live[i]].dead
    BY <1>7, <1>13 DEF GraphOK, DerivedOK
  <2>2. p \in NodeId /\ live[i] \in Succs(p)
    BY <2>1, EdgesAscend DEF Succs
  <2>3. ~nodes[p].dead
    BY <2>1, <2>2 DEF GraphOK, DerivedOK
  <2>4. PICK j \in 1 .. l : live[j] = p
    BY <1>12, <2>2, <2>3
  <2>5. PICK b \in 1 .. at[i] - 1 : order[b] = p
    <3>1. live[i] = order[at[i]] /\ at[i] \in 1 .. N
      BY <1>7, <1>13
    <3> QED
      BY <1>1, <2>1, <3>1, ZenonT(30)
  <2>6. at[i] \in 1 .. N /\ at[j] \in 1 .. N /\ order[at[j]] = p
    BY <1>7, <1>13, <2>4
  <2>7. b \in 1 .. N /\ b < at[i]
    <3>1. at[i] \in Nat /\ N \in Nat /\ at[i] <= N
      BY <1>17, <2>6
    <3> QED
      BY <3>1
  <2>8. at[j] = b
    BY <1>15, <2>5, <2>6, <2>7
  <2>9. j < i
    <3>1. j = i \/ i < j \/ j < i
      BY <1>3, <1>13, <2>4
    <3>2. ~(at[i] < at[j])
      BY <2>6, <2>7, <2>8
    <3> QED
      BY <1>3, <1>13, <2>4, <2>7, <2>8, <3>1, <3>2
  <2> QED
    BY <2>4, <2>9
<1> QED
  BY <1>3, <1>7, <1>10, <1>11, <1>12, <1>13 DEF LiveOK, live

-----------------------------------------------------------------------------
(* What a node costs is a number.                                          *)

LEMMA SizesAreNat ==
  ASSUME NEW shape \in Shape
  PROVE  /\ numel(shape) \in Nat /\ cols(shape) \in Nat \ {0} /\ rows(shape) \in Nat
         /\ Len(shape) \in Nat \ {0} /\ \A i \in 1 .. Len(shape) : shape[i] \in Nat \ {0}
<1> DEFINE P == Nat \ {0}
           k == Len(shape)
           front == SubSeq(shape, 1, k - 1)
<1>1. shape \in Seq(P) /\ shape # <<>> /\ shape \in Seq(Nat)
  BY ShapesAreSequences DEF Shape
<1> HIDE DEF P
<1>2. k \in Nat \ {0} /\ \A i \in 1 .. k : shape[i] \in P
  BY <1>1, EmptySeq, ElementOfSeq
<1>3. front \in Seq(Nat)
  BY <1>1, <1>2
<1>4. numel(shape) \in Nat /\ numel(front) \in Nat
  BY <1>1, <1>3, NumelIsNat
<1> QED
  BY <1>2, <1>4 DEF cols, rows, rank, P

LEMMA CostIsNat ==
  ASSUME GraphOK, NEW n \in NodeId
  PROVE  CostOf(n) \in Nat
<1> DEFINE op == nodes[n].op
           in == ShapesOf(nodes[n].inputs)
           c == cost(op, in)
<1>1. NodeOK(n)
  BY DEF GraphOK
<1>2. op \in OpKinds /\ in \in Seq(Shape) /\ infer_shapes(op, in) # {}
  BY <1>1, InputShapesOf DEF NodeOK, InputsOf
<1> HIDE DEF op, in
<1>3. \A i \in 1 .. Len(in) : in[i] \in Shape
  BY <1>2, ElementOfSeq
<1>4. c.flops \in Nat /\ c.traffic \in Nat
  <2>1. CASE op = "gemm"
    <3>1. Len(in) = 2 /\ rank(in[1]) = 2 /\ rank(in[2]) = 2
      BY <1>2, <2>1 DEF infer_shapes, infer_gemm
    <3>2. in[1] \in Shape /\ in[2] \in Shape
      BY <1>3, <3>1
    <3>3. /\ in[1][1] \in Nat /\ in[1][2] \in Nat /\ in[2][2] \in Nat
          /\ numel(in[1]) \in Nat /\ numel(in[2]) \in Nat
      BY <3>1, <3>2, SizesAreNat DEF rank
    <3>4. in[1][1] * in[2][2] \in Nat
      BY <3>3
    <3>5. /\ 2 * (in[1][1] * in[2][2]) * in[1][2] \in Nat
          /\ numel(in[1]) + numel(in[2]) + (in[1][1] * in[2][2]) \in Nat
      BY <3>3, <3>4
    <3> QED
      BY <2>1, <3>5 DEF cost, cost_gemm
  <2>2. CASE op = "bias_act"
    <3>1. Len(in) = 2
      BY <1>2, <2>2 DEF infer_shapes, infer_bias_act
    <3>2. in[1] \in Shape
      BY <1>3, <3>1
    <3>3. numel(in[1]) \in Nat /\ cols(in[1]) \in Nat
      BY <3>2, SizesAreNat
    <3> QED
      BY <2>2, <3>3 DEF cost, cost_bias_act
  <2>3. CASE op = "reduce"
    <3>1. Len(in) = 1
      BY <1>2, <2>3 DEF infer_shapes, infer_reduce
    <3>2. in[1] \in Shape
      BY <1>3, <3>1
    <3>3. numel(in[1]) \in Nat /\ cols(in[1]) \in Nat \ {0} /\ rows(in[1]) \in Nat
      BY <3>2, SizesAreNat
    <3>4. cols(in[1]) - 1 \in Nat
      BY <3>3
    <3>5. rows(in[1]) * (cols(in[1]) - 1) \in Nat /\ numel(in[1]) + rows(in[1]) \in Nat
      BY <3>3, <3>4
    <3> QED
      BY <2>3, <3>5 DEF cost, cost_reduce
  <2>4. CASE op = "softmax"
    <3>1. Len(in) = 1
      BY <1>2, <2>4 DEF infer_shapes, infer_softmax
    <3>2. numel(in[1]) \in Nat
      BY <1>3, <3>1, SizesAreNat
    <3> QED
      BY <2>4, <3>2 DEF cost, cost_softmax
  <2> QED
    BY <1>2, <2>1, <2>2, <2>3, <2>4 DEF OpKinds
<1> HIDE DEF c
<1>5. c.flops * FlopTime \in Nat /\ c.traffic * TrafficTime \in Nat
  BY <1>4, OperatorsAssumption
<1>6. plan_cost(c) \in Nat
  BY <1>5 DEF plan_cost
<1> QED
  BY <1>6 DEF CostOf, c, op, in

-----------------------------------------------------------------------------
(* Predecessors among the scheduled, and the streams of kChainGreedy.       *)

LEMMA MinIsMinimum ==
  ASSUME NEW S \in SUBSET Nat, S # {}
  PROVE  Min(S) \in S /\ \A x \in S : Min(S) <= x
<1>1. PICK m \in S : \A x \in S : m <= x
  BY LeastElement
<1> QED
  BY <1>1 DEF Min

LEMMA LivePredsFacts ==
  ASSUME NEW live, LiveOK(live), NEW i \in 1 .. Len(live)
  PROVE  /\ LivePreds(live, i) = {j \in 1 .. i - 1 : live[j] \in nodes[live[i]].preds}
         /\ \A p \in nodes[live[i]].preds : \E j \in LivePreds(live, i) : live[j] = p
<1>1. Len(live) \in Nat /\ DOMAIN live = 1 .. Len(live)
  BY DEF LiveOK
<1>2. ASSUME NEW j \in 1 .. Len(live), live[j] \in nodes[live[i]].preds
      PROVE  j \in 1 .. i - 1
  <2>1. PICK k \in 1 .. i - 1 : live[k] = live[j]
    BY <1>2 DEF LiveOK
  <2>2. k \in 1 .. Len(live)
    BY <1>1
  <2>3. ~(k < j) /\ ~(j < k)
    BY <2>1, <2>2 DEF LiveOK
  <2> QED
    BY <2>2, <2>3
<1>3. \A j \in 1 .. i - 1 : j \in 1 .. Len(live)
  BY <1>1
<1>4. LivePreds(live, i) = {j \in 1 .. Len(live) : live[j] \in nodes[live[i]].preds}
  BY <1>1 DEF LivePreds, SchedOf
<1>5. LivePreds(live, i) = {j \in 1 .. i - 1 : live[j] \in nodes[live[i]].preds}
  BY <1>2, <1>3, <1>4
<1>6. \A p \in nodes[live[i]].preds : \E j \in 1 .. i - 1 : live[j] = p
  BY DEF LiveOK
<1> QED
  BY <1>5, <1>6

LEMMA LeastLoadedIsOne ==
  ASSUME NEW K \in Nat \ {0}, NEW load \in [0 .. K - 1 -> Nat]
  PROVE  LeastLoaded(load) \in 0 .. K - 1
<1> DEFINE values == {load[s] : s \in 0 .. K - 1}
           least == {s \in 0 .. K - 1 : \A t \in 0 .. K - 1 : load[s] <= load[t]}
<1>1. values \in SUBSET Nat /\ values # {}
  <2>1. 0 \in 0 .. K - 1
    OBVIOUS
  <2>2. load[0] \in values
    BY <2>1
  <2> QED
    BY <2>2
<1>2. PICK v \in values : \A w \in values : v <= w
  <2> HIDE DEF values
  <2> QED
    BY <1>1, LeastElement
<1>3. PICK s \in 0 .. K - 1 : v = load[s]
  OBVIOUS
<1>4. s \in least
  BY <1>2, <1>3
<1>5. least \in SUBSET Nat /\ least # {} /\ least \subseteq 0 .. K - 1
  BY <1>4, SMTT(30)
<1>6. LeastLoaded(load) = Min(least)
  BY DEF LeastLoaded
<1> HIDE DEF least
<1>7. Min(least) \in least
  BY <1>5, MinIsMinimum
<1> QED
  BY <1>5, <1>6, <1>7

PlaceStart(K) == [stream |-> <<>>, load |-> [s \in 0 .. K - 1 |-> 0], donated |-> {}]
PlaceStep(was, live, i) ==
  LET preds == LivePreds(live, i)
      inherits == Cardinality(preds) = 1 /\ preds \cap was.donated = {}
      s == IF inherits THEN was.stream[Max(preds)] ELSE LeastLoaded(was.load)
  IN  [stream |-> Append(was.stream, s),
       load |-> [was.load EXCEPT ![s] = @ + CostOf(live[i])],
       donated |-> IF inherits THEN was.donated \cup preds ELSE was.donated]

IsPlace(f, live, K, n) ==
  f = [i \in 0 .. n |-> IF i = 0 THEN PlaceStart(K) ELSE PlaceStep(f[i - 1], live, i)]

LEMMA PlaceExists ==
  ASSUME NEW n \in Nat, NEW live, NEW K
  PROVE  \E f : IsPlace(f, live, K, n)
<1> DEFINE Bad == {m \in 0 .. n : ~\E f : IsPlace(f, live, K, m)}
<1> SUFFICES ASSUME Bad # {} PROVE FALSE
  OBVIOUS
<1>1. PICK m \in Bad : \A l \in Bad : m <= l
  <2>1. Bad \in SUBSET Nat
    OBVIOUS
  <2> HIDE DEF Bad
  <2> QED
    BY <2>1, LeastElement
<1>2. m \in 0 .. n /\ ~\E f : IsPlace(f, live, K, m)
  OBVIOUS
<1>3. CASE m = 0
  <2> DEFINE f == [i \in 0 .. 0 |-> PlaceStart(K)]
  <2>1. \A i \in 0 .. 0 : i = 0
    OBVIOUS
  <2>2. f = [i \in 0 .. 0 |-> IF i = 0 THEN PlaceStart(K) ELSE PlaceStep(f[i - 1], live, i)]
    BY <2>1
  <2> HIDE DEF f
  <2> QED
    BY <1>2, <1>3, <2>2 DEF IsPlace
<1>4. CASE m # 0
  <2>1. m - 1 \in 0 .. n /\ ~(m <= m - 1)
    BY <1>2, <1>4
  <2>2. PICK g : IsPlace(g, live, K, m - 1)
    BY <1>1, <2>1
  <2> DEFINE f == [i \in 0 .. m |-> IF i = m THEN PlaceStep(g[m - 1], live, m) ELSE g[i]]
  <2>3. ASSUME NEW i \in 0 .. m
        PROVE  f[i] = IF i = 0 THEN PlaceStart(K) ELSE PlaceStep(f[i - 1], live, i)
    <3>1. CASE i = m
      <4>1. f[m] = PlaceStep(g[m - 1], live, m) /\ f[m - 1] = g[m - 1]
        BY <1>2, <1>4
      <4> QED
        BY <1>4, <3>1, <4>1
    <3>2. CASE i # m /\ i # 0
      <4>1. i \in 0 .. m - 1 /\ i - 1 \in 0 .. m /\ i - 1 # m
        BY <1>2, <3>2
      <4>2. g[i] = PlaceStep(g[i - 1], live, i)
        BY <2>2, <3>2, <4>1 DEF IsPlace
      <4> QED
        BY <3>2, <4>1, <4>2
    <3>3. CASE i # m /\ i = 0
      <4>1. 0 \in 0 .. m - 1
        BY <1>2, <1>4
      <4>2. g[0] = PlaceStart(K)
        BY <2>2, <4>1 DEF IsPlace
      <4> QED
        BY <3>3, <4>2
    <3> QED
      BY <3>1, <3>2, <3>3
  <2>4. f = [i \in 0 .. m |-> f[i]]
    OBVIOUS
  <2> HIDE DEF f
  <2>5. f = [i \in 0 .. m |-> IF i = 0 THEN PlaceStart(K) ELSE PlaceStep(f[i - 1], live, i)]
    BY <2>3, <2>4
  <2> QED
    BY <1>2, <2>5 DEF IsPlace
<1> QED
  BY <1>3, <1>4

PlaceOK(r, i, K) ==
  r.stream \in Seq(0 .. K - 1) /\ Len(r.stream) = i /\ r.load \in [0 .. K - 1 -> Nat]

LEMMA PlaceStepType ==
  ASSUME GraphOK, NEW live, LiveOK(live), NEW K \in Nat \ {0}, NEW i \in 1 .. Len(live),
         NEW was, PlaceOK(was, i - 1, K)
  PROVE  PlaceOK(PlaceStep(was, live, i), i, K)
<1> DEFINE preds == LivePreds(live, i)
           inherits == Cardinality(preds) = 1 /\ preds \cap was.donated = {}
           s == IF inherits THEN was.stream[Max(preds)] ELSE LeastLoaded(was.load)
           c == CostOf(live[i])
<1>1. /\ was.stream \in Seq(0 .. K - 1) /\ Len(was.stream) = i - 1 /\ was.load \in [0 .. K - 1 -> Nat]
      /\ i \in Nat
  BY DEF PlaceOK
<1>2. preds \subseteq 1 .. i - 1
  BY LivePredsFacts
<1>3. c \in Nat
  <2>1. live[i] \in NodeId
    BY DEF LiveOK
  <2> QED
    BY <2>1, CostIsNat
<1> HIDE DEF preds
<1>4. s \in 0 .. K - 1
  <2>1. CASE inherits
    <3>1. preds # {}
      BY <2>1, FS_EmptySet
    <3>2. preds \in SUBSET Int /\ i - 1 \in Int /\ \A x \in preds : x <= i - 1
      BY <1>1, <1>2
    <3>3. Max(preds) \in preds
      BY <3>1, <3>2, MaxIsMaximum
    <3>4. was.stream[Max(preds)] \in 0 .. K - 1
      BY <1>1, <1>2, <3>3, ElementOfSeq
    <3> QED
      BY <2>1, <3>4
  <2>2. CASE ~inherits
    BY <1>1, <2>2, LeastLoadedIsOne
  <2> QED
    BY <2>1, <2>2
<1> HIDE DEF c
<1>5. PlaceStep(was, live, i).stream = Append(was.stream, s)
      /\ PlaceStep(was, live, i).load = [was.load EXCEPT ![s] = @ + c]
  BY DEF PlaceStep, preds, c
<1> HIDE DEF s
<1>6. Append(was.stream, s) \in Seq(0 .. K - 1) /\ Len(Append(was.stream, s)) = i
  BY <1>1, <1>4, AppendProperties
<1>7. [was.load EXCEPT ![s] = @ + c] \in [0 .. K - 1 -> Nat]
  <2>1. was.load[s] + c \in Nat
    <3>1. was.load[s] \in Nat
      BY <1>1, <1>4
    <3> QED
      BY <1>3, <3>1
  <2> QED
    BY <1>1, <2>1
<1> QED
  BY <1>5, <1>6, <1>7 DEF PlaceOK

LEMMA ChainGreedyType ==
  ASSUME GraphOK, NEW live, LiveOK(live), NEW K \in Nat \ {0}
  PROVE  ChainGreedy(live, K) \in [1 .. Len(live) -> 0 .. K - 1]
<1> DEFINE n == Len(live)
           f == CHOOSE f : IsPlace(f, live, K, n)
<1>1. ChainGreedy(live, K) = f[n].stream
  BY DEF ChainGreedy, IsPlace, PlaceStart, PlaceStep
<1>2. n \in Nat
  BY DEF LiveOK
<1>3. IsPlace(f, live, K, n)
  BY <1>2, PlaceExists
<1> HIDE DEF f
<1> DEFINE Bad == {i \in 0 .. n : ~PlaceOK(f[i], i, K)}
<1>4. Bad = {}
  <2> SUFFICES ASSUME Bad # {} PROVE FALSE
    OBVIOUS
  <2>1. PICK i \in Bad : \A j \in Bad : i <= j
    <3>1. Bad \in SUBSET Nat
      OBVIOUS
    <3> HIDE DEF Bad
    <3> QED
      BY <3>1, LeastElement
  <2>2. i \in 0 .. n /\ ~PlaceOK(f[i], i, K)
    OBVIOUS
  <2>3. f[i] = IF i = 0 THEN PlaceStart(K) ELSE PlaceStep(f[i - 1], live, i)
    BY <1>3, <2>2 DEF IsPlace
  <2>4. CASE i = 0
    <3>1. PlaceOK(PlaceStart(K), 0, K)
      BY DEF PlaceOK, PlaceStart
    <3> QED
      BY <2>2, <2>3, <2>4, <3>1
  <2>5. CASE i # 0
    <3>1. i - 1 \in 0 .. n /\ ~(i <= i - 1) /\ i \in 1 .. n
      BY <1>2, <2>2, <2>5
    <3>2. PlaceOK(f[i - 1], i - 1, K)
      BY <2>1, <3>1
    <3>3. PlaceOK(PlaceStep(f[i - 1], live, i), i, K)
      BY <3>1, <3>2, PlaceStepType
    <3> QED
      BY <2>2, <2>3, <2>5, <3>3
  <2> QED
    BY <2>4, <2>5
<1>5. PlaceOK(f[n], n, K)
  BY <1>2, <1>4
<1>6. f[n].stream \in Seq(0 .. K - 1) /\ Len(f[n].stream) = n
  BY <1>5 DEF PlaceOK
<1>7. f[n].stream \in [1 .. n -> 0 .. K - 1]
  BY <1>6, LenProperties
<1> QED
  BY <1>1, <1>7

-----------------------------------------------------------------------------
(* Issue indices, stream ids, events and waits, of any streams placed[i]    *)
(* and any earlier nodes waitOn[i] that the i-th node is to wait for.      *)

(* Nodes wait for nodes before them.                                       *)
Earlier(waitOn, n) == \A i \in 1 .. n : waitOn[i] \subseteq 1 .. i - 1

SameStream(stream, i) == {j \in DOMAIN stream : stream[j] = stream[i]}

(* Compacted, streams keep the nodes together that they had together.      *)
Compacted(stream, k, placed, n) ==
  /\ k \in Nat \ {0} /\ stream \in [1 .. n -> 0 .. k - 1]
  /\ \A i, j \in 1 .. n : stream[i] = stream[j] <=> placed[i] = placed[j]

LEMMA CompactFacts ==
  ASSUME NEW n \in Nat \ {0}, NEW placed \in [1 .. n -> Nat], NEW stream, stream = Compact(placed)
  PROVE  Compacted(stream, Cardinality(Range(stream)), placed, n)
<1> DEFINE R == Range(placed)
           c == Cardinality(R)
<1>1. R \in SUBSET Nat /\ \A i \in 1 .. n : placed[i] \in R
  BY DEF Range
<1>2. IsFiniteSet(R)
  <2>1. IsFiniteSet(1 .. n)
    BY FS_Interval
  <2>2. placed \in Surjection(1 .. n, R)
    BY <1>1 DEF Surjection, Range
  <2> QED
    BY <2>1, <2>2, FS_Surjection
<1>3. stream = [i \in 1 .. n |-> Below(R, placed[i])]
  BY DEF Compact
<1>4. \A x \in R : \E i \in 1 .. n : placed[i] = x
  BY DEF Range
<1> HIDE DEF R
<1>5. /\ c \in Nat
      /\ \A x \in R : Below(R, x) \in 0 .. c - 1
      /\ \A x, z \in R : Below(R, x) = Below(R, z) => x = z
      /\ \A i \in 0 .. c - 1 : \E x \in R : Below(R, x) = i
  BY <1>1, <1>2, BelowNumbers
<1>6. stream \in [1 .. n -> 0 .. c - 1]
  BY <1>1, <1>3, <1>5
<1>7. \A i, j \in 1 .. n : stream[i] = stream[j] <=> placed[i] = placed[j]
  BY <1>1, <1>3, <1>5
<1>8. Range(stream) = 0 .. c - 1
  <2>1. ASSUME NEW x \in 0 .. c - 1
        PROVE  \E i \in 1 .. n : stream[i] = x
    <3>1. PICK y \in R : Below(R, y) = x
      BY <1>5
    <3>2. PICK i \in 1 .. n : placed[i] = y
      BY <1>4
    <3> QED
      BY <1>3, <3>1, <3>2
  <2> QED
    BY <1>6, <2>1 DEF Range
<1>9. c # 0
  <2>1. 1 \in 1 .. n
    OBVIOUS
  <2>2. stream[1] \in 0 .. c - 1
    BY <1>6, <2>1
  <2> QED
    BY <1>5, <2>2
<1>10. Cardinality(Range(stream)) = c
  <2>1. 0 \in Int /\ c - 1 \in Int /\ ~(0 > c - 1)
    BY <1>5, <1>9
  <2>2. Cardinality(0 .. c - 1) = IF 0 > c - 1 THEN 0 ELSE (c - 1) - 0 + 1
    BY <2>1, FS_Interval
  <2> QED
    BY <1>5, <1>8, <2>1, <2>2
<1> QED
  BY <1>5, <1>6, <1>7, <1>9, <1>10 DEF Compacted

Issued(issue, stream, n) ==
  /\ issue \in [1 .. n -> 0 .. n - 1]
  /\ \A i, j \in 1 .. n : stream[i] = stream[j] => (issue[i] < issue[j] <=> i < j)
  /\ \A i \in 1 .. n : issue[i] > 0 =>
       \E j \in 1 .. n : stream[j] = stream[i] /\ issue[j] = issue[i] - 1

LEMMA IssueFacts ==
  ASSUME NEW n \in Nat, NEW stream, DOMAIN stream = 1 .. n
  PROVE  Issued(IssueOf(stream), stream, n)
<1> DEFINE issue == IssueOf(stream)
           S(i) == SameStream(stream, i)
<1>1. issue = [i \in 1 .. n |-> Below(S(i), i)]
  BY DEF IssueOf, SameStream
<1>2. \A i \in 1 .. n : S(i) \subseteq 1 .. n /\ i \in S(i)
  BY DEF SameStream
<1>3. \A i, j \in 1 .. n : stream[i] = stream[j] => S(i) = S(j)
  BY DEF SameStream
<1>4. \A i \in 1 .. n : \A j \in S(i) : j \in 1 .. n /\ stream[j] = stream[i]
  BY DEF SameStream
<1> HIDE DEF S, issue
<1>5. ASSUME NEW i \in 1 .. n
      PROVE  /\ Below(S(i), i) \in 0 .. n - 1
             /\ \A j, k \in S(i) : (Below(S(i), j) < Below(S(i), k)) <=> (j < k)
             /\ Below(S(i), i) > 0 => \E j \in S(i) : Below(S(i), j) = Below(S(i), i) - 1
  <2>1. IsFiniteSet(1 .. n) /\ Cardinality(1 .. n) = n
    <3>1. 1 \in Int /\ n \in Int
      OBVIOUS
    <3>2. IsFiniteSet(1 .. n) /\ Cardinality(1 .. n) = IF 1 > n THEN 0 ELSE n - 1 + 1
      BY <3>1, FS_Interval
    <3> QED
      BY <3>2
  <2>2. IsFiniteSet(S(i)) /\ Cardinality(S(i)) <= n /\ S(i) \in SUBSET Nat
    <3>1. S(i) \subseteq 1 .. n
      BY <1>2
    <3>2. IsFiniteSet(S(i)) /\ Cardinality(S(i)) <= n
      BY <2>1, <3>1, FS_Subset
    <3>3. 1 .. n \subseteq Nat
      OBVIOUS
    <3> QED
      BY <3>1, <3>2, <3>3
  <2> DEFINE c == Cardinality(S(i))
             b == Below(S(i), i)
  <2>3. /\ c \in Nat
        /\ \A x \in S(i) : Below(S(i), x) \in 0 .. c - 1
        /\ \A x, z \in S(i) : (Below(S(i), x) < Below(S(i), z)) <=> (x < z)
        /\ \A x \in 0 .. c - 1 : \E j \in S(i) : Below(S(i), j) = x
    BY <2>2, BelowNumbers
  <2>4. b \in 0 .. c - 1
    BY <1>2, <2>3
  <2>5. c \in Nat /\ c <= n
    BY <2>2, <2>3
  <2> HIDE DEF b, c
  <2>6. b \in 0 .. n - 1
    BY <2>4, <2>5
  <2>7. b > 0 => b - 1 \in 0 .. c - 1
    BY <2>4, <2>5
  <2>8. b > 0 => \E j \in S(i) : Below(S(i), j) = b - 1
    BY <2>3, <2>7
  <2> QED
    BY <2>3, <2>6, <2>8 DEF b
<1>6. issue \in [1 .. n -> 0 .. n - 1]
  BY <1>1, <1>5
<1>7. ASSUME NEW i \in 1 .. n, NEW j \in 1 .. n, stream[i] = stream[j]
      PROVE  issue[i] < issue[j] <=> i < j
  <2>1. i \in S(i) /\ j \in S(i) /\ issue[i] = Below(S(i), i) /\ issue[j] = Below(S(i), j)
    BY <1>1, <1>2, <1>3, <1>7
  <2> QED
    BY <1>5, <2>1
<1>8. ASSUME NEW i \in 1 .. n, issue[i] > 0
      PROVE  \E j \in 1 .. n : stream[j] = stream[i] /\ issue[j] = issue[i] - 1
  <2>1. issue[i] = Below(S(i), i)
    BY <1>1
  <2>2. PICK j \in S(i) : Below(S(i), j) = issue[i] - 1
    BY <1>5, <1>8, <2>1
  <2>3. j \in 1 .. n /\ stream[j] = stream[i]
    BY <1>4
  <2>4. issue[j] = Below(S(i), j)
    BY <1>1, <1>3, <2>3
  <2> QED
    BY <2>2, <2>3, <2>4
<1> QED
  BY <1>6, <1>7, <1>8 DEF issue, Issued

(* Exactly the nodes that another stream waits for record, each an event   *)
(* of its own.                                                             *)
RecordsAwaited(record, stream, waitOn, n) ==
  /\ record \in [1 .. n -> Nat \cup {kNoEventId}]
  /\ \A i, j \in 1 .. n : i # j /\ record[i] = record[j] => record[i] = kNoEventId
  /\ \A p \in 1 .. n : record[p] # kNoEventId <=>
       \E i \in 1 .. n : p \in waitOn[i] /\ stream[p] # stream[i]
  /\ LET events == Cardinality(Range(record) \ {kNoEventId})
     IN  events \in Nat /\ \A i \in 1 .. n : record[i] < events

LEMMA RecordFacts ==
  ASSUME NEW n \in Nat, NEW stream, DOMAIN stream = 1 .. n,
         NEW waitOn, Earlier(waitOn, n),
         NEW record, record = RecordOf(stream, waitOn)
  PROVE  RecordsAwaited(record, stream, waitOn, n)
<1> DEFINE awaited == UNION {{p \in waitOn[i] : stream[p] # stream[i]} : i \in 1 .. n}
<1>1. record = [i \in 1 .. n |-> IF i \in awaited THEN Below(awaited, i) ELSE kNoEventId]
  BY DEF RecordOf
<1>2. \A p : p \in awaited <=> \E i \in 1 .. n : p \in waitOn[i] /\ stream[p] # stream[i]
  OBVIOUS
<1>3. \A i \in 1 .. n : 1 .. i - 1 \subseteq 1 .. n /\ waitOn[i] \subseteq 1 .. i - 1
  BY DEF Earlier
<1>4. awaited \subseteq 1 .. n
  BY <1>3
<1>5. IsFiniteSet(awaited) /\ awaited \in SUBSET Nat
  <2>1. IsFiniteSet(1 .. n) /\ 1 .. n \subseteq Nat
    BY FS_Interval
  <2> HIDE DEF awaited
  <2> QED
    BY <1>4, <2>1, FS_Subset
<1> HIDE DEF awaited
<1>6. /\ Cardinality(awaited) \in Nat
      /\ \A x \in awaited : Below(awaited, x) \in 0 .. Cardinality(awaited) - 1
      /\ \A x, z \in awaited : Below(awaited, x) = Below(awaited, z) => x = z
  BY <1>5, BelowNumbers
<1>7. \A x \in awaited : Below(awaited, x) \in Nat
  BY <1>6
<1>8. kNoEventId \notin Nat
  BY DEF kNoEventId
<1>9. record \in [1 .. n -> Nat \cup {kNoEventId}]
  BY <1>1, <1>7
<1>10. \A p \in 1 .. n : record[p] # kNoEventId <=> p \in awaited
  BY <1>1, <1>7, <1>8
<1>11. \A i, j \in 1 .. n : i # j /\ record[i] = record[j] => record[i] = kNoEventId
  BY <1>1, <1>6, <1>10
<1>12. Range(record) \ {kNoEventId} = 0 .. Cardinality(awaited) - 1
  <2> DEFINE c == Cardinality(awaited)
  <2>1. \A x \in awaited : x \in 1 .. n /\ record[x] = Below(awaited, x)
    BY <1>1, <1>4
  <2>2. \A i \in 0 .. c - 1 : \E x \in awaited : Below(awaited, x) = i
    BY <1>5, BelowNumbers
  <2>3. \A x \in awaited : Below(awaited, x) \in 0 .. c - 1
    BY <1>6
  <2>4. DOMAIN record = 1 .. n /\ Range(record) = {record[i] : i \in 1 .. n}
    BY <1>1 DEF Range
  <2>5. \A i \in 0 .. c - 1 : i # kNoEventId
    BY DEF kNoEventId
  <2> HIDE DEF c
  <2>6. ASSUME NEW r \in Range(record) \ {kNoEventId} PROVE r \in 0 .. c - 1
    <3>1. PICK i \in 1 .. n : r = record[i] /\ record[i] # kNoEventId
      BY <2>4, <2>6
    <3> QED
      BY <1>10, <2>1, <2>3, <3>1
  <2>7. ASSUME NEW r \in 0 .. c - 1 PROVE r \in Range(record) \ {kNoEventId}
    <3>1. PICK x \in awaited : Below(awaited, x) = r
      BY <2>2
    <3> QED
      BY <2>1, <2>4, <2>5, <3>1
  <2> DEFINE R == Range(record) \ {kNoEventId}  I == 0 .. c - 1
  <2>8. (\A r \in R : r \in I) /\ \A r \in I : r \in R
    BY <2>6, <2>7
  <2> HIDE DEF R, I
  <2>9. R = I
    BY <2>8
  <2> QED
    BY <2>9 DEF R, I, c
<1>13. Cardinality(Range(record) \ {kNoEventId}) = Cardinality(awaited)
  <2> DEFINE c == Cardinality(awaited)
  <2>1. c \in Nat
    BY <1>6
  <2> HIDE DEF c
  <2>2. Cardinality(0 .. c - 1) = c
    BY <2>1, FS_Interval
  <2> QED
    BY <1>12, <2>2 DEF c
<1>14. \A i \in 1 .. n : record[i] < Cardinality(awaited)
  <2> DEFINE c == Cardinality(awaited)
  <2>1. c \in Nat /\ \A x \in awaited : Below(awaited, x) \in 0 .. c - 1
    BY <1>6
  <2>2. \A i \in 1 .. n : record[i] = IF i \in awaited THEN Below(awaited, i) ELSE kNoEventId
    BY <1>1
  <2> HIDE DEF c
  <2>3. \A i \in 1 .. n : record[i] < c
    BY <2>1, <2>2 DEF kNoEventId
  <2> QED
    BY <2>3 DEF c
<1> QED
  BY <1>2, <1>6, <1>9, <1>10, <1>11, <1>13, <1>14 DEF RecordsAwaited

(* The first wait for an event on a stream is kept.                        *)
WaitsFirst(waits, stream, waitOn, record, n) ==
  /\ DOMAIN waits = 1 .. n
  /\ \A i \in 1 .. n : \A e \in waits[i] :
       \E p \in waitOn[i] : stream[p] # stream[i] /\ e = record[p]
  /\ \A i \in 1 .. n : \A p \in waitOn[i] : stream[p] # stream[i] =>
       \E k \in 1 .. i : stream[k] = stream[i] /\ record[p] \in waits[k]

LEMMA WaitsFacts ==
  ASSUME NEW n \in Nat, NEW stream, DOMAIN stream = 1 .. n, NEW record, NEW waitOn,
         NEW waits, waits = WaitsOf(stream, waitOn, record)
  PROVE  WaitsFirst(waits, stream, waitOn, record, n)
<1> DEFINE across == [i \in 1 .. n |-> {record[p] : p \in {q \in waitOn[i] : stream[q] # stream[i]}}]
           earlier(i) == UNION {across[j] : j \in {k \in 1 .. i - 1 : stream[k] = stream[i]}}
<1>1. waits = [i \in 1 .. n |-> across[i] \ earlier(i)]
  BY DEF WaitsOf
<1>2. \A i \in 1 .. n : \A e : e \in across[i] <=>
        \E p \in waitOn[i] : stream[p] # stream[i] /\ e = record[p]
  OBVIOUS
<1>3. \A i, e : e \in earlier(i) <=> \E k \in 1 .. i - 1 : stream[k] = stream[i] /\ e \in across[k]
  OBVIOUS
<1> HIDE DEF across, earlier
<1>4. ASSUME NEW i \in 1 .. n, NEW e \in across[i]
      PROVE  \E k \in 1 .. i : stream[k] = stream[i] /\ e \in waits[k]
  <2> DEFINE S == {k \in 1 .. i : stream[k] = stream[i] /\ e \in across[k]}
  <2>1. S \in SUBSET Nat /\ i \in S /\ \A k \in S : k \in 1 .. i /\ stream[k] = stream[i] /\ e \in across[k]
    BY <1>4
  <2>2. \A k \in 1 .. i : stream[k] = stream[i] /\ e \in across[k] => k \in S
    OBVIOUS
  <2> HIDE DEF S
  <2>3. PICK k \in S : \A m \in S : k <= m
    BY <2>1, LeastElement
  <2>4. k \in 1 .. i /\ k \in 1 .. n /\ stream[k] = stream[i] /\ e \in across[k]
    BY <2>1, <2>3
  <2>5. e \notin earlier(k)
    <3> SUFFICES ASSUME NEW m \in 1 .. k - 1, stream[m] = stream[k], e \in across[m]
                 PROVE  FALSE
      BY <1>3
    <3>1. m \in 1 .. i /\ ~(k <= m)
      BY <2>4
    <3> QED
      BY <2>2, <2>3, <2>4, <3>1
  <2> QED
    BY <1>1, <2>4, <2>5
<1>5. DOMAIN waits = 1 .. n /\ \A i \in 1 .. n : waits[i] \subseteq across[i]
  BY <1>1
<1>6. \A i \in 1 .. n : \A e \in waits[i] : \E p \in waitOn[i] : stream[p] # stream[i] /\ e = record[p]
  BY <1>2, <1>5
<1>7. ASSUME NEW i \in 1 .. n, NEW p \in waitOn[i], stream[p] # stream[i]
      PROVE  \E k \in 1 .. i : stream[k] = stream[i] /\ record[p] \in waits[k]
  <2>1. record[p] \in across[i]
    BY <1>2, <1>7
  <2> QED
    BY <1>4, <2>1
<1> QED
  BY <1>5, <1>6, <1>7 DEF WaitsFirst

-----------------------------------------------------------------------------
(* The streams of the policies, and the barriers of kLevelParallel.         *)

LEMMA DepthFacts ==
  ASSUME GraphOK, finalized
  PROVE  \A n \in NodeId :
           /\ nodes[n].depth \in Nat /\ nodes[n].preds = Preds(n)
           /\ \A p \in nodes[n].preds : nodes[p].depth \in Nat /\ nodes[p].depth < nodes[n].depth
<1> DEFINE d == [n \in NodeId |-> nodes[n].depth]
           pred == [n \in NodeId |-> Preds(n)]
<1>1. NodeId = 1 .. Len(nodes) /\ IsDepth(d, pred, Len(nodes))
  BY DEF GraphOK, DerivedOK
<1>2. \A n \in NodeId : d[n] = nodes[n].depth /\ pred[n] = Preds(n)
  OBVIOUS
<1>3. \A n \in NodeId : nodes[n].preds = Preds(n) /\ Preds(n) \subseteq NodeId
  BY EdgesAscend DEF GraphOK, DerivedOK
<1> HIDE DEF d, pred
<1>4. \A n \in NodeId : d[n] \in Nat /\ \A p \in pred[n] : d[p] < d[n]
  BY <1>1 DEF IsDepth
<1> QED
  BY <1>2, <1>3, <1>4

LEMMA StreamsOfType ==
  ASSUME GraphOK, NEW live, LiveOK(live), NEW K \in Nat \ {0}, NEW policy \in SchedulePolicy
  PROVE  StreamsOf(policy, live, K) \in [1 .. Len(live) -> Nat]
<1>1. DOMAIN live = 1 .. Len(live) /\ Len(live) \in Nat
  BY DEF LiveOK
<1>2. CASE policy = "kSequential"
  BY <1>1, <1>2 DEF StreamsOf
<1>3. CASE policy = "kLevelParallel"
  <2>1. ASSUME NEW i \in 1 .. Len(live)
        PROVE  Cardinality({j \in Level(live, DepthOf(live, i)) : live[j] < live[i]}) % K \in Nat
    <3> DEFINE S == {j \in Level(live, DepthOf(live, i)) : live[j] < live[i]}
    <3>1. S \subseteq 1 .. Len(live) /\ IsFiniteSet(1 .. Len(live))
      BY <1>1, FS_Interval DEF Level
    <3> HIDE DEF S
    <3>2. Cardinality(S) \in Nat
      BY <3>1, FS_Subset, FS_CardinalityType
    <3>3. Cardinality(S) % K \in Nat
      BY <3>2
    <3> QED
      BY <3>3 DEF S
  <2> QED
    BY <1>1, <1>3, <2>1 DEF StreamsOf, RoundRobin
<1>4. CASE policy = "kChainGreedy"
  <2>1. ChainGreedy(live, K) \in [1 .. Len(live) -> 0 .. K - 1]
    BY ChainGreedyType
  <2>2. 0 .. K - 1 \subseteq Nat
    OBVIOUS
  <2>3. ChainGreedy(live, K) \in [1 .. Len(live) -> Nat]
    BY <2>1, <2>2
  <2> QED
    BY <1>4, <2>3 DEF StreamsOf
<1> QED
  BY <1>2, <1>3, <1>4 DEF SchedulePolicy

LEMMA LevelBeforeFacts ==
  ASSUME GraphOK, finalized, NEW live, LiveOK(live), NEW i \in 1 .. Len(live)
  PROVE  LET d == DepthOf(live, i)
             before == LevelBefore(live, d)
         IN  /\ before \subseteq 1 .. i - 1
             /\ \A j \in before : DepthOf(live, j) \in Nat /\ DepthOf(live, j) < d
             /\ \A j \in 1 .. Len(live) : DepthOf(live, j) < d =>
                  /\ before # {}
                  /\ \A m \in before : DepthOf(live, j) <= DepthOf(live, m)
<1> DEFINE d == DepthOf(live, i)
           n == Len(live)
           S == {-1} \cup {DepthOf(live, j) : j \in {k \in 1 .. n : DepthOf(live, k) < d}}
           before == LevelBefore(live, d)
<1>1. DOMAIN live = 1 .. n /\ n \in Nat /\ i \in 1 .. n
  BY DEF LiveOK
<1>2. \A j \in 1 .. n : DepthOf(live, j) \in Nat
  BY DepthFacts DEF LiveOK, DepthOf
<1>3. \A j, k \in 1 .. n : j < k => DepthOf(live, j) <= DepthOf(live, k)
  BY DEF LiveOK, DepthOf
<1> HIDE DEF d
<1>4. d \in Nat /\ d = DepthOf(live, i)
  BY <1>1, <1>2 DEF d
<1>5. S \in SUBSET Int /\ S # {} /\ \A x \in S : x <= d
  BY <1>2, <1>4
<1>6. \A j \in 1 .. n : DepthOf(live, j) < d => DepthOf(live, j) \in S
  OBVIOUS
<1>7. \A x \in S : x = -1 \/ \E j \in 1 .. n : DepthOf(live, j) < d /\ x = DepthOf(live, j)
  OBVIOUS
<1>8. before = {j \in 1 .. n : DepthOf(live, j) = Max(S)}
  BY <1>1 DEF LevelBefore, Level
<1> HIDE DEF S, n, before
<1>9. Max(S) \in S /\ \A x \in S : x <= Max(S)
  <2>1. d \in Int
    BY <1>4
  <2> QED
    BY <1>5, <2>1, MaxIsMaximum
<1>10. Max(S) < d
  BY <1>4, <1>7, <1>9
<1>11. \A j \in before : j \in 1 .. n /\ DepthOf(live, j) \in Nat /\ DepthOf(live, j) < d
  BY <1>2, <1>8, <1>10
<1>12. ASSUME NEW j \in before PROVE j \in 1 .. i - 1
  <2>1. j \in 1 .. n /\ i \in 1 .. n /\ n \in Nat /\ DepthOf(live, j) < DepthOf(live, i)
    BY <1>1, <1>4, <1>11, <1>12
  <2>2. ~(i < j) /\ i # j
    <3>1. DepthOf(live, i) \in Nat /\ DepthOf(live, j) \in Nat
      BY <1>2, <2>1
    <3> QED
      BY <1>3, <2>1, <3>1
  <2> QED
    BY <2>1, <2>2
<1>13. ASSUME NEW j \in 1 .. n, DepthOf(live, j) < d
       PROVE  before # {} /\ \A m \in before : DepthOf(live, j) <= DepthOf(live, m)
  <2>1. DepthOf(live, j) \in S /\ DepthOf(live, j) \in Nat
    BY <1>2, <1>6, <1>13
  <2>2. DepthOf(live, j) <= Max(S)
    BY <1>9, <2>1
  <2>3. Max(S) # -1
    BY <2>1, <2>2
  <2>4. PICK k \in 1 .. n : Max(S) = DepthOf(live, k)
    BY <1>7, <1>9, <2>3
  <2> QED
    BY <1>8, <2>2, <2>4
<1> QED
  BY <1>11, <1>12, <1>13 DEF d, before, n

(* A barrier orders the last nodes of the level before, on each stream,    *)
(* before a node of the level on its own.                                  *)
LEMMA BarrierFacts ==
  ASSUME GraphOK, finalized, NEW live, LiveOK(live), NEW stream, NEW i \in 1 .. Len(live)
  PROVE  /\ BarrierWaits(live, stream, i) \subseteq 1 .. i - 1
         /\ \A u \in LevelBefore(live, DepthOf(live, i)) :
              \E m \in LevelBefore(live, DepthOf(live, i)) :
                /\ stream[m] = stream[u] /\ u <= m
                /\ \/ stream[m] = stream[i]
                   \/ \E f \in 1 .. i : stream[f] = stream[i] /\ m \in BarrierWaits(live, stream, f)
<1> DEFINE d == DepthOf(live, i)
           before == LevelBefore(live, d)
           mine == OnStream(Level(live, d), stream, stream[i])
           last(s) == Max(OnStream(before, stream, s))
<1>1. DOMAIN live = 1 .. Len(live) /\ Len(live) \in Nat /\ i \in 1 .. Len(live)
  BY DEF LiveOK
<1>2. before \subseteq 1 .. i - 1
  BY LevelBeforeFacts
<1>3. mine = {j \in 1 .. Len(live) : DepthOf(live, j) = d /\ stream[j] = stream[i]}
  BY <1>1 DEF OnStream, Level
<1> HIDE DEF d, before, mine, last
<1>4. ASSUME NEW s, s \in {stream[j] : j \in before}
      PROVE  /\ last(s) \in before /\ stream[last(s)] = s
             /\ \A u \in before : stream[u] = s => u <= last(s)
  <2> DEFINE S == OnStream(before, stream, s)
  <2>1. S = {j \in before : stream[j] = s}
    BY DEF OnStream
  <2>2. PICK j \in before : stream[j] = s
    BY <1>4
  <2>3. S \in SUBSET Int /\ S # {} /\ i \in Int /\ \A x \in S : x <= i
    <3>1. \A x \in before : x \in 1 .. i - 1
      BY <1>2
    <3> QED
      BY <1>1, <2>1, <2>2, <3>1
  <2> HIDE DEF S
  <2>4. Max(S) \in S /\ \A x \in S : x <= Max(S)
    BY <2>3, MaxIsMaximum
  <2>5. last(s) = Max(S)
    BY DEF S, last
  <2> QED
    BY <2>1, <2>4, <2>5
<1>5. ASSUME NEW f \in 1 .. Len(live), DepthOf(live, f) = d, stream[f] = stream[i]
      PROVE  BarrierWaits(live, stream, f) =
               IF f # Min(mine) THEN {}
               ELSE {last(s) : s \in {stream[j] : j \in before} \ {stream[i]}}
  BY <1>5 DEF BarrierWaits, mine, before, last
<1>6. BarrierWaits(live, stream, i) \subseteq before
  <2>1. BarrierWaits(live, stream, i) \subseteq {last(s) : s \in {stream[j] : j \in before}}
    BY <1>1, <1>5 DEF d
  <2> QED
    BY <1>4, <2>1
<1>7. ASSUME NEW u \in before
      PROVE  \E m \in before :
               /\ stream[m] = stream[u] /\ u <= m
               /\ \/ stream[m] = stream[i]
                  \/ \E f \in 1 .. i : stream[f] = stream[i] /\ m \in BarrierWaits(live, stream, f)
  <2> DEFINE m == last(stream[u])
             f == Min(mine)
  <2>1. m \in before /\ stream[m] = stream[u] /\ u <= m
    <3>1. stream[u] \in {stream[j] : j \in before}
      BY <1>7
    <3> QED
      BY <1>4, <3>1
  <2>2. mine \in SUBSET Nat /\ i \in mine
    BY <1>1, <1>3 DEF d
  <2>3. f \in mine /\ f <= i
    BY <2>2, MinIsMinimum
  <2>4. f \in 1 .. Len(live) /\ DepthOf(live, f) = d /\ stream[f] = stream[i]
    BY <1>3, <2>3
  <2>5. f \in 1 .. i
    BY <1>1, <2>3, <2>4
  <2>6. CASE stream[u] # stream[i]
    <3>1. stream[u] \in {stream[j] : j \in before} \ {stream[i]}
      BY <1>7, <2>6
    <3>2. BarrierWaits(live, stream, f) = {last(s) : s \in {stream[j] : j \in before} \ {stream[i]}}
      BY <1>5, <2>4
    <3>3. m \in BarrierWaits(live, stream, f)
      BY <3>1, <3>2
    <3> QED
      BY <2>1, <2>4, <2>5, <3>3
  <2>7. CASE stream[u] = stream[i]
    BY <2>1, <2>7
  <2> QED
    BY <2>6, <2>7
<1> QED
  BY <1>2, <1>6, <1>7 DEF before, d

LEMMA WaitOnIsEarlier ==
  ASSUME GraphOK, finalized, NEW live, LiveOK(live), NEW stream, NEW policy \in SchedulePolicy
  PROVE  /\ DOMAIN WaitOn(policy, live, stream) = 1 .. Len(live)
         /\ Earlier(WaitOn(policy, live, stream), Len(live))
<1>1. DOMAIN live = 1 .. Len(live)
  BY DEF LiveOK
<1>2. DOMAIN WaitOn(policy, live, stream) = 1 .. Len(live)
  BY <1>1 DEF WaitOn
<1>3. ASSUME NEW i \in 1 .. Len(live)
      PROVE  WaitOn(policy, live, stream)[i] \subseteq 1 .. i - 1
  <2>1. CASE policy = "kSequential"
    BY <1>1, <1>3, <2>1 DEF WaitOn
  <2>2. CASE policy = "kLevelParallel"
    <3>1. WaitOn(policy, live, stream)[i] = BarrierWaits(live, stream, i)
      BY <1>1, <1>3, <2>2 DEF WaitOn
    <3> QED
      BY <1>3, <3>1, BarrierFacts
  <2>3. CASE policy = "kChainGreedy"
    <3>1. WaitOn(policy, live, stream)[i] = LivePreds(live, i)
      BY <1>1, <1>3, <2>3 DEF WaitOn
    <3>2. LivePreds(live, i) \subseteq 1 .. i - 1
      BY <1>3, LivePredsFacts
    <3> QED
      BY <3>1, <3>2
  <2> QED
    BY <2>1, <2>2, <2>3 DEF SchedulePolicy
<1> QED
  BY <1>2, <1>3 DEF Earlier

-----------------------------------------------------------------------------
(* What plan_streams returns.                                              *)

(* A schedule of n nodes: build accepts it, its order is that of the        *)
(* positions, and every event is awaited by another stream, later.         *)
WellPlanned(s, n) ==
  /\ n \in Nat \ {0} /\ s.streams \in Nat \ {0}
  /\ s.stream \in [1 .. n -> 0 .. s.streams - 1]
  /\ s.issue \in [1 .. n -> 0 .. n - 1]
  /\ s.record \in [1 .. n -> Nat \cup {kNoEventId}]
  /\ s.events \in Nat /\ \A i \in 1 .. n : s.record[i] < s.events
  /\ s.waits \in [1 .. n -> SUBSET Nat]
  /\ s.order = [i \in 1 .. n |-> i]
  /\ \A i, j \in 1 .. n : s.stream[i] = s.stream[j] => (s.issue[i] < s.issue[j] <=> i < j)
  /\ \A i \in 1 .. n : s.issue[i] > 0 =>
       \E j \in 1 .. n : s.stream[j] = s.stream[i] /\ s.issue[j] = s.issue[i] - 1
  /\ \A i, j \in 1 .. n : i # j /\ s.record[i] = s.record[j] => s.record[i] = kNoEventId
  /\ \A i \in 1 .. n : \A e \in s.waits[i] :
       \E p \in 1 .. i - 1 : s.record[p] = e /\ s.stream[p] # s.stream[i]
  /\ \A p \in 1 .. n : s.record[p] # kNoEventId =>
       \E i \in 1 .. n : s.stream[p] # s.stream[i] /\ s.record[p] \in s.waits[i]

(* Its stream or a wait on its stream orders i after p.                    *)
Covers(s, p, i) ==
  /\ p < i
  /\ \/ s.stream[p] = s.stream[i]
     \/ \E k \in 1 .. i : /\ s.stream[k] = s.stream[i]
                          /\ s.record[p] # kNoEventId /\ s.record[p] \in s.waits[k]

(* What the policies promise of it.                                        *)
CoversPreds(s) ==
  \A i \in 1 .. Len(s.nodes) : \A p \in LivePreds(s.nodes, i) : Covers(s, p, i)

CoversLevels(s) ==
  \A i \in 1 .. Len(s.nodes) : LET before == LevelBefore(s.nodes, DepthOf(s.nodes, i)) IN
    \A u \in before : \E m \in before : s.stream[m] = s.stream[u] /\ u <= m /\ Covers(s, m, i)

(* How plan_streams puts a schedule together.                              *)
IsAssembled(s, n, placed, waitOn) ==
  /\ s.stream = Compact(placed) /\ s.streams = Cardinality(Range(s.stream))
  /\ s.issue = IssueOf(s.stream) /\ s.record = RecordOf(s.stream, waitOn)
  /\ s.events = Cardinality(Range(s.record) \ {kNoEventId})
  /\ s.waits = WaitsOf(s.stream, waitOn, s.record) /\ s.order = [i \in 1 .. n |-> i]

CoversAwaited(s, waitOn, n) == \A i \in 1 .. n : \A p \in waitOn[i] : Covers(s, p, i)

LEMMA Assembled ==
  ASSUME NEW n \in Nat \ {0}, NEW placed \in [1 .. n -> Nat],
         NEW waitOn, DOMAIN waitOn = 1 .. n, Earlier(waitOn, n),
         NEW s, IsAssembled(s, n, placed, waitOn)
  PROVE  /\ WellPlanned(s, n) /\ Compacted(s.stream, s.streams, placed, n)
         /\ CoversAwaited(s, waitOn, n)
<1>0. /\ s.stream = Compact(placed) /\ s.streams = Cardinality(Range(s.stream))
      /\ s.issue = IssueOf(s.stream) /\ s.record = RecordOf(s.stream, waitOn)
      /\ s.events = Cardinality(Range(s.record) \ {kNoEventId})
      /\ s.waits = WaitsOf(s.stream, waitOn, s.record) /\ s.order = [i \in 1 .. n |-> i]
  BY DEF IsAssembled
<1>16. Compacted(s.stream, s.streams, placed, n)
  BY <1>0, CompactFacts
<1>1. /\ s.streams \in Nat \ {0} /\ s.stream \in [1 .. n -> 0 .. s.streams - 1]
      /\ \A i, j \in 1 .. n : s.stream[i] = s.stream[j] <=> placed[i] = placed[j]
  BY <1>16 DEF Compacted
<1>2. DOMAIN s.stream = 1 .. n
  BY <1>1
<1>17. Issued(s.issue, s.stream, n)
  BY <1>0, <1>2, IssueFacts
<1>3. /\ s.issue \in [1 .. n -> 0 .. n - 1]
      /\ \A i, j \in 1 .. n : s.stream[i] = s.stream[j] => (s.issue[i] < s.issue[j] <=> i < j)
      /\ \A i \in 1 .. n : s.issue[i] > 0 =>
           \E j \in 1 .. n : s.stream[j] = s.stream[i] /\ s.issue[j] = s.issue[i] - 1
  BY <1>17 DEF Issued
<1>14. RecordsAwaited(s.record, s.stream, waitOn, n)
  BY <1>0, <1>2, RecordFacts
<1>15. WaitsFirst(s.waits, s.stream, waitOn, s.record, n)
  BY <1>0, <1>2, WaitsFacts
<1>4. /\ s.record \in [1 .. n -> Nat \cup {kNoEventId}]
      /\ \A i, j \in 1 .. n : i # j /\ s.record[i] = s.record[j] => s.record[i] = kNoEventId
      /\ \A p \in 1 .. n : s.record[p] # kNoEventId <=>
           \E i \in 1 .. n : p \in waitOn[i] /\ s.stream[p] # s.stream[i]
      /\ s.events \in Nat /\ \A i \in 1 .. n : s.record[i] < s.events
  <2> DEFINE events == Cardinality(Range(s.record) \ {kNoEventId})
  <2>1. s.events = events /\ events \in Nat /\ \A i \in 1 .. n : s.record[i] < events
    BY <1>0, <1>14 DEF RecordsAwaited
  <2> HIDE DEF events
  <2> QED
    BY <1>14, <2>1 DEF RecordsAwaited
<1>5. /\ DOMAIN s.waits = 1 .. n
      /\ \A i \in 1 .. n : \A e \in s.waits[i] :
           \E p \in waitOn[i] : s.stream[p] # s.stream[i] /\ e = s.record[p]
      /\ \A i \in 1 .. n : \A p \in waitOn[i] : s.stream[p] # s.stream[i] =>
           \E k \in 1 .. i : s.stream[k] = s.stream[i] /\ s.record[p] \in s.waits[k]
  BY <1>15 DEF WaitsFirst
<1>6. \A i \in 1 .. n : \A p \in waitOn[i] : p \in 1 .. i - 1 /\ p \in 1 .. n /\ p < i
  BY DEF Earlier
<1>7. ASSUME NEW i \in 1 .. n, NEW e \in s.waits[i]
      PROVE  e \in Nat /\ \E p \in 1 .. i - 1 : s.record[p] = e /\ s.stream[p] # s.stream[i]
  <2>1. PICK p \in waitOn[i] : s.stream[p] # s.stream[i] /\ e = s.record[p]
    BY <1>5, <1>7
  <2>2. p \in 1 .. i - 1 /\ p \in 1 .. n
    BY <1>6, <1>7, <2>1
  <2>3. s.record[p] # kNoEventId /\ s.record[p] \in Nat \cup {kNoEventId}
    BY <1>4, <2>1, <2>2
  <2> QED
    BY <2>1, <2>2, <2>3
<1>8. s.waits = [i \in 1 .. n |-> s.waits[i]]
  BY <1>0, <1>5 DEF WaitsOf
<1>9. s.waits \in [1 .. n -> SUBSET Nat]
  <2> DEFINE w == s.waits
  <2>1. \A i \in 1 .. n : w[i] \in SUBSET Nat
    BY <1>7
  <2>2. w = [i \in 1 .. n |-> w[i]]
    BY <1>8
  <2> HIDE DEF w
  <2>3. w \in [1 .. n -> SUBSET Nat]
    BY <2>1, <2>2
  <2> QED
    BY <2>3 DEF w
<1>10. ASSUME NEW p \in 1 .. n, s.record[p] # kNoEventId
       PROVE  \E i \in 1 .. n : s.stream[p] # s.stream[i] /\ s.record[p] \in s.waits[i]
  <2>1. PICK i \in 1 .. n : p \in waitOn[i] /\ s.stream[p] # s.stream[i]
    BY <1>4, <1>10
  <2>2. PICK k \in 1 .. i : s.stream[k] = s.stream[i] /\ s.record[p] \in s.waits[k]
    BY <1>5, <2>1
  <2>3. k \in 1 .. n
    OBVIOUS
  <2> QED
    BY <2>1, <2>2, <2>3
<1>11. ASSUME NEW i \in 1 .. n, NEW p \in waitOn[i]
       PROVE  Covers(s, p, i)
  <2>1. p < i /\ p \in 1 .. n
    BY <1>6, <1>11
  <2>2. CASE s.stream[p] = s.stream[i]
    BY <2>1, <2>2 DEF Covers
  <2>3. CASE s.stream[p] # s.stream[i]
    <3>1. PICK k \in 1 .. i : s.stream[k] = s.stream[i] /\ s.record[p] \in s.waits[k]
      BY <1>5, <1>11, <2>3
    <3>2. s.record[p] # kNoEventId
      BY <1>4, <1>11, <2>1, <2>3
    <3> QED
      BY <2>1, <3>1, <3>2 DEF Covers
  <2> QED
    BY <2>2, <2>3
<1>12. WellPlanned(s, n)
  <2>1. /\ s.issue \in [1 .. n -> 0 .. n - 1]
        /\ \A i, j \in 1 .. n : s.stream[i] = s.stream[j] => (s.issue[i] < s.issue[j] <=> i < j)
        /\ \A i \in 1 .. n : s.issue[i] > 0 =>
             \E j \in 1 .. n : s.stream[j] = s.stream[i] /\ s.issue[j] = s.issue[i] - 1
    BY <1>3
  <2>2. \A i \in 1 .. n : \A e \in s.waits[i] :
          \E p \in 1 .. i - 1 : s.record[p] = e /\ s.stream[p] # s.stream[i]
    BY <1>7
  <2>3. /\ s.record \in [1 .. n -> Nat \cup {kNoEventId}]
        /\ s.events \in Nat /\ \A i \in 1 .. n : s.record[i] < s.events
        /\ \A i, j \in 1 .. n : i # j /\ s.record[i] = s.record[j] => s.record[i] = kNoEventId
    BY <1>4
  <2> QED
    BY <1>0, <1>1, <1>9, <1>10, <2>1, <2>2, <2>3, Zenon DEF WellPlanned
<1> QED
  BY <1>11, <1>12, <1>16 DEF CoversAwaited

LEMMA PlannedSchedule ==
  ASSUME GraphOK, NEW policy \in SchedulePolicy, NEW num_streams \in Nat,
         plan_streams_status(num_streams) = "kOk",
         NEW s, s = plan_streams(policy, num_streams)
  PROVE  /\ finalized /\ LiveOK(s.nodes) /\ WellPlanned(s, Len(s.nodes))
         /\ policy # "kLevelParallel" => CoversPreds(s)
         /\ policy = "kLevelParallel" => CoversLevels(s)
<1> DEFINE live == LiveOrder
           n == Len(live)
           K == Min({num_streams, n})
           placed == StreamsOf(policy, live, K)
           waitOn == WaitOn(policy, live, placed)
<1>1. num_streams >= 1 /\ finalized /\ live # <<>>
  BY DEF plan_streams_status
<1>2. LiveOK(live)
  BY <1>1, LiveFacts
<1>3. n \in Nat \ {0} /\ DOMAIN live = 1 .. n
  BY <1>1, <1>2, EmptySeq DEF LiveOK
<1>4. /\ s.nodes = live /\ s.stream = Compact(placed) /\ s.streams = Cardinality(Range(s.stream))
      /\ s.issue = IssueOf(s.stream) /\ s.record = RecordOf(s.stream, waitOn)
      /\ s.events = Cardinality(Range(s.record) \ {kNoEventId})
      /\ s.waits = WaitsOf(s.stream, waitOn, s.record) /\ s.order = [i \in DOMAIN live |-> i]
  BY DEF plan_streams
<1> HIDE DEF live
<1>5. K \in Nat \ {0}
  <2> DEFINE S == {num_streams, n}
  <2>1. S \in SUBSET Nat /\ S # {} /\ \A x \in S : x # 0
    BY <1>1, <1>3
  <2> HIDE DEF S
  <2>2. Min(S) \in S
    BY <2>1, MinIsMinimum
  <2>3. Min(S) \in Nat \ {0}
    BY <2>1, <2>2
  <2> QED
    BY <2>3 DEF S
<1> HIDE DEF K
<1>6. placed \in [1 .. n -> Nat]
  BY <1>2, <1>5, StreamsOfType
<1>7. DOMAIN waitOn = 1 .. n /\ Earlier(waitOn, n)
  <2> HIDE DEF placed
  <2> QED
    BY <1>1, <1>2, WaitOnIsEarlier
<1>8. /\ WellPlanned(s, n)
      /\ \A i, j \in 1 .. n : s.stream[i] = s.stream[j] <=> placed[i] = placed[j]
      /\ \A i \in 1 .. n : \A p \in waitOn[i] : Covers(s, p, i)
  <2> HIDE DEF n, placed, waitOn
  <2>1. IsAssembled(s, n, placed, waitOn)
    BY <1>3, <1>4 DEF IsAssembled
  <2>2. /\ WellPlanned(s, n) /\ Compacted(s.stream, s.streams, placed, n)
        /\ CoversAwaited(s, waitOn, n)
    BY <1>3, <1>6, <1>7, <2>1, Assembled
  <2> QED
    BY <2>2 DEF Compacted, CoversAwaited
<1>9. ASSUME policy # "kLevelParallel"
      PROVE  CoversPreds(s)
  <2> SUFFICES ASSUME NEW i \in 1 .. n, NEW p \in LivePreds(live, i) PROVE Covers(s, p, i)
    BY <1>4 DEF CoversPreds
  <2>1. p \in 1 .. i - 1
    BY <1>2, LivePredsFacts
  <2>2. p \in 1 .. n /\ p < i
    BY <1>3, <2>1
  <2>3. CASE policy = "kSequential"
    <3>1. placed[p] = 0 /\ placed[i] = 0
      BY <1>3, <2>2, <2>3 DEF StreamsOf
    <3>2. s.stream[p] = s.stream[i]
      BY <1>8, <2>2, <3>1
    <3> QED
      BY <2>2, <3>2 DEF Covers
  <2>4. CASE policy = "kChainGreedy"
    <3>1. waitOn[i] = LivePreds(live, i)
      BY <1>3, <2>4 DEF WaitOn
    <3> QED
      BY <1>8, <3>1
  <2> QED
    BY <1>9, <2>3, <2>4 DEF SchedulePolicy
<1>10. ASSUME policy = "kLevelParallel"
       PROVE  CoversLevels(s)
  <2> SUFFICES ASSUME NEW i \in 1 .. n, NEW u \in LevelBefore(live, DepthOf(live, i))
               PROVE  \E m \in LevelBefore(live, DepthOf(live, i)) :
                        s.stream[m] = s.stream[u] /\ u <= m /\ Covers(s, m, i)
    BY <1>4 DEF CoversLevels
  <2> HIDE DEF placed
  <2>1. PICK m \in LevelBefore(live, DepthOf(live, i)) :
          /\ placed[m] = placed[u] /\ u <= m
          /\ \/ placed[m] = placed[i]
             \/ \E f \in 1 .. i : placed[f] = placed[i] /\ m \in BarrierWaits(live, placed, f)
    BY <1>1, <1>2, BarrierFacts, ZenonT(30)
  <2>2. m \in 1 .. i - 1 /\ u \in 1 .. i - 1
    BY <1>1, <1>2, LevelBeforeFacts
  <2>3. m \in 1 .. n /\ u \in 1 .. n /\ m < i
    BY <1>3, <2>2
  <2>4. s.stream[m] = s.stream[u]
    BY <1>8, <2>1, <2>3
  <2>5. CASE placed[m] = placed[i]
    <3>1. s.stream[m] = s.stream[i]
      BY <1>8, <2>3, <2>5
    <3> QED
      BY <2>1, <2>3, <2>4, <3>1 DEF Covers
  <2>6. ASSUME NEW f \in 1 .. i, placed[f] = placed[i], m \in BarrierWaits(live, placed, f)
        PROVE  Covers(s, m, i)
    <3>1. f \in 1 .. n /\ waitOn[f] = BarrierWaits(live, placed, f)
      BY <1>3, <1>10, <2>6 DEF WaitOn
    <3>2. Covers(s, m, f)
      BY <1>8, <2>6, <3>1
    <3>3. s.stream[f] = s.stream[i]
      BY <1>8, <2>6, <3>1
    <3>4. CASE s.stream[m] = s.stream[f]
      BY <2>3, <3>3, <3>4 DEF Covers
    <3>5. ASSUME NEW k \in 1 .. f, s.stream[k] = s.stream[f],
                 s.record[m] # kNoEventId, s.record[m] \in s.waits[k]
          PROVE  Covers(s, m, i)
      <4>1. k \in 1 .. i
        BY <2>6, <3>5
      <4> QED
        BY <2>3, <3>3, <3>5, <4>1 DEF Covers
    <3> QED
      BY <3>2, <3>4, <3>5 DEF Covers
  <2> QED
    BY <2>1, <2>4, <2>5, <2>6
<1> QED
  BY <1>1, <1>2, <1>4, <1>8, <1>9, <1>10

-----------------------------------------------------------------------------
(* What the clocks of such a schedule know, once all are built.            *)

LEMMA PlannedIsValid ==
  WellPlanned(sa, Len(sa.nodes)) =>
    /\ Len(sa.nodes) \in Nat \ {0} /\ Len(sa.stream) = Len(sa.nodes) /\ Scheduled = 1 .. Len(sa.nodes)
    /\ ScheduleType /\ Valid /\ InOrder
    /\ \A u \in Scheduled : sa.record[u] # kNoEventId =>
         \E v \in Scheduled : Awaits(v, u) /\ sa.stream[v] # sa.stream[u]
<1> SUFFICES ASSUME WellPlanned(sa, Len(sa.nodes))
             PROVE  /\ Len(sa.nodes) \in Nat \ {0} /\ Len(sa.stream) = Len(sa.nodes)
                    /\ Scheduled = 1 .. Len(sa.nodes)
                    /\ ScheduleType /\ Valid /\ InOrder
                    /\ \A u \in Scheduled : sa.record[u] # kNoEventId =>
                         \E v \in Scheduled : Awaits(v, u) /\ sa.stream[v] # sa.stream[u]
  OBVIOUS
<1> DEFINE n == Len(sa.nodes)
<1>1. /\ n \in Nat \ {0} /\ sa.streams \in Nat \ {0}
      /\ sa.stream \in [1 .. n -> 0 .. sa.streams - 1]
      /\ sa.issue \in [1 .. n -> 0 .. n - 1]
      /\ sa.record \in [1 .. n -> Nat \cup {kNoEventId}]
      /\ sa.waits \in [1 .. n -> SUBSET Nat]
      /\ sa.order = [i \in 1 .. n |-> i]
  BY DEF WellPlanned
<1>2. /\ \A i, j \in 1 .. n : sa.stream[i] = sa.stream[j] => (sa.issue[i] < sa.issue[j] <=> i < j)
      /\ \A i \in 1 .. n : sa.issue[i] > 0 =>
           \E j \in 1 .. n : sa.stream[j] = sa.stream[i] /\ sa.issue[j] = sa.issue[i] - 1
      /\ \A i, j \in 1 .. n : i # j /\ sa.record[i] = sa.record[j] => sa.record[i] = kNoEventId
  BY DEF WellPlanned
<1>3. \A i \in 1 .. n : \A e \in sa.waits[i] :
        \E p \in 1 .. i - 1 : sa.record[p] = e /\ sa.stream[p] # sa.stream[i]
  BY DEF WellPlanned
<1>4. \A p \in 1 .. n : sa.record[p] # kNoEventId =>
        \E i \in 1 .. n : sa.stream[p] # sa.stream[i] /\ sa.record[p] \in sa.waits[i]
  BY DEF WellPlanned
<1> HIDE DEF n
<1>5. Scheduled = 1 .. n
  BY <1>1 DEF Scheduled
<1>6. sa.stream \in Seq(Nat) /\ Len(sa.stream) = n
  <2>1. sa.stream \in [1 .. n -> Nat]
    <3>1. 0 .. sa.streams - 1 \subseteq Nat
      OBVIOUS
    <3> QED
      BY <1>1, <3>1
  <2> QED
    BY <1>1, <2>1
<1>7. ScheduleType
  BY <1>1, <1>5, <1>6 DEF ScheduleType
<1>8. \A i \in 1 .. n : sa.stream[i] < sa.streams /\ sa.issue[i] \in Nat
  BY <1>1, SMTT(30)
<1>9. \A i, j \in 1 .. n : i # j /\ sa.stream[i] = sa.stream[j] => sa.issue[i] # sa.issue[j]
  <2> SUFFICES ASSUME NEW i \in 1 .. n, NEW j \in 1 .. n, i # j, sa.stream[i] = sa.stream[j]
               PROVE  sa.issue[i] # sa.issue[j]
    OBVIOUS
  <2>1. i < j \/ j < i
    OBVIOUS
  <2>2. sa.issue[i] < sa.issue[j] \/ sa.issue[j] < sa.issue[i]
    BY <1>2, <2>1
  <2> QED
    BY <1>8, <2>2
<1>10. Valid
  <2>1. \A i \in 1 .. n : \A e \in sa.waits[i] : \E j \in 1 .. n : sa.record[j] = e
    <3> SUFFICES ASSUME NEW i \in 1 .. n, NEW e \in sa.waits[i] PROVE \E j \in 1 .. n : sa.record[j] = e
      OBVIOUS
    <3>1. PICK p \in 1 .. i - 1 : sa.record[p] = e
      BY <1>3
    <3>2. p \in 1 .. n
      BY <1>1
    <3> QED
      BY <3>1, <3>2
  <2>2. sa.streams > 0 /\ \A i \in 1 .. n : sa.stream[i] < sa.streams
    BY <1>1, <1>8
  <2>3. \A i, j \in 1 .. n : i # j /\ sa.record[i] = sa.record[j] => sa.record[i] = kNoEventId
    BY <1>2
  <2>4. \A i \in 1 .. n : sa.issue[i] > 0 =>
          \E j \in 1 .. n : sa.stream[j] = sa.stream[i] /\ sa.issue[j] = sa.issue[i] - 1
    BY <1>2
  <2> QED
    BY <1>5, <1>9, <2>1, <2>2, <2>3, <2>4 DEF Valid
<1>11. ASSUME NEW v \in 1 .. n, NEW u \in 1 .. n, Awaits(v, u) PROVE u < v
  <2>1. sa.record[u] # kNoEventId /\ sa.record[u] \in sa.waits[v]
    BY <1>11 DEF Awaits
  <2>2. PICK p \in 1 .. v - 1 : sa.record[p] = sa.record[u]
    BY <1>3, <2>1
  <2>3. p \in 1 .. n /\ p < v
    BY <1>1, <1>11
  <2>4. p = u
    BY <1>2, <2>1, <2>2, <2>3
  <2> QED
    BY <2>3, <2>4
<1>12. InOrder
  <2>1. sa.order \in [1 .. n -> 1 .. n] /\ \A i \in 1 .. n : sa.order[i] = i
    BY <1>1
  <2>2. \A i, j \in 1 .. n : /\ sa.stream[i] = sa.stream[j] /\ sa.issue[i] < sa.issue[j] => i < j
                             /\ Awaits(j, i) => i < j
    BY <1>2, <1>11
  <2> QED
    BY <1>5, <2>1, <2>2 DEF InOrder
<1>13. \A u \in 1 .. n : sa.record[u] # kNoEventId =>
         \E v \in 1 .. n : Awaits(v, u) /\ sa.stream[v] # sa.stream[u]
  BY <1>4 DEF Awaits
<1> QED
  BY <1>1, <1>5, <1>6, <1>7, <1>10, <1>12, <1>13 DEF n

(* Every clock is built, and positions are the order of the walk.          *)
AllBuilt ==
  WellPlanned(sa, Len(sa.nodes)) /\ ClockInv /\ built

LEMMA BuiltFacts ==
  ASSUME AllBuilt
  PROVE  /\ Scheduled = 1 .. Len(sa.nodes) /\ Len(sa.nodes) \in Nat
         /\ \A v \in Scheduled : /\ sa.stream[v] \in Stream /\ sa.issue[v] \in Nat
                                 /\ clock[v][sa.stream[v]] = sa.issue[v]
         /\ \A v \in Scheduled, s \in Stream : clock[v][s] \in Int
         /\ \A v, u \in Scheduled : Known(v, u) => u <= v
         /\ \A v, w \in Scheduled : Known(v, w) => \A s \in Stream : clock[w][s] <= clock[v][s]
         /\ \A v, w \in Scheduled : Edge(w, v) => Known(v, w)
         /\ \A v, u \in Scheduled : sa.stream[u] = sa.stream[v] => (sa.issue[u] < sa.issue[v] <=> u < v)
<1> DEFINE n == Len(sa.nodes)
<1>1. WellPlanned(sa, n) /\ ClockType /\ Own /\ Past /\ Dominates /\ Follows /\ pos = Len(sa.stream)
  BY DEF AllBuilt, ClockInv, built
<1>2. n \in Nat \ {0} /\ Len(sa.stream) = n /\ Scheduled = 1 .. n
  BY <1>1, PlannedIsValid
<1>3. pos = n /\ 1 .. pos = Scheduled
  BY <1>1, <1>2
<1>4. \A i \in Scheduled : sa.order[i] = i
  BY <1>1, <1>2 DEF WellPlanned
<1> HIDE DEF n
<1>5. \A v \in Scheduled : sa.stream[v] \in Stream /\ sa.issue[v] \in Nat
  BY <1>1, ScheduleFacts
<1>6. \A v \in Scheduled, s \in Stream : clock[v][s] \in Int
  BY <1>1, ClockValues
<1>7. \A v \in Scheduled : clock[v][sa.stream[v]] = sa.issue[v]
  BY <1>1, <1>3, <1>4 DEF Own
<1>8. \A v, u \in Scheduled : Known(v, u) => u <= v
  BY <1>1, <1>3, <1>4 DEF Past
<1>9. ASSUME NEW v \in Scheduled, NEW w \in Scheduled, Known(v, w), NEW s \in Stream
      PROVE  clock[w][s] <= clock[v][s]
  <2>1. v \in 1 .. pos /\ sa.order[v] = v
    BY <1>3, <1>4
  <2> QED
    BY <1>1, <1>9, <2>1 DEF Dominates
<1>10. \A v, w \in Scheduled : Edge(w, v) => Known(v, w)
  BY <1>1, <1>3, <1>4 DEF Follows
<1>11. \A v, u \in Scheduled : sa.stream[u] = sa.stream[v] => (sa.issue[u] < sa.issue[v] <=> u < v)
  BY <1>1, <1>2 DEF WellPlanned
<1> QED
  BY <1>2, <1>5, <1>6, <1>7, <1>8, <1>9, <1>10, <1>11 DEF n

LEMMA KnownIsTransitive ==
  ASSUME AllBuilt, NEW u \in Scheduled, NEW w \in Scheduled, NEW v \in Scheduled,
         Known(w, u), Known(v, w)
  PROVE  Known(v, u)
<1>1. sa.stream[u] \in Stream /\ sa.issue[u] \in Nat
  BY BuiltFacts
<1>2. clock[w][sa.stream[u]] <= clock[v][sa.stream[u]]
  BY <1>1, BuiltFacts
<1>3. clock[w][sa.stream[u]] \in Int /\ clock[v][sa.stream[u]] \in Int
  BY <1>1, BuiltFacts
<1> QED
  BY <1>1, <1>2, <1>3 DEF Known

LEMMA StreamIsKnown ==
  ASSUME AllBuilt, NEW u \in Scheduled, NEW v \in Scheduled, sa.stream[u] = sa.stream[v], u <= v
  PROVE  Known(v, u)
<1>1. u = v \/ u < v
  BY BuiltFacts
<1>2. sa.issue[u] \in Nat /\ sa.issue[v] \in Nat /\ clock[v][sa.stream[v]] = sa.issue[v]
  BY BuiltFacts
<1>3. sa.issue[u] <= sa.issue[v]
  <2>1. u < v => sa.issue[u] < sa.issue[v]
    BY BuiltFacts
  <2> QED
    BY <1>1, <1>2, <2>1
<1> QED
  BY <1>2, <1>3 DEF Known

LEMMA CoveredIsKnown ==
  ASSUME AllBuilt, NEW p \in Scheduled, NEW i \in Scheduled, Covers(sa, p, i)
  PROVE  precedes(p, i)
<1>1. p < i /\ p # i /\ Scheduled = 1 .. Len(sa.nodes) /\ Len(sa.nodes) \in Nat
  BY BuiltFacts DEF Covers
<1>2. CASE sa.stream[p] = sa.stream[i]
  BY <1>1, <1>2, StreamIsKnown DEF precedes, Known
<1>3. CASE \E k \in 1 .. i : /\ sa.stream[k] = sa.stream[i]
                             /\ sa.record[p] # kNoEventId /\ sa.record[p] \in sa.waits[k]
  <2>1. PICK k \in 1 .. i : /\ sa.stream[k] = sa.stream[i]
                            /\ sa.record[p] # kNoEventId /\ sa.record[p] \in sa.waits[k]
    BY <1>3
  <2>2. k \in Scheduled /\ k <= i
    BY <1>1
  <2>3. Edge(p, k)
    BY <2>1 DEF Edge, Awaits
  <2>4. Known(k, p)
    BY <2>2, <2>3, BuiltFacts
  <2>5. Known(i, k)
    BY <2>1, <2>2, StreamIsKnown
  <2>6. Known(i, p)
    BY <2>2, <2>4, <2>5, KnownIsTransitive
  <2> QED
    BY <1>1, <2>6 DEF precedes, Known
<1> QED
  BY <1>2, <1>3 DEF Covers

LEMMA LevelsPrecede ==
  ASSUME AllBuilt, GraphOK, finalized, LiveOK(sa.nodes), CoversLevels(sa)
  PROVE  \A u, v \in Scheduled : DepthOf(sa.nodes, u) < DepthOf(sa.nodes, v) => precedes(u, v)
<1> DEFINE live == sa.nodes
           n == Len(live)
           Late(v) == \E u \in 1 .. n : DepthOf(live, u) < DepthOf(live, v) /\ ~precedes(u, v)
           Bad == {v \in 1 .. n : Late(v)}
<1>1. Scheduled = 1 .. n /\ n \in Nat
  BY BuiltFacts
<1>2. \A v \in 1 .. n : DepthOf(live, v) \in Nat
  BY DepthFacts DEF LiveOK, DepthOf
<1> SUFFICES ASSUME Bad # {} PROVE FALSE
  BY <1>1
<1>3. PICK v \in Bad : \A w \in Bad : v <= w
  <2>1. Bad \in SUBSET Nat
    OBVIOUS
  <2> HIDE DEF Bad
  <2> QED
    BY <2>1, LeastElement
<1>4. PICK u \in 1 .. n : DepthOf(live, u) < DepthOf(live, v) /\ ~precedes(u, v)
  OBVIOUS
<1>5. v \in 1 .. n
  OBVIOUS
<1>6. \A w \in 1 .. v - 1 : w \in 1 .. n /\ ~Late(w)
  <2> SUFFICES ASSUME NEW w \in 1 .. v - 1 PROVE w \in 1 .. n /\ ~Late(w)
    OBVIOUS
  <2>1. w \in 1 .. n /\ ~(v <= w)
    BY <1>1, <1>5
  <2>2. w \notin Bad
    BY <1>3, <2>1
  <2> QED
    BY <2>1, <2>2
<1> DEFINE before == LevelBefore(live, DepthOf(live, v))
<1>7. /\ before \subseteq 1 .. v - 1 /\ before # {}
      /\ \A w \in before : DepthOf(live, u) <= DepthOf(live, w)
  BY <1>4, <1>5, LevelBeforeFacts
<1>8. \A w \in before : \E m \in before : sa.stream[m] = sa.stream[w] /\ w <= m /\ Covers(sa, m, v)
  BY <1>5 DEF CoversLevels
<1>15. \A m \in before : DepthOf(live, m) < DepthOf(live, v) /\ DepthOf(live, m) \in Nat
  BY <1>5, LevelBeforeFacts
<1>14. DOMAIN live = 1 .. n
  BY DEF LiveOK
<1> HIDE DEF n, live, before, Late, Bad
<1>9. ASSUME NEW w \in before
      PROVE  w \in 1 .. n /\ w < v /\ Known(v, w)
  <2>1. PICK m \in before : sa.stream[m] = sa.stream[w] /\ w <= m /\ Covers(sa, m, v)
    BY <1>8, <1>9
  <2>2. w \in 1 .. n /\ m \in 1 .. n /\ w < v
    <3>1. w \in 1 .. v - 1 /\ m \in 1 .. v - 1
      BY <1>7, <1>9, <2>1
    <3> QED
      BY <1>1, <1>5, <3>1
  <2>3. Known(v, m)
    BY <1>1, <1>5, <2>1, <2>2, CoveredIsKnown DEF precedes, Known
  <2>4. Known(m, w)
    BY <1>1, <2>1, <2>2, StreamIsKnown
  <2>5. Known(v, w)
    BY <1>1, <1>5, <2>2, <2>3, <2>4, KnownIsTransitive
  <2> QED
    BY <2>2, <2>5
<1>10. PICK w \in before : TRUE
  BY <1>7
<1>11. DepthOf(live, u) \in Nat /\ DepthOf(live, w) \in Nat /\ DepthOf(live, u) <= DepthOf(live, w)
  BY <1>2, <1>4, <1>7, <1>9, <1>10
<1>12. CASE DepthOf(live, u) < DepthOf(live, w)
  <2>1. precedes(u, w)
    <3>1. w \in 1 .. v - 1
      BY <1>7
    <3>2. ~Late(w)
      BY <1>6, <3>1
    <3> QED
      BY <1>12, <3>2 DEF Late
  <2>2. Known(w, u) /\ Known(v, w) /\ w \in 1 .. n
    BY <1>9, <2>1 DEF precedes, Known
  <2>3. Known(v, u)
    BY <1>1, <1>5, <2>2, KnownIsTransitive
  <2>4. u # v
    BY <1>2, <1>4, <1>5
  <2> QED
    BY <1>4, <2>3, <2>4 DEF precedes, Known
<1>13. CASE DepthOf(live, u) = DepthOf(live, w)
  <2>1. u \in before
    BY <1>4, <1>10, <1>13, <1>14 DEF before, LevelBefore, Level
  <2>2. Known(v, u) /\ u # v
    BY <1>2, <1>4, <1>5, <1>9, <2>1
  <2> QED
    BY <1>4, <2>2 DEF precedes, Known
<1> QED
  BY <1>11, <1>12, <1>13

LEMMA PredsPrecede ==
  ASSUME AllBuilt, LiveOK(sa.nodes), CoversPreds(sa)
  PROVE  verify_plan_ordering
<1> SUFFICES ASSUME NEW i \in Scheduled, NEW p \in nodes[sa.nodes[i]].preds
             PROVE  \E j \in SchedOf(sa.nodes, p) : precedes(j, i)
  BY DEF verify_plan_ordering
<1>1. Scheduled = 1 .. Len(sa.nodes) /\ Len(sa.nodes) \in Nat
      /\ DOMAIN sa.nodes = 1 .. Len(sa.nodes)
  BY BuiltFacts DEF LiveOK
<1>2. PICK j \in LivePreds(sa.nodes, i) : sa.nodes[j] = p
  BY <1>1, LivePredsFacts
<1>3. j \in 1 .. i - 1
  BY <1>1, LivePredsFacts
<1>4. j \in Scheduled
  BY <1>1, <1>3
<1>5. Covers(sa, j, i)
  BY <1>1 DEF CoversPreds
<1>6. precedes(j, i)
  BY <1>4, <1>5, CoveredIsKnown
<1>7. j \in SchedOf(sa.nodes, p)
  BY <1>1, <1>2, <1>4 DEF SchedOf
<1> QED
  BY <1>6, <1>7

LEMMA LevelPredsPrecede ==
  ASSUME AllBuilt, GraphOK, finalized, LiveOK(sa.nodes), CoversLevels(sa)
  PROVE  verify_plan_ordering
<1> SUFFICES ASSUME NEW i \in Scheduled, NEW p \in nodes[sa.nodes[i]].preds
             PROVE  \E j \in SchedOf(sa.nodes, p) : precedes(j, i)
  BY DEF verify_plan_ordering
<1>1. Scheduled = 1 .. Len(sa.nodes) /\ Len(sa.nodes) \in Nat
      /\ DOMAIN sa.nodes = 1 .. Len(sa.nodes)
  BY BuiltFacts DEF LiveOK
<1>2. PICK j \in LivePreds(sa.nodes, i) : sa.nodes[j] = p
  BY <1>1, LivePredsFacts
<1>3. j \in 1 .. i - 1
  BY <1>1, LivePredsFacts
<1>4. j \in Scheduled
  BY <1>1, <1>3
<1>5. DepthOf(sa.nodes, j) < DepthOf(sa.nodes, i)
  <2>1. sa.nodes[i] \in NodeId
    BY <1>1 DEF LiveOK
  <2>2. nodes[p].depth < nodes[sa.nodes[i]].depth
    BY <2>1, DepthFacts
  <2> QED
    BY <1>2, <2>2 DEF DepthOf
<1>6. precedes(j, i)
  BY <1>4, <1>5, LevelsPrecede
<1>7. j \in SchedOf(sa.nodes, p)
  BY <1>1, <1>2, <1>4 DEF SchedOf
<1> QED
  BY <1>6, <1>7

-----------------------------------------------------------------------------
LEMMA MaxOfTwo ==
  ASSUME NEW a \in Int, NEW b \in Int
  PROVE  Max({a, b}) \in {a, b} /\ a <= Max({a, b}) /\ b <= Max({a, b})
<1> DEFINE m == IF a >= b THEN a ELSE b
<1>1. m \in {a, b} /\ \A y \in {a, b} : m >= y
  OBVIOUS
<1>2. Max({a, b}) \in {a, b} /\ \A y \in {a, b} : Max({a, b}) >= y
  BY <1>1 DEF Max
<1> QED
  BY <1>2

(* The image of a finite set, by a function.                               *)
LEMMA ImageIsFinite ==
  ASSUME NEW S, IsFiniteSet(S), NEW f
  PROVE  IsFiniteSet({f[x] : x \in S})
<1> DEFINE h == [x \in S |-> f[x]]
           T == {f[x] : x \in S}
<1>1. h \in Surjection(S, T)
  BY DEF Surjection
<1> HIDE DEF h, T
<1>2. IsFiniteSet(T)
  BY <1>1, FS_Surjection
<1> QED
  BY <1>2 DEF T

-----------------------------------------------------------------------------
(* Alignment.                                                              *)

LEMMA Multiples ==
  ASSUME NEW A \in Nat \ {0}, NEW n \in Nat
  PROVE  /\ (n % A = 0) => n = A * (n \div A)
         /\ \A q \in Nat : (A * q) % A = 0
OBVIOUS

LEMMA RoundUpFacts ==
  ASSUME NEW n \in Nat
  PROVE  /\ round_up(n) \in Nat /\ n <= round_up(n) /\ round_up(n) % Alignment = 0
         /\ n % Alignment = 0 => round_up(n) = n
         /\ \A o \in Nat : o % Alignment = 0 /\ o < round_up(n) => o < n
<1> DEFINE A == Alignment
           q == (n + A - 1) \div A
<1>1. A \in Nat \ {0}
  BY OperatorsAssumption
<1> HIDE DEF A
<1>2. q \in Nat /\ A * q <= n + A - 1 /\ n + A - 1 < A * q + A
  BY <1>1
<1>3. round_up(n) = A * q
  BY <1>1, <1>2 DEF round_up, A
<1> HIDE DEF q
<1>4. A * q \in Nat /\ n <= A * q /\ (A * q) % A = 0
  BY <1>1, <1>2, Multiples
<1>5. ASSUME NEW o \in Nat, o % A = 0, o < A * q
      PROVE  o < n
  <2>1. o = A * (o \div A) /\ o \div A \in Nat
    BY <1>1, <1>5, Multiples
  <2>2. o \div A < q
    BY <1>1, <1>2, <1>5, <2>1
  <2>3. A * (o \div A) + A <= A * q
    BY <1>1, <1>2, <2>1, <2>2
  <2> QED
    BY <1>1, <1>2, <2>1, <2>3
<1>6. ASSUME n % A = 0
      PROVE  A * q = n
  <2>1. n < A * q => n < n
    BY <1>5, <1>6
  <2> QED
    BY <1>4, <2>1
<1> QED
  BY <1>3, <1>4, <1>5, <1>6 DEF A

-----------------------------------------------------------------------------
(* The greatest of a set of intervals exists, so the scan takes them in    *)
(* ascending order.                                                        *)

LEMMA HighestIsHighest ==
  ASSUME NEW S, IsFiniteSet(S), S # {}, S \subseteq Int \X Int
  PROVE  /\ Highest(S) \in S
         /\ \A c \in S : \/ c[1] < Highest(S)[1]
                         \/ c[1] = Highest(S)[1] /\ c[2] <= Highest(S)[2]
<1> DEFINE Top(b, T) == \A c \in T : c[1] < b[1] \/ (c[1] = b[1] /\ c[2] <= b[2])
           Bad == {T \in SUBSET S : T # {} /\ ~\E b \in T : Top(b, T)}
<1>1. ASSUME Bad # {} PROVE FALSE
  <2>1. \A T \in Bad : IsFiniteSet(T)
    BY FS_Subset
  <2>2. PICK T \in Bad : \A U \in Bad : ~(U \subseteq T /\ U # T)
    <3> HIDE DEF Bad
    <3> QED
      BY <1>1, <2>1, SmallestSet
  <2>3. PICK c \in T : TRUE
    OBVIOUS
  <2> DEFINE U == T \ {c}
  <2>4. CASE U = {}
    <3>1. Top(c, T)
      BY <2>4
    <3> QED
      BY <3>1
  <2>5. CASE U # {}
    <3>1. U \notin Bad /\ U \in SUBSET S
      BY <2>2
    <3>2. PICK b \in U : Top(b, U)
      BY <2>5, <3>1
    <3>3. b \in Int \X Int /\ c \in Int \X Int /\ \A d \in T : d \in Int \X Int
      OBVIOUS
    <3>4. CASE c[1] < b[1] \/ (c[1] = b[1] /\ c[2] <= b[2])
      <4>1. Top(b, T)
        BY <3>2, <3>4
      <4> QED
        BY <4>1
    <3>5. CASE ~(c[1] < b[1] \/ (c[1] = b[1] /\ c[2] <= b[2]))
      <4>1. ASSUME NEW d \in T
            PROVE  d[1] < c[1] \/ (d[1] = c[1] /\ d[2] <= c[2])
        <5>1. CASE d = c
          BY <3>3, <5>1
        <5>2. CASE d # c
          <6>1. d[1] < b[1] \/ (d[1] = b[1] /\ d[2] <= b[2])
            BY <3>2, <5>2
          <6>2. /\ b[1] \in Int /\ b[2] \in Int /\ c[1] \in Int /\ c[2] \in Int
                /\ d[1] \in Int /\ d[2] \in Int
            BY <3>3
          <6> QED
            BY <3>5, <6>1, <6>2
        <5> QED
          BY <5>1, <5>2
      <4> QED
        BY <4>1
    <3> QED
      BY <3>4, <3>5
  <2> QED
    BY <2>4, <2>5
<1>2. \E b \in S : Top(b, S)
  <2>1. S \in SUBSET S
    OBVIOUS
  <2> QED
    BY <1>1, <2>1
<1>3. Highest(S) \in S /\ Top(Highest(S), S)
  BY <1>2 DEF Highest
<1> QED
  BY <1>3

(* The largest tensor exists.                                              *)
LEMMA LargestIsLargest ==
  ASSUME NEW T \in SUBSET Nat, IsFiniteSet(T), T # {}, \A t \in T : bytes_of(t) \in Nat
  PROVE  Largest(T) \in T
<1> DEFINE key == [t \in T |-> <<bytes_of(t), 0 - t>>]
           S == {key[t] : t \in T}
<1>1. \A t \in T : key[t] \in Int \X Int /\ key[t][1] = bytes_of(t) /\ key[t][2] = 0 - t
  OBVIOUS
<1> HIDE DEF key
<1>2. IsFiniteSet(S) /\ S # {} /\ S \subseteq Int \X Int
  <2>1. IsFiniteSet(S)
    BY ImageIsFinite
  <2>2. S # {} /\ S \subseteq Int \X Int
    BY <1>1
  <2> QED
    BY <2>1, <2>2
<1>3. PICK t \in T : Highest(S) = key[t]
  <2>1. Highest(S) \in S
    <3> HIDE DEF S
    <3> QED
      BY <1>2, HighestIsHighest
  <2> QED
    BY <2>1
<1>4. ASSUME NEW u \in T
      PROVE  bytes_of(u) < bytes_of(t) \/ (bytes_of(u) = bytes_of(t) /\ t <= u)
  <2>1. key[u] \in S
    OBVIOUS
  <2> HIDE DEF S
  <2>2. \/ key[u][1] < key[t][1]
        \/ key[u][1] = key[t][1] /\ key[u][2] <= key[t][2]
    BY <1>2, <1>3, <2>1, HighestIsHighest
  <2>3. t \in Nat /\ u \in Nat /\ bytes_of(t) \in Nat /\ bytes_of(u) \in Nat
    OBVIOUS
  <2> QED
    BY <1>1, <2>2, <2>3
<1> QED
  BY <1>4 DEF Largest

-----------------------------------------------------------------------------
(* The scan.  There is a function that FirstFit defines by recursion over  *)
(* the subsets of the blocked intervals.                                   *)

IsScan(scan, bytes, blocked) ==
  scan = [S \in SUBSET blocked |->
            IF S = {} THEN NoneScanned
            ELSE Scanned(bytes, scan[S \ {Highest(S)}], Highest(S))]

ScanState == [off : Nat, fits : BOOLEAN]

LEMMA ScannedType ==
  ASSUME NEW bytes \in Nat, NEW was \in ScanState, NEW b \in Nat \X Nat
  PROVE  /\ Scanned(bytes, was, b) \in ScanState
         /\ Scanned(bytes, was, b) =
              IF was.fits \/ was.off + bytes <= b[1]
                THEN [off |-> was.off, fits |-> TRUE]
                ELSE [off |-> Max({was.off, round_up(b[2])}), fits |-> was.fits]
<1>1. was.off \in Nat /\ was.fits \in BOOLEAN /\ b[2] \in Nat /\ b[1] \in Nat
  BY DEF ScanState
<1>2. round_up(b[2]) \in Nat
  BY <1>1, RoundUpFacts
<1> DEFINE m == Max({was.off, round_up(b[2])})
<1>3. m \in Nat
  <2>1. \A i, j \in Int : Max({i, j}) \in {i, j}
    BY MaxOfTwo
  <2>2. was.off \in Int /\ round_up(b[2]) \in Int
    BY <1>1, <1>2
  <2>3. m \in {was.off, round_up(b[2])}
    BY <2>1, <2>2
  <2> QED
    BY <1>1, <1>2, <2>3
<1>4. Scanned(bytes, was, b) = IF was.fits \/ was.off + bytes <= b[1]
                                 THEN [was EXCEPT !.fits = TRUE]
                                 ELSE [was EXCEPT !.off = m]
  BY DEF Scanned
<1> HIDE DEF m
<1>5. was = [off |-> was.off, fits |-> was.fits]
  BY DEF ScanState
<1>6. [was EXCEPT !.fits = TRUE] = [off |-> was.off, fits |-> TRUE]
  <2>1. \A v : [was EXCEPT !.fits = v] = [off |-> was.off, fits |-> v]
    BY DEF ScanState
  <2> QED
    BY <2>1, Zenon
<1>7. [was EXCEPT !.off = m] = [off |-> m, fits |-> was.fits]
  BY DEF ScanState
<1> QED
  BY <1>1, <1>3, <1>4, <1>6, <1>7 DEF ScanState, m

LEMMA ScanExists ==
  ASSUME NEW bytes \in Nat, NEW blocked, IsFiniteSet(blocked), blocked \subseteq Nat \X Nat
  PROVE  \E scan : IsScan(scan, bytes, blocked)
<1> DEFINE pick == [S \in SUBSET blocked |-> Highest(S)]
           step == [p \in blocked \X ScanState |-> Scanned(bytes, p[2], p[1])]
<1>1. Picks(pick, blocked)
  <2>1. ASSUME NEW S \in SUBSET blocked, S # {}
        PROVE  Highest(S) \in S
    <3>1. IsFiniteSet(S) /\ S \subseteq Int \X Int
      BY FS_Subset
    <3> QED
      BY <2>1, <3>1, HighestIsHighest
  <2> QED
    BY <2>1 DEF Picks
<1>2. step \in [blocked \X ScanState -> ScanState]
  BY ScannedType
<1>3. NoneScanned \in ScanState
  BY DEF NoneScanned, ScanState
<1>4. \A S \in SUBSET blocked : pick[S] = Highest(S)
  OBVIOUS
<1>5. \A b \in blocked, was \in ScanState : step[<<b, was>>] = Scanned(bytes, was, b)
  OBVIOUS
<1> HIDE DEF pick, step
<1>6. PICK h : FoldsUp(h, NoneScanned, pick, step, blocked)
  BY <1>1, FoldsExist
<1>7. h \in [SUBSET blocked -> ScanState]
  BY <1>1, <1>2, <1>3, <1>6, FoldsHaveType
<1>8. \A S \in SUBSET blocked :
        (IF S = {} THEN NoneScanned ELSE step[<<pick[S], h[S \ {pick[S]}]>>])
          = (IF S = {} THEN NoneScanned
             ELSE Scanned(bytes, h[S \ {Highest(S)}], Highest(S)))
  <2> SUFFICES ASSUME NEW S \in SUBSET blocked, S # {}
               PROVE  step[<<pick[S], h[S \ {pick[S]}]>>]
                        = Scanned(bytes, h[S \ {Highest(S)}], Highest(S))
    OBVIOUS
  <2>1. pick[S] = Highest(S) /\ Highest(S) \in blocked
    BY <1>1, <1>4 DEF Picks
  <2>2. h[S \ {Highest(S)}] \in ScanState
    BY <1>7
  <2> QED
    BY <1>5, <2>1, <2>2
<1>9. IsScan(h, bytes, blocked)
  BY <1>6, <1>8 DEF FoldsUp, IsScan
<1> QED
  BY <1>9

(* An interval an offset is clear of.                                      *)
ClearOf(off, bytes, b) == off + bytes <= b[1] \/ b[2] <= off

(* What the scan of some intervals has found: an aligned offset, 0 or the  *)
(* end of one of them rounded up, that is clear of all of them, and no     *)
(* lower one is.                                                           *)
ScanFound(was, bytes, S) ==
  /\ was \in ScanState
  /\ was.off % Alignment = 0
  /\ was.fits => \E c \in S : was.off + bytes <= c[1]
  /\ \A b \in S : ClearOf(was.off, bytes, b)
  /\ \A o \in Nat : o < was.off /\ o % Alignment = 0 => \E b \in S : ~ClearOf(o, bytes, b)
  /\ was.off = 0 \/ \E b \in S : was.off = round_up(b[2])

LEMMA ScanStep ==
  ASSUME NEW bytes \in Nat, NEW S, IsFiniteSet(S), S \subseteq Nat \X Nat, S # {},
         NEW was, ScanFound(was, bytes, S \ {Highest(S)})
  PROVE  ScanFound(Scanned(bytes, was, Highest(S)), bytes, S)
<1> DEFINE h == Highest(S)
           T == S \ {h}
           r == Scanned(bytes, was, h)
<1>1. h \in S /\ \A c \in S : c[1] < h[1] \/ (c[1] = h[1] /\ c[2] <= h[2])
  <2>1. S \subseteq Int \X Int
    OBVIOUS
  <2> QED
    BY <2>1, HighestIsHighest
<1>2. \A c \in S : c[1] \in Nat /\ c[2] \in Nat /\ c[1] <= h[1]
  BY <1>1
<1>3. ScanFound(was, bytes, T) /\ was.off \in Nat /\ was.fits \in BOOLEAN
  BY DEF ScanFound, ScanState
<1>4. S = T \cup {h}
  BY <1>1
<1>5. /\ r \in ScanState
      /\ r = IF was.fits \/ was.off + bytes <= h[1]
               THEN [off |-> was.off, fits |-> TRUE]
               ELSE [off |-> Max({was.off, round_up(h[2])}), fits |-> was.fits]
  BY <1>1, ScannedType DEF ScanFound
<1> HIDE DEF r, h, T
<1>6. CASE was.fits \/ was.off + bytes <= h[1]
  <2>1. was.off + bytes <= h[1]
    <3>1. CASE was.fits
      <4>1. PICK c \in T : was.off + bytes <= c[1]
        BY <1>3, <3>1 DEF ScanFound
      <4>2. c \in S /\ h \in S
        BY <1>1, <1>4, <4>1
      <4>3. c[1] \in Nat /\ c[1] <= h[1] /\ h[1] \in Nat
        BY <1>2, <4>2
      <4> QED
        BY <1>3, <4>1, <4>3
    <3> QED
      BY <1>6, <3>1
  <2>2. r.off = was.off /\ r.fits = TRUE
    BY <1>5, <1>6
  <2>3. \A b \in S : ClearOf(was.off, bytes, b)
    BY <1>3, <1>4, <2>1 DEF ScanFound, ClearOf
  <2>4. /\ \A o \in Nat : o < was.off /\ o % Alignment = 0 => \E b \in S : ~ClearOf(o, bytes, b)
        /\ was.off = 0 \/ \E b \in S : was.off = round_up(b[2])
        /\ was.off % Alignment = 0
    BY <1>3, <1>4 DEF ScanFound
  <2>5. \E c \in S : was.off + bytes <= c[1]
    BY <1>1, <2>1
  <2>6. ScanFound(r, bytes, S)
    <3>1. r \in ScanState
      BY <1>5
    <3> QED
      BY <2>2, <2>3, <2>4, <2>5, <3>1 DEF ScanFound
  <2> QED
    BY <2>6 DEF r, h
<1>7. CASE ~(was.fits \/ was.off + bytes <= h[1])
  <2> DEFINE up == round_up(h[2])
             m == Max({was.off, up})
  <2>1. h[1] \in Nat /\ h[2] \in Nat
    BY <1>1, <1>2
  <2>2. /\ up \in Nat /\ h[2] <= up /\ up % Alignment = 0
        /\ \A o \in Nat : o % Alignment = 0 /\ o < up => o < h[2]
    BY <2>1, RoundUpFacts
  <2>3. r.off = m /\ r.fits = FALSE
    BY <1>3, <1>5, <1>7
  <2> HIDE DEF up
  <2>4. m \in {was.off, up} /\ was.off <= m /\ up <= m
    <3>1. was.off \in Int /\ up \in Int
      BY <1>3, <2>2
    <3>2. \A i, j \in Int : Max({i, j}) \in {i, j} /\ i <= Max({i, j}) /\ j <= Max({i, j})
      BY MaxOfTwo
    <3> QED
      BY <3>1, <3>2 DEF m
  <2> HIDE DEF m
  <2>5. m \in Nat /\ m % Alignment = 0
    BY <1>3, <2>2, <2>4 DEF ScanFound
  <2>6. ASSUME NEW b \in S
        PROVE  ClearOf(m, bytes, b)
    <3>1. b[1] \in Nat /\ b[2] \in Nat /\ b[1] <= h[1]
      BY <1>2
    <3>2. CASE b = h
      BY <2>1, <2>2, <2>4, <2>5, <3>2 DEF ClearOf
    <3>3. CASE b # h
      <4>1. ClearOf(was.off, bytes, b)
        BY <1>3, <1>4, <3>3 DEF ScanFound
      <4>2. b[2] <= was.off
        BY <1>3, <1>7, <2>1, <3>1, <4>1 DEF ClearOf
      <4> QED
        BY <1>3, <2>4, <2>5, <3>1, <4>2 DEF ClearOf
    <3> QED
      BY <3>2, <3>3
  <2>7. ASSUME NEW o \in Nat, o < m, o % Alignment = 0
        PROVE  \E b \in S : ~ClearOf(o, bytes, b)
    <3>1. CASE o < was.off
      BY <1>3, <1>4, <2>7, <3>1 DEF ScanFound
    <3>2. CASE o >= was.off
      <4>1. m = up
        BY <1>3, <2>4, <2>7, <3>2
      <4>2. o < h[2]
        BY <2>2, <2>7, <4>1
      <4>3. o + bytes > h[1]
        BY <1>3, <1>7, <2>1, <3>2
      <4>4. ~ClearOf(o, bytes, h)
        BY <2>1, <4>2, <4>3 DEF ClearOf
      <4> QED
        BY <1>1, <4>4
    <3> QED
      BY <1>3, <3>1, <3>2
  <2>8. m = 0 \/ \E b \in S : m = round_up(b[2])
    <3>1. CASE m = up
      BY <1>1, <3>1 DEF up
    <3>2. CASE m = was.off
      BY <1>3, <1>4, <3>2 DEF ScanFound
    <3> QED
      BY <2>4, <3>1, <3>2
  <2>9. ScanFound(r, bytes, S)
    <3>1. r \in ScanState
      BY <1>5
    <3> QED
      BY <2>3, <2>5, <2>6, <2>7, <2>8, <3>1 DEF ScanFound
  <2> QED
    BY <2>9 DEF r, h
<1> QED
  BY <1>6, <1>7 DEF r, h

LEMMA ScanIsFirstFit ==
  ASSUME NEW bytes \in Nat, NEW blocked, IsFiniteSet(blocked), blocked \subseteq Nat \X Nat,
         NEW scan, IsScan(scan, bytes, blocked)
  PROVE  \A S \in SUBSET blocked : ScanFound(scan[S], bytes, S)
<1> DEFINE Bad == {S \in SUBSET blocked : ~ScanFound(scan[S], bytes, S)}
<1> SUFFICES ASSUME Bad # {} PROVE FALSE
  OBVIOUS
<1>1. \A S \in Bad : IsFiniteSet(S)
  BY FS_Subset
<1>2. PICK S \in Bad : \A U \in Bad : ~(U \subseteq S /\ U # S)
  <2> HIDE DEF Bad
  <2> QED
    BY <1>1, SmallestSet
<1>3. S \in SUBSET blocked /\ IsFiniteSet(S) /\ ~ScanFound(scan[S], bytes, S)
  BY <1>1
<1>4. scan[S] = IF S = {} THEN NoneScanned
                ELSE Scanned(bytes, scan[S \ {Highest(S)}], Highest(S))
  BY <1>3 DEF IsScan
<1>5. CASE S = {}
  <2>1. 0 % Alignment = 0
    BY OperatorsAssumption
  <2>2. scan[S] = [off |-> 0, fits |-> FALSE]
    BY <1>4, <1>5 DEF NoneScanned
  <2>3. scan[S] \in ScanState /\ scan[S].off = 0 /\ scan[S].fits = FALSE
    BY <2>2 DEF ScanState
  <2> QED
    BY <1>3, <1>5, <2>1, <2>3 DEF ScanFound
<1>6. CASE S # {}
  <2>1. S \subseteq Nat \X Nat /\ S \subseteq Int \X Int
    BY <1>3
  <2>2. Highest(S) \in S
    BY <1>3, <1>6, <2>1, HighestIsHighest
  <2> DEFINE U == S \ {Highest(S)}
  <2>3. U \in SUBSET blocked /\ U \subseteq S /\ U # S
    BY <1>3, <2>2
  <2>4. ScanFound(scan[U], bytes, U)
    BY <1>2, <2>3
  <2> QED
    BY <1>3, <1>4, <1>6, <2>1, <2>4, ScanStep
<1> QED
  BY <1>5, <1>6

(* The offset of first fit is aligned, clear of every blocked interval,    *)
(* and the lowest such.                                                    *)
FirstFitIs(off, bytes, blocked) ==
  /\ off \in Nat /\ off % Alignment = 0
  /\ \A b \in blocked : ClearOf(off, bytes, b)
  /\ \A o \in 0 .. off - 1 : o % Alignment = 0 => \E b \in blocked : ~ClearOf(o, bytes, b)
  /\ off = 0 \/ \E b \in blocked : off = round_up(b[2])

LEMMA FirstFitIsFirst ==
  ASSUME NEW bytes \in Nat, NEW blocked, IsFiniteSet(blocked), blocked \subseteq Nat \X Nat
  PROVE  FirstFitIs(FirstFit(bytes, blocked), bytes, blocked)
<1> DEFINE scan == CHOOSE h : IsScan(h, bytes, blocked)
<1>1. IsScan(scan, bytes, blocked)
  BY ScanExists
<1>2. FirstFit(bytes, blocked) = scan[blocked].off
  BY DEF FirstFit, IsScan
<1> HIDE DEF scan
<1>3. ScanFound(scan[blocked], bytes, blocked)
  <2>1. blocked \in SUBSET blocked
    OBVIOUS
  <2> QED
    BY <1>1, <2>1, ScanIsFirstFit
<1> QED
  BY <1>2, <1>3 DEF ScanFound, ScanState, FirstFitIs

-----------------------------------------------------------------------------
(* The graph, of which the sizes of its tensors are made.                  *)

LEMMA SizesOfTensors ==
  ASSUME GraphOK
  PROVE  /\ IsFiniteSet(TensorId) /\ TensorId \subseteq Nat
         /\ \A t \in TensorId : tensors[t] \in TensorRecord
         /\ \A t \in TensorId : bytes_of(t) \in Nat /\ bytes_of(t) % Alignment = 0
<1>1. /\ IsFiniteSet(TensorId) /\ TensorId \subseteq Nat
      /\ \A t \in TensorId : tensors[t] \in TensorRecord
  BY DomainIsFinite DEF GraphOK, TensorId
<1>2. ASSUME NEW t \in TensorId
      PROVE  bytes_of(t) \in Nat /\ bytes_of(t) % Alignment = 0
  <2>1. tensors[t].shape \in Seq(Nat)
    BY <1>1, <1>2, ShapesAreSequences DEF TensorRecord
  <2>2. numel(tensors[t].shape) \in Nat
    BY <2>1, NumelIsNat
  <2> QED
    BY <2>2, RoundUpFacts DEF bytes_of
<1> QED
  BY <1>1, <1>2

LEMMA BuildStep ==
  ASSUME GraphOK, Build
  PROVE  GraphOK'
<1>1. Len(tensors) \in Nat
  BY DomainIsFinite DEF GraphOK
<1>2. \A t, u \in 1 .. Len(tensors) + 1 : <<t>> \in Seq(Nat) /\ <<t, u>> \in Seq(Nat)
  BY <1>1
<1>3. CASE \E shape \in InputShapes : AddInput(shape)
  BY <1>3, AddInputStep
<1>4. CASE \E op \in Ops, t \in 1 .. Len(tensors) + 1 : AddNode(op, <<t>>)
  BY <1>2, <1>4, AddNodeStep
<1>5. CASE \E op \in Ops, t, u \in 1 .. Len(tensors) + 1 : AddNode(op, <<t, u>>)
  BY <1>2, <1>5, AddNodeStep
<1>6. CASE \E t \in 1 .. Len(tensors) + 1 : MarkOutput(t)
  BY <1>6, MarkOutputStep
<1>7. CASE Finalize
  BY <1>7, FinalizeStep
<1> QED
  BY <1>3, <1>4, <1>5, <1>6, <1>7 DEF Build

(* The client may choose among all policies and numbers of streams.        *)
AnyPlan ==
  \/ Build
  \/ \E policy \in SchedulePolicy, k \in Nat : PlanStreams(policy, k)
  \/ OrderNode
  \/ \E policy \in MemoryPolicy : PlanMemory(policy)
  \/ PackTensor
  \/ Discard

LEMMA PlanNextIsAny == PlanNext => AnyPlan
BY PlanningAssumption DEF PlanNext, AnyPlan

LEMMA GraphStep ==
  ASSUME GraphOK, [AnyPlan]_planVars
  PROVE  GraphOK'
<1>1. CASE UNCHANGED <<tensors, nodes, finalized>>
  BY <1>1, SameGraph
<1>2. CASE Build
  BY <1>2, BuildStep
<1>3. CASE AnyPlan /\ ~Build
  BY <1>1, <1>3 DEF AnyPlan, PlanStreams, OrderNode, PlanMemory, PackTensor, Discard, graphVars
<1> QED
  BY <1>1, <1>2, <1>3 DEF planVars, graphVars

-----------------------------------------------------------------------------
(* Packing.                                                                *)

(* Whoever shares a byte may: the policy found, with the relation of this  *)
(* schedule, that one is done with it before the other is produced.        *)
SharersMayShare ==
  \A a, b \in Placed : a # b /\ SharesBytes(a, b) =>
    can_share(mp.policy, a, b) \/ can_share(mp.policy, b, a)

Packed ==
  /\ mp = [policy |-> mp.policy, todo |-> mp.todo, offset |-> mp.offset,
           arena |-> mp.arena, workspace |-> mp.workspace]
  /\ mp.policy \in MemoryPolicy
  /\ Placed \cup mp.todo = NeedsBytes /\ Placed \cap mp.todo = {}
  /\ mp.offset \in [Placed -> Nat]
  /\ \A t \in Placed : /\ mp.offset[t] % Alignment = 0
                       /\ mp.offset[t] + bytes_of(t) <= mp.arena
  /\ mp.arena \in Nat /\ mp.arena % Alignment = 0
  /\ mp.arena <= SumFunction([t \in Placed |-> bytes_of(t)])
  /\ SharersMayShare

PackInv ==
  /\ GraphOK
  /\ stage \in {"memory", "planned"} => Packed
  /\ stage = "planned" => mp.todo = {}

LEMMA AlignedSum ==
  ASSUME NEW i \in Nat, NEW j \in Nat, i % Alignment = 0, j % Alignment = 0
  PROVE  (i + j) % Alignment = 0
<1> DEFINE A == Alignment
<1>1. A \in Nat \ {0}
  BY OperatorsAssumption
<1> HIDE DEF A
<1> SUFFICES ASSUME i % A = 0, j % A = 0
             PROVE  (i + j) % A = 0
  BY DEF A
<1> DEFINE p == i \div A
           q == j \div A
<1>2. i = A * p /\ j = A * q /\ p \in Nat /\ q \in Nat
  BY <1>1, Multiples
<1> HIDE DEF p, q
<1>3. i + j = A * (p + q) /\ p + q \in Nat
  BY <1>1, <1>2
<1>4. (A * (p + q)) % A = 0
  BY <1>1, <1>3, Multiples
<1> QED
  BY <1>3, <1>4

(* Nothing is placed yet.                                                  *)
LEMMA StartStep ==
  ASSUME PackInv, NEW policy \in MemoryPolicy, PlanMemory(policy)
  PROVE  Packed'
<1>1. /\ mp' = [policy |-> policy, todo |-> NeedsBytes, offset |-> <<>>, arena |-> 0,
                workspace |-> Workspaces]
      /\ UNCHANGED <<graphVars, hbVars>>
  BY DEF PlanMemory, StartMemory
<1>2. /\ mp'.policy = policy /\ mp'.todo = NeedsBytes /\ mp'.offset = <<>> /\ mp'.arena = 0
      /\ mp'.workspace = Workspaces
  BY <1>1
<1>3. Placed' = {}
  BY <1>2 DEF Placed
<1>4. NeedsBytes' = NeedsBytes
  BY <1>1 DEF NeedsBytes, Producer, SchedOf, graphVars, hbVars, TensorId
<1>5. mp'.offset \in [Placed' -> Nat]
  BY <1>2, <1>3
<1>6. 0 % Alignment = 0
  BY OperatorsAssumption
<1>7. SumFunction([t \in Placed |-> bytes_of(t)])' = 0
  <2> DEFINE f == [t \in Placed' |-> bytes_of(t)']
  <2>1. DOMAIN f = {}
    BY <1>3
  <2>2. SumFunction([t \in Placed |-> bytes_of(t)])' = SumFunction(f)
    OBVIOUS
  <2> HIDE DEF f
  <2> QED
    BY <2>1, <2>2, TotalOfNothing
<1>8. policy \in MemoryPolicy
  BY PlanningAssumption
<1>9. SharersMayShare'
  BY <1>3 DEF SharersMayShare
<1> QED
  BY <1>1, <1>2, <1>3, <1>4, <1>5, <1>6, <1>7, <1>8, <1>9 DEF Packed

(* The intervals that block a tensor.                                      *)
LEMMA BlockedIs ==
  ASSUME PackInv, stage \in {"memory", "planned"}, NEW t
  PROVE  /\ IsFiniteSet(Blocked(t)) /\ Blocked(t) \subseteq Nat \X Nat
         /\ \A b \in Blocked(t) : b[2] % Alignment = 0 /\ b[2] <= mp.arena
         /\ Placed \subseteq TensorId /\ IsFiniteSet(Placed)
<1>1. Packed /\ GraphOK
  BY DEF PackInv
<1>2. Placed \subseteq TensorId /\ IsFiniteSet(Placed)
  BY <1>1, SizesOfTensors, FS_Subset DEF Packed, NeedsBytes
<1> DEFINE U == {v \in Placed : ~can_share(mp.policy, v, t) /\ ~can_share(mp.policy, t, v)}
           iv == [u \in Placed |-> Interval(u)]
<1>3. IsFiniteSet(U)
  BY <1>2, FS_Subset
<1>4. Blocked(t) = {iv[u] : u \in U}
  BY DEF Blocked
<1>5. IsFiniteSet(Blocked(t))
  <2> HIDE DEF U, iv
  <2>1. IsFiniteSet({iv[u] : u \in U})
    BY <1>3, ImageIsFinite
  <2> QED
    BY <1>4, <2>1
<1>6. ASSUME NEW u \in Placed
      PROVE  /\ Interval(u) \in Nat \X Nat /\ Interval(u)[2] % Alignment = 0
             /\ Interval(u)[2] <= mp.arena
  <2>1. /\ mp.offset[u] \in Nat /\ mp.offset[u] % Alignment = 0
        /\ mp.offset[u] + bytes_of(u) <= mp.arena
    BY <1>1, <1>6 DEF Packed
  <2>2. bytes_of(u) \in Nat /\ bytes_of(u) % Alignment = 0
    BY <1>1, <1>2, SizesOfTensors
  <2>3. (mp.offset[u] + bytes_of(u)) % Alignment = 0
    BY <2>1, <2>2, AlignedSum
  <2> QED
    BY <2>1, <2>2, <2>3 DEF Interval
<1> QED
  BY <1>2, <1>5, <1>6 DEF Blocked

(* The next tensor and where it goes.                                      *)
LEMMA NextTensor ==
  ASSUME PackInv, stage \in {"memory", "planned"}, mp.todo # {},
         NEW t, t = Largest(mp.todo)
  PROVE  /\ t \in mp.todo /\ t \in TensorId /\ bytes_of(t) \in Nat
         /\ bytes_of(t) % Alignment = 0
         /\ FirstFitIs(FirstFit(bytes_of(t), Blocked(t)), bytes_of(t), Blocked(t))
<1>1. mp.todo \subseteq TensorId
  BY DEF PackInv, Packed, NeedsBytes
<1>2. mp.todo \in SUBSET Nat /\ IsFiniteSet(mp.todo) /\ \A u \in mp.todo : bytes_of(u) \in Nat
  BY <1>1, SizesOfTensors, FS_Subset DEF PackInv
<1>3. t \in mp.todo
  BY <1>2, LargestIsLargest
<1>4. bytes_of(t) \in Nat /\ bytes_of(t) % Alignment = 0
  BY <1>1, <1>3, SizesOfTensors DEF PackInv
<1>5. FirstFitIs(FirstFit(bytes_of(t), Blocked(t)), bytes_of(t), Blocked(t))
  BY <1>4, BlockedIs, FirstFitIsFirst
<1> QED
  BY <1>1, <1>3, <1>4, <1>5

(* What placing one tensor does.                                           *)
LEMMA PlaceEffect ==
  ASSUME PackInv, stage = "memory", PackTensor,
         NEW t, t = Largest(mp.todo),
         NEW off, off = FirstFit(bytes_of(t), Blocked(t))
  PROVE  /\ mp' = [policy |-> mp.policy, todo |-> mp.todo \ {t},
                   offset |-> [u \in Placed \cup {t} |->
                                 IF u = t THEN off ELSE mp.offset[u]],
                   arena |-> Max({mp.arena, off + bytes_of(t)}),
                   workspace |-> mp.workspace]
         /\ Placed' = Placed \cup {t} /\ t \notin Placed /\ t \in mp.todo
         /\ \A u \in Placed : mp'.offset[u] = mp.offset[u]
         /\ mp'.offset[t] = off
<1>1. mp = [policy |-> mp.policy, todo |-> mp.todo, offset |-> mp.offset,
            arena |-> mp.arena, workspace |-> mp.workspace]
  BY DEF PackInv, Packed
<1> DEFINE offset == [u \in Placed \cup {t} |-> IF u = t THEN off ELSE mp.offset[u]]
           arena == Max({mp.arena, off + bytes_of(t)})
<1>2. mp.todo # {} /\ mp' = [mp EXCEPT !.todo = mp.todo \ {t}, !.offset = offset,
                                       !.arena = arena]
  BY DEF PackTensor, PlaceTensor
<1>3. t \in mp.todo /\ t \notin Placed
  <2>1. t \in mp.todo
    BY <1>2, NextTensor
  <2> QED
    BY <2>1 DEF PackInv, Packed
<1> HIDE DEF arena, offset
<1>4. mp \in [policy : {mp.policy}, todo : {mp.todo}, offset : {mp.offset},
              arena : {mp.arena}, workspace : {mp.workspace}]
  BY <1>1
<1>5. mp' = [policy |-> mp.policy, todo |-> mp.todo \ {t}, offset |-> offset,
             arena |-> arena, workspace |-> mp.workspace]
  BY <1>2, <1>4
<1>6. mp'.offset = offset
  BY <1>5
<1>7. Placed' = Placed \cup {t}
  BY <1>6 DEF Placed, offset
<1>8. (\A u \in Placed : mp'.offset[u] = mp.offset[u]) /\ mp'.offset[t] = off
  BY <1>3, <1>6 DEF offset
<1> QED
  BY <1>3, <1>5, <1>7, <1>8 DEF arena, offset

(* The graph and the relation stay, and with them what is decided by them. *)
LEMMA PackingKeeps ==
  ASSUME UNCHANGED <<graphVars, hbVars>>
  PROVE  /\ \A t : (bytes_of(t))' = bytes_of(t)
         /\ \A p, a, b : (can_share(p, a, b))' = can_share(p, a, b)
         /\ NeedsBytes' = NeedsBytes /\ TensorId' = TensorId
<1>1. tensors' = tensors /\ nodes' = nodes /\ sa' = sa /\ clock' = clock
  BY DEF graphVars, hbVars
<1>2. \A t : (bytes_of(t))' = bytes_of(t)
  BY <1>1 DEF bytes_of
<1>3. \A t : (Producer(t))' = Producer(t) /\ (Accesses(t))' = Accesses(t)
  BY <1>1 DEF Producer, Accesses, SchedOf
<1>4. \A p, x, y : (Before(p, x, y))' = Before(p, x, y)
  BY <1>1 DEF Before, precedes
<1>5. \A t : (reusable(t))' = reusable(t)
  BY <1>1 DEF reusable
<1>6. \A p, a, b : (can_share(p, a, b))' = can_share(p, a, b)
  BY <1>3, <1>4, <1>5 DEF can_share
<1>7. NeedsBytes' = NeedsBytes /\ TensorId' = TensorId
  BY <1>1, <1>3 DEF NeedsBytes, TensorId
<1> QED
  BY <1>2, <1>6, <1>7

LEMMA PackStep ==
  ASSUME PackInv, stage = "memory", PackTensor
  PROVE  Packed'
<1> DEFINE t == Largest(mp.todo)
           off == FirstFit(bytes_of(t), Blocked(t))
           n == bytes_of(t)
           arena == Max({mp.arena, off + n})
<1>0. mp.todo # {} /\ UNCHANGED <<graphVars, hbVars>>
  BY DEF PackTensor, PlaceTensor
<1>1. /\ mp' = [policy |-> mp.policy, todo |-> mp.todo \ {t},
                offset |-> [u \in Placed \cup {t} |-> IF u = t THEN off ELSE mp.offset[u]],
                arena |-> arena, workspace |-> mp.workspace]
      /\ Placed' = Placed \cup {t} /\ t \notin Placed /\ t \in mp.todo
      /\ \A u \in Placed : mp'.offset[u] = mp.offset[u]
      /\ mp'.offset[t] = off
  BY PlaceEffect
<1>2. t \in TensorId /\ n \in Nat /\ n % Alignment = 0 /\ FirstFitIs(off, n, Blocked(t))
  BY <1>0, NextTensor
<1>3. /\ \A u : (bytes_of(u))' = bytes_of(u)
      /\ \A p, a, b : (can_share(p, a, b))' = can_share(p, a, b)
      /\ NeedsBytes' = NeedsBytes
  BY <1>0, PackingKeeps
<1>4. Packed
  BY DEF PackInv
<1>5. /\ \A b \in Blocked(t) : b \in Nat \X Nat /\ b[2] % Alignment = 0 /\ b[2] <= mp.arena
      /\ Placed \subseteq TensorId /\ IsFiniteSet(Placed)
  BY BlockedIs
<1>6. \A u \in Placed : bytes_of(u) \in Nat
  BY <1>5, SizesOfTensors DEF PackInv
<1> HIDE DEF t, off, arena
<1>7. off \in Nat /\ off % Alignment = 0 /\ off <= mp.arena
  <2>1. off \in Nat /\ off % Alignment = 0
    BY <1>2 DEF FirstFitIs
  <2>2. CASE off = 0
    BY <1>4, <2>1, <2>2 DEF Packed
  <2>3. CASE off # 0
    <3>1. PICK b \in Blocked(t) : off = round_up(b[2])
      BY <1>2, <2>3 DEF FirstFitIs
    <3>2. b[2] \in Nat /\ b[2] % Alignment = 0 /\ b[2] <= mp.arena
      BY <1>5
    <3>3. round_up(b[2]) = b[2]
      BY <3>2, RoundUpFacts
    <3> QED
      BY <2>1, <3>1, <3>2, <3>3
  <2> QED
    BY <2>1, <2>2, <2>3
<1>8. /\ arena \in Nat /\ arena % Alignment = 0 /\ mp.arena <= arena /\ off + n <= arena
      /\ arena <= mp.arena + n
  <2>1. mp.arena \in Nat /\ mp.arena % Alignment = 0
    BY <1>4 DEF Packed
  <2>2. off + n \in Nat /\ (off + n) % Alignment = 0
    BY <1>2, <1>7, AlignedSum
  <2> DEFINE e == off + n
  <2>3. e \in Nat /\ e % Alignment = 0 /\ e <= mp.arena + n
    BY <1>2, <1>7, <2>1, <2>2
  <2>4. arena = Max({mp.arena, e})
    BY DEF arena
  <2> HIDE DEF e
  <2>5. \A i, j \in Int : Max({i, j}) \in {i, j} /\ i <= Max({i, j}) /\ j <= Max({i, j})
    BY MaxOfTwo
  <2>6. arena \in {mp.arena, e} /\ mp.arena <= arena /\ e <= arena
    <3>1. mp.arena \in Int /\ e \in Int
      BY <2>1, <2>3
    <3> QED
      BY <2>4, <2>5, <3>1, Zenon
  <2> QED
    BY <1>2, <2>1, <2>3, <2>6 DEF e
<1>9. mp'.policy = mp.policy /\ mp'.todo = mp.todo \ {t} /\ mp'.arena = arena
  BY <1>1
<1>10. mp'.offset \in [Placed' -> Nat]
  <2>1. mp'.offset = [u \in Placed \cup {t} |-> IF u = t THEN off ELSE mp.offset[u]]
    BY <1>1
  <2>2. \A u \in Placed : mp.offset[u] \in Nat
    BY <1>4 DEF Packed
  <2> QED
    BY <1>1, <1>7, <2>1, <2>2
<1>11. ASSUME NEW u \in Placed'
       PROVE  mp'.offset[u] % Alignment = 0 /\ mp'.offset[u] + (bytes_of(u))' <= mp'.arena
  <2>1. CASE u = t
    BY <1>1, <1>3, <1>7, <1>8, <1>9, <2>1
  <2>2. CASE u # t
    <3>1. u \in Placed
      BY <1>1, <2>2
    <3>2. /\ mp.offset[u] % Alignment = 0 /\ mp.offset[u] \in Nat /\ mp.arena \in Nat
          /\ mp.offset[u] + bytes_of(u) <= mp.arena /\ bytes_of(u) \in Nat
      BY <1>4, <1>6, <3>1 DEF Packed
    <3> QED
      BY <1>1, <1>3, <1>8, <1>9, <3>1, <3>2
  <2> QED
    BY <2>1, <2>2
<1>12. mp'.arena <= SumFunction([u \in Placed |-> bytes_of(u)])'
  <2> DEFINE f == [u \in Placed |-> bytes_of(u)]
             g == [u \in Placed \cup {t} |-> bytes_of(u)]
  <2>1. SumFunction([u \in Placed |-> bytes_of(u)])' = SumFunction(g)
    BY <1>1, <1>3
  <2>2. /\ f \in [Placed -> Nat] /\ g \in [Placed \cup {t} -> Nat] /\ g[t] = n
        /\ \A u \in Placed : g[u] = f[u]
    BY <1>2, <1>6
  <2>3. SumFunction(f) \in Nat /\ mp.arena \in Nat /\ mp.arena <= SumFunction(f)
    BY <1>4, <1>5, <2>2, TotalIsNat DEF Packed
  <2> HIDE DEF f, g, n
  <2>4. SumFunction(g) = SumFunction(f) + g[t]
    BY <1>1, <1>5, <2>2, TotalWith
  <2> QED
    BY <1>2, <1>8, <1>9, <2>1, <2>2, <2>3, <2>4
<1>13. SharersMayShare'
  <2> SUFFICES ASSUME NEW a \in Placed', NEW b \in Placed', a # b, (SharesBytes(a, b))'
               PROVE  can_share(mp.policy, a, b) \/ can_share(mp.policy, b, a)
    BY <1>3, <1>9 DEF SharersMayShare
  <2>1. /\ mp'.offset[a] < mp'.offset[b] + bytes_of(b)
        /\ mp'.offset[b] < mp'.offset[a] + bytes_of(a)
    BY <1>3 DEF SharesBytes
  <2>2. ASSUME NEW u \in Placed, off < mp.offset[u] + bytes_of(u), mp.offset[u] < off + n
        PROVE  can_share(mp.policy, u, t) \/ can_share(mp.policy, t, u)
    <3> SUFFICES ASSUME ~can_share(mp.policy, u, t), ~can_share(mp.policy, t, u)
                 PROVE  FALSE
      OBVIOUS
    <3>1. Interval(u) \in Blocked(t)
      BY DEF Blocked
    <3>2. ClearOf(off, n, Interval(u))
      BY <1>2, <3>1 DEF FirstFitIs
    <3>3. mp.offset[u] \in Nat /\ bytes_of(u) \in Nat
      BY <1>4, <1>6 DEF Packed
    <3> QED
      BY <1>2, <1>7, <2>2, <3>2, <3>3 DEF ClearOf, Interval
  <2>3. CASE a = t
    <3>1. b \in Placed /\ b # t
      BY <1>1, <2>3
    <3> QED
      BY <1>1, <2>1, <2>2, <2>3, <3>1
  <2>4. CASE b = t
    <3>1. a \in Placed /\ a # t
      BY <1>1, <2>4
    <3> QED
      BY <1>1, <2>1, <2>2, <2>4, <3>1
  <2>5. CASE a # t /\ b # t
    <3>1. a \in Placed /\ b \in Placed
      BY <1>1, <2>5
    <3>2. SharesBytes(a, b)
      BY <1>1, <2>1, <3>1 DEF SharesBytes
    <3> QED
      BY <1>4, <3>1, <3>2 DEF Packed, SharersMayShare
  <2> QED
    BY <2>3, <2>4, <2>5
<1>14. Placed' \cup mp'.todo = NeedsBytes' /\ Placed' \cap mp'.todo = {}
  BY <1>1, <1>3, <1>4, <1>9 DEF Packed
<1>15. mp' = [policy |-> mp'.policy, todo |-> mp'.todo, offset |-> mp'.offset,
              arena |-> mp'.arena, workspace |-> mp'.workspace]
  BY <1>1
<1> QED
  BY <1>4, <1>8, <1>9, <1>10, <1>11, <1>12, <1>13, <1>14, <1>15 DEF Packed

-----------------------------------------------------------------------------
(* The invariant and what it says.                                         *)

LEMMA PackInit == PlanInit => PackInv
<1> SUFFICES ASSUME PlanInit PROVE PackInv
  OBVIOUS
<1>1. tensors = <<>> /\ nodes = <<>> /\ stage = "build" /\ finalized = FALSE
  BY DEF PlanInit, GraphInit
<1>2. GraphOK
  <2>1. /\ <<>> \in Seq(TensorRecord) /\ <<>> \in Seq(NodeRecord) /\ Len(<<>>) = 0
        /\ TensorId = {} /\ NodeId = {} /\ 1 .. 0 = {}
    BY <1>1 DEF TensorId, NodeId
  <2> QED
    BY <1>1, <2>1 DEF GraphOK
<1> QED
  BY <1>1, <1>2 DEF PackInv

LEMMA PackNext == PackInv /\ [AnyPlan]_planVars => PackInv'
<1> SUFFICES ASSUME PackInv, [AnyPlan]_planVars PROVE PackInv'
  OBVIOUS
<1>0. GraphOK'
  BY GraphStep DEF PackInv
<1>1. CASE UNCHANGED planVars
  <2>1. UNCHANGED <<graphVars, hbVars>> /\ mp' = mp /\ stage' = stage
    BY <1>1 DEF planVars
  <2>2. Packed' <=> Packed
    <3>1. \A t : (bytes_of(t))' = bytes_of(t)
      BY <2>1, PackingKeeps
    <3>2. Placed' = Placed
      BY <2>1 DEF Placed
    <3>3. SumFunction([t \in Placed |-> bytes_of(t)])' = SumFunction([t \in Placed |-> bytes_of(t)])
      BY <3>1, <3>2
    <3>4. SharersMayShare' <=> SharersMayShare
      BY <2>1, <3>1, <3>2, PackingKeeps DEF SharersMayShare, SharesBytes
    <3> QED
      BY <2>1, <3>1, <3>2, <3>3, <3>4, PackingKeeps DEF Packed
  <2> QED
    BY <1>0, <2>1, <2>2 DEF PackInv
<1>2. CASE Build
  BY <1>0, <1>2 DEF Build, PackInv
<1>3. CASE \E policy \in SchedulePolicy, k \in Nat : PlanStreams(policy, k)
  <2>1. stage' \in {"build", "order"}
    BY <1>3 DEF PlanStreams
  <2> QED
    BY <1>0, <2>1 DEF PackInv
<1>4. CASE OrderNode
  BY <1>0, <1>4 DEF OrderNode, PackInv
<1>5. CASE \E policy \in MemoryPolicy : PlanMemory(policy)
  <2>1. Packed' /\ stage' = "memory"
    BY <1>5, StartStep DEF PlanMemory
  <2> QED
    BY <1>0, <2>1 DEF PackInv
<1>6. CASE PackTensor
  <2>1. Packed'
    BY <1>6, PackStep DEF PackTensor
  <2>2. stage' = "planned" => mp'.todo = {}
    BY <1>6 DEF PackTensor
  <2> QED
    BY <1>0, <2>1, <2>2 DEF PackInv
<1>7. CASE Discard
  BY <1>0, <1>7 DEF Discard, PackInv
<1> QED
  BY <1>1, <1>2, <1>3, <1>4, <1>5, <1>6, <1>7 DEF AnyPlan

LEMMA InvFirstFit == PackInv => FirstFitIsLowest
<1> SUFFICES ASSUME PackInv, stage \in {"memory", "planned"}
             PROVE  /\ mp.todo # {} =>
                         LET t == Largest(mp.todo)
                             blocked == Blocked(t)
                             Clear(off) == \A b \in blocked :
                                             off + bytes_of(t) <= b[1] \/ b[2] <= off
                             off == FirstFit(bytes_of(t), blocked)
                         IN  /\ off % Alignment = 0 /\ Clear(off)
                             /\ \A o \in 0 .. off - 1 : o % Alignment = 0 => ~Clear(o)
                    /\ mp.arena % Alignment = 0
                    /\ mp.arena <= SumFunction([t \in Placed |-> bytes_of(t)])
  BY DEF FirstFitIsLowest
<1>1. /\ mp.arena % Alignment = 0
      /\ mp.arena <= SumFunction([t \in Placed |-> bytes_of(t)])
  BY DEF PackInv, Packed
<1>2. ASSUME mp.todo # {}, NEW t, t = Largest(mp.todo),
             NEW off, off = FirstFit(bytes_of(t), Blocked(t))
      PROVE  /\ off % Alignment = 0
             /\ \A b \in Blocked(t) : off + bytes_of(t) <= b[1] \/ b[2] <= off
             /\ \A o \in 0 .. off - 1 : o % Alignment = 0 =>
                  ~\A b \in Blocked(t) : o + bytes_of(t) <= b[1] \/ b[2] <= o
  <2>1. FirstFitIs(off, bytes_of(t), Blocked(t))
    BY <1>2, NextTensor
  <2> QED
    BY <2>1 DEF FirstFitIs, ClearOf
<1> QED
  BY <1>1, <1>2

(* Every policy but the naive one lets a tensor take the bytes of another  *)
(* only when all accesses of the other happen before its producer.         *)
LEMMA SharingIsOrdered ==
  ASSUME NEW policy \in MemoryPolicy, policy # "kReuseTopoNaive", NEW a, NEW b,
         can_share(policy, a, b)
  PROVE  AllPrecede(a, b) /\ reusable(a) /\ reusable(b)
<1>1. /\ reusable(a) /\ reusable(b) /\ Accesses(a) # {}
      /\ \E p \in Producer(b) : \A x \in Accesses(a) : Before(policy, x, p)
  BY DEF can_share
<1>2. \A x, p : Before(policy, x, p) => precedes(x, p)
  BY DEF Before, MemoryPolicy
<1> QED
  BY <1>1, <1>2 DEF AllPrecede

(* A finished arena: every tensor that needs bytes has its own or shares   *)
(* them in order, inside the arena and aligned.                            *)
ArenaHoldsEveryTensor ==
  stage = "planned" =>
    /\ Placed = NeedsBytes
    /\ \A t \in Placed : /\ mp.offset[t] % Alignment = 0 /\ mp.offset[t] >= 0
                         /\ mp.offset[t] + bytes_of(t) <= mp.arena
    /\ mp.policy # "kReuseTopoNaive" => SharersAreOrdered

LEMMA InvArena == PackInv => ArenaHoldsEveryTensor
<1> SUFFICES ASSUME PackInv, stage = "planned" PROVE ArenaHoldsEveryTensor
  BY DEF ArenaHoldsEveryTensor
<1>1. Packed /\ mp.todo = {}
  BY DEF PackInv
<1>2. Placed = NeedsBytes
  BY <1>1 DEF Packed
<1>3. \A t \in Placed : /\ mp.offset[t] % Alignment = 0 /\ mp.offset[t] >= 0
                        /\ mp.offset[t] + bytes_of(t) <= mp.arena
  BY <1>1 DEF Packed
<1>4. ASSUME mp.policy # "kReuseTopoNaive" PROVE SharersAreOrdered
  <2>1. ASSUME NEW a \in Placed, NEW b \in Placed, a # b, SharesBytes(a, b)
        PROVE  /\ AllPrecede(a, b) \/ AllPrecede(b, a)
               /\ reusable(a) /\ reusable(b)
    <3>1. can_share(mp.policy, a, b) \/ can_share(mp.policy, b, a)
      BY <1>1, <2>1 DEF Packed, SharersMayShare
    <3> QED
      BY <1>1, <1>4, <3>1, SharingIsOrdered DEF Packed
  <2>2. \A a, b \in Placed : a < b => a # b
    <3>1. Placed \subseteq Nat
      BY <1>2, SizesOfTensors DEF NeedsBytes, PackInv
    <3> QED
      BY <3>1
  <2> QED
    BY <2>1, <2>2 DEF SharersAreOrdered, verify_no_buffer_races
<1> QED
  BY <1>2, <1>3, <1>4 DEF ArenaHoldsEveryTensor

(* First fit is what it says, for every graph that is built, every policy  *)
(* and every alignment: plan_memory puts each tensor at the lowest aligned *)
(* offset that is clear of the tensors it must not share with, and reuse   *)
(* never costs memory: the arena is at most one buffer for each tensor.    *)
THEOREM TensorsArePackedLow == PlanSpec => []FirstFitIsLowest
<1>1. PlanInit => PackInv
  BY PackInit
<1>2. PackInv /\ [PlanNext]_planVars => PackInv'
  BY PackNext, PlanNextIsAny
<1>3. PackInv => FirstFitIsLowest
  BY InvFirstFit
<1> QED
  BY <1>1, <1>2, <1>3, PTL DEF PlanSpec

(* The plan that plan_memory returns passes verify_no_buffer_races, under  *)
(* every policy that asks the happens-before relation, whatever schedule   *)
(* the relation was built of; no input or output ever shares its bytes.    *)
THEOREM ArenaIsPackedSafely == PlanSpec => []ArenaHoldsEveryTensor
<1>1. PlanInit => PackInv
  BY PackInit
<1>2. PackInv /\ [PlanNext]_planVars => PackInv'
  BY PackNext, PlanNextIsAny
<1>3. PackInv => ArenaHoldsEveryTensor
  BY InvArena
<1> QED
  BY <1>1, <1>2, <1>3, PTL DEF PlanSpec
-----------------------------------------------------------------------------
(* The schedule in use, from plan_streams until the plan is dropped.       *)

PlannedOK ==
  /\ finalized /\ LiveOK(sa.nodes) /\ WellPlanned(sa, Len(sa.nodes)) /\ ClockInv
  /\ schedule # "kLevelParallel" => CoversPreds(sa)
  /\ schedule = "kLevelParallel" => CoversLevels(sa)

PlanInv ==
  /\ PackInv
  /\ stage \in {"build", "order", "memory", "planned"} /\ schedule \in SchedulePolicy
  /\ stage = "build" => sa = NoSchedule /\ clock = <<>> /\ pos = 0
  /\ stage \in {"build", "order"} => mp = NoMemory
  /\ stage # "build" => PlannedOK
  /\ stage \in {"memory", "planned"} => built

(* In the next state, too.                                                 *)
LEMMA PlannedIsValidNext ==
  WellPlanned(sa, Len(sa.nodes))' => ScheduleType' /\ Valid' /\ InOrder'
<1>1. WellPlanned(sa, Len(sa.nodes)) => ScheduleType /\ Valid /\ InOrder
  BY PlannedIsValid
<1> QED
  BY <1>1, PTL

LEMMA ClocksStartNext == HBInit' => ClockInv'
BY ClockInvInit, PTL

LEMMA ScheduleKept ==
  ASSUME LiveOK(sa.nodes), UNCHANGED <<nodes, sa>>
  PROVE  /\ LiveOK(sa.nodes)' /\ CoversPreds(sa)' = CoversPreds(sa) /\ CoversLevels(sa)' = CoversLevels(sa)
<1>1. LiveOK(sa.nodes)'
  BY DEF LiveOK, NodeId
<1>2. \A live, i : LivePreds(live, i)' = LivePreds(live, i)
  BY DEF LivePreds, SchedOf
<1>3. \A live, i : DepthOf(live, i)' = DepthOf(live, i)
  BY DEF DepthOf
<1>4. \A live, d : Level(live, d)' = Level(live, d)
  BY <1>3 DEF Level
<1>5. \A live, d : LevelBefore(live, d)' = LevelBefore(live, d)
  BY <1>3, <1>4 DEF LevelBefore
<1> QED
  BY <1>1, <1>2, <1>3, <1>5 DEF CoversPreds, CoversLevels, Covers

LEMMA OrderStep ==
  ASSUME PlannedOK, UNCHANGED <<tensors, nodes, finalized, schedule>>, [Absorb]_hbVars
  PROVE  PlannedOK'
<1>1. sa' = sa
  BY DEF Absorb, hbVars
<1>2. ClockInv'
  BY ClockInvStep DEF PlannedOK
<1>3. /\ LiveOK(sa.nodes)' /\ CoversPreds(sa)' = CoversPreds(sa) /\ CoversLevels(sa)' = CoversLevels(sa)
  BY <1>1, ScheduleKept DEF PlannedOK
<1>4. WellPlanned(sa, Len(sa.nodes))'
  BY <1>1 DEF PlannedOK, WellPlanned
<1> QED
  BY <1>2, <1>3, <1>4 DEF PlannedOK

LEMMA PlanStreamsStep ==
  ASSUME GraphOK, NEW policy \in SchedulePolicy, NEW k \in Nat,
         PlanStreams(policy, k), stage' # "build", stage = "build"
  PROVE  PlannedOK' /\ schedule' = policy
<1>1. /\ plan_streams_status(k) = "kOk" /\ sa' = plan_streams(policy, k)
      /\ clock' = Unknown' /\ pos' = 0 /\ schedule' = policy
      /\ UNCHANGED <<tensors, nodes, finalized>>
  BY DEF PlanStreams
<1>2. policy \in SchedulePolicy /\ k \in Nat
  BY PlanningAssumption
<1> DEFINE s == sa'
<1>3. s = plan_streams(policy, k)
  BY <1>1
<1> HIDE DEF s
<1>4. /\ finalized /\ LiveOK(s.nodes) /\ WellPlanned(s, Len(s.nodes))
      /\ policy # "kLevelParallel" => CoversPreds(s)
      /\ policy = "kLevelParallel" => CoversLevels(s)
  BY <1>1, <1>2, <1>3, PlannedSchedule
<1>5. WellPlanned(sa, Len(sa.nodes))'
  BY <1>4 DEF s, WellPlanned
<1>6. HBInit'
  BY <1>1, <1>5, PlannedIsValidNext DEF HBInit
<1>7. ClockInv'
  BY <1>6, ClocksStartNext
<1>8. LiveOK(sa.nodes)'
  BY <1>1, <1>4 DEF s, LiveOK, NodeId
<1>9. \A live, i : LivePreds(live, i)' = LivePreds(live, i)
  BY <1>1 DEF LivePreds, SchedOf
<1>10. \A live, i : DepthOf(live, i)' = DepthOf(live, i)
  BY <1>1 DEF DepthOf
<1>11. \A live, d : Level(live, d)' = Level(live, d)
  BY <1>10 DEF Level
<1>12. \A live, d : LevelBefore(live, d)' = LevelBefore(live, d)
  BY <1>10, <1>11 DEF LevelBefore
<1>13. policy # "kLevelParallel" => CoversPreds(sa)'
  BY <1>4, <1>9 DEF s, CoversPreds, Covers
<1>14. policy = "kLevelParallel" => CoversLevels(sa)'
  BY <1>4, <1>10, <1>12 DEF s, CoversLevels, Covers
<1> QED
  BY <1>1, <1>4, <1>5, <1>7, <1>8, <1>13, <1>14 DEF PlannedOK

LEMMA PlanInvInit == PlanInit => PlanInv
<1> SUFFICES ASSUME PlanInit PROVE PlanInv
  OBVIOUS
<1>1. PackInv
  BY PackInit
<1> QED
  BY <1>1 DEF PlanInit, PlanInv, SchedulePolicy

LEMMA PlanInvNext == PlanInv /\ [AnyPlan]_planVars => PlanInv'
<1> SUFFICES ASSUME PlanInv, [AnyPlan]_planVars PROVE PlanInv'
  OBVIOUS
<1>0. PackInv'
  BY PackNext DEF PlanInv
<1>1. CASE UNCHANGED planVars
  <2>1. UNCHANGED <<tensors, nodes, finalized, sa, clock, pos, mp, stage, schedule>>
    BY <1>1 DEF planVars, graphVars, hbVars
  <2>2. stage # "build" => PlannedOK'
    BY <2>1, OrderStep DEF PlanInv, hbVars
  <2>3. built' = built
    BY <2>1 DEF built
  <2> QED
    BY <1>0, <2>1, <2>2, <2>3 DEF PlanInv
<1>2. CASE Build
  <2>1. stage = "build" /\ UNCHANGED <<hbVars, mp, stage, schedule>>
    BY <1>2 DEF Build
  <2> QED
    BY <1>0, <2>1 DEF PlanInv, hbVars
<1>3. CASE \E policy \in SchedulePolicy, k \in Nat : PlanStreams(policy, k)
  <2>1. PICK policy \in SchedulePolicy, k \in Nat : PlanStreams(policy, k)
    BY <1>3
  <2>2. stage = "build" /\ mp' = mp /\ mp = NoMemory /\ GraphOK
    BY <2>1 DEF PlanStreams, PlanInv, PackInv
  <2>3. CASE UNCHANGED <<hbVars, stage, schedule>>
    BY <1>0, <2>2, <2>3 DEF PlanInv, hbVars
  <2>4. CASE stage' = "order"
    <3>1. PlannedOK' /\ schedule' = policy
      BY <2>1, <2>2, <2>4, PlanStreamsStep
    <3>2. policy \in SchedulePolicy
      BY PlanningAssumption
    <3> QED
      BY <1>0, <2>2, <2>4, <3>1, <3>2 DEF PlanInv
  <2> QED
    BY <2>1, <2>3, <2>4 DEF PlanStreams
<1>4. CASE OrderNode
  <2>1. /\ stage = "order" /\ Absorb /\ UNCHANGED <<tensors, nodes, finalized, mp, stage, schedule>>
    BY <1>4 DEF OrderNode, graphVars
  <2>2. PlannedOK'
    BY <2>1, OrderStep DEF PlanInv
  <2> QED
    BY <1>0, <2>1, <2>2 DEF PlanInv
<1>5. CASE \E policy \in MemoryPolicy : PlanMemory(policy)
  <2>1. /\ stage = "order" /\ built /\ stage' = "memory"
        /\ UNCHANGED <<tensors, nodes, finalized, sa, clock, pos, schedule>>
    BY <1>5 DEF PlanMemory, graphVars, hbVars
  <2>2. PlannedOK' /\ built'
    BY <2>1, OrderStep DEF PlanInv, hbVars, built
  <2> QED
    BY <1>0, <2>1, <2>2 DEF PlanInv
<1>6. CASE PackTensor
  <2>1. /\ stage = "memory" /\ stage' \in {"memory", "planned"}
        /\ UNCHANGED <<tensors, nodes, finalized, sa, clock, pos, schedule>>
    BY <1>6 DEF PackTensor, graphVars, hbVars
  <2>2. PlannedOK' /\ built'
    BY <2>1, OrderStep DEF PlanInv, hbVars, built
  <2> QED
    BY <1>0, <2>1, <2>2 DEF PlanInv
<1>7. CASE Discard
  BY <1>0, <1>7 DEF Discard, PlanInv, SchedulePolicy
<1> QED
  BY <1>1, <1>2, <1>3, <1>4, <1>5, <1>6, <1>7 DEF AnyPlan

(* The facts of a schedule whose clocks are built.                         *)
LEMMA ScheduleBuilt ==
  ASSUME PlanInv, stage # "build", built
  PROVE  AllBuilt /\ GraphOK /\ finalized /\ LiveOK(sa.nodes) /\ verify_plan_ordering
<1>1. PlannedOK /\ GraphOK
  BY DEF PlanInv, PackInv
<1>2. AllBuilt
  BY <1>1 DEF AllBuilt, PlannedOK
<1>3. verify_plan_ordering
  BY <1>1, <1>2, PredsPrecede, LevelPredsPrecede DEF PlannedOK
<1> QED
  BY <1>1, <1>2, <1>3 DEF PlannedOK

LEMMA InvOrdered == PlanInv => DependenciesOrdered
BY ScheduleBuilt DEF DependenciesOrdered

LEMMA InvLevels == PlanInv => LevelsAreBarriers
<1> SUFFICES ASSUME PlanInv, stage = "order", built, schedule = "kLevelParallel",
                    NEW u \in Scheduled, NEW v \in Scheduled,
                    nodes[sa.nodes[u]].depth < nodes[sa.nodes[v]].depth
             PROVE  precedes(u, v)
  BY DEF LevelsAreBarriers
<1>1. PlannedOK /\ AllBuilt /\ GraphOK
  BY ScheduleBuilt DEF PlanInv
<1> QED
  BY <1>1, LevelsPrecede DEF PlannedOK, DepthOf

LEMMA InvPlanTypeOK == PlanInv => PlanTypeOK
<1> SUFFICES ASSUME PlanInv PROVE PlanTypeOK
  OBVIOUS
<1>1. GraphOK
  BY DEF PlanInv, PackInv
<1>2. ASSUME NEW t \in TensorId
      PROVE  /\ ValidShape(tensors[t].shape)
             /\ tensors[t].producer \in {kInvalidNode} \cup NodeId
             /\ tensors[t].input <=> tensors[t].producer = kInvalidNode
             /\ tensors[t].consumers \subseteq NodeId
  <2>1. tensors[t].shape \in Shape /\ TensorOK(t)
    BY <1>1, <1>2, GraphFacts DEF GraphOK, TensorRecord
  <2>2. ValidShape(tensors[t].shape)
    <3> DEFINE shape == tensors[t].shape
    <3>1. /\ Len(shape) \in Nat \ {0} /\ DOMAIN shape = 1 .. Len(shape)
          /\ \A i \in 1 .. Len(shape) : shape[i] \in Nat \ {0}
      <4>1. shape \in Shape /\ shape \in Seq(Nat)
        BY <2>1, ShapesAreSequences
      <4> HIDE DEF shape
      <4> QED
        BY <4>1, SizesAreNat, LenProperties
    <3> HIDE DEF shape
    <3>2. ValidShape(shape)
      BY <3>1 DEF ValidShape, rank
    <3> QED
      BY <3>2 DEF shape
  <2>3. tensors[t].producer \in 0 .. Len(nodes) /\ NodeId = 1 .. Len(nodes) /\ Len(nodes) \in Nat
    BY <1>1, <2>1 DEF TensorOK, GraphOK
  <2> QED
    BY <2>1, <2>2, <2>3 DEF TensorOK, kInvalidNode
<1>3. \A n \in NodeId : InputsOf(n) \subseteq TensorId /\ nodes[n].output \in TensorId
  BY <1>1 DEF GraphOK, NodeOK
<1>4. /\ sa.stream \in Seq(Nat) /\ pos \in 0 .. Len(sa.order)
      /\ clock \in [Scheduled -> [Stream -> -1 .. Len(sa.stream)]]
  <2>1. CASE stage = "build"
    <3>1. sa.stream = <<>> /\ sa.order = <<>> /\ clock = <<>> /\ pos = 0
      BY <2>1 DEF PlanInv, NoSchedule
    <3>2. Scheduled = {} /\ <<>> \in Seq(Nat) /\ Len(<<>>) = 0
      BY <3>1 DEF Scheduled
    <3> QED
      BY <3>1, <3>2
  <2>2. CASE stage # "build"
    <3>1. WellPlanned(sa, Len(sa.nodes)) /\ ClockType
      BY <2>2 DEF PlanInv, PlannedOK, ClockInv
    <3>2. Len(sa.nodes) \in Nat /\ Len(sa.stream) = Len(sa.nodes)
      BY <3>1, PlannedIsValid
    <3>3. Len(sa.order) = Len(sa.nodes)
      <4> DEFINE n == Len(sa.nodes)
      <4>1. sa.order = [i \in 1 .. n |-> i] /\ n \in Nat
        BY <3>1, <3>2 DEF WellPlanned
      <4> HIDE DEF n
      <4>2. Len(sa.order) = n
        BY <4>1
      <4> QED
        BY <4>2 DEF n
    <3> QED
      BY <3>1, <3>2, <3>3 DEF ClockType, ScheduleType
  <2> QED
    BY <2>1, <2>2
<1>5. Placed \subseteq TensorId
  <2>1. CASE stage \in {"build", "order"}
    BY <2>1 DEF PlanInv, NoMemory, Placed
  <2>2. CASE stage \in {"memory", "planned"}
    BY <2>2 DEF PlanInv, PackInv, Packed, NeedsBytes
  <2> QED
    BY <2>1, <2>2 DEF PlanInv
<1> QED
  BY <1>2, <1>3, <1>4, <1>5 DEF PlanInv, PlanTypeOK

LEMMA InvTopological == PlanInv => TopologicalOrderIsByDepth
<1> SUFFICES ASSUME PlanInv, finalized
             PROVE  LET order == topological_order
                    IN  /\ Range(order) = NodeId /\ Len(order) = Len(nodes)
                        /\ \A i, j \in DOMAIN order : i < j =>
                             /\ order[j] \notin nodes[order[i]].preds
                             /\ nodes[order[i]].depth <= nodes[order[j]].depth
  BY DEF TopologicalOrderIsByDepth
<1> DEFINE order == topological_order
           N == Len(nodes)
           d == [n \in NodeId |-> nodes[n].depth]
           pred == [n \in NodeId |-> Preds(n)]
<1>1. GraphOK
  BY DEF PlanInv, PackInv
<1>2. N \in Nat /\ NodeId = 1 .. N /\ \A n \in 1 .. N : nodes[n].preds = Preds(n)
  BY <1>1, DepthFacts DEF GraphOK
<1>3. Topological(order, pred, N, d)
  BY <1>1, OrderFacts
<1>4. \A n \in 1 .. N : d[n] = nodes[n].depth /\ pred[n] = nodes[n].preds
  BY <1>2
<1> HIDE DEF order, N, d, pred
<1>5. order \in Seq(1 .. N) /\ Len(order) = N /\ DOMAIN order = 1 .. N
  BY <1>3, LenProperties DEF Topological
<1>6. \A i \in 1 .. N : order[i] \in 1 .. N
  BY <1>5, ElementOfSeq
<1>7. Range(order) = 1 .. N
  BY <1>3, <1>5, <1>6 DEF Topological, Range
<1>8. ASSUME NEW i \in 1 .. N, NEW j \in 1 .. N, i < j
      PROVE  /\ order[j] \notin nodes[order[i]].preds
             /\ nodes[order[i]].depth <= nodes[order[j]].depth
  <2>1. d[order[i]] <= d[order[j]]
    BY <1>3, <1>8 DEF Topological
  <2>2. ASSUME order[j] \in pred[order[i]] PROVE FALSE
    <3>1. PICK b \in 1 .. i - 1 : order[b] = order[j]
      BY <1>3, <2>2 DEF Topological
    <3>2. b \in 1 .. N /\ b < j
      BY <1>2, <1>8, <3>1
    <3> QED
      BY <1>3, <3>1, <3>2 DEF Topological
  <2> QED
    BY <1>4, <1>6, <2>1, <2>2
<1> QED
  BY <1>2, <1>5, <1>7, <1>8 DEF order, N

LEMMA InvNeeded == PlanInv => ScheduleIsWhatOutputsNeed
<1> DEFINE live == Range(sa.nodes)
           made == {tensors[t].producer : t \in {u \in TensorId : tensors[u].output}} \ {kInvalidNode}
           Closed(S) == made \subseteq S /\ \A n \in S : nodes[n].preds \subseteq S
<1> SUFFICES ASSUME PlanInv, stage = "order"
             PROVE  Closed(live) /\ \A S \in SUBSET NodeId : Closed(S) => live \subseteq S
  BY DEF ScheduleIsWhatOutputsNeed, Scheduling
<1>1. GraphOK /\ finalized /\ LiveOK(sa.nodes) /\ DerivedOK
  BY DEF PlanInv, PackInv, PlannedOK, GraphOK
<1>2. Len(nodes) \in Nat /\ NodeId = 1 .. Len(nodes)
  BY <1>1 DEF GraphOK
<1>3. live \subseteq NodeId /\ \A n \in NodeId : n \in live <=> ~nodes[n].dead
  BY <1>1 DEF LiveOK, Range
<1>4. ASSUME NEW t \in TensorId, tensors[t].output, tensors[t].producer # kInvalidNode
      PROVE  tensors[t].producer \in live
  <2> DEFINE p == tensors[t].producer
  <2>1. TensorOK(t)
    BY <1>1 DEF GraphOK
  <2>2. p \in NodeId /\ nodes[p].output = t
    BY <1>2, <1>4, <2>1 DEF TensorOK, kInvalidNode
  <2>3. ~nodes[p].dead
    BY <1>1, <1>4, <2>2 DEF DerivedOK
  <2> QED
    BY <1>3, <2>2, <2>3
<1>5. ASSUME NEW n \in live, NEW p \in nodes[n].preds
      PROVE  p \in live
  <2>1. n \in NodeId /\ ~nodes[n].dead /\ p \in Preds(n)
    BY <1>1, <1>3, <1>5 DEF DerivedOK
  <2>2. p \in NodeId /\ n \in Succs(p)
    BY <1>1, <2>1, EdgesAscend DEF Succs
  <2>3. ~nodes[p].dead
    BY <1>1, <2>1, <2>2 DEF DerivedOK
  <2> QED
    BY <1>3, <2>2, <2>3
<1>6. ASSUME NEW S \in SUBSET NodeId, Closed(S)
      PROVE  live \subseteq S
  <2> DEFINE Missing == live \ S
  <2> SUFFICES ASSUME Missing # {} PROVE FALSE
    OBVIOUS
  <2>1. PICK n \in Missing : \A m \in Missing : m <= n
    <3>1. Missing \in SUBSET Int /\ Len(nodes) \in Int /\ \A x \in Missing : x <= Len(nodes)
      BY <1>2, <1>3
    <3> HIDE DEF Missing
    <3>2. Max(Missing) \in Missing /\ \A x \in Missing : x <= Max(Missing)
      BY <3>1, MaxIsMaximum
    <3> QED
      BY <3>2
  <2>2. n \in NodeId /\ ~nodes[n].dead /\ n \notin S
    BY <1>3
  <2>3. CASE tensors[nodes[n].output].output
    <3>1. nodes[n].output \in TensorId /\ tensors[nodes[n].output].producer = n
      BY <1>1, <2>2 DEF GraphOK, NodeOK
    <3>2. n # kInvalidNode
      BY <1>2, <2>2 DEF kInvalidNode
    <3>3. n \in made
      BY <2>3, <3>1, <3>2
    <3> QED
      BY <1>6, <2>2, <3>3
  <2>4. CASE \E s \in Succs(n) : ~nodes[s].dead
    <3>1. PICK s \in Succs(n) : ~nodes[s].dead
      BY <2>4
    <3>2. s \in n + 1 .. Len(nodes) /\ s \in NodeId /\ n \in Preds(s)
      BY <1>1, <2>2, EdgesAscend DEF Succs
    <3>3. ~(s <= n)
      BY <1>2, <2>2, <3>2
    <3>4. s \in live /\ s \notin Missing
      BY <1>3, <2>1, <3>1, <3>2, <3>3
    <3>5. s \in S /\ n \in nodes[s].preds
      BY <1>1, <3>2, <3>4 DEF DerivedOK
    <3> QED
      BY <1>6, <2>2, <3>5
  <2> QED
    BY <1>1, <2>2, <2>3, <2>4 DEF DerivedOK
<1> QED
  BY <1>4, <1>5, <1>6

LEMMA InvWellFormed == PlanInv => PlanIsWellFormed
<1>1. PlanInv => ScheduleIsValid
  BY PlannedIsValid DEF PlanInv, PlannedOK, ScheduleIsValid, Scheduling
<1> QED
  BY <1>1, InvPlanTypeOK, InvTopological, InvNeeded DEF PlanIsWellFormed

-----------------------------------------------------------------------------
(* Reuse, once the clocks are built.                                       *)

LEMMA AccessFacts ==
  ASSUME PlanInv, stage # "build", NEW t \in TensorId
  PROVE  /\ Scheduled = 1 .. Len(sa.nodes) /\ Len(sa.nodes) \in Nat
         /\ DOMAIN sa.nodes = 1 .. Len(sa.nodes)
         /\ Producer(t) = {i \in Scheduled : sa.nodes[i] = tensors[t].producer}
         /\ Accesses(t) \subseteq Scheduled
         /\ \A i, j \in Producer(t) : i = j
<1>1. WellPlanned(sa, Len(sa.nodes)) /\ LiveOK(sa.nodes)
  BY DEF PlanInv, PlannedOK
<1>2. Scheduled = 1 .. Len(sa.nodes) /\ Len(sa.nodes) \in Nat /\ DOMAIN sa.nodes = 1 .. Len(sa.nodes)
  BY <1>1, PlannedIsValid DEF LiveOK
<1>3. Producer(t) = {i \in Scheduled : sa.nodes[i] = tensors[t].producer}
  BY <1>2 DEF Producer, SchedOf
<1>4. Accesses(t) \subseteq Scheduled
  BY <1>2 DEF Accesses, Producer, SchedOf
<1>5. \A i, j \in Producer(t) : i = j
  <2> SUFFICES ASSUME NEW i \in Producer(t), NEW j \in Producer(t) PROVE i = j
    OBVIOUS
  <2>1. i \in 1 .. Len(sa.nodes) /\ j \in 1 .. Len(sa.nodes) /\ sa.nodes[i] = sa.nodes[j]
    BY <1>2, <1>3
  <2>2. ~(i < j) /\ ~(j < i)
    BY <1>1, <2>1 DEF LiveOK
  <2> QED
    BY <2>1, <2>2
<1> QED
  BY <1>2, <1>3, <1>4, <1>5

(* Who precedes comes first; on one stream, and then it is all that counts.*)
LEMMA PrecedesFacts ==
  ASSUME PlanInv, stage # "build", built, NEW x \in Scheduled, NEW p \in Scheduled
  PROVE  /\ precedes(x, p) => x < p
         /\ sa.streams = 1 /\ x < p => precedes(x, p)
         /\ \A y \in Scheduled : precedes(x, p) /\ precedes(p, y) => precedes(x, y)
<1>1. AllBuilt
  BY ScheduleBuilt
<1>2. Scheduled = 1 .. Len(sa.nodes) /\ Len(sa.nodes) \in Nat
  BY <1>1, BuiltFacts
<1>3. \A u, v \in Scheduled : precedes(u, v) => u < v
  <2> SUFFICES ASSUME NEW u \in Scheduled, NEW v \in Scheduled, precedes(u, v) PROVE u < v
    OBVIOUS
  <2>1. u # v /\ Known(v, u)
    BY DEF precedes, Known
  <2>2. u <= v
    BY <1>1, <2>1, BuiltFacts
  <2> QED
    BY <1>2, <2>1, <2>2
<1>4. ASSUME sa.streams = 1, x < p PROVE precedes(x, p)
  <2>1. sa.stream[x] \in 0 .. sa.streams - 1 /\ sa.stream[p] \in 0 .. sa.streams - 1
    BY <1>2 DEF PlanInv, PlannedOK, WellPlanned
  <2>2. sa.stream[x] = sa.stream[p]
    BY <1>4, <2>1
  <2> QED
    BY <1>1, <1>4, <2>2, CoveredIsKnown DEF Covers
<1>5. ASSUME NEW y \in Scheduled, precedes(x, p), precedes(p, y) PROVE precedes(x, y)
  <2>1. x < p /\ p < y
    BY <1>3, <1>5
  <2>2. Known(p, x) /\ Known(y, p)
    BY <1>5 DEF precedes, Known
  <2>3. Known(y, x)
    BY <1>1, <2>2, KnownIsTransitive
  <2>4. x # y
    BY <1>2, <2>1
  <2> QED
    BY <2>3, <2>4 DEF precedes, Known
<1> QED
  BY <1>3, <1>4, <1>5

(* A reader of a tensor comes after its producer.                          *)
LEMMA ConsumersFollow ==
  ASSUME PlanInv, stage # "build", built, NEW b \in TensorId, NEW p \in Producer(b),
         NEW c \in tensors[b].consumers, NEW y \in SchedOf(sa.nodes, c)
  PROVE  precedes(p, y) /\ y \in Scheduled
<1>1. GraphOK /\ finalized /\ LiveOK(sa.nodes) /\ verify_plan_ordering
  BY ScheduleBuilt
<1>2. p \in Scheduled /\ sa.nodes[p] = tensors[b].producer
  BY AccessFacts
<1>3. y \in Scheduled /\ sa.nodes[y] = c
  BY AccessFacts DEF SchedOf
<1>4. c \in NodeId /\ b \in InputsOf(c)
  BY <1>1 DEF GraphOK, DerivedOK, Consumers
<1>5. sa.nodes[p] \in NodeId /\ NodeId = 1 .. Len(nodes)
  BY <1>1, <1>2, AccessFacts DEF LiveOK, GraphOK
<1>6. tensors[b].producer \in Preds(c)
  BY <1>2, <1>4, <1>5 DEF Preds, kInvalidNode
<1>7. tensors[b].producer \in nodes[sa.nodes[y]].preds
  BY <1>1, <1>3, <1>4, <1>6, DepthFacts
<1>8. PICK j \in SchedOf(sa.nodes, tensors[b].producer) : precedes(j, y)
  BY <1>1, <1>3, <1>7 DEF verify_plan_ordering
<1>9. j \in Producer(b)
  BY DEF Producer
<1>10. j = p
  BY <1>9, AccessFacts
<1> QED
  BY <1>3, <1>8, <1>10

(* Who precedes the producer of a tensor precedes its readers.             *)
LEMMA ProducerComesFirst ==
  ASSUME PlanInv, stage # "build", built, NEW a \in TensorId, NEW b \in TensorId,
         AllPrecede(a, b)
  PROVE  AllBefore(a, b)
<1>1. GraphOK /\ finalized /\ LiveOK(sa.nodes) /\ verify_plan_ordering
  BY ScheduleBuilt
<1>2. PICK p \in Producer(b) : \A x \in Accesses(a) : precedes(x, p)
  BY DEF AllPrecede
<1>3. p \in Scheduled /\ sa.nodes[p] = tensors[b].producer
  BY <1>2, AccessFacts
<1>4. ASSUME NEW y \in Accesses(b) PROVE y = p \/ precedes(p, y)
  <2>1. CASE y \in Producer(b)
    BY <1>2, <2>1, AccessFacts
  <2>2. CASE \E c \in tensors[b].consumers : y \in SchedOf(sa.nodes, c)
    BY <1>1, <1>2, <2>2, ConsumersFollow
  <2> QED
    BY <1>4, <2>1, <2>2 DEF Accesses
<1> SUFFICES ASSUME NEW x \in Accesses(a), NEW y \in Accesses(b) PROVE precedes(x, y)
  BY DEF AllBefore
<1>5. precedes(x, p) /\ x \in Scheduled /\ y \in Scheduled
  BY <1>2, AccessFacts
<1>6. CASE y = p
  BY <1>5, <1>6
<1>7. CASE precedes(p, y)
  BY <1>3, <1>5, <1>7, PrecedesFacts
<1> QED
  BY <1>4, <1>6, <1>7

LEMMA SharingIsSafe ==
  ASSUME PlanInv, stage = "planned", mp.policy # "kReuseTopoNaive" \/ sa.streams = 1,
         NEW a \in TensorId, NEW b \in TensorId, can_share(mp.policy, a, b)
  PROVE  AllPrecede(a, b) /\ AllBefore(a, b) /\ reusable(a) /\ reusable(b)
<1>1. built
  BY DEF PlanInv
<1>2. mp.policy \in MemoryPolicy
  BY DEF PlanInv, PackInv, Packed
<1>3. PICK p \in Producer(b) : \A x \in Accesses(a) : Before(mp.policy, x, p)
  BY DEF can_share
<1>4. p \in Scheduled /\ Accesses(a) \subseteq Scheduled
  BY <1>3, AccessFacts
<1>5. \A x \in Accesses(a) : precedes(x, p)
  <2> SUFFICES ASSUME NEW x \in Accesses(a) PROVE precedes(x, p)
    OBVIOUS
  <2>1. Before(mp.policy, x, p)
    BY <1>3
  <2>2. CASE mp.policy = "kReuseTopoNaive"
    <3>1. x < p /\ sa.streams = 1
      BY <2>1, <2>2 DEF Before
    <3> QED
      BY <1>1, <1>4, <3>1, PrecedesFacts
  <2>3. CASE mp.policy # "kReuseTopoNaive"
    BY <1>2, <2>1, <2>3 DEF Before, MemoryPolicy
  <2> QED
    BY <2>2, <2>3
<1>6. AllPrecede(a, b)
  BY <1>3, <1>5 DEF can_share, AllPrecede
<1> QED
  BY <1>1, <1>6, ProducerComesFirst DEF can_share

LEMMA InvRaceFree == PlanInv => ArenaIsRaceFree
<1> SUFFICES ASSUME PlanInv, stage = "planned", mp.policy # "kReuseTopoNaive" \/ sa.streams = 1
             PROVE  /\ SharersAreOrdered
                    /\ \A a, b \in Placed : a # b /\ SharesBytes(a, b) =>
                         AllBefore(a, b) \/ AllBefore(b, a)
  BY DEF ArenaIsRaceFree
<1>1. Placed \subseteq TensorId /\ TensorId \subseteq Nat
  BY SizesOfTensors DEF PlanInv, PackInv, Packed, NeedsBytes
<1>2. ASSUME NEW a \in Placed, NEW b \in Placed, a # b, SharesBytes(a, b)
      PROVE  /\ AllPrecede(a, b) \/ AllPrecede(b, a)
             /\ AllBefore(a, b) \/ AllBefore(b, a)
             /\ reusable(a) /\ reusable(b)
  <2>1. can_share(mp.policy, a, b) \/ can_share(mp.policy, b, a)
    BY <1>2 DEF PlanInv, PackInv, Packed, SharersMayShare
  <2> QED
    BY <1>1, <2>1, SharingIsSafe
<1>3. \A a, b \in Placed : a < b => a # b
  BY <1>1
<1>4. SharersAreOrdered
  BY <1>2, <1>3 DEF SharersAreOrdered, verify_no_buffer_races
<1> QED
  BY <1>2, <1>4

(* The live range of an intermediate that a scheduled node produces: from  *)
(* that node to the last that reads it.                                    *)
LEMMA LiveRangeFacts ==
  ASSUME PlanInv, stage # "build", NEW t \in NeedsBytes, reusable(t)
  PROVE  LET live == compute_live_ranges(sa.nodes)
         IN  /\ Producer(t) = {live[t].def} /\ live[t].def \in Scheduled
             /\ live[t].last \in Accesses(t) /\ \A x \in Accesses(t) : x <= live[t].last
<1> DEFINE order == sa.nodes
           def == Max({0} \cup PositionsOf(order, {tensors[t].producer}))
           S == {def} \cup PositionsOf(order, tensors[t].consumers)
<1>1. t \in TensorId /\ ~tensors[t].input /\ ~tensors[t].output /\ Producer(t) # {}
  BY DEF NeedsBytes, reusable
<1>2. /\ Scheduled = 1 .. Len(order) /\ Len(order) \in Nat /\ DOMAIN order = 1 .. Len(order)
      /\ Producer(t) = {i \in Scheduled : order[i] = tensors[t].producer}
      /\ \A i, j \in Producer(t) : i = j
      /\ Accesses(t) \subseteq Scheduled
  BY <1>1, AccessFacts
<1>3. PICK p \in Producer(t) : TRUE
  BY <1>1
<1>4. Producer(t) = {p} /\ p \in 1 .. Len(order)
  BY <1>2, <1>3
<1>5. PositionsOf(order, {tensors[t].producer}) = {p}
  BY <1>2, <1>4 DEF PositionsOf
<1>6. def = p
  <2> DEFINE D == {0} \cup PositionsOf(order, {tensors[t].producer})
  <2>0. D = {0, p}
    BY <1>5
  <2> HIDE DEF D, order
  <2>5. p \in Nat /\ p > 0
    BY <1>2, <1>4
  <2>1. D = {0, p} /\ p \in Nat /\ p > 0
    BY <2>0, <2>5
  <2>2. D \in SUBSET Int /\ D # {} /\ p \in Int /\ \A x \in D : x <= p
    BY <2>1
  <2>3. Max(D) \in D /\ \A x \in D : x <= Max(D)
    BY <2>2, MaxIsMaximum
  <2>4. Max(D) = p
    BY <2>1, <2>3
  <2> QED
    BY <2>4 DEF D
<1>7. compute_live_ranges(order)[t] = [def |-> def, last |-> Max(S)]
  BY <1>1 DEF compute_live_ranges
<1>8. S = Accesses(t)
  <2>1. PositionsOf(order, tensors[t].consumers) = UNION {SchedOf(order, c) : c \in tensors[t].consumers}
    BY DEF PositionsOf, SchedOf
  <2> QED
    BY <1>4, <1>6, <2>1 DEF Accesses
<1> HIDE DEF def, S
<1>9. Max(S) \in S /\ \A x \in S : x <= Max(S)
  <2>1. S \in SUBSET Int /\ S # {} /\ Len(order) \in Int /\ \A x \in S : x <= Len(order)
    <3>1. \A x \in Accesses(t) : x \in 1 .. Len(order)
      BY <1>2
    <3>2. p \in Accesses(t)
      BY <1>3 DEF Accesses
    <3> QED
      BY <1>2, <1>8, <3>1, <3>2
  <2> QED
    BY <2>1, MaxIsMaximum
<1> QED
  BY <1>2, <1>4, <1>6, <1>7, <1>8, <1>9

LEMMA InvIntervals == PlanInv => OneStreamReuseIsIntervals
<1> DEFINE live == compute_live_ranges(sa.nodes)
<1> SUFFICES ASSUME PlanInv, stage = "memory", sa.streams = 1,
                    NEW a \in NeedsBytes, NEW b \in NeedsBytes, a # b
             PROVE  /\ can_share("kReuseHappensBefore", a, b) <=> can_share("kReuseTopoNaive", a, b)
                    /\ can_share("kReuseHappensBefore", a, b) <=>
                         reusable(a) /\ reusable(b) /\ live[a].last < live[b].def
  BY DEF OneStreamReuseIsIntervals
<1>1. built /\ a \in TensorId /\ b \in TensorId
  BY DEF PlanInv, NeedsBytes
<1>2. Accesses(a) \subseteq Scheduled /\ Producer(b) \subseteq Scheduled
  BY <1>1, AccessFacts
<1>3. \A x \in Accesses(a), p \in Producer(b) : precedes(x, p) <=> x < p
  BY <1>1, <1>2, PrecedesFacts
<1>4. \A x \in Accesses(a), p \in Producer(b) :
        /\ Before("kReuseHappensBefore", x, p) <=> x < p
        /\ Before("kReuseTopoNaive", x, p) <=> x < p
  BY <1>3 DEF Before
<1>5. /\ can_share("kReuseHappensBefore", a, b) <=>
           reusable(a) /\ reusable(b) /\ Accesses(a) # {}
             /\ \E p \in Producer(b) : \A x \in Accesses(a) : x < p
      /\ can_share("kReuseTopoNaive", a, b) <=>
           reusable(a) /\ reusable(b) /\ Accesses(a) # {}
             /\ \E p \in Producer(b) : \A x \in Accesses(a) : x < p
  BY <1>4 DEF can_share
<1>6. ASSUME reusable(a), reusable(b)
      PROVE  Accesses(a) # {} /\ (\E p \in Producer(b) : \A x \in Accesses(a) : x < p)
               <=> live[a].last < live[b].def
  <2> DEFINE last == live[a].last
             def == live[b].def
  <2>1. last \in Accesses(a) /\ \A x \in Accesses(a) : x <= last
    BY <1>6, LiveRangeFacts
  <2>2. Producer(b) = {def} /\ def \in Scheduled
    BY <1>6, LiveRangeFacts
  <2>3. Scheduled = 1 .. Len(sa.nodes) /\ Len(sa.nodes) \in Nat
    BY <1>1, AccessFacts
  <2> HIDE DEF last, def
  <2>4. last \in Nat /\ def \in Nat /\ \A x \in Accesses(a) : x \in Nat
    BY <1>2, <2>1, <2>2, <2>3
  <2>5. (\E p \in Producer(b) : \A x \in Accesses(a) : x < p) <=> last < def
    BY <2>1, <2>2, <2>4
  <2> QED
    BY <2>1, <2>5 DEF last, def
<1> HIDE DEF live
<1> QED
  BY <1>5, <1>6

-----------------------------------------------------------------------------

LEMMA PlanInvAlways == PlanSpec => []PlanInv
<1>1. PlanInv /\ [PlanNext]_planVars => PlanInv'
  BY PlanInvNext, PlanNextIsAny
<1> QED
  BY <1>1, PlanInvInit, PTL DEF PlanSpec

(* The clocks read before the first schedule, between plans and while they *)
(* are being built.                                                        *)
LEMMA InvClocks == PlanInv => ClocksAreReachability
<1> SUFFICES ASSUME PlanInv PROVE ClocksAreReachability
  OBVIOUS
<1>1. CASE stage = "build"
  <2>1. Scheduled = {}
    BY <1>1 DEF PlanInv, Scheduled, NoSchedule
  <2> QED
    BY <2>1 DEF ClocksAreReachability
<1>2. CASE stage # "build"
  BY <1>2, ClockInvIsExact DEF PlanInv, PlannedOK
<1> QED
  BY <1>1, <1>2

(* Whatever graph was built, plan_streams returns under every policy and   *)
(* number of streams a schedule HappensBefore::build accepts, of exactly   *)
(* the nodes the outputs need, in an order every node of which comes after *)
(* its predecessors.                                                       *)
THEOREM PlansAreWellFormed == PlanSpec => []PlanIsWellFormed
BY PlanInvAlways, InvWellFormed, PTL

(* The waits that plan_streams leaves out were implied: once the clocks    *)
(* are built, every data dependency is ordered by the streams and the      *)
(* events that remain.                                                     *)
THEOREM DependenciesAreOrdered == PlanSpec => []DependenciesOrdered
BY PlanInvAlways, InvOrdered, PTL

(* In a kLevelParallel plan every node of a level happens before every     *)
(* node of every later level, though a wait is issued only where the       *)
(* scheduler's own clocks do not cover it.                                 *)
THEOREM BarriersAreTotal == PlanSpec => []LevelsAreBarriers
BY PlanInvAlways, InvLevels, PTL

(* The happens-before relation the planner asks is reachability in the     *)
(* schedule that plan_streams returned.                                    *)
THEOREM PlannedClocksAreExact == PlanSpec => []ClocksAreReachability
BY PlanInvAlways, InvClocks, PTL

(* Two tensors whose bytes overlap in the arena are never in use at the    *)
(* same time on the device: every access of one happens before every       *)
(* access of the other, under every policy that asks the happens-before    *)
(* relation, and under the naive one too when one stream runs everything.  *)
THEOREM ArenaReuseIsRaceFree == PlanSpec => []ArenaIsRaceFree
BY PlanInvAlways, InvRaceFree, PTL

(* On one stream, asking the happens-before relation, comparing positions  *)
(* and comparing live ranges allow the same reuse.                         *)
THEOREM OneStreamReuseAgrees == PlanSpec => []OneStreamReuseIsIntervals
BY PlanInvAlways, InvIntervals, PTL
=============================================================================
