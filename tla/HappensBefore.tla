--------------------------- MODULE HappensBefore ---------------------------
(***************************************************************************)
(* The happens-before relation of a schedule: src/graph/happens_before.cpp *)
(* builds one vector clock per scheduled node, in a single walk over the   *)
(* schedule's order, one node a step.                                      *)
(*                                                                         *)
(* A schedule is a record of per-node arrays, indexed by the scheduled     *)
(* nodes 1, 2, ...: stream, issue (position on the stream, from 0), record *)
(* (the event recorded after the node, or kNoEventId), waits (the set of   *)
(* events waited for before it), and order, the walk.                      *)
(***************************************************************************)
EXTENDS Integers, Sequences, FiniteSetsExt

VARIABLES
  sa,     (* the StreamAssignment                                           *)
  clock,  (* clock_: for each node and stream the last issue known before   *)
  pos     (* how many nodes of sa.order the walk has passed                 *)

hbVars == <<sa, clock, pos>>

kNoEventId == -1

Scheduled == DOMAIN sa.stream
Stream == 0 .. sa.streams - 1

(* What build refuses, and what it relies on: the order is a permutation   *)
(* and a linear extension of the edges.                                    *)
Valid ==
  /\ sa.streams > 0
  /\ \A i \in Scheduled : sa.stream[i] < sa.streams
  /\ \A i, j \in Scheduled :
       i # j /\ sa.record[i] = sa.record[j] => sa.record[i] = kNoEventId
  /\ \A i, j \in Scheduled :
       i # j /\ sa.stream[i] = sa.stream[j] => sa.issue[i] # sa.issue[j]
  /\ \A i \in Scheduled : sa.issue[i] > 0 =>
       \E j \in Scheduled : /\ sa.stream[j] = sa.stream[i]
                            /\ sa.issue[j] = sa.issue[i] - 1
  /\ \A i \in Scheduled : \A e \in sa.waits[i] : \E j \in Scheduled : sa.record[j] = e

Awaits(v, u) == sa.record[u] # kNoEventId /\ sa.record[u] \in sa.waits[v]

InOrder ==
  /\ sa.order \in [Scheduled -> Scheduled]
  /\ \A i, j \in Scheduled :
       LET u == sa.order[i]  v == sa.order[j]
       IN  /\ i # j => u # v
           /\ sa.stream[u] = sa.stream[v] /\ sa.issue[u] < sa.issue[v] => i < j
           /\ Awaits(v, u) => i < j
  /\ \A v \in Scheduled : \E i \in Scheduled : sa.order[i] = v

(* An edge of the schedule: the next node of a stream, or an event.        *)
NextOnStream(u, v) == sa.stream[u] = sa.stream[v] /\ sa.issue[u] = sa.issue[v] - 1
Edge(u, v) == NextOnStream(u, v) \/ Awaits(v, u)

-----------------------------------------------------------------------------
(* The walk.  A node absorbs the clocks of the nodes its edges come from.  *)

Unknown == [v \in Scheduled |-> [s \in Stream |-> -1]]

Absorbed == {sa.order[i] : i \in 1 .. pos}

MutClockOf(v) ==
  LET before == {u \in Scheduled : Edge(u, v)}
  IN  [s \in Stream |->
         IF s = sa.stream[v] THEN sa.issue[v]
         ELSE Max({-1} \cup {sa.issue[u] : u \in {w \in before : sa.stream[w] = s}})]

ClockOf(v) ==
  LET before == {u \in Scheduled : Edge(u, v)}
  IN  [s \in Stream |->
         IF s = sa.stream[v] THEN sa.issue[v]
         ELSE Max({-1} \cup {clock[u][s] : u \in before})]

Absorb ==
  /\ pos < Len(sa.stream)
  /\ clock' = [clock EXCEPT ![sa.order[pos + 1]] = ClockOf(sa.order[pos + 1])]
  /\ pos' = pos + 1
  /\ UNCHANGED sa

built == pos = Len(sa.stream)

precedes(u, v) == u # v /\ clock[v][sa.stream[u]] >= sa.issue[u]
concurrent(u, v) == u # v /\ ~precedes(u, v) /\ ~precedes(v, u)

-----------------------------------------------------------------------------
(* The construction alone, of any schedule that build accepts and whose    *)
(* order is as its header requires.                                        *)

ScheduleType ==
  /\ sa.streams \in Nat
  /\ sa.stream \in Seq(Nat)
  /\ sa.issue \in [Scheduled -> 0 .. Len(sa.stream) - 1]
  /\ sa.record \in [Scheduled -> Nat \cup {kNoEventId}]
  /\ sa.waits \in [Scheduled -> SUBSET Nat]

HBInit == ScheduleType /\ Valid /\ InOrder /\ clock = Unknown /\ pos = 0
HBSpec == HBInit /\ [][Absorb]_hbVars

(* The clocks mean reachability: u precedes v if and only if an edge leads *)
(* to v from u or from a node that u precedes.  The edges are acyclic, so  *)
(* one relation only satisfies this, their transitive closure; two reads   *)
(* of the clocks replace it in the planner.                                *)
ClocksAreReachability ==
  \A u \in Scheduled, v \in Absorbed :
    precedes(u, v) <=> Edge(u, v) \/ \E w \in Scheduled : Edge(w, v) /\ precedes(u, w)
=============================================================================
