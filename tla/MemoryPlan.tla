----------------------------- MODULE MemoryPlan -----------------------------
(***************************************************************************)
(* plan_memory: src/graph/memory_plan.cpp packs the tensors of a scheduled *)
(* graph into one arena, the largest first, each at the lowest offset its  *)
(* conflicts leave; one tensor a step.  Sizes are in elements.             *)
(***************************************************************************)
EXTENDS StreamSchedule

VARIABLE mp  (* the MemoryPlan: policy, the tensors still to place, offsets,
                arena and workspace sizes                                    *)

MemoryPolicy == {"kAllocPerTensor", "kReuseTopoNaive", "kReuseSameStream",
                 "kReuseHappensBefore"}

bytes_of(t) == round_up(numel(tensors[t].shape))

(* The tensors that need bytes: inputs, and what scheduled nodes produce.  *)
Producer(t) == SchedOf(sa.nodes, tensors[t].producer)

NeedsBytes == {t \in TensorId : tensors[t].input \/ Producer(t) # {}}

(* Scheduled nodes that touch a tensor.                                    *)
Accesses(t) == Producer(t) \cup UNION {SchedOf(sa.nodes, c) : c \in tensors[t].consumers}

(* May b take the bytes of a?  Every access of a must come before the      *)
(* producer of b, in the sense of the policy.                              *)
Before(policy, x, p) ==
  CASE policy = "kAllocPerTensor" -> FALSE
    [] policy = "kReuseTopoNaive" -> x < p
    [] policy = "kReuseSameStream" -> sa.stream[x] = sa.stream[p] /\ precedes(x, p)
    [] policy = "kReuseHappensBefore" -> precedes(x, p)

MutCanShare(policy, a, b) ==
  /\ reusable(a) /\ reusable(b)
  /\ \E p \in Producer(b) : \A x \in Producer(a) : Before(policy, x, p)

can_share(policy, a, b) ==
  /\ reusable(a) /\ reusable(b)
  /\ Accesses(a) # {}
  /\ \E p \in Producer(b) : \A x \in Accesses(a) : Before(policy, x, p)

-----------------------------------------------------------------------------
(* Packing.                                                                *)

(* The largest is placed first, and of several the lowest id.              *)
Largest(T) == CHOOSE t \in T : \A u \in T :
  bytes_of(u) < bytes_of(t) \/ (bytes_of(u) = bytes_of(t) /\ t <= u)

Placed == DOMAIN mp.offset

Interval(t) == <<mp.offset[t], mp.offset[t] + bytes_of(t)>>

Blocked(t) ==
  {Interval(u) : u \in {v \in Placed : /\ ~can_share(mp.policy, v, t)
                                       /\ ~can_share(mp.policy, t, v)}}

(* The scan over the blocked intervals in ascending order: the first gap   *)
(* that takes the tensor ends it.                                          *)
Highest(S) == CHOOSE b \in S : \A c \in S : c[1] < b[1] \/ (c[1] = b[1] /\ c[2] <= b[2])

NoneScanned == [off |-> 0, fits |-> FALSE]

MutScanned(bytes, was, b) ==
  IF was.fits \/ was.off + bytes < b[1]
    THEN [was EXCEPT !.fits = TRUE]
    ELSE [was EXCEPT !.off = Max({@, round_up(b[2])})]
Scanned(bytes, was, b) ==
  IF was.fits \/ was.off + bytes <= b[1]
    THEN [was EXCEPT !.fits = TRUE]
    ELSE [was EXCEPT !.off = Max({@, round_up(b[2])})]

FirstFit(bytes, blocked) ==
  LET scan[S \in SUBSET blocked] ==
        IF S = {} THEN NoneScanned
        ELSE Scanned(bytes, scan[S \ {Highest(S)}], Highest(S))
  IN  scan[blocked].off

(* One workspace for each stream, sized by its largest node.               *)
Workspaces ==
  [s \in Stream |->
     Max({0} \cup {round_up(workspace_bytes(nodes[sa.nodes[i]].op,
                                            ShapesOf(nodes[sa.nodes[i]].inputs))) :
                     i \in OnStream(Scheduled, sa.stream, s)})]

NoMemory == [policy |-> "kAllocPerTensor", todo |-> {}, offset |-> <<>>,
             arena |-> 0, workspace |-> <<>>]

StartMemory(policy) ==
  mp' = [policy |-> policy, todo |-> NeedsBytes, offset |-> <<>>, arena |-> 0,
         workspace |-> Workspaces]

PlaceTensor ==
  /\ mp.todo # {}
  /\ LET t == Largest(mp.todo)
         off == FirstFit(bytes_of(t), Blocked(t))
     IN  mp' = [mp EXCEPT !.todo = @ \ {t},
                          !.offset = [u \in Placed \cup {t} |->
                                        IF u = t THEN off ELSE mp.offset[u]],
                          !.arena = Max({@, off + bytes_of(t)})]

-----------------------------------------------------------------------------
(* verify_no_buffer_races: of two tensors that share a byte, every access  *)
(* of one comes before the producer of the other.                          *)

SharesBytes(a, b) ==
  /\ mp.offset[a] < mp.offset[b] + bytes_of(b)
  /\ mp.offset[b] < mp.offset[a] + bytes_of(a)

AllPrecede(a, b) ==
  Accesses(a) # {} /\ \E p \in Producer(b) : \A x \in Accesses(a) : precedes(x, p)

verify_no_buffer_races ==
  \A a, b \in Placed :
    a < b /\ SharesBytes(a, b) => AllPrecede(a, b) \/ AllPrecede(b, a)
=============================================================================
