------------------------- MODULE StreamOrderedPool -------------------------
(***************************************************************************)
(* What a pooling allocator promises its clients, whatever its data        *)
(* structures: the stream-ordered semantics of memory/allocator.hpp.       *)
(* A block is handed out only if no client holds a byte of it, and only if *)
(* whatever kernels still run on its bytes run on the stream that gets it. *)
(***************************************************************************)
EXTENDS Integers, Sequences

CONSTANTS
  Stream,            (* the streams                                         *)
  AllocStream,       (* the streams that blocks are allocated for           *)
  MayOverlap(_, _)   (* whether two blocks share a byte                     *)

VARIABLES
  held,    (* what the clients hold: pairs of a block and its stream        *)
  queue    (* queue[s]: the blocks the kernels in flight on s work on       *)

poolVars == <<held, queue>>

Init == held = {} /\ queue = [s \in Stream |-> <<>>]

(* Kernels complete in the order of their stream.                          *)
Progresses ==
  \A s \in Stream : \E n \in 0 .. Len(queue[s]) :
    queue'[s] = SubSeq(queue[s], n + 1, Len(queue[s]))

BusyElsewhere(block, home) ==
  \E s \in Stream \ {home} : \E i \in DOMAIN queue[s] :
    MayOverlap(queue[s][i], block)

(* The device may move on while the call waits for it.                     *)
Alloc ==
  /\ Progresses
  /\ \E h \in held' \ held :
       /\ held' = held \cup {h} /\ h.home \in AllocStream
       /\ \A g \in held : ~MayOverlap(g.block, h.block)
       /\ ~BusyElsewhere(h.block, h.home)'

Free == Progresses /\ \E h \in held : held' = held \ {h}

(* A client works on what it holds, on the stream it holds it for, and     *)
(* changes that stream only when the old one is idle.                      *)
Launch ==
  /\ UNCHANGED held
  /\ \E h \in held :
       queue' = [queue EXCEPT ![h.home] = Append(@, h.block)]

Move ==
  /\ UNCHANGED queue
  /\ \E h \in held, s \in Stream :
       /\ queue[h.home] = <<>>
       /\ held' = (held \ {h}) \cup {[h EXCEPT !.home = s]}

Device == Progresses /\ UNCHANGED held

Next == Alloc \/ Free \/ Launch \/ Move \/ Device

Spec == Init /\ [][Next]_poolVars
=============================================================================
