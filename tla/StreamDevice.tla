---------------------------- MODULE StreamDevice ----------------------------
(***************************************************************************)
(* The GPU as the host code sees it through runtime/stream.hpp: streams    *)
(* that execute the kernels submitted to them in order and asynchronously, *)
(* and events that complete when the work submitted before their latest    *)
(* record has completed.  External: CUDA itself, modelled from how the     *)
(* allocators and the executor use it.                                     *)
(*                                                                         *)
(* A kernel is represented by the block of memory it works on.             *)
(***************************************************************************)
EXTENDS Integers, Sequences, Functions

CONSTANTS
  Stream,     (* the streams                                               *)
  MaxInFlight (* bound: kernels in flight on all streams together          *)

ASSUME MaxInFlightAssumption == MaxInFlight \in Nat

VARIABLES
  queue,      (* queue[s]: the kernels in flight on s, oldest first        *)
  event       (* the events that exist, by slot; event[e].after counts the *)
              (* kernels at the head of event[e].stream that e waits for   *)

deviceVars == <<queue, event>>

DeviceInit == /\ queue = [s \in Stream |-> <<>>]
              /\ event = <<>>

(* The blocks that kernels in flight on s work on.                         *)
Running(s) == {queue[s][i] : i \in DOMAIN queue[s]}

(* cudaStreamQuery and cudaEventQuery report success.                      *)
StreamIdle(s) == queue[s] = <<>>

EventDone(e) == event[e].after = 0

(* Stream s completes its done[s] oldest kernels.                          *)
Less(m, n) == IF m > n THEN m - n ELSE 0

EventsAfter(ev, done) ==
  [e \in DOMAIN ev |-> [stream |-> ev[e].stream,
                        after |-> Less(ev[e].after, done[ev[e].stream])]]

Progress(done) ==
  /\ queue' = [s \in Stream |-> SubSeq(queue[s], done[s] + 1, Len(queue[s]))]
  /\ event' = EventsAfter(event, done)

Launch(s, block) ==
  /\ SumFunction([t \in Stream |-> Len(queue[t])]) < MaxInFlight
  /\ queue' = [queue EXCEPT ![s] = Append(@, block)]
  /\ UNCHANGED event

Complete(s) ==
  /\ queue[s] # <<>>
  /\ Progress([t \in Stream |-> IF t = s THEN 1 ELSE 0])

(* cudaFree returns only when the whole device is idle.                    *)
DeviceSynchronize == Progress([s \in Stream |-> Len(queue[s])])
=============================================================================
