------------------------- MODULE RawDeviceAllocator -------------------------
(***************************************************************************)
(* src/memory/allocator.cpp: the baseline that the pools are measured      *)
(* against.  Every call goes to the driver (external); the allocator keeps *)
(* nothing but its counters, and these count before the driver answers a   *)
(* free, but after it answers an allocation.                               *)
(***************************************************************************)
EXTENDS Integers, FiniteSetsExt

VARIABLE raw_stats  (* AllocatorStats                                       *)

RawInit ==
  raw_stats = [alloc_calls |-> 0, free_calls |-> 0,
               raw_malloc_calls |-> 0, raw_free_calls |-> 0, oom_events |-> 0,
               bytes_in_use |-> 0, bytes_requested |-> 0, bytes_reserved |-> 0,
               peak_bytes_in_use |-> 0]

RawAllocate(bytes) ==
  raw_stats' = [raw_stats EXCEPT
    !.alloc_calls = @ + 1, !.raw_malloc_calls = @ + 1,
    !.bytes_in_use = @ + bytes, !.bytes_requested = @ + bytes, !.bytes_reserved = @ + bytes,
    !.peak_bytes_in_use = Max({@, raw_stats.bytes_in_use + bytes})]

(* Whatever the driver's error was.                                        *)
RawRefuse == raw_stats' = [raw_stats EXCEPT !.alloc_calls = @ + 1, !.oom_events = @ + 1]

RawDeallocate(bytes, requested) ==
  raw_stats' = [raw_stats EXCEPT
    !.free_calls = @ + 1, !.raw_free_calls = @ + 1,
    !.bytes_in_use = @ - bytes, !.bytes_requested = @ - requested,
    !.bytes_reserved = @ - bytes]
=============================================================================
