----------------------------- MODULE HostTimer -----------------------------
(***************************************************************************)
(* The order statistics of the latency measurements:                       *)
(* profiling/host_timer.hpp and src/core/host_timer.cpp.  Samples are in   *)
(* ticks, percentages in tenths of a percent; the ranks are those that the *)
(* arithmetic in doubles gives.                                            *)
(***************************************************************************)
EXTENDS Integers, Sequences, FiniteSets, SequencesExt, FiniteSetsExt

CONSTANT MaxBuckets  (* 40 in the code                                      *)

finalize(samples) == SortSeq(samples, <)

(* The double that p/100.0 gives for 0, 50, 90, 99, 99.9 and 100 exceeds   *)
(* the fraction p/1000 by Excess(p) / (1000 * 2^53).                       *)
Excess(p) == CASE p = 900 -> 200 [] p = 990 -> -80 [] p = 999 -> 992 [] OTHER -> 0

FloorLog2(k) == Max({e \in 0 .. 30 : 2^e <= k})

(* ceil(p/100.0 * n) in doubles.  If p of n is a whole number k, doubles   *)
(* above it are 2^(e-52) apart, where 2^e <= k < 2^(e+1): the product is   *)
(* rounded up to the next of them when the excess is over half of that.    *)
(* Fractions are too far from whole numbers to be rounded to one.          *)
MutNearestRank(p, n) == (p * n) \div 1000 + 1
nearest_rank(p, n) ==
  LET whole == (p * n) % 1000 = 0
      k == (p * n) \div 1000
      above == k > 0 /\ Excess(p) * n > 1000 * 2^FloorLog2(k)
  IN  IF ~whole \/ above THEN k + 1 ELSE k

(* The index of the percentile, counted from 1 and kept in range.          *)
percentile_index(p, n) == Max({1, Min({nearest_rank(p, n), n})})

percentile(samples, p) ==
  IF samples = <<>> THEN 0 ELSE finalize(samples)[percentile_index(p, Len(samples))]

Degenerate(floor) == IF floor = 0 THEN 1 ELSE floor

(* The doublings of the floor that the largest sample needs, at least one. *)
n_buckets(samples, floor) ==
  LET hi == Last(finalize(samples))
      double[n \in 1 .. MaxBuckets] ==
        IF floor * 2^n < hi /\ n < MaxBuckets THEN double[n + 1] ELSE n
  IN  double[1]

bucket(v, floor, buckets) ==
  LET climb[b \in 0 .. buckets] ==
        IF v > floor * 2^b /\ b < buckets THEN climb[b + 1] ELSE b
  IN  climb[0]

log2_histogram(samples, floor_ns) ==
  LET floor == Degenerate(floor_ns)
      n == n_buckets(samples, floor)
  IN  [b \in 0 .. n |-> Cardinality({i \in DOMAIN samples : bucket(samples[i], floor, n) = b})]

(* The lines printed: the edge is doubled after each bucket but an empty   *)
(* first one.                                                              *)
HistogramLines(counts, floor_ns) ==
  LET shift == IF counts[0] = 0 THEN 1 ELSE 0
      full == {b \in DOMAIN counts : counts[b] # 0}
  IN  {[edge |-> Degenerate(floor_ns) * 2^(b - shift), count |-> counts[b]] : b \in full}

(* ClockCalibration::measure, of the clock's own deltas.                   *)
measure(deltas) ==
  LET positive == {d \in Range(deltas) : d > 0}
      tick == IF positive = {} THEN 0 ELSE Min(positive)
      median == IF deltas = <<>> THEN 0 ELSE finalize(deltas)[(Len(deltas) \div 2) + 1]
  IN  [tick_ns |-> tick, paired_median_ns |-> median, floor_ns |-> Max({tick, median})]

is_below_floor(calibration, ns) ==
  calibration.floor_ns > 0 /\ ns <= 2 * calibration.floor_ns
=============================================================================
