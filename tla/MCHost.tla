------------------------------- MODULE MCHost -------------------------------
(***************************************************************************)
(* Bounded check of the code that runs on the host alone and keeps nothing *)
(* from one call to the next but its arguments: the buddy arithmetic, the  *)
(* views of tensors, and what the benches and tools compute.  A behaviour  *)
(* is about one of them, its subject; a state of it is one input, or one   *)
(* step of the client of tensors or of the allocator benchmark.            *)
(***************************************************************************)
EXTENDS MCBuddyMath, Tensors, AllocBench, HostTimer, NsysOverlap

CONSTANTS
  Subjects,     (* what the behaviours are about                            *)
  Counts,       (* numbers of samples whose ranks are checked               *)
  WindowCaps,   (* the values of max_windows_tracked                        *)
  MaxSamples,   (* bound: samples of one measurement                        *)
  MaxTicks,     (* bound: the largest of them, and of the clock's floor     *)
  MaxSpans,     (* bound: kernels in a trace                                *)
  MaxTime,      (* bound: when the last of them ends                        *)
  TraceStreams  (* the streams of a trace                                   *)

ASSUME MCHostAssumption ==
  /\ Subjects \subseteq {"buddy", "tensor", "bench", "timer", "rank", "trace"}
  /\ Counts \subseteq Nat \ {0}
  /\ {MaxSamples, MaxTicks, MaxSpans, MaxTime} \cup WindowCaps \subseteq Nat

ThreeSizes == [c \in 0 .. 2 |-> 2^c]
TwoEach == [phase \in 1 .. 3 |-> 2]
AllSubjects == {"buddy", "tensor", "bench", "timer", "rank", "trace"}
(* Every small count, exact multiples and others, and large ones on both   *)
(* sides of where the product in doubles is rounded up.                    *)
MCCounts == 1 .. 1100 \cup {2000, 9999, 10000, 16000, 17000, 32000, 33000, 100000}
(* Ascending as in the code, and as there ffn_h takes what x and qkv take  *)
(* together, but is rounded up by less.                                    *)
LayerSizes ==
  [c \in 0 .. 10 |-> <<1, 2, 3, 4, 5, 6, 9, 14, 17, 18, 20>>[c + 1]]

VARIABLES
  subject,  (* what the behaviour is about                                  *)
  samples,  (* the samples taken                                            *)
  floor,    (* the floor of the histogram                                   *)
  count,    (* the number of samples, when they do not matter               *)
  spans     (* the kernels of the trace                                     *)

toolVars == <<samples, floor, count, spans>>

HostInit ==
  /\ subject \in Subjects
  /\ Init /\ TensorInit /\ BenchInit
  /\ samples = <<>> /\ floor \in 0 .. MaxTicks /\ spans = <<>>
  /\ subject # "timer" => floor = 0
  /\ count \in IF subject = "rank" THEN Counts ELSE {0}
  /\ subject # "bench" => todo = Uniform /\ replay.raw

Buddy == subject = "buddy" /\ Next /\ UNCHANGED <<tensorVars, benchVars, toolVars>>

Views == subject = "tensor" /\ TensorNext /\ UNCHANGED <<vars, benchVars, toolVars>>

Bench == subject = "bench" /\ BenchNext /\ UNCHANGED <<vars, tensorVars, toolVars>>

Sample == /\ subject = "timer" /\ Len(samples) < MaxSamples
          /\ \E v \in 0 .. MaxTicks : samples' = Append(samples, v)
          /\ UNCHANGED <<vars, tensorVars, benchVars, floor, count, spans>>

Traced == /\ subject = "trace" /\ Len(spans) < MaxSpans
          /\ \E s \in TraceStreams, b, e \in 0 .. MaxTime :
               b <= e /\ spans' = Append(spans, [stream |-> s, start |-> b, end |-> e])
          /\ UNCHANGED <<vars, tensorVars, benchVars, samples, floor, count>>

HostNext == (Buddy \/ Views \/ Bench \/ Sample \/ Traced) /\ UNCHANGED subject

HostSpec == HostInit /\ [][HostNext]_<<vars, tensorVars, benchVars, toolVars, subject>>

-----------------------------------------------------------------------------
(* A percentile is the smallest sample that at least p of them do not      *)
(* exceed, for every count of samples, except that p999 of a multiple of   *)
(* 1000 may be the next one, as p is then rounded up (host_timer.hpp:187): *)
(* of 1000 samples, it is.                                                 *)
(* The histogram counts each sample in the one bucket whose interval holds *)
(* it, the largest included, and prints every sample at or below an edge   *)
(* that holds it, unless nothing was within the floor: then every edge it  *)
(* prints is half of the bucket's.  A clock calibrated with these samples  *)
(* of itself distrusts most of them, unless all are 0.                     *)
Percents == {0, 500, 900, 990, 999, 1000}

IsNearestRank(p, n, index) ==
  /\ 1000 * index >= p * n
  /\ index > 1 => 1000 * (index - 1) < p * n

RanksAreNearest ==
  /\ count # 0 =>
    \A p \in Percents :
      LET index == percentile_index(p, count)
      IN  \/ IsNearestRank(p, count, index)
          \/ p = 999 /\ count % 1000 = 0 /\ IsNearestRank(p, count, index - 1)
  /\ count = 1000 => percentile_index(999, count) = 1000

Atmost(v) == Cardinality({i \in DOMAIN samples : samples[i] <= v})

PercentilesAreNearestRank ==
  samples # <<>> =>
    \A p \in Percents :
      LET reached == {v \in Range(samples) : 1000 * Atmost(v) >= p * Len(samples)}
      IN  percentile(samples, p) = Min(reached)

HistogramIsExact ==
  samples # <<>> =>
    LET f == Degenerate(floor)
        counts == log2_histogram(samples, floor)
        Within(b) == Atmost(f * 2^b) - (IF b = 0 THEN 0 ELSE Atmost(f * 2^(b - 1)))
    IN  /\ \A b \in DOMAIN counts : counts[b] = Within(b)
        /\ MapThenSumSet(LAMBDA b : counts[b], DOMAIN counts) = Len(samples)
        /\ counts[0] # 0 =>
             \A line \in HistogramLines(counts, floor) :
               \E b \in DOMAIN counts : line = [edge |-> f * 2^b, count |-> Within(b)]

CalibrationIsHonest ==
  samples # <<>> =>
    LET clock == measure(samples)
    IN  /\ clock.floor_ns = 0 <=> Range(samples) = {0}
        /\ clock.floor_ns > 0 =>
             2 * Cardinality({i \in DOMAIN samples : is_below_floor(clock, samples[i])}) > Len(samples)

LatenciesAreExact ==
  /\ RanksAreNearest /\ PercentilesAreNearestRank
  /\ HistogramIsExact /\ CalibrationIsHonest

(* The example of the report is the densest moment: of the moments with    *)
(* the most streams that the starts of kernels bring about, the first few  *)
(* are kept, and it is one of these, such that none of the others packs    *)
(* more work per wall time.  There is none if no two streams overlap.      *)
ExampleIsDensest(window, cap) ==
  LET StartsBy(i, j) == \/ spans[i].start < spans[j].start
                        \/ spans[i].start = spans[j].start /\ i <= j
      After(j) == {i \in DOMAIN spans : StartsBy(i, j) /\ spans[j].start < spans[i].end}
      Busy(moment) == Cardinality({spans[i].stream : i \in moment})
      most == Max({Busy(After(j)) : j \in DOMAIN spans} \cup {0})
      full == {j \in DOMAIN spans : most >= 2 /\ Busy(After(j)) = most}
      kept == {After(j) : j \in {k \in full :
                 Cardinality({l \in full : StartsBy(l, k)}) <= cap}}
      Lasts(moment) == Max({spans[i].end : i \in moment}) - Min({spans[i].start : i \in moment})
      Sum(moment) == MapThenSumSet(LAMBDA i : spans[i].end - spans[i].start, moment)
  IN  IF full = {} THEN window = {}
      ELSE /\ window \in kept
           /\ \A other \in kept : Sum(other) * Lasts(window) <= Sum(window) * Lasts(other)

(* The sweep counts the pairs of kernels on different streams that share   *)
(* an instant, kernels that touch do not, and the most streams active at   *)
(* one instant; whatever the order of the trace.  If all kernels take      *)
(* time, its example is the densest moment.  With one that takes none the  *)
(* counts are still right, unless it comes before all others of its        *)
(* stream: its end is then met before anything of the stream, a KeyError   *)
(* (nsys_overlap.py:286).                                                  *)
OverlapsAreExact ==
  LET StreamsAt(t) == {spans[i].stream : i \in {j \in DOMAIN spans :
                                                  spans[j].start <= t /\ t < spans[j].end}}
      Overlap(i, j) == /\ spans[i].stream # spans[j].stream
                       /\ spans[i].start < spans[j].end /\ spans[j].start < spans[i].end
      Instant(i) == spans[i].start = spans[i].end
      EndsFirst(i) == \A j \in DOMAIN spans :
                        spans[j].stream = spans[i].stream => spans[i].end <= spans[j].start
  IN  \A cap \in WindowCaps :
        LET stats == compute_overlaps(spans, cap)
        IN  IF \E i \in DOMAIN spans : Instant(i) /\ EndsFirst(i) THEN stats.key_error
            ELSE /\ ~stats.key_error
                 /\ stats.pairs = Cardinality({ij \in (DOMAIN spans) \X (DOMAIN spans) :
                                                 ij[1] < ij[2] /\ Overlap(ij[1], ij[2])})
                 /\ stats.most = Max({Cardinality(StreamsAt(t)) : t \in 0 .. MaxTime})
                 /\ (\A i \in DOMAIN spans : ~Instant(i)) => ExampleIsDensest(stats.window, cap)
=============================================================================
