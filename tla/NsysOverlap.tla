---------------------------- MODULE NsysOverlap ----------------------------
(***************************************************************************)
(* compute_overlaps: tools/nsys_overlap.py sweeps over the starts and ends *)
(* of a trace's kernels and counts the pairs that overlap on different     *)
(* streams, the most streams active at one time, and how much work the     *)
(* densest moment packs into its wall time.                                *)
(*                                                                         *)
(* The end of a kernel that takes no time sorts before its own start: the  *)
(* sweep raises a KeyError if it has not met the stream, or else takes the *)
(* kernel off the stream's count and adds it again.                        *)
(***************************************************************************)
EXTENDS Integers, Sequences, FiniteSets, SequencesExt, FiniteSetsExt, Functions

(* Ends before starts at the same time: kernels that touch do not overlap. *)
Before(x, y) ==
  \/ x.time < y.time
  \/ x.time = y.time /\ x.is_end /\ ~y.is_end
  \/ x.time = y.time /\ x.is_end = y.is_end /\ x.span < y.span

Events(spans) ==
  LET of == [is_end : BOOLEAN, span : DOMAIN spans]
      at(e) == [time |-> IF e.is_end THEN spans[e.span].end ELSE spans[e.span].start,
                is_end |-> e.is_end, span |-> e.span]
  IN  SetToSortSeq({at(e) : e \in of}, Before)

(* The sweep's variables: active_count of the streams met so far, the open *)
(* spans of all of them, their number, and that of the streams with any.   *)
Start == [active_count |-> <<>>, active_spans |-> {}, total_active |-> 0, distinct |-> 0,
          pairs |-> 0, most |-> 0, windows |-> <<>>, key_error |-> FALSE]

Closes(sweep, spans, i) ==
  LET s == spans[i].stream
      left == sweep.active_count[s] - 1
  IN  IF s \notin DOMAIN sweep.active_count THEN [sweep EXCEPT !.key_error = TRUE]
      ELSE [sweep EXCEPT !.active_count[s] = left,
                         !.active_spans = @ \ {i},
                         !.total_active = @ - 1,
                         !.distinct = IF left = 0 THEN @ - 1 ELSE @]

Opens(sweep, spans, i, max_windows_tracked) ==
  LET s == spans[i].stream
      prior == IF s \in DOMAIN sweep.active_count THEN sweep.active_count[s] ELSE 0
      open == sweep.active_spans \cup {i}
      distinct == IF prior = 0 THEN sweep.distinct + 1 ELSE sweep.distinct
      most == Max({distinct, sweep.most})
      windows == IF distinct > sweep.most THEN <<>> ELSE sweep.windows
      tracks == distinct = most /\ most >= 2 /\ Len(windows) < max_windows_tracked
  IN  [sweep EXCEPT !.active_count = (s :> prior + 1) @@ @,
                    !.active_spans = open,
                    !.total_active = @ + 1,
                    !.distinct = distinct,
                    !.pairs = @ + sweep.total_active - prior,
                    !.most = most,
                    !.windows = IF tracks THEN Append(windows, open) ELSE windows]

Sweep(spans, max_windows_tracked) ==
  FoldLeft(LAMBDA sweep, e :
             IF sweep.key_error THEN sweep
             ELSE IF e.is_end THEN Closes(sweep, spans, e.span)
             ELSE Opens(sweep, spans, e.span, max_windows_tracked),
           Start, Events(spans))

(* The ratio is of the work of a window to its wall time (doubles in the   *)
(* code, compared here as fractions).                                      *)
Work(spans, window) == MapThenSumSet(LAMBDA i : spans[i].end - spans[i].start, window)
Wall(spans, window) == Max({spans[i].end : i \in window}) - Min({spans[i].start : i \in window})

MutDenser(spans, v, w) == Work(spans, v) > Work(spans, w)
Denser(spans, v, w) == Work(spans, v) * Wall(spans, w) > Work(spans, w) * Wall(spans, v)

(* The first of the densest windows; one without wall time has no ratio.   *)
BestWindow(spans, windows) ==
  FoldLeft(LAMBDA best, w :
             IF Wall(spans, w) > 0 /\ (best = {} \/ Denser(spans, w, best)) THEN w ELSE best,
           {}, windows)

compute_overlaps(spans, max_windows_tracked) ==
  LET sweep == Sweep(spans, max_windows_tracked)
  IN  [key_error |-> sweep.key_error, pairs |-> sweep.pairs, most |-> sweep.most,
       window |-> BestWindow(spans, sweep.windows)]
=============================================================================
