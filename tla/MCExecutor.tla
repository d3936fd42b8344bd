----------------------------- MODULE MCExecutor -----------------------------
(* Two graphs, as the calls that build them leave them, and the options.   *)
EXTENDS NumericsGate

Marked(desc) == [desc EXCEPT !.output = TRUE]

(* x -> A -> {B, C}, v -> R: two roots, two leaves, all leaves outputs.    *)
Branches ==
  [tensors |-> <<NewTensor(<<2>>, 0), NewTensor(<<1>>, 0), NewTensor(<<2>>, 1),
                 Marked(NewTensor(<<1>>, 2)), Marked(NewTensor(<<1>>, 3)),
                 Marked(NewTensor(<<2>>, 4))>>,
   nodes |-> <<NewNode("bias_act", <<1, 1>>, 3), NewNode("bias_act", <<2, 2>>, 4),
               NewNode("reduce", <<3>>, 5), NewNode("bias_act", <<3, 3>>, 6)>>]

(* x -> A -> {B, C} -> D -> F: the bytes of A serve D again.               *)
Diamond ==
  [tensors |-> <<NewTensor(<<2>>, 0), NewTensor(<<2>>, 1), Marked(NewTensor(<<1>>, 2)),
                 NewTensor(<<1>>, 3), NewTensor(<<1>>, 4), Marked(NewTensor(<<1>>, 5))>>,
   nodes |-> <<NewNode("bias_act", <<1, 1>>, 2), NewNode("reduce", <<2>>, 3),
               NewNode("reduce", <<2>>, 4), NewNode("bias_act", <<3, 4>>, 5),
               NewNode("bias_act", <<5, 5>>, 6)>>]

BothGraphs == {Branches, Diamond}

(* Streams enough or not, and a ring of probes that is or is not.          *)
TestOptions ==
  {[schedule |-> policy, memory |-> "kReuseHappensBefore", num_streams |-> k,
    poison_buffers |-> TRUE, profile |-> TRUE,
    profile_slots |-> IF policy = "kChainGreedy" THEN 0 ELSE MaxRuns] :
     policy \in SchedulePolicies, k \in StreamCounts}
=============================================================================
