---------------------------- MODULE NumericsGate ----------------------------
(***************************************************************************)
(* GraphExecutor::validate_numerics: src/graph/executor.cpp plans the      *)
(* graph afresh under every schedule and memory policy, runs each plan     *)
(* some times on the cached inputs, and compares what the tensors hold,    *)
(* bit by bit, with the first run of that plan and with a golden one.      *)
(*                                                                         *)
(* Assumed of the client: it has fed every input, calls when the device is *)
(* idle, and then does no more than synchronize.                           *)
(***************************************************************************)
EXTENDS Executor

CONSTANT Repeats  (* validate_numerics' argument                            *)

ASSUME GateAssumption == Repeats \in Nat \ {0}

VARIABLES
  phase,   (* "client", "run", "restore", or how the gate ended             *)
  config,  (* the configuration planned, 0 for the golden one               *)
  looked,  (* runs of it compared                                           *)
  first,   (* what the tensors held after the first of them                 *)
  golden,  (* and after the first run of the golden configuration           *)
  saved    (* the caller's options                                          *)

gateVars == <<phase, config, looked, first, golden, saved>>

GateSchedules == <<"kSequential", "kLevelParallel", "kChainGreedy">>
GateMemories == <<"kAllocPerTensor", "kReuseSameStream", "kReuseHappensBefore">>

Configs == Len(GateSchedules) * Len(GateMemories)

OptionsOf(c) ==
  LET m == Len(GateMemories)
      s == IF c = 0 THEN "kSequential" ELSE GateSchedules[((c - 1) \div m) + 1]
  IN  [saved EXCEPT
         !.schedule = s,
         !.memory = IF c = 0 THEN "kAllocPerTensor" ELSE GateMemories[((c - 1) % m) + 1],
         !.num_streams = IF s = "kSequential" THEN 1 ELSE @,
         !.poison_buffers = TRUE]

(* The old plan is dropped; Plan follows.                                  *)
Replan(o) == /\ opts' = o /\ Discard
             /\ UNCHANGED <<pc, run, iteration, probes, outcome, fed, deviceVars>>

Keep == UNCHANGED <<planVars, pc, run, iteration, probes, outcome, fed, deviceVars>>

Client ==
  /\ \/ phase = "client" /\ Next
     \/ phase \notin {"client", "run", "restore"} /\ Synchronize
  /\ UNCHANGED gateVars

Begin ==
  /\ phase = "client" /\ Idle /\ DeviceIdle /\ outcome # "failed"
  /\ \A t \in Input : fed[t] > 0
  /\ saved' = opts
  /\ phase' = "run" /\ config' = 0 /\ looked' = 0
  /\ UNCHANGED <<first, golden>>
  /\ Replan(OptionsOf(0)')

-----------------------------------------------------------------------------
(* run_config: plan, feed the cached inputs once, then run, synchronize    *)
(* and copy the tensors out, Repeats times.                                *)

Fed == \A t \in Input : fed[t] > 0

Drive ==
  /\ phase = "run" /\ outcome # "failed"
  /\ \/ Plan
     \/ \E t \in Input : fed[t] = 0 /\ SetInput(t)
     \/ planned /\ Fed /\ run = looked /\ BeginRun
     \/ IssueNode \/ LaunchFails \/ Join
  /\ UNCHANGED gateVars

Device == phase # "client" /\ DeviceStep /\ UNCHANGED gateVars

(* Intermediates are looked at only where no buffer serves twice.          *)
tensors_to_check == IF mp.policy = "kAllocPerTensor" THEN Placed ELSE Output

(* The bits in a buffer: a right value has the same in every run.          *)
Bits(t) == [i \in 0 .. bytes_of(t) - 1 |->
              LET v == memory[mp.offset[t] + i]
              IN  IF v.tensor = 0 THEN v ELSE [v EXCEPT !.version = 0]]

Got == [t \in tensors_to_check |-> Bits(t)]

(* By tensor: the golden run kept more of them than most others do.        *)
MutDiffers(a, b) ==
  LET Ids(f) == SetToSortSeq(DOMAIN f, <)
  IN  \E k \in DOMAIN Ids(a) \cap DOMAIN Ids(b) : a[Ids(a)[k]] # b[Ids(b)[k]]
Differs(a, b) == \E t \in DOMAIN a \cap DOMAIN b : a[t] # b[t]

Ran == phase = "run" /\ Idle /\ DeviceIdle /\ outcome = "ok" /\ run = looked + 1

LastRun == looked + 1 = Repeats
Varies == looked > 0 /\ Differs(first, Got)
First == IF looked = 0 THEN Got ELSE first
Wrong == LastRun /\ config > 0 /\ Differs(golden, First)

Accused == Varies \/ Wrong
MoreRuns == ~Accused /\ ~LastRun

(* What comes after a run: the report of a difference, another run, the    *)
(* next configuration, or the caller's plan again.  Every way out gives    *)
(* the options back, but only a gate that passes plans with them.          *)
Look ==
  /\ Ran
  /\ phase' = CASE Varies -> "variance"
                [] ~Varies /\ Wrong -> "mismatch"
                [] ~Accused /\ LastRun /\ config = Configs -> "restore"
                [] OTHER -> "run"
  /\ config' = IF Accused \/ MoreRuns \/ config = Configs THEN config ELSE config + 1
  /\ looked' = IF MoreRuns THEN looked + 1 ELSE 0
  /\ first' = IF MoreRuns THEN First ELSE <<>>
  /\ golden' = IF LastRun /\ config = 0 THEN First ELSE golden
  /\ UNCHANGED saved
  /\ IF Accused \/ MoreRuns
       THEN opts' = (IF Accused THEN saved ELSE opts) /\ Keep
       ELSE Replan(IF phase' = "run" THEN OptionsOf(config + 1) ELSE saved)

Ends(how) == phase' = how /\ UNCHANGED <<config, looked, first, golden, saved>>

GiveUp == /\ phase = "run" /\ Idle /\ outcome = "failed"
          /\ Ends("error") /\ opts' = saved /\ Keep

Restore == phase = "restore" /\ Plan /\ UNCHANGED gateVars

Pass == phase = "restore" /\ planned /\ Ends("passed") /\ UNCHANGED opts /\ Keep

-----------------------------------------------------------------------------

GateInit ==
  /\ Init
  /\ phase = "client" /\ config = 0 /\ looked = 0
  /\ first = <<>> /\ golden = <<>> /\ saved = opts

GateNext ==
  \/ Client \/ Begin \/ Drive \/ Device
  \/ Look \/ GiveUp \/ Restore \/ Pass

GateSpec == GateInit /\ [][GateNext]_<<planVars, hostVars, deviceVars, gateVars>>

-----------------------------------------------------------------------------
(* The gate accuses nobody: every plan the planner makes, on every         *)
(* schedule of the device, gives the same bits in every run, and its       *)
(* outputs the golden bits, so that a report of the gate is a bug it found *)
(* and not one it has.  Its comments record two it had: the fill reached   *)
(* the inputs, and unrelated tensors were compared.                        *)
GateRaisesNoFalseAlarm == phase \notin {"variance", "mismatch"}
=============================================================================
