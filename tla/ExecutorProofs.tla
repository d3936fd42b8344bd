--------------------------- MODULE ExecutorProofs ---------------------------
(***************************************************************************)
(* Replaying a plan, for every graph, plan and history of calls: what the  *)
(* streams and events of the device may do out of order never shows.       *)
(*                                                                         *)
(* The argument is about all commands since the plan was made.  They are   *)
(* not in the state, so ExecInv says that there is a log of them.  A cut   *)
(* of the log is how far the streams may be on any device that respects    *)
(* the waits, and one work leads another when no cut has the second        *)
(* without the first.  What PlanningProofs says of the order of the nodes  *)
(* makes all works that conflict lead one another; then whatever the       *)
(* device does, each work finds what the works before it wrote.  GateInv   *)
(* adds that the bits a gate takes are therefore always right, and RingInv *)
(* says which runs the slots of the probes hold.                           *)
(***************************************************************************)
EXTENDS NumericsGate, PlanningProofs

-----------------------------------------------------------------------------
(* Logs.  Of each stream all commands, of each event the positions of its  *)
(* records on its stream, and where the works are, in the order in which   *)
(* the host issued them.                                                   *)

(* The stream that records an event.                                       *)
Home(e) == IF e[1] = "node" THEN sa.stream[CHOOSE i \in Scheduled : sa.record[i] = e[2]]
                            ELSE e[2]

(* How many commands of a stream have completed.                           *)
Gone(L, s) == L.len[s] - Len(queue[s])

(* The m-th work, whether it has completed, and whether it is running.     *)
Job(L, m) == L.cmd[L.on[m]][L.at[m]]
Ended(L, m) == L.at[m] <= Gone(L, L.on[m])
Runs(L, m) == L.on[m] \in started /\ L.at[m] = Gone(L, L.on[m]) + 1

(* The streams hold the commands that have not completed.                  *)
QueueOK(L) ==
  /\ DOMAIN queue = Stream /\ L.len \in [Stream -> Nat]
  /\ \A s \in Stream :
       /\ queue[s] \in Seq({L.cmd[s][k] : k \in 1 .. L.len[s]}) /\ Len(queue[s]) <= L.len[s]
       /\ \A i \in 1 .. Len(queue[s]) : queue[s][i] = L.cmd[s][Gone(L, s) + i]

(* A command is a work, a wait for a record issued before, or a record on  *)
(* the stream that is the home of its event.                               *)
CommandOK(L, s, k) ==
  LET c == L.cmd[s][k]
  IN  \/ c.kind = "work"
      \/ c.kind = "wait" /\ c.event \in EventsOfPlan /\ c.ticket \in 1 .. issued[c.event]
      \/ /\ c = Record(c.event) /\ c.kind = "record" /\ c.event \in EventsOfPlan
         /\ Home(c.event) = s /\ \E T \in 1 .. issued[c.event] : L.rec[c.event][T] = k

CommandsOK(L) == \A s \in Stream : \A k \in 1 .. L.len[s] : CommandOK(L, s, k)

(* The events count the records that were issued and have completed.       *)
RecordsOK(L, e) ==
  /\ issued[e] \in Nat /\ done[e] \in 0 .. issued[e]
  /\ \A T \in 1 .. issued[e] :
       /\ Home(e) \in Stream /\ L.rec[e][T] \in 1 .. L.len[Home(e)]
       /\ L.cmd[Home(e)][L.rec[e][T]].kind = "record"
       /\ L.cmd[Home(e)][L.rec[e][T]].event = e
       /\ T <= done[e] <=> L.rec[e][T] <= Gone(L, Home(e))
  /\ \A T, U \in 1 .. issued[e] : T < U => L.rec[e][T] < L.rec[e][U]

(* Of every event of the plan.                                             *)
EventsOK(L) ==
  /\ DOMAIN issued = EventsOfPlan /\ DOMAIN done = EventsOfPlan
  /\ \A e \in EventsOfPlan : RecordsOK(L, e)

(* Each work is one command of its stream, each work command is one work,  *)
(* and those of a stream are in its order.                                 *)
WorksOK(L) ==
  /\ L.works \in Nat
  /\ \A m \in 1 .. L.works :
       /\ L.on[m] \in Stream /\ L.at[m] \in 1 .. L.len[L.on[m]]
       /\ Job(L, m).kind = "work"
       /\ DOMAIN Job(L, m).writes \subseteq DOMAIN memory
       /\ DOMAIN Job(L, m).reads \cap DOMAIN Job(L, m).writes = {}
  /\ \A m, n \in 1 .. L.works : m < n /\ L.on[m] = L.on[n] => L.at[m] < L.at[n]
  /\ \A s \in Stream : \A k \in 1 .. L.len[s] :
       L.cmd[s][k].kind = "work" => \E m \in 1 .. L.works : L.on[m] = s /\ L.at[m] = k

(* Up to where the streams may get: a wait is passed after its record.     *)
Cut(L, C) ==
  /\ C \in [Stream -> Nat]
  /\ \A s \in Stream : Gone(L, s) <= C[s] /\ C[s] <= L.len[s]
  /\ \A s \in Stream : \A k \in 1 .. C[s] :
       LET c == L.cmd[s][k] IN c.kind = "wait" => L.rec[c.event][c.ticket] <= C[Home(c.event)]

(* No device gets to the n-th work without the m-th.                       *)
Leads(L, m, n) == \A C : Cut(L, C) /\ L.at[n] <= C[L.on[n]] => L.at[m] <= C[L.on[m]]

(* What has completed is such a cut.                                       *)
GoneIsCut(L) == Cut(L, [s \in Stream |-> Gone(L, s)])

(* A stream that has started is at a work.                                 *)
StartedOK == \A s \in started : s \in Stream /\ queue[s] # <<>> /\ Head(queue[s]).kind = "work"

(* One of the two writes a byte that the other accesses.                   *)
Conflict(c, d) == \/ DOMAIN c.writes \cap (DOMAIN d.reads \cup DOMAIN d.writes) # {}
                  \/ DOMAIN c.reads \cap DOMAIN d.writes # {}

(* Works that conflict are ordered as the host issued them.                *)
Sorted(L) ==
  \A n \in 1 .. L.works : \A m \in 1 .. n - 1 : Conflict(Job(L, m), Job(L, n)) => Leads(L, m, n)

(* The latest of the first n works that writes b writes v.                 *)
Latest(L, n, b, v) ==
  \E m \in 1 .. n :
    /\ b \in DOMAIN Job(L, m).writes /\ Job(L, m).writes[b] = v
    /\ \A k \in m + 1 .. n : b \notin DOMAIN Job(L, k).writes

(* What a work expects is what the works before it write.                  *)
Fresh(L) ==
  \A n \in 1 .. L.works : \A b \in DOMAIN Job(L, n).reads :
    Latest(L, n - 1, b, Job(L, n).reads[b])

(* What a work has written stays until a later one starts to overwrite it. *)
MemoryOK(L) ==
  \A m \in 1 .. L.works : Ended(L, m) =>
    \A b \in DOMAIN Job(L, m).writes :
      (\A n \in m + 1 .. L.works :
         b \in DOMAIN Job(L, n).writes => ~Ended(L, n) /\ ~Runs(L, n))
      => memory[b] = Job(L, m).writes[b]

(* A log of all that was issued since the plan, with what the executor     *)
(* relies on: conflicting works are ordered whatever the device does, and  *)
(* each expects what the works before it write.                            *)
LogOK(L) ==
  /\ QueueOK(L) /\ CommandsOK(L) /\ EventsOK(L) /\ WorksOK(L)
  /\ GoneIsCut(L) /\ StartedOK /\ Sorted(L) /\ Fresh(L) /\ MemoryOK(L)

-----------------------------------------------------------------------------
(* What the device may be at.                                              *)

(* The head and the tail of a queue.                                       *)
LEMMA Popped ==
  ASSUME NEW S, NEW q \in Seq(S), q # <<>>
  PROVE  /\ Len(q) \in Nat \ {0} /\ Head(q) = q[1] /\ Head(q) \in S
         /\ Tail(q) \in Seq(S) /\ Len(Tail(q)) = Len(q) - 1
         /\ \A i \in 1 .. Len(q) - 1 : Tail(q)[i] = q[i + 1]
OBVIOUS

(* How far a stream is, and what comes next on it.                         *)
LEMMA QueueFacts ==
  ASSUME NEW L, QueueOK(L), NEW s \in Stream
  PROVE  /\ L.len[s] \in Nat /\ Len(queue[s]) \in Nat /\ Gone(L, s) \in Nat
         /\ Gone(L, s) <= L.len[s]
         /\ Gone(L, s) = L.len[s] <=> queue[s] = <<>>
         /\ queue[s] # <<>> => /\ Gone(L, s) + 1 \in 1 .. L.len[s]
                               /\ Head(queue[s]) = L.cmd[s][Gone(L, s) + 1]
<1> DEFINE q == queue[s]  S == {L.cmd[s][k] : k \in 1 .. L.len[s]}  n == L.len[s]
<1>1. q \in Seq(S) /\ n \in Nat /\ Len(q) <= n /\ Gone(L, s) = n - Len(q)
  BY DEF QueueOK, Gone
<1>2. \A i \in 1 .. Len(q) : q[i] = L.cmd[s][Gone(L, s) + i]
  BY DEF QueueOK
<1> HIDE DEF q, S, n
<1>3. Len(q) \in Nat /\ (Len(q) = 0 <=> q = <<>>)
  BY <1>1
<1>4. q # <<>> => Head(q) = L.cmd[s][Gone(L, s) + 1]
  <2> SUFFICES ASSUME q # <<>> PROVE Head(q) = L.cmd[s][Gone(L, s) + 1]
    OBVIOUS
  <2>1. Head(q) = q[1] /\ 1 \in 1 .. Len(q)
    BY <1>1, Popped
  <2> QED
    BY <1>2, <2>1
<1> QED
  BY <1>1, <1>3, <1>4 DEF q, n

(* A stream whose next command is no wait may complete it.                 *)
LEMMA NextIsCut ==
  ASSUME NEW L, QueueOK(L), GoneIsCut(L), CommandsOK(L), EventsOK(L),
         NEW s \in Stream, queue[s] # <<>>,
         \/ Head(queue[s]).kind # "wait"
         \/ done[Head(queue[s]).event] >= Head(queue[s]).ticket
  PROVE  Cut(L, [r \in Stream |-> IF r = s THEN Gone(L, r) + 1 ELSE Gone(L, r)])
<1> DEFINE C == [r \in Stream |-> IF r = s THEN Gone(L, r) + 1 ELSE Gone(L, r)]
<1>1. \A r \in Stream : Gone(L, r) \in Nat /\ Gone(L, r) <= L.len[r] /\ L.len[r] \in Nat
  BY QueueFacts
<1>2. Gone(L, s) + 1 <= L.len[s] /\ Head(queue[s]) = L.cmd[s][Gone(L, s) + 1]
  BY <1>1, QueueFacts
<1>3. C \in [Stream -> Nat] /\ \A r \in Stream : Gone(L, r) <= C[r] /\ C[r] <= L.len[r]
  BY <1>1, <1>2
<1>4. ASSUME NEW r \in Stream, NEW k \in 1 .. C[r], L.cmd[r][k].kind = "wait"
      PROVE  L.rec[L.cmd[r][k].event][L.cmd[r][k].ticket] <= C[Home(L.cmd[r][k].event)]
  <2> DEFINE e == L.cmd[r][k].event  T == L.cmd[r][k].ticket
  <2>1. k \in 1 .. L.len[r]
    BY <1>1, <1>3
  <2>2. e \in EventsOfPlan /\ T \in 1 .. issued[e]
    BY <1>4, <2>1 DEF CommandsOK, CommandOK
  <2>3. RecordsOK(L, e)
    BY <2>2 DEF EventsOK
  <2>4. Home(e) \in Stream /\ L.rec[e][T] \in 1 .. L.len[Home(e)]
        /\ (T <= done[e] <=> L.rec[e][T] <= Gone(L, Home(e)))
    BY <2>2, <2>3, Zenon DEF RecordsOK
  <2>5. L.rec[e][T] <= Gone(L, Home(e))
    <3>1. CASE k \in 1 .. Gone(L, r)
      <4> DEFINE G == [q \in Stream |-> Gone(L, q)]
      <4>1. Cut(L, G) /\ k \in 1 .. G[r] /\ G[Home(e)] = Gone(L, Home(e))
        BY <2>4, <3>1 DEF GoneIsCut
      <4> HIDE DEF G
      <4>2. \A q \in Stream : \A j \in 1 .. G[q] : L.cmd[q][j].kind = "wait" =>
              L.rec[L.cmd[q][j].event][L.cmd[q][j].ticket] <= G[Home(L.cmd[q][j].event)]
        BY <4>1, Zenon DEF Cut
      <4> QED
        BY <1>4, <4>1, <4>2, Zenon
    <3>2. CASE k \notin 1 .. Gone(L, r)
      <4>1. r = s /\ k = Gone(L, s) + 1
        BY <1>1, <3>2
      <4>2. done[e] >= T
        BY <1>2, <1>4, <4>1, SMTT(30)
      <4> QED
        BY <2>2, <2>3, <2>4, <4>2, Zenon DEF RecordsOK
    <3> QED
      BY <3>1, <3>2, Zenon
  <2>6. Gone(L, Home(e)) <= C[Home(e)]
    BY <1>3, <2>4
  <2> HIDE DEF e, T, C
  <2>7. L.rec[e][T] <= C[Home(e)]
    BY <1>1, <1>3, <2>4, <2>5, <2>6
  <2> QED
    BY <2>7 DEF e, T
<1> QED
  BY <1>3, <1>4, Zenon DEF Cut

(* The work a stream is at.                                                *)
LEMMA WorkAtHead ==
  ASSUME NEW L, LogOK(L), NEW s \in Stream, queue[s] # <<>>, Head(queue[s]).kind = "work"
  PROVE  \E n \in 1 .. L.works : /\ L.on[n] = s /\ L.at[n] = Gone(L, s) + 1
                                 /\ Head(queue[s]) = Job(L, n)
<1>1. Gone(L, s) + 1 \in 1 .. L.len[s] /\ Head(queue[s]) = L.cmd[s][Gone(L, s) + 1]
  BY QueueFacts DEF LogOK
<1>2. PICK n \in 1 .. L.works : L.on[n] = s /\ L.at[n] = Gone(L, s) + 1
  BY <1>1 DEF LogOK, WorksOK
<1> QED
  BY <1>1, <1>2 DEF Job

(* With a work that may start, or has started, all it comes after has      *)
(* ended.                                                                  *)
LEMMA LedIsEnded ==
  ASSUME NEW L, LogOK(L), NEW m \in 1 .. L.works, NEW n \in 1 .. L.works, m # n, Leads(L, m, n),
         \/ Ended(L, n)
         \/ queue[L.on[n]] # <<>> /\ L.at[n] = Gone(L, L.on[n]) + 1
  PROVE  Ended(L, m)
<1>1. /\ L.on[m] \in Stream /\ L.on[n] \in Stream
      /\ L.at[m] \in 1 .. L.len[L.on[m]] /\ L.at[n] \in 1 .. L.len[L.on[n]]
      /\ Job(L, n).kind = "work" /\ L.works \in Nat
      /\ (L.on[m] = L.on[n] /\ L.at[m] = L.at[n] => m = n)
  BY DEF LogOK, WorksOK
<1>2. \A s \in Stream : Gone(L, s) \in Nat /\ L.len[s] \in Nat
  BY QueueFacts DEF LogOK
<1>3. CASE Ended(L, n)
  BY <1>1, <1>3 DEF LogOK, GoneIsCut, Leads, Ended
<1>4. CASE queue[L.on[n]] # <<>> /\ L.at[n] = Gone(L, L.on[n]) + 1
  <2> DEFINE s == L.on[n]
             C == [r \in Stream |-> IF r = s THEN Gone(L, r) + 1 ELSE Gone(L, r)]
  <2>1. Head(queue[s]) = Job(L, n)
    BY <1>1, <1>4, QueueFacts DEF LogOK, Job
  <2>2. Cut(L, C)
    BY <1>1, <1>4, <2>1, NextIsCut DEF LogOK
  <2>3. L.at[n] <= C[L.on[n]]
    BY <1>1, <1>2, <1>4
  <2>4. L.at[m] <= C[L.on[m]]
    BY <2>2, <2>3 DEF Leads
  <2> QED
    BY <1>1, <1>2, <1>4, <2>4 DEF Ended
<1> QED
  BY <1>3, <1>4

(* So of two works that conflict, the later has neither started nor ended  *)
(* before the earlier has ended.                                           *)
LEMMA EarlierHasEnded ==
  ASSUME NEW L, LogOK(L), NEW n \in 1 .. L.works, NEW m \in 1 .. n - 1,
         Conflict(Job(L, m), Job(L, n)), Ended(L, n) \/ Runs(L, n)
  PROVE  Ended(L, m)
<1>1. L.works \in Nat /\ m \in 1 .. L.works /\ m # n
  BY DEF LogOK, WorksOK
<1>2. Leads(L, m, n)
  BY DEF LogOK, Sorted
<1>3. Runs(L, n) => queue[L.on[n]] # <<>>
  BY DEF LogOK, StartedOK, Runs
<1> QED
  BY <1>1, <1>2, <1>3, LedIsEnded DEF Runs

(* A work that runs has not ended.                                         *)
LEMMA RunsOrEnded ==
  ASSUME NEW L, LogOK(L), NEW n \in 1 .. L.works, Runs(L, n)
  PROVE  ~Ended(L, n)
<1>1. L.on[n] \in Stream
  BY DEF LogOK, WorksOK
<1>2. Gone(L, L.on[n]) \in Nat
  BY <1>1, QueueFacts DEF LogOK
<1> QED
  BY <1>2 DEF Runs, Ended

(* Two works that run at once are on two streams, and led by neither: they *)
(* do not conflict.                                                        *)
LEMMA LogNoConflict ==
  ASSUME NEW L, LogOK(L)
  PROVE  NoConflictingAccess
<1> SUFFICES ASSUME NEW s \in started, NEW r \in started, s # r,
                    DOMAIN Current(s).writes
                      \cap (DOMAIN Current(r).reads \cup DOMAIN Current(r).writes) # {}
             PROVE  FALSE
  BY DEF NoConflictingAccess
<1>1. /\ s \in Stream /\ queue[s] # <<>> /\ Head(queue[s]).kind = "work"
      /\ r \in Stream /\ queue[r] # <<>> /\ Head(queue[r]).kind = "work"
  BY DEF LogOK, StartedOK
<1>2. PICK m \in 1 .. L.works : L.on[m] = s /\ L.at[m] = Gone(L, s) + 1 /\ Current(s) = Job(L, m)
  BY <1>1, WorkAtHead DEF Current
<1>3. PICK n \in 1 .. L.works : L.on[n] = r /\ L.at[n] = Gone(L, r) + 1 /\ Current(r) = Job(L, n)
  BY <1>1, WorkAtHead DEF Current
<1>4. Runs(L, m) /\ Runs(L, n)
  BY <1>2, <1>3 DEF Runs
<1>5. Conflict(Job(L, m), Job(L, n)) /\ Conflict(Job(L, n), Job(L, m))
  BY <1>2, <1>3 DEF Conflict
<1>6. m \in 1 .. n - 1 \/ n \in 1 .. m - 1
  BY <1>2, <1>3, SMTT(30) DEF LogOK, WorksOK
<1> QED
  BY <1>4, <1>5, <1>6, EarlierHasEnded, RunsOrEnded

(* Of the works before the one that runs, the latest to write a byte has   *)
(* ended, and none after it has started.                                   *)
LEMMA LogFresh ==
  ASSUME NEW L, LogOK(L)
  PROVE  ReadsAreFresh
<1> SUFFICES ASSUME NEW s \in started, NEW b \in DOMAIN Current(s).reads
             PROVE  memory[b] = Current(s).reads[b]
  BY DEF ReadsAreFresh
<1>1. s \in Stream /\ queue[s] # <<>> /\ Head(queue[s]).kind = "work"
  BY DEF LogOK, StartedOK
<1>2. PICK n \in 1 .. L.works : L.on[n] = s /\ L.at[n] = Gone(L, s) + 1 /\ Current(s) = Job(L, n)
  BY <1>1, WorkAtHead DEF Current
<1>3. L.works \in Nat /\ Runs(L, n) /\ ~Ended(L, n)
  BY <1>2, RunsOrEnded DEF Runs, LogOK, WorksOK
<1>4. PICK m \in 1 .. n - 1 :
        /\ b \in DOMAIN Job(L, m).writes /\ Job(L, m).writes[b] = Job(L, n).reads[b]
        /\ \A k \in m + 1 .. n - 1 : b \notin DOMAIN Job(L, k).writes
  BY <1>2 DEF LogOK, Fresh, Latest
<1>5. Ended(L, m)
  BY <1>2, <1>3, <1>4, EarlierHasEnded DEF Conflict
<1>6. ASSUME NEW k \in m + 1 .. L.works, b \in DOMAIN Job(L, k).writes
      PROVE  ~Ended(L, k) /\ ~Runs(L, k)
  <2>1. k # n
    BY <1>2, <1>6 DEF LogOK, WorksOK
  <2>2. n \in 1 .. k - 1 /\ k \in 1 .. L.works
    BY <1>3, <1>4, <1>6, <2>1
  <2>3. Conflict(Job(L, n), Job(L, k))
    BY <1>2, <1>6 DEF Conflict
  <2> QED
    BY <1>3, <2>2, <2>3, EarlierHasEnded
<1>7. m \in 1 .. L.works
  BY <1>3
<1> QED
  BY <1>2, <1>4, <1>5, <1>6, <1>7 DEF LogOK, MemoryOK

-----------------------------------------------------------------------------
(* The steps of the device.                                                *)

(* A stream without its first command is one command further.              *)
LEMMA PopQueue ==
  ASSUME NEW L, QueueOK(L), NEW s \in Stream, queue[s] # <<>>,
         queue' = [queue EXCEPT ![s] = Tail(@)], sa' = sa
  PROVE  /\ QueueOK(L)' /\ Stream' = Stream
         /\ \A r \in Stream : Gone(L, r)' = IF r = s THEN Gone(L, r) + 1 ELSE Gone(L, r)
<1> DEFINE q == queue[s]  S == {L.cmd[s][k] : k \in 1 .. L.len[s]}
<1>1. q \in Seq(S) /\ q # <<>> /\ Len(q) <= L.len[s] /\ L.len[s] \in Nat /\ Len(q) \in Nat
  <2>1. L.len[s] \in Nat /\ Len(queue[s]) \in Nat
    BY QueueFacts
  <2>2. queue[s] \in Seq({L.cmd[s][k] : k \in 1 .. L.len[s]}) /\ Len(queue[s]) <= L.len[s]
    BY DEF QueueOK
  <2> QED
    BY <2>1, <2>2
<1>2. \A i \in 1 .. Len(q) : q[i] = L.cmd[s][Gone(L, s) + i]
  BY DEF QueueOK
<1>3. Stream' = Stream
  BY DEF Stream
<1>4. DOMAIN queue = Stream /\ DOMAIN queue' = Stream
  BY DEF QueueOK
<1>5. queue'[s] = Tail(q) /\ \A r \in Stream \ {s} : queue'[r] = queue[r]
  BY <1>4
<1>6. /\ Tail(q) \in Seq(S) /\ Len(Tail(q)) = Len(q) - 1
      /\ \A i \in 1 .. Len(q) - 1 : Tail(q)[i] = q[i + 1]
  <2> HIDE DEF q, S
  <2> QED
    BY <1>1, Popped
<1>7. \A r \in Stream : Gone(L, r)' = IF r = s THEN Gone(L, r) + 1 ELSE Gone(L, r)
  <2>1. ASSUME NEW r \in Stream, r # s PROVE Gone(L, r)' = Gone(L, r)
    BY <1>5, <2>1 DEF Gone
  <2>2. Gone(L, s)' = Gone(L, s) + 1
    <3>1. Gone(L, s) = L.len[s] - Len(q) /\ Gone(L, s)' = L.len[s] - Len(Tail(q))
      BY <1>5 DEF Gone
    <3> HIDE DEF q
    <3> QED
      BY <1>1, <1>6, <3>1
  <2> QED
    BY <2>1, <2>2
<1>8. ASSUME NEW r \in Stream
      PROVE  /\ queue'[r] \in Seq({L.cmd[r][k] : k \in 1 .. L.len[r]}) /\ Len(queue'[r]) <= L.len[r]
             /\ \A i \in 1 .. Len(queue'[r]) : queue'[r][i] = L.cmd[r][Gone(L, r)' + i]
  <2>1. CASE r # s
    <3>1. queue'[r] = queue[r] /\ Gone(L, r)' = Gone(L, r)
      BY <1>5, <1>7, <2>1
    <3> QED
      BY <3>1 DEF QueueOK
  <2>2. CASE r = s
    <3>1. queue'[r] \in Seq(S) /\ Len(queue'[r]) <= L.len[r]
      BY <1>1, <1>5, <1>6, <2>2
    <3>2. ASSUME NEW i \in 1 .. Len(queue'[r])
          PROVE  queue'[r][i] = L.cmd[r][Gone(L, r)' + i]
      <4> HIDE DEF q
      <4>1. i \in 1 .. Len(q) - 1 /\ i + 1 \in 1 .. Len(q) /\ queue'[r][i] = q[i + 1]
        <5>1. queue'[r] = Tail(q)
          BY <1>5, <2>2
        <5>2. i \in 1 .. Len(q) - 1
          BY <1>6, <3>2, <5>1
        <5> QED
          <6>1. \A j \in 1 .. Len(q) - 1 : j + 1 \in 1 .. Len(q)
            BY <1>1
          <6> QED
            BY <1>6, <5>1, <5>2, <6>1
      <4>2. Gone(L, r)' + i = Gone(L, s) + (i + 1)
        <5>1. Gone(L, r)' = Gone(L, s) + 1 /\ Gone(L, s) \in Nat
          BY <1>7, <2>2, QueueFacts
        <5> QED
          BY <4>1, <5>1
      <4> QED
        BY <1>2, <2>2, <4>1, <4>2
    <3> QED
      BY <2>2, <3>1, <3>2
  <2> QED
    BY <2>1, <2>2
<1> QED
  BY <1>3, <1>4, <1>7, <1>8 DEF QueueOK

(* The homes of the events are those of the plan.                          *)
LEMMA SameHome ==
  ASSUME sa' = sa
  PROVE  /\ \A e : Home(e)' = Home(e)
         /\ EventsOfPlan' = EventsOfPlan /\ Stream' = Stream
BY DEF Home, EventsOfPlan, Stream, Scheduled

(* Completing the next command of a stream keeps all but the memory.       *)
LEMMA PopKeeps ==
  ASSUME NEW L, LogOK(L), NEW s \in Stream, queue[s] # <<>>,
         queue' = [queue EXCEPT ![s] = Tail(@)], UNCHANGED <<sa, issued>>,
         DOMAIN memory' = DOMAIN memory,
         \/ Head(queue[s]).kind = "work" /\ done' = done
         \/ /\ Head(queue[s]).kind = "wait" /\ done' = done
            /\ done[Head(queue[s]).event] >= Head(queue[s]).ticket
         \/ /\ Head(queue[s]).kind = "record"
            /\ done' = [done EXCEPT ![Head(queue[s]).event] = @ + 1]
  PROVE  /\ QueueOK(L)' /\ CommandsOK(L)' /\ EventsOK(L)' /\ WorksOK(L)' /\ GoneIsCut(L)'
         /\ \A C : Cut(L, C)' => Cut(L, C)
         /\ Sorted(L)' /\ Fresh(L)'
<1>1. /\ QueueOK(L)' /\ Stream' = Stream
      /\ \A r \in Stream : Gone(L, r)' = IF r = s THEN Gone(L, r) + 1 ELSE Gone(L, r)
  BY PopQueue DEF LogOK
<1>2. \A r \in Stream : Gone(L, r) \in Nat /\ L.len[r] \in Nat
  BY QueueFacts DEF LogOK
<1>3. (\A e : Home(e)' = Home(e)) /\ EventsOfPlan' = EventsOfPlan /\ Stream' = Stream
  BY SameHome
<1>4. Gone(L, s) + 1 \in 1 .. L.len[s] /\ Head(queue[s]) = L.cmd[s][Gone(L, s) + 1]
  BY QueueFacts DEF LogOK
<1>12. ASSUME NEW e, Home(e) \in Stream
       PROVE  Gone(L, Home(e))' = IF Home(e) = s THEN Gone(L, Home(e)) + 1 ELSE Gone(L, Home(e))
  <2>1. Gone(L, Home(e))' = L.len[Home(e)] - Len(queue'[Home(e)])
    BY <1>3 DEF Gone
  <2>2. \A r \in Stream : L.len[r] - Len(queue'[r]) =
          IF r = s THEN Gone(L, r) + 1 ELSE Gone(L, r)
    BY <1>1 DEF Gone
  <2> QED
    BY <1>12, <2>1, <2>2
<1> DEFINE c == L.cmd[s][Gone(L, s) + 1]
<1>13. CommandsOK(L) /\ EventsOK(L) /\ WorksOK(L)
  BY DEF LogOK
<1>5. CommandsOK(L)'
  <2>1. \A r, k : CommandOK(L, r, k) => CommandOK(L, r, k)'
    BY <1>3, ZenonT(30) DEF CommandOK
  <2> QED
    BY <1>3, <1>13, <2>1, Zenon DEF CommandsOK
<1>6. EventsOK(L)'
  <2>1. DOMAIN done' = EventsOfPlan
    BY <1>13 DEF EventsOK
  <2>2. ASSUME NEW e \in EventsOfPlan
        PROVE  RecordsOK(L, e)'
    <3>1. RecordsOK(L, e)
      BY <1>13 DEF EventsOK
    <3>2. issued[e] \in Nat /\ done[e] \in 0 .. issued[e]
      BY <3>1 DEF RecordsOK
    <3>3. CASE c.kind = "record" /\ c.event = e
      <4>1. done'[e] = done[e] + 1
        BY <1>4, <1>13, <3>3 DEF EventsOK
      <4>9. CommandOK(L, s, Gone(L, s) + 1)
        BY <1>4, <1>13 DEF CommandsOK
      <4>2. PICK T \in 1 .. issued[e] : L.rec[e][T] = Gone(L, s) + 1
        BY <3>3, <4>9 DEF CommandOK
      <4>3. Home(e) = s
        BY <3>3, <4>9 DEF CommandOK
      <4>4. T = done[e] + 1
        <5>6. T <= done[e] => L.rec[e][T] <= Gone(L, s)
          BY <3>1, <4>3, Zenon DEF RecordsOK
        <5>1. ~(T <= done[e])
          BY <1>2, <4>2, <5>6
        <5>2. ASSUME T - 1 > done[e] PROVE FALSE
          <6>1. T - 1 \in 1 .. issued[e] /\ T - 1 < T
            BY <3>2, <5>2
          <6>4. L.rec[e][T - 1] < L.rec[e][T]
            BY <3>1, <6>1, Zenon DEF RecordsOK
          <6>5. L.rec[e][T - 1] \in 1 .. L.len[s]
            BY <3>1, <4>3, <6>1, Zenon DEF RecordsOK
          <6>2. L.rec[e][T - 1] < Gone(L, s) + 1 /\ L.rec[e][T - 1] \in 1 .. L.len[s]
            BY <4>2, <6>4, <6>5, SMTT(30)
          <6>6. L.rec[e][T - 1] <= Gone(L, s) => T - 1 <= done[e]
            BY <3>1, <4>3, <6>1, Zenon DEF RecordsOK
          <6>3. T - 1 <= done[e]
            BY <1>2, <6>2, <6>5, <6>6
          <6> QED
            BY <3>2, <5>2, <6>1, <6>3
        <5> QED
          BY <3>2, <5>1, <5>2, SMTT(30)
      <4>5. ASSUME NEW U \in 1 .. issued[e]
            PROVE  U <= done'[e] <=> L.rec[e][U] <= Gone(L, s) + 1
        <5>5. L.rec[e][U] \in 1 .. L.len[s] /\ (U <= done[e] <=> L.rec[e][U] <= Gone(L, s))
          BY <3>1, <4>3, Zenon DEF RecordsOK
        <5>1. L.rec[e][U] \in Nat /\ (U <= done[e] <=> L.rec[e][U] <= Gone(L, s))
          BY <1>2, <5>5
        <5>2. CASE U = T
          BY <1>2, <4>1, <4>2, <4>4, <5>2, <3>2
        <5>3. CASE U < T
          BY <1>2, <4>1, <4>4, <5>1, <5>3, <3>2
        <5>4. CASE U > T
          <6>1. L.rec[e][T] < L.rec[e][U]
            BY <3>1, <5>4 DEF RecordsOK
          <6> QED
            BY <1>2, <3>2, <4>1, <4>2, <4>4, <5>1, <5>4, <6>1, SMTT(30)
        <5> QED
          BY <5>2, <5>3, <5>4
      <4>6. done'[e] \in 0 .. issued[e]
        BY <3>2, <4>1, <4>4
      <4>7. Gone(L, Home(e))' = Gone(L, s) + 1
        BY <1>12, <4>3
      <4>8. Home(e)' = s
        BY <1>3, <4>3
      <4> QED
        BY <1>3, <3>1, <4>3, <4>5, <4>6, <4>7, <4>8, Zenon DEF RecordsOK
    <3>4. CASE ~(c.kind = "record" /\ c.event = e)
      <4>1. done'[e] = done[e]
        BY <1>4, <1>13, <3>4 DEF EventsOK
      <4>2. ASSUME NEW T \in 1 .. issued[e]
            PROVE  L.rec[e][T] <= Gone(L, Home(e)) <=> L.rec[e][T] <= Gone(L, Home(e))'
        <5>1. /\ L.rec[e][T] \in 1 .. L.len[Home(e)] /\ Home(e) \in Stream
              /\ L.cmd[Home(e)][L.rec[e][T]].kind = "record"
              /\ L.cmd[Home(e)][L.rec[e][T]].event = e
          BY <3>1 DEF RecordsOK
        <5>2. Home(e) = s => L.rec[e][T] # Gone(L, s) + 1
          BY <3>4, <5>1
        <5> QED
          BY <1>2, <1>12, <5>1, <5>2, SMTT(30)
      <4>3. Home(e)' = Home(e)
        BY <1>3
      <4> QED
        BY <1>3, <3>1, <4>1, <4>2, <4>3, Zenon DEF RecordsOK
    <3> QED
      BY <3>3, <3>4
  <2> QED
    BY <1>3, <1>13, <2>1, <2>2 DEF EventsOK
<1>7. WorksOK(L)'
  BY <1>1, <1>13, Zenon DEF WorksOK, Job
<1>8. GoneIsCut(L)'
  <2>1. PICK C : C = [r \in Stream |-> IF r = s THEN Gone(L, r) + 1 ELSE Gone(L, r)]
    OBVIOUS
  <2>2. Cut(L, C)
    BY <1>4, <2>1, NextIsCut DEF LogOK
  <2>3. \A r \in Stream : Gone(L, r)' = C[r]
    BY <1>1, <2>1, SMTT(30)
  <2>4. \A r \in Stream : \A k \in 1 .. C[r] : L.cmd[r][k].kind = "wait" =>
          LET e == L.cmd[r][k].event
          IN  L.rec[e][L.cmd[r][k].ticket] <= C[Home(e)] /\ Home(e) \in Stream
    <3>1. ASSUME NEW r \in Stream, NEW k \in 1 .. C[r], L.cmd[r][k].kind = "wait"
          PROVE  Home(L.cmd[r][k].event) \in Stream
      <4>3. C[r] \in Nat /\ C[r] <= L.len[r]
        BY <2>2, Zenon DEF Cut
      <4>1. k \in 1 .. L.len[r]
        BY <1>2, <4>3
      <4>2. /\ L.cmd[r][k].event \in EventsOfPlan
            /\ L.cmd[r][k].ticket \in 1 .. issued[L.cmd[r][k].event]
        <5>1. CommandOK(L, r, k)
          BY <1>13, <4>1, Zenon DEF CommandsOK
        <5> QED
          BY <3>1, <5>1 DEF CommandOK
      <4>4. RecordsOK(L, L.cmd[r][k].event)
        BY <1>13, <4>2, Zenon DEF EventsOK
      <4> QED
        BY <4>2, <4>4, Zenon DEF RecordsOK
    <3>2. \A r \in Stream : \A k \in 1 .. C[r] : L.cmd[r][k].kind = "wait" =>
            LET e == L.cmd[r][k].event IN L.rec[e][L.cmd[r][k].ticket] <= C[Home(e)]
      BY <2>2, Zenon DEF Cut
    <3> QED
      BY <3>1, <3>2, Zenon
  <2>5. /\ C \in [Stream -> Nat] /\ \A r \in Stream : C[r] <= C[r] /\ C[r] <= L.len[r]
    <3>1. C \in [Stream -> Nat] /\ \A r \in Stream : C[r] <= L.len[r]
      BY <2>2, Zenon DEF Cut
    <3>2. \A r \in Stream : C[r] \in Nat
      BY <3>1, Zenon
    <3> QED
      BY <3>1, <3>2
  <2>6. Cut(L, C)'
    BY <1>1, <1>3, <2>3, <2>4, <2>5, Zenon DEF Cut
  <2>7. C = [r \in Stream' |-> Gone(L, r)']
    BY <1>3, <2>3, <2>5
  <2> QED
    BY <2>6, <2>7, Zenon DEF GoneIsCut, Cut
<1>9. ASSUME NEW C, Cut(L, C)' PROVE Cut(L, C)
  <2>2. C \in [Stream -> Nat] /\ \A r \in Stream : Gone(L, r)' <= C[r]
    BY <1>3, <1>9, Zenon DEF Cut
  <2>3. \A r \in Stream : C[r] \in Nat
    BY <2>2, Zenon
  <2>1. \A r \in Stream : Gone(L, r) <= C[r]
    BY <1>1, <1>2, <2>2, <2>3
  <2> QED
    BY <1>1, <1>3, <1>9, <2>1, ZenonT(30) DEF Cut
<1>10. Sorted(L)'
  BY <1>9, Zenon DEF LogOK, Sorted, Leads, Job
<1>11. Fresh(L)'
  BY Zenon DEF LogOK, Fresh, Latest, Job
<1> QED
  BY <1>1, <1>5, <1>6, <1>7, <1>8, <1>9, <1>10, <1>11

(* A step that completes nothing keeps all but what is started and stored. *)
LEMMA StayKeeps ==
  ASSUME NEW L, LogOK(L), UNCHANGED <<sa, issued, queue, done>>, DOMAIN memory' = DOMAIN memory
  PROVE  /\ QueueOK(L)' /\ CommandsOK(L)' /\ EventsOK(L)' /\ WorksOK(L)' /\ GoneIsCut(L)'
         /\ Sorted(L)' /\ Fresh(L)' /\ \A r : Gone(L, r)' = Gone(L, r)
<1>1. (\A e : Home(e)' = Home(e)) /\ EventsOfPlan' = EventsOfPlan /\ Stream' = Stream
  BY SameHome
<1>2. \A r : Gone(L, r)' = Gone(L, r)
  BY DEF Gone
<1>3. \A e : Gone(L, Home(e))' = Gone(L, Home(e))
  BY <1>1 DEF Gone
<1>4. QueueOK(L)'
  <2>1. /\ DOMAIN queue = Stream /\ L.len \in [Stream -> Nat]
        /\ \A s \in Stream :
             /\ queue[s] \in Seq({L.cmd[s][k] : k \in 1 .. L.len[s]}) /\ Len(queue[s]) <= L.len[s]
             /\ \A i \in 1 .. Len(queue[s]) : queue[s][i] = L.cmd[s][Gone(L, s) + i]
    BY DEF LogOK, QueueOK
  <2>2. queue' = queue
    OBVIOUS
  <2> QED
    <3>1. \A s \in Stream : queue'[s] = queue[s] /\ Gone(L, s)' = Gone(L, s)
      BY <1>2, <2>2
    <3>2. DOMAIN queue' = Stream
      BY <2>1, <2>2
    <3>3. ASSUME NEW s \in Stream
          PROVE  /\ queue'[s] \in Seq({L.cmd[s][k] : k \in 1 .. L.len[s]}) /\ Len(queue'[s]) <= L.len[s]
                 /\ \A i \in 1 .. Len(queue'[s]) : queue'[s][i] = L.cmd[s][Gone(L, s)' + i]
      <4>1. queue'[s] = queue[s] /\ Gone(L, s)' = Gone(L, s)
        BY <3>1
      <4> QED
        BY <2>1, <4>1
    <3> QED
      BY <1>1, <2>1, <3>2, <3>3 DEF QueueOK
<1>5. CommandsOK(L)'
  BY <1>1 DEF LogOK, CommandsOK, CommandOK
<1>6. ASSUME NEW e \in EventsOfPlan PROVE RecordsOK(L, e)'
  <2>1. RecordsOK(L, e)
    BY DEF LogOK, EventsOK
  <2> QED
    BY <1>1, <1>3, <2>1 DEF RecordsOK
<1>7. EventsOK(L)'
  BY <1>1, <1>6 DEF LogOK, EventsOK
<1>8. WorksOK(L)'
  BY <1>1, Zenon DEF LogOK, WorksOK, Job
<1>9. \A C : Cut(L, C)' <=> Cut(L, C)
  BY <1>1, <1>2 DEF Cut
<1>10. GoneIsCut(L)'
  <2>1. PICK G : G = [r \in Stream |-> Gone(L, r)]
    OBVIOUS
  <2>2. G = [r \in Stream' |-> Gone(L, r)']
    BY <1>1, <1>2, <2>1
  <2>3. Cut(L, G)'
    BY <1>9, <2>1 DEF LogOK, GoneIsCut
  <2> QED
    BY <2>2, <2>3 DEF GoneIsCut, Cut
<1>11. Sorted(L)'
  BY <1>9 DEF LogOK, Sorted, Leads, Job
<1>12. Fresh(L)'
  BY Zenon DEF LogOK, Fresh, Latest, Job
<1> QED
  BY <1>2, <1>4, <1>5, <1>7, <1>8, <1>10, <1>11, <1>12

(* A stream is at no work before one that has ended and writes the same    *)
(* bytes.                                                                  *)
LEMMA LaterAtHead ==
  ASSUME NEW L, LogOK(L), NEW n \in 1 .. L.works, L.at[n] = Gone(L, L.on[n]) + 1,
         NEW m \in 1 .. L.works, Ended(L, m),
         DOMAIN Job(L, m).writes \cap DOMAIN Job(L, n).writes # {}
  PROVE  n \in m + 1 .. L.works
<1>1. L.works \in Nat /\ L.on[n] \in Stream
  BY DEF LogOK, WorksOK
<1>2. ~Ended(L, n)
  BY <1>1, QueueFacts DEF LogOK, Ended
<1>3. n # m
  BY <1>2
<1>4. ~(n \in 1 .. m - 1)
  BY <1>2, EarlierHasEnded DEF Conflict
<1> QED
  BY <1>1, <1>3, <1>4

(* A work that starts tears only bytes that no ended work still has.       *)
LEMMA WorkStarts ==
  ASSUME NEW L, LogOK(L), NEW s \in DOMAIN queue, Start(s), UNCHANGED <<sa, issued>>
  PROVE  LogOK(L)'
<1>1. /\ s \in Stream /\ queue[s] # <<>> /\ Head(queue[s]).kind = "work" /\ s \notin started
      /\ started' = started \cup {s} /\ UNCHANGED <<queue, done>>
  BY DEF Start, LogOK, QueueOK
<1>2. PICK n \in 1 .. L.works : L.on[n] = s /\ L.at[n] = Gone(L, s) + 1 /\ Head(queue[s]) = Job(L, n)
  BY <1>1, WorkAtHead
<1>3. memory' = [b \in DOMAIN memory |-> IF b \in DOMAIN Job(L, n).writes THEN Torn ELSE memory[b]]
  BY <1>2 DEF Start, Overwrite
<1>4. /\ QueueOK(L)' /\ CommandsOK(L)' /\ EventsOK(L)' /\ WorksOK(L)' /\ GoneIsCut(L)'
      /\ Sorted(L)' /\ Fresh(L)' /\ \A r : Gone(L, r)' = Gone(L, r)
  BY <1>1, <1>3, StayKeeps
<1>5. StartedOK'
  BY <1>1 DEF LogOK, StartedOK, Stream
<1>6. \A m : /\ Ended(L, m)' = Ended(L, m) /\ (Runs(L, m) => Runs(L, m)') /\ Job(L, m)' = Job(L, m)
  BY <1>1, <1>4 DEF Ended, Runs, Job
<1>7. Runs(L, n)'
  BY <1>1, <1>2, <1>4 DEF Runs
<1>8. ASSUME NEW m \in 1 .. L.works, Ended(L, m), NEW b \in DOMAIN Job(L, m).writes,
             \A k \in m + 1 .. L.works :
               b \in DOMAIN Job(L, k).writes => ~Ended(L, k)' /\ ~Runs(L, k)'
      PROVE  memory'[b] = Job(L, m).writes[b]
  <2>1. b \notin DOMAIN Job(L, n).writes
    BY <1>2, <1>7, <1>8, LaterAtHead
  <2>2. memory[b] = Job(L, m).writes[b]
    BY <1>6, <1>8 DEF LogOK, MemoryOK
  <2>3. b \in DOMAIN memory
    BY <1>8 DEF LogOK, WorksOK
  <2> QED
    BY <1>3, <2>1, <2>2, <2>3
<1>9. MemoryOK(L)'
  BY <1>6, <1>8 DEF MemoryOK
<1> QED
  <2>1. /\ QueueOK(L)' /\ CommandsOK(L)' /\ EventsOK(L)' /\ WorksOK(L)' /\ GoneIsCut(L)'
        /\ Sorted(L)' /\ Fresh(L)'
    BY <1>4
  <2> QED
    BY <1>5, <1>9, <2>1 DEF LogOK

(* A work that ends was given what it expects, so it writes what it        *)
(* promises.                                                               *)
LEMMA WorkFinishes ==
  ASSUME NEW L, LogOK(L), NEW s \in DOMAIN queue, Finish(s), UNCHANGED <<sa, issued>>
  PROVE  LogOK(L)'
<1>1. /\ s \in Stream /\ queue[s] # <<>> /\ Head(queue[s]).kind = "work" /\ s \in started
      /\ started' = started \ {s} /\ done' = done /\ queue' = [queue EXCEPT ![s] = Tail(@)]
  BY DEF Finish, LogOK, QueueOK, StartedOK
<1>2. PICK n \in 1 .. L.works : L.on[n] = s /\ L.at[n] = Gone(L, s) + 1 /\ Head(queue[s]) = Job(L, n)
  BY <1>1, WorkAtHead
<1>3. Results(Job(L, n)) = Job(L, n).writes
  <2>1. \A b \in DOMAIN Job(L, n).reads : memory[b] = Job(L, n).reads[b]
    BY <1>1, <1>2, LogFresh DEF ReadsAreFresh, Current
  <2> QED
    BY <2>1 DEF Results, Misread
<1>4. memory' = [b \in DOMAIN memory |->
                   IF b \in DOMAIN Job(L, n).writes THEN Job(L, n).writes[b] ELSE memory[b]]
  BY <1>2, <1>3 DEF Finish, Overwrite
<1>5. /\ QueueOK(L)' /\ CommandsOK(L)' /\ EventsOK(L)' /\ WorksOK(L)' /\ GoneIsCut(L)'
      /\ Sorted(L)' /\ Fresh(L)'
  BY <1>1, <1>4, PopKeeps
<1>6. /\ \A r \in Stream : Gone(L, r)' = IF r = s THEN Gone(L, r) + 1 ELSE Gone(L, r)
      /\ Stream' = Stream
  BY <1>1, PopQueue DEF LogOK
<1>7. /\ L.works \in Nat
      /\ \A m \in 1 .. L.works : L.on[m] \in Stream /\ L.at[m] \in Nat
      /\ \A m \in 1 .. L.works : L.on[m] = s /\ L.at[m] = L.at[n] => m = n
  BY <1>2 DEF LogOK, WorksOK
<1>8. \A r \in Stream : Gone(L, r) \in Nat
  BY QueueFacts DEF LogOK
<1>9. StartedOK'
  <2>1. ASSUME NEW r \in started' PROVE r \in Stream /\ queue'[r] = queue[r]
    BY <1>1, <2>1 DEF LogOK, StartedOK, QueueOK
  <2> QED
    BY <1>1, <1>6, <2>1 DEF LogOK, StartedOK
<1>10. ASSUME NEW m \in 1 .. L.works
       PROVE  /\ Ended(L, m)' <=> Ended(L, m) \/ m = n
              /\ Runs(L, m) => Runs(L, m)' \/ m = n
              /\ Job(L, m)' = Job(L, m)
  <2>1. Ended(L, m)' <=> L.at[m] <= Gone(L, L.on[m])'
    BY DEF Ended
  <2>2. Runs(L, m)' <=> L.on[m] \in started' /\ L.at[m] = Gone(L, L.on[m])' + 1
    BY DEF Runs
  <2>3. L.on[m] \in Stream /\ Gone(L, L.on[m]) \in Nat /\ L.at[m] \in Nat
    BY <1>7, <1>8
  <2>4. CASE L.on[m] = s
    <3>1. Gone(L, L.on[m])' = Gone(L, s) + 1
      BY <1>6, <2>3, <2>4
    <3> QED
      BY <1>2, <1>7, <2>1, <2>3, <2>4, <3>1 DEF Ended, Runs, Job
  <2>5. CASE L.on[m] # s
    <3>1. Gone(L, L.on[m])' = Gone(L, L.on[m])
      BY <1>6, <2>3, <2>5
    <3> QED
      BY <1>1, <1>2, <2>1, <2>2, <2>5, <3>1 DEF Ended, Runs, Job
  <2> QED
    BY <2>4, <2>5
<1>11. ASSUME NEW m \in 1 .. L.works, Ended(L, m)', NEW b \in DOMAIN Job(L, m).writes,
              \A k \in m + 1 .. L.works :
                b \in DOMAIN Job(L, k).writes => ~Ended(L, k)' /\ ~Runs(L, k)'
       PROVE  memory'[b] = Job(L, m).writes[b]
  <2>1. b \in DOMAIN memory
    BY <1>11 DEF LogOK, WorksOK
  <2>2. CASE m = n
    BY <1>4, <1>11, <2>1, <2>2
  <2>3. CASE m # n
    <3>1. Ended(L, m)
      BY <1>10, <1>11, <2>3
    <3>2. b \notin DOMAIN Job(L, n).writes
      <4>1. Ended(L, n)'
        BY <1>10
      <4> QED
        BY <1>2, <1>11, <3>1, <4>1, LaterAtHead
    <3>3. \A k \in m + 1 .. L.works :
            b \in DOMAIN Job(L, k).writes => ~Ended(L, k) /\ ~Runs(L, k)
      <4>1. \A k \in m + 1 .. L.works : k \in 1 .. L.works
        BY <1>7
      <4> QED
        BY <1>10, <1>11, <4>1
    <3>4. memory[b] = Job(L, m).writes[b]
      BY <1>11, <3>1, <3>3 DEF LogOK, MemoryOK
    <3> QED
      BY <1>4, <2>1, <3>2, <3>4
  <2> QED
    BY <2>2, <2>3
<1>12. MemoryOK(L)'
  <2>1. \A m : Job(L, m)' = Job(L, m)
    BY DEF Job
  <2> QED
    BY <1>11, <2>1 DEF MemoryOK
<1> QED
  BY <1>5, <1>9, <1>12 DEF LogOK

(* Passing a wait or a record moves no data.                               *)
LEMMA CommandPasses ==
  ASSUME NEW L, LogOK(L), NEW s \in DOMAIN queue, PassWait(s) \/ PassRecord(s),
         UNCHANGED <<sa, issued>>
  PROVE  LogOK(L)'
<1>1. /\ s \in Stream /\ queue[s] # <<>> /\ UNCHANGED <<started, memory>>
      /\ queue' = [queue EXCEPT ![s] = Tail(@)]
      /\ Head(queue[s]).kind # "work"
      /\ \/ /\ Head(queue[s]).kind = "wait" /\ done' = done
            /\ done[Head(queue[s]).event] >= Head(queue[s]).ticket
         \/ /\ Head(queue[s]).kind = "record"
            /\ done' = [done EXCEPT ![Head(queue[s]).event] = @ + 1]
  BY DEF PassWait, PassRecord, LogOK, QueueOK
<1>2. s \notin started
  BY <1>1 DEF LogOK, StartedOK
<1>3. /\ QueueOK(L)' /\ CommandsOK(L)' /\ EventsOK(L)' /\ WorksOK(L)' /\ GoneIsCut(L)'
      /\ Sorted(L)' /\ Fresh(L)'
  BY <1>1, PopKeeps
<1>4. /\ \A r \in Stream : Gone(L, r)' = IF r = s THEN Gone(L, r) + 1 ELSE Gone(L, r)
      /\ Stream' = Stream
  BY <1>1, PopQueue DEF LogOK
<1>5. StartedOK'
  <2>1. ASSUME NEW r \in started PROVE r \in Stream /\ queue'[r] = queue[r]
    BY <1>1, <1>2, <2>1 DEF LogOK, StartedOK, QueueOK
  <2> QED
    BY <1>1, <1>4, <2>1 DEF LogOK, StartedOK
<1>6. ASSUME NEW m \in 1 .. L.works
      PROVE  (Ended(L, m)' <=> Ended(L, m)) /\ (Runs(L, m)' <=> Runs(L, m))
  <2>1. Ended(L, m)' <=> L.at[m] <= Gone(L, L.on[m])'
    BY DEF Ended
  <2>2. Runs(L, m)' <=> L.on[m] \in started /\ L.at[m] = Gone(L, L.on[m])' + 1
    BY <1>1 DEF Runs
  <2>3. L.on[m] \in Stream /\ L.at[m] \in Nat /\ Job(L, m).kind = "work"
    BY DEF LogOK, WorksOK
  <2>4. Gone(L, L.on[m]) \in Nat
    BY <2>3, QueueFacts DEF LogOK
  <2>5. CASE L.on[m] = s
    <3>1. Gone(L, L.on[m])' = Gone(L, s) + 1
      BY <1>4, <2>3, <2>5
    <3>2. Head(queue[s]) = L.cmd[s][Gone(L, s) + 1]
      BY <1>1, QueueFacts DEF LogOK
    <3>3. L.at[m] # Gone(L, s) + 1
      BY <1>1, <2>3, <2>5, <3>2 DEF Job
    <3> QED
      BY <1>2, <2>1, <2>2, <2>3, <2>4, <2>5, <3>1, <3>3 DEF Ended, Runs
  <2>6. CASE L.on[m] # s
    <3>1. Gone(L, L.on[m])' = Gone(L, L.on[m])
      BY <1>4, <2>3, <2>6
    <3> QED
      BY <2>1, <2>2, <3>1 DEF Ended, Runs
  <2> QED
    BY <2>5, <2>6
<1>7. MemoryOK(L)'
  <2>1. \A m : Job(L, m)' = Job(L, m)
    BY DEF Job
  <2>2. \A m \in 1 .. L.works : \A k \in m + 1 .. L.works : k \in 1 .. L.works
    OBVIOUS
  <2> QED
    BY <1>1, <1>6, <2>1, <2>2 DEF LogOK, MemoryOK
<1> QED
  BY <1>3, <1>5, <1>7 DEF LogOK

(* So the log stays good whatever the device does next.                    *)
LEMMA DeviceKeepsLog ==
  ASSUME NEW L, LogOK(L), DeviceStep
  PROVE  LogOK(L)'
<1>1. PICK s \in DOMAIN queue : Start(s) \/ Finish(s) \/ PassWait(s) \/ PassRecord(s)
  BY DEF DeviceStep
<1>2. UNCHANGED <<sa, issued>>
  BY DEF DeviceStep, planVars, hbVars
<1>3. CASE Start(s)
  BY <1>2, <1>3, WorkStarts
<1>4. CASE Finish(s)
  BY <1>2, <1>4, WorkFinishes
<1>5. CASE PassWait(s) \/ PassRecord(s)
  BY <1>2, <1>5, CommandPasses
<1> QED
  BY <1>1, <1>3, <1>4, <1>5

-----------------------------------------------------------------------------
(* The steps of the host.  Each appends a batch: some commands to every    *)
(* stream, among them one work at most.                                    *)

(* A sequence is of any set that has all its elements.                     *)
LEMMA SeqByElements ==
  ASSUME NEW A, NEW r \in Seq(A), NEW B, \A i \in 1 .. Len(r) : r[i] \in B
  PROVE  r \in Seq(B)
BY LenProperties

(* The elements of a concatenation.                                        *)
LEMMA ConcatFacts ==
  ASSUME NEW A, NEW q \in Seq(A), NEW B, NEW r \in Seq(B)
  PROVE  /\ q \o r \in Seq(A \cup B) /\ Len(q \o r) = Len(q) + Len(r)
         /\ Len(q) \in Nat /\ Len(r) \in Nat
         /\ \A i \in 1 .. Len(q) : (q \o r)[i] = q[i]
         /\ \A i \in 1 .. Len(r) : (q \o r)[Len(q) + i] = r[i]
<1> DEFINE S == A \cup B
<1>1. q \in Seq(S) /\ r \in Seq(S)
  BY SeqMonotonic
<1> HIDE DEF S
<1>2. /\ q \o r \in Seq(S) /\ Len(q \o r) = Len(q) + Len(r)
      /\ Len(q) \in Nat /\ Len(r) \in Nat
      /\ \A i \in 1 .. Len(q) : (q \o r)[i] = q[i]
      /\ \A i \in 1 .. Len(r) : (q \o r)[Len(q) + i] = r[i]
  BY <1>1
<1> QED
  BY <1>2 DEF S

(* A batch: what each stream is given, which events are recorded and       *)
(* where, and where its work is, if it has one.                            *)
BatchOK(b) ==
  /\ \A s \in Stream : b.new[s] \in Seq(b.cmds)
  /\ b.events \subseteq EventsOfPlan
  /\ \A e \in b.events :
       /\ Home(e) \in Stream /\ b.at[e] \in 1 .. Len(b.new[Home(e)])
       /\ b.new[Home(e)][b.at[e]].kind = "record" /\ b.new[Home(e)][b.at[e]].event = e
  /\ \A s \in Stream : \A k \in 1 .. Len(b.new[s]) :
       LET c == b.new[s][k]
       IN  \/ c.kind = "work" /\ b.work = 1 /\ s = b.on /\ k = b.pos
           \/ /\ c.kind = "wait" /\ c.event \in EventsOfPlan
              /\ c.ticket \in 1 .. IF c.event \in b.events THEN issued[c.event] + 1 ELSE issued[c.event]
           \/ /\ c = Record(c.event) /\ c.kind = "record"
              /\ c.event \in b.events /\ Home(c.event) = s /\ b.at[c.event] = k
  /\ b.work \in {0, 1}
  /\ b.work = 1 => /\ b.on \in Stream /\ b.pos \in 1 .. Len(b.new[b.on])
                   /\ b.new[b.on][b.pos].kind = "work"
                   /\ DOMAIN b.new[b.on][b.pos].writes \subseteq DOMAIN memory
                   /\ DOMAIN b.new[b.on][b.pos].reads \cap DOMAIN b.new[b.on][b.pos].writes = {}

(* The host issues the batch at once.                                      *)
Issues(b) ==
  /\ DOMAIN queue' = Stream /\ \A s \in Stream : queue'[s] = queue[s] \o b.new[s]
  /\ DOMAIN issued' = EventsOfPlan
  /\ \A e \in EventsOfPlan : issued'[e] = IF e \in b.events THEN issued[e] + 1 ELSE issued[e]
  /\ UNCHANGED <<sa, started, done, memory>>

(* M is the log L with the batch.                                          *)
Grown(L, b, M) ==
  /\ M.len \in [Stream -> Nat]
  /\ \A s \in Stream :
       /\ M.len[s] = L.len[s] + Len(b.new[s])
       /\ \A k \in 1 .. L.len[s] : M.cmd[s][k] = L.cmd[s][k]
       /\ \A k \in 1 .. Len(b.new[s]) : M.cmd[s][L.len[s] + k] = b.new[s][k]
  /\ \A e \in EventsOfPlan : \A T \in 1 .. issued[e] : M.rec[e][T] = L.rec[e][T]
  /\ \A e \in b.events : M.rec[e][issued[e] + 1] = L.len[Home(e)] + b.at[e]
  /\ M.works = L.works + b.work
  /\ \A m \in 1 .. L.works : M.on[m] = L.on[m] /\ M.at[m] = L.at[m]
  /\ b.work = 1 => M.on[L.works + 1] = b.on /\ M.at[L.works + 1] = L.len[b.on] + b.pos

(* There is such a log.                                                    *)
LEMMA GrownExists ==
  ASSUME NEW L, LogOK(L), NEW b, BatchOK(b)
  PROVE  \E M : Grown(L, b, M)
<1> DEFINE M == [len |-> [s \in Stream |-> L.len[s] + Len(b.new[s])],
                 cmd |-> [s \in Stream |-> [k \in 1 .. L.len[s] + Len(b.new[s]) |->
                            IF k <= L.len[s] THEN L.cmd[s][k] ELSE b.new[s][k - L.len[s]]]],
                 rec |-> [e \in EventsOfPlan |-> [T \in 1 .. issued[e] + 1 |->
                            IF T <= issued[e] THEN L.rec[e][T] ELSE L.len[Home(e)] + b.at[e]]],
                 works |-> L.works + b.work,
                 on |-> [m \in 1 .. L.works + 1 |-> IF m <= L.works THEN L.on[m] ELSE b.on],
                 at |-> [m \in 1 .. L.works + 1 |->
                           IF m <= L.works THEN L.at[m] ELSE L.len[b.on] + b.pos]]
<1>1. \A s \in Stream : L.len[s] \in Nat
  BY DEF LogOK, QueueOK
<1>2. \A s \in Stream : Len(b.new[s]) \in Nat
  BY LenProperties DEF BatchOK
<1>3. \A e \in EventsOfPlan : issued[e] \in Nat
  BY DEF LogOK, EventsOK, RecordsOK
<1>4. L.works \in Nat
  BY DEF LogOK, WorksOK
<1>5. M.len \in [Stream -> Nat]
  BY <1>1, <1>2
<1>6. ASSUME NEW s \in Stream
      PROVE  /\ M.len[s] = L.len[s] + Len(b.new[s])
             /\ \A k \in 1 .. L.len[s] : M.cmd[s][k] = L.cmd[s][k]
             /\ \A k \in 1 .. Len(b.new[s]) : M.cmd[s][L.len[s] + k] = b.new[s][k]
  <2> DEFINE l == L.len[s]  n == Len(b.new[s])  c == L.cmd[s]  d == b.new[s]
  <2>1. M.len[s] = l + n /\ l \in Nat /\ n \in Nat
    BY <1>1, <1>2
  <2>2. M.cmd[s] = [k \in 1 .. l + n |-> IF k <= l THEN c[k] ELSE d[k - l]]
    OBVIOUS
  <2> HIDE DEF l, n, c, d, M
  <2>3. \A k \in 1 .. l : M.cmd[s][k] = c[k]
    BY <2>1, <2>2
  <2>4. \A k \in 1 .. n : M.cmd[s][l + k] = d[k]
    <3> SUFFICES ASSUME NEW k \in 1 .. n PROVE M.cmd[s][l + k] = d[k]
      OBVIOUS
    <3>1. l + k \in 1 .. l + n /\ ~(l + k <= l) /\ (l + k) - l = k
      BY <2>1
    <3> QED
      BY <2>2, <3>1
  <2> QED
    BY <2>1, <2>3, <2>4 DEF l, n, c, d
<1>7. ASSUME NEW e \in EventsOfPlan, NEW T \in 1 .. issued[e]
      PROVE  M.rec[e][T] = L.rec[e][T]
  BY <1>3, <1>7
<1>8. ASSUME NEW e \in b.events PROVE M.rec[e][issued[e] + 1] = L.len[Home(e)] + b.at[e]
  <2>1. e \in EventsOfPlan
    BY DEF BatchOK
  <2> QED
    BY <1>3, <2>1
<1>9. /\ M.works = L.works + b.work
      /\ \A m \in 1 .. L.works : M.on[m] = L.on[m] /\ M.at[m] = L.at[m]
      /\ M.on[L.works + 1] = b.on /\ M.at[L.works + 1] = L.len[b.on] + b.pos
  BY <1>4
<1> HIDE DEF M
<1>10. Grown(L, b, M)
  BY <1>5, <1>6, <1>7, <1>8, <1>9 DEF Grown
<1> QED
  BY <1>10

(* The batch is at the end of the queues, and nothing has completed.       *)
LEMMA BatchQueue ==
  ASSUME NEW L, LogOK(L), NEW b, BatchOK(b), Issues(b), NEW M, Grown(L, b, M)
  PROVE  /\ QueueOK(M)' /\ \A s \in Stream : Gone(M, s)' = Gone(L, s)
         /\ Stream' = Stream /\ StartedOK'
         /\ \A s \in Stream : queue[s] # <<>> => queue'[s] # <<>>
<1>1. Stream' = Stream
  BY DEF Stream, Issues
<1>2. ASSUME NEW s \in Stream
      PROVE  /\ queue'[s] \in Seq({M.cmd[s][k] : k \in 1 .. M.len[s]})
             /\ Len(queue'[s]) <= M.len[s] /\ Gone(M, s)' = Gone(L, s)
             /\ \A i \in 1 .. Len(queue'[s]) : queue'[s][i] = M.cmd[s][Gone(L, s) + i]
             /\ queue[s] # <<>> => queue'[s] # <<>> /\ Head(queue'[s]) = Head(queue[s])
  <2> DEFINE q == queue[s]  r == b.new[s]  l == L.len[s]  g == Gone(L, s)
             A == {L.cmd[s][k] : k \in 1 .. l}
  <2>1. q \in Seq(A) /\ l \in Nat /\ g \in Nat /\ Len(q) = l - g /\ g <= l
    <3>1. q \in Seq(A) /\ Len(q) <= l /\ g = l - Len(q)
      BY DEF LogOK, QueueOK, Gone
    <3>2. l \in Nat /\ g \in Nat /\ g <= l /\ Len(q) \in Nat
      BY QueueFacts DEF LogOK
    <3> HIDE DEF q, l, g, A
    <3> QED
      BY <3>1, <3>2
  <2> DEFINE D == b.cmds
  <2>2. r \in Seq(D)
    BY DEF BatchOK
  <2>3. queue'[s] = q \o r
    BY DEF Issues
  <2>4. \A i \in 1 .. Len(q) : q[i] = L.cmd[s][g + i]
    BY DEF LogOK, QueueOK
  <2>5. /\ M.len[s] = l + Len(r)
        /\ \A k \in 1 .. l : M.cmd[s][k] = L.cmd[s][k]
        /\ \A k \in 1 .. Len(r) : M.cmd[s][l + k] = r[k]
    BY DEF Grown
  <2>6. Gone(M, s)' = M.len[s] - Len(q \o r)
    BY <2>3 DEF Gone
  <2> DEFINE B == {M.cmd[s][k] : k \in 1 .. M.len[s]}
  <2>7. queue'[s] \in Seq(B) <=> q \o r \in Seq(B)
    BY <2>3
  <2> HIDE DEF q, r, l, g, A, B, D
  <2>8. /\ q \o r \in Seq(A \cup D) /\ Len(q \o r) = Len(q) + Len(r)
        /\ Len(q) \in Nat /\ Len(r) \in Nat
        /\ \A i \in 1 .. Len(q) : (q \o r)[i] = q[i]
        /\ \A i \in 1 .. Len(r) : (q \o r)[Len(q) + i] = r[i]
    <3>1. q \in Seq(A) /\ r \in Seq(D)
      BY <2>1, <2>2
    <3> QED
      BY <3>1, ConcatFacts
  <2>9. ASSUME NEW i \in 1 .. Len(q \o r)
        PROVE  (q \o r)[i] = M.cmd[s][g + i] /\ g + i \in 1 .. M.len[s]
    <3>1. g + i \in 1 .. M.len[s]
      BY <2>1, <2>5, <2>8
    <3>2. CASE i \in 1 .. Len(q)
      <4>1. g + i \in 1 .. l
        BY <2>1, <3>2
      <4> QED
        BY <2>4, <2>5, <2>8, <3>1, <3>2, <4>1
    <3>3. CASE i \notin 1 .. Len(q)
      <4>1. i - Len(q) \in 1 .. Len(r) /\ i = Len(q) + (i - Len(q)) /\ g + i = l + (i - Len(q))
        <5> DEFINE x == Len(q)  y == Len(r)
        <5>1. i \in 1 .. x + y /\ i \notin 1 .. x /\ x \in Nat /\ y \in Nat /\ g + x = l
          BY <2>1, <2>8, <2>9, <3>3
        <5> HIDE DEF x, y
        <5>2. i - x \in 1 .. y /\ i = x + (i - x) /\ g + i = l + (i - x)
          BY <2>1, <5>1
        <5> QED
          BY <5>2 DEF x, y
      <4> QED
        BY <2>5, <2>8, <3>1, <4>1
    <3> QED
      BY <3>2, <3>3
  <2>10. q \o r \in Seq(B)
    <3> DEFINE p == q \o r  E == A \cup D
    <3>1. \A i \in 1 .. Len(q \o r) : (q \o r)[i] \in B
      BY <2>9 DEF B
    <3>2. p \in Seq(E) /\ \A i \in 1 .. Len(p) : p[i] \in B
      BY <2>8, <3>1
    <3> HIDE DEF p, E
    <3>3. p \in Seq(B)
      BY <3>2, SeqByElements
    <3> QED
      BY <3>3 DEF p
  <2>11. Gone(M, s)' = g
    BY <2>1, <2>5, <2>6, <2>8
  <2>12. q # <<>> => q \o r # <<>> /\ Head(q \o r) = Head(q)
    <3> SUFFICES ASSUME q # <<>> PROVE q \o r # <<>> /\ Head(q \o r) = Head(q)
      OBVIOUS
    <3>1. 1 \in 1 .. Len(q) /\ Head(q) = q[1]
      BY <2>1, Popped
    <3>2. Len(q \o r) > 0
      BY <2>8, <3>1
    <3>3. q \o r # <<>>
      <4> DEFINE p == q \o r
      <4>1. p \in Seq(B) /\ Len(p) > 0
        BY <2>10, <3>2
      <4> HIDE DEF p
      <4> QED
        BY <4>1 DEF p
    <3>4. Head(q \o r) = (q \o r)[1]
      BY <2>8, <3>3, Popped
    <3> QED
      BY <2>8, <3>1, <3>3, <3>4
  <2>13. Len(q \o r) <= M.len[s]
    BY <2>1, <2>5, <2>8
  <2> QED
    BY <2>3, <2>7, <2>9, <2>10, <2>11, <2>12, <2>13 DEF q, r, l, g, B
<1>3. DOMAIN queue' = Stream
  BY DEF Issues
<1>4. QueueOK(M)'
  <2>1. \A s \in Stream : /\ queue'[s] \in Seq({M.cmd[s][k] : k \in 1 .. M.len[s]})
                          /\ Len(queue'[s]) <= M.len[s]
                          /\ \A i \in 1 .. Len(queue'[s]) : queue'[s][i] = M.cmd[s][Gone(M, s)' + i]
    BY <1>2
  <2>2. M.len \in [Stream -> Nat]
    BY DEF Grown
  <2> QED
    BY <1>1, <1>3, <2>1, <2>2 DEF QueueOK
<1>5. StartedOK'
  <2>1. started' = started
    BY DEF Issues
  <2> QED
    BY <1>1, <1>2, <2>1 DEF StartedOK, LogOK
<1> QED
  BY <1>1, <1>2, <1>4, <1>5

(* The commands of the batch are good, and its records are the latest of   *)
(* their events.                                                           *)
LEMMA BatchCommands ==
  ASSUME NEW L, LogOK(L), NEW b, BatchOK(b), Issues(b), NEW M, Grown(L, b, M)
  PROVE  /\ CommandsOK(M)' /\ EventsOK(M)'
         /\ \A s \in Stream : \A k \in 1 .. M.len[s] :
              k \in 1 .. L.len[s] \/ \E j \in 1 .. Len(b.new[s]) : k = L.len[s] + j
<1>1. (\A e : Home(e)' = Home(e)) /\ EventsOfPlan' = EventsOfPlan /\ Stream' = Stream
  BY SameHome DEF Issues
<1>2. \A s \in Stream : /\ L.len[s] \in Nat /\ Len(b.new[s]) \in Nat /\ Gone(L, s) \in Nat
                         /\ Gone(L, s) <= L.len[s] /\ M.len[s] = L.len[s] + Len(b.new[s])
  BY QueueFacts, LenProperties DEF LogOK, BatchOK, Grown
<1>3. \A e \in EventsOfPlan :
        /\ issued[e] \in Nat /\ done[e] \in 0 .. issued[e]
        /\ issued'[e] = IF e \in b.events THEN issued[e] + 1 ELSE issued[e]
  BY DEF LogOK, EventsOK, RecordsOK, Issues
<1>4. ASSUME NEW s \in Stream, NEW k \in 1 .. M.len[s]
      PROVE  k \in 1 .. L.len[s] \/ \E j \in 1 .. Len(b.new[s]) : k = L.len[s] + j
  <2> SUFFICES ASSUME k \notin 1 .. L.len[s] PROVE \E j \in 1 .. Len(b.new[s]) : k = L.len[s] + j
    OBVIOUS
  <2>1. k - L.len[s] \in 1 .. Len(b.new[s]) /\ k = L.len[s] + (k - L.len[s])
    BY <1>2, SMTT(30)
  <2> QED
    BY <2>1
<1>5. ASSUME NEW s \in Stream, NEW k \in 1 .. M.len[s]
      PROVE  CommandOK(M, s, k)'
  <2> DEFINE c == M.cmd[s][k]
  <2>1. CASE k \in 1 .. L.len[s]
    <3>1. c = L.cmd[s][k]
      BY <2>1 DEF Grown
    <3>2. CommandOK(L, s, k)
      BY <2>1 DEF LogOK, CommandsOK
    <3>3. CASE c.kind = "work"
      BY <3>3 DEF CommandOK
    <3>4. CASE c.kind = "wait" /\ c.event \in EventsOfPlan /\ c.ticket \in 1 .. issued[c.event]
      <4>1. c.ticket \in 1 .. issued'[c.event]
        BY <1>3, <3>4
      <4> QED
        BY <1>1, <3>4, <4>1 DEF CommandOK
    <3>5. CASE /\ c = Record(c.event) /\ c.kind = "record" /\ c.event \in EventsOfPlan /\ Home(c.event) = s
               /\ \E T \in 1 .. issued[c.event] : L.rec[c.event][T] = k
      <4>1. PICK T \in 1 .. issued[c.event] : L.rec[c.event][T] = k
        BY <3>5
      <4>2. T \in 1 .. issued'[c.event] /\ M.rec[c.event][T] = k
        <5>1. c.event \in EventsOfPlan
          BY <3>5
        <5> HIDE DEF c
        <5>2. T \in 1 .. issued'[c.event]
          BY <1>3, <4>1, <5>1
        <5>3. M.rec[c.event][T] = L.rec[c.event][T]
          BY <4>1, <5>1 DEF Grown
        <5>4. L.rec[c.event][T] = k
          BY <4>1
        <5> QED
          BY <5>2, <5>3, <5>4
      <4> QED
        BY <1>1, <3>5, <4>2 DEF CommandOK
    <3> QED
      BY <3>1, <3>2, <3>3, <3>4, <3>5, Zenon DEF CommandOK
  <2>2. ASSUME NEW j \in 1 .. Len(b.new[s]), k = L.len[s] + j
        PROVE  CommandOK(M, s, k)'
    <3>1. c = b.new[s][j]
      BY <2>2 DEF Grown
    <3>2. CASE c.kind = "work"
      BY <3>2 DEF CommandOK
    <3>3. CASE /\ c.kind = "wait" /\ c.event \in EventsOfPlan
               /\ c.ticket \in 1 .. IF c.event \in b.events THEN issued[c.event] + 1 ELSE issued[c.event]
      BY <1>1, <1>3, <3>3, SMTT(30) DEF CommandOK
    <3>4. CASE /\ c = Record(c.event) /\ c.kind = "record"
               /\ c.event \in b.events /\ Home(c.event) = s /\ b.at[c.event] = j
      <4>1. c.event \in EventsOfPlan
        BY <3>4 DEF BatchOK
      <4>2. issued[c.event] + 1 \in 1 .. issued'[c.event]
        BY <1>3, <3>4, <4>1
      <4>3. M.rec[c.event][issued[c.event] + 1] = k
        BY <2>2, <3>4, Zenon DEF Grown
      <4> QED
        BY <1>1, <3>4, <4>1, <4>2, <4>3 DEF CommandOK
    <3>5. LET d == b.new[s][j]
          IN  \/ d.kind = "work"
              \/ /\ d.kind = "wait" /\ d.event \in EventsOfPlan
                 /\ d.ticket \in 1 .. IF d.event \in b.events THEN issued[d.event] + 1 ELSE issued[d.event]
              \/ /\ d = Record(d.event) /\ d.kind = "record"
                 /\ d.event \in b.events /\ Home(d.event) = s /\ b.at[d.event] = j
      BY <2>2, Zenon DEF BatchOK
    <3> QED
      BY <3>1, <3>2, <3>3, <3>4, <3>5, Zenon
  <2> QED
    BY <1>4, <2>1, <2>2
<1>6. CommandsOK(M)'
  BY <1>1, <1>5 DEF CommandsOK
<1>7. ASSUME NEW e \in EventsOfPlan PROVE RecordsOK(M, e)'
  <2>1. RecordsOK(L, e)
    BY DEF LogOK, EventsOK
  <2>2. issued'[e] \in Nat /\ done'[e] \in 0 .. issued'[e] /\ done' = done
    BY <1>3 DEF Issues
  <2>3. ASSUME NEW T \in 1 .. issued[e]
        PROVE  /\ Home(e) \in Stream /\ M.rec[e][T] \in 1 .. L.len[Home(e)]
               /\ M.rec[e][T] = L.rec[e][T] /\ M.rec[e][T] \in 1 .. M.len[Home(e)]
               /\ M.cmd[Home(e)][M.rec[e][T]].kind = "record"
               /\ M.cmd[Home(e)][M.rec[e][T]].event = e
               /\ T <= done[e] <=> M.rec[e][T] <= Gone(L, Home(e))
    <3>1. M.rec[e][T] = L.rec[e][T]
      BY DEF Grown
    <3>2. /\ Home(e) \in Stream /\ L.rec[e][T] \in 1 .. L.len[Home(e)]
          /\ L.cmd[Home(e)][L.rec[e][T]].kind = "record" /\ L.cmd[Home(e)][L.rec[e][T]].event = e
          /\ T <= done[e] <=> L.rec[e][T] <= Gone(L, Home(e))
      BY <2>1 DEF RecordsOK
    <3>3. M.cmd[Home(e)][L.rec[e][T]] = L.cmd[Home(e)][L.rec[e][T]]
      BY <3>2 DEF Grown
    <3>4. L.rec[e][T] \in 1 .. M.len[Home(e)]
      BY <1>2, <3>2
    <3> QED
      BY <3>1, <3>2, <3>3, <3>4
  <2>4. ASSUME e \in b.events
        PROVE  LET T == issued[e] + 1
               IN  /\ Home(e) \in Stream /\ M.rec[e][T] \in 1 .. M.len[Home(e)]
                   /\ M.rec[e][T] > L.len[Home(e)]
                   /\ M.cmd[Home(e)][M.rec[e][T]].kind = "record"
                   /\ M.cmd[Home(e)][M.rec[e][T]].event = e
                   /\ T <= done[e] <=> M.rec[e][T] <= Gone(L, Home(e))
    <3>1. /\ Home(e) \in Stream /\ b.at[e] \in 1 .. Len(b.new[Home(e)])
          /\ b.new[Home(e)][b.at[e]].kind = "record" /\ b.new[Home(e)][b.at[e]].event = e
      BY <2>4 DEF BatchOK
    <3>2. M.rec[e][issued[e] + 1] = L.len[Home(e)] + b.at[e]
      BY <2>4 DEF Grown
    <3>3. M.cmd[Home(e)][L.len[Home(e)] + b.at[e]] = b.new[Home(e)][b.at[e]]
      BY <3>1 DEF Grown
    <3> QED
      BY <1>2, <1>3, <3>1, <3>2, <3>3, SMTT(30)
  <2>5. Home(e) \in Stream => Gone(M, Home(e))' = Gone(L, Home(e))
    <3>1. Gone(M, Home(e))' = M.len[Home(e)] - Len(queue'[Home(e)])
      BY <1>1 DEF Gone
    <3>2. \A s \in Stream : M.len[s] - Len(queue'[s]) = Gone(L, s)
      BY BatchQueue DEF Gone
    <3> QED
      BY <3>1, <3>2
  <2>6. ASSUME NEW T \in 1 .. issued'[e]
        PROVE  /\ Home(e) \in Stream /\ M.rec[e][T] \in 1 .. M.len[Home(e)]
               /\ M.cmd[Home(e)][M.rec[e][T]].kind = "record"
               /\ M.cmd[Home(e)][M.rec[e][T]].event = e
               /\ T <= done[e] <=> M.rec[e][T] <= Gone(L, Home(e))
    <3>1. T \in 1 .. issued[e] \/ (e \in b.events /\ T = issued[e] + 1)
      BY <1>3
    <3>2. CASE T \in 1 .. issued[e]
      BY <2>3, <3>2, SMTT(30)
    <3>3. CASE e \in b.events /\ T = issued[e] + 1
      BY <2>4, <3>3
    <3> QED
      BY <3>1, <3>2, <3>3
  <2>7. ASSUME NEW T \in 1 .. issued'[e], NEW U \in 1 .. issued'[e], T < U
        PROVE  M.rec[e][T] < M.rec[e][U]
    <3>1. T \in 1 .. issued[e]
      BY <1>3, <2>7
    <3>2. U \in 1 .. issued[e] \/ (e \in b.events /\ U = issued[e] + 1)
      BY <1>3
    <3>3. CASE U \in 1 .. issued[e]
      <4>1. L.rec[e][T] < L.rec[e][U]
        BY <2>1, <2>7, <3>1, <3>3, Zenon DEF RecordsOK
      <4>2. M.rec[e][T] = L.rec[e][T] /\ M.rec[e][U] = L.rec[e][U]
        BY <2>3, <3>1, <3>3, Zenon
      <4> QED
        BY <4>1, <4>2, Zenon
    <3>4. CASE e \in b.events /\ U = issued[e] + 1
      <4>1. M.rec[e][T] \in 1 .. L.len[Home(e)] /\ M.rec[e][U] > L.len[Home(e)] /\ Home(e) \in Stream
        BY <2>3, <2>4, <3>1, <3>4, Zenon
      <4>2. M.rec[e][U] \in 1 .. M.len[Home(e)]
        BY <2>4, <3>4, Zenon
      <4> QED
        BY <1>2, <4>1, <4>2
    <3> QED
      BY <3>2, <3>3, <3>4
  <2> QED
    BY <1>1, <2>2, <2>5, <2>6, <2>7 DEF RecordsOK
<1>8. EventsOK(M)'
  <2>1. DOMAIN issued' = EventsOfPlan /\ DOMAIN done' = EventsOfPlan
    BY DEF Issues, LogOK, EventsOK
  <2> QED
    BY <1>1, <1>7, <2>1 DEF EventsOK
<1> QED
  BY <1>4, <1>6, <1>8

(* What a stream may get to was so before the batch, up to its end.        *)
Upto(L, C) == [s \in Stream |-> IF C[s] <= L.len[s] THEN C[s] ELSE L.len[s]]

(* A cut of the new log is one of the old, where it has that much: what    *)
(* was led still is.                                                       *)
LEMMA BatchCuts ==
  ASSUME NEW L, LogOK(L), NEW b, BatchOK(b), Issues(b), NEW M, Grown(L, b, M)
  PROVE  /\ GoneIsCut(M)' /\ \A C : Cut(M, C)' => Cut(L, Upto(L, C))
         /\ \A m, n \in 1 .. L.works : Leads(L, m, n) => Leads(M, m, n)'
<1>1. (\A e : Home(e)' = Home(e)) /\ EventsOfPlan' = EventsOfPlan /\ Stream' = Stream
  BY SameHome DEF Issues
<1>2. \A s \in Stream : /\ L.len[s] \in Nat /\ Len(b.new[s]) \in Nat /\ Gone(L, s) \in Nat
                         /\ Gone(L, s) <= L.len[s] /\ M.len[s] = L.len[s] + Len(b.new[s])
                         /\ Gone(M, s)' = Gone(L, s)
  <2>1. \A s \in Stream : /\ L.len[s] \in Nat /\ Gone(L, s) \in Nat /\ Gone(L, s) <= L.len[s]
    BY QueueFacts DEF LogOK
  <2>2. \A s \in Stream : Len(b.new[s]) \in Nat
    BY LenProperties DEF BatchOK
  <2>3. \A s \in Stream : M.len[s] = L.len[s] + Len(b.new[s])
    BY DEF Grown
  <2>4. \A s \in Stream : Gone(M, s)' = Gone(L, s)
    BY BatchQueue
  <2> QED
    BY <2>1, <2>2, <2>3, <2>4
<1>3. ASSUME NEW s \in Stream, NEW k \in 1 .. L.len[s], L.cmd[s][k].kind = "wait"
      PROVE  LET e == L.cmd[s][k].event  T == L.cmd[s][k].ticket
             IN  /\ M.cmd[s][k] = L.cmd[s][k] /\ M.rec[e][T] = L.rec[e][T]
                 /\ Home(e) \in Stream /\ L.rec[e][T] \in 1 .. L.len[Home(e)]
  <2>1. L.cmd[s][k].event \in EventsOfPlan /\ L.cmd[s][k].ticket \in 1 .. issued[L.cmd[s][k].event]
    BY <1>3 DEF LogOK, CommandsOK, CommandOK
  <2>2. RecordsOK(L, L.cmd[s][k].event)
    BY <2>1 DEF LogOK, EventsOK
  <2> QED
    BY <2>1, <2>2, ZenonT(30) DEF RecordsOK, Grown
<1>4. ASSUME NEW C, Cut(M, C)' PROVE Cut(L, Upto(L, C))
  <2> DEFINE D == Upto(L, C)
  <2>1. \A s \in Stream : C[s] \in Nat /\ Gone(L, s) <= C[s]
    BY <1>1, <1>2, <1>4 DEF Cut
  <2>2. /\ D \in [Stream -> Nat] /\ \A s \in Stream : Gone(L, s) <= D[s] /\ D[s] <= L.len[s]
        /\ \A s \in Stream : D[s] <= C[s] /\ (C[s] <= L.len[s] => D[s] = C[s])
        /\ \A s \in Stream : C[s] > L.len[s] => D[s] = L.len[s]
    BY <1>2, <2>1 DEF Upto
  <2> HIDE DEF D
  <2>3. ASSUME NEW s \in Stream, NEW k \in 1 .. D[s], L.cmd[s][k].kind = "wait"
        PROVE  L.rec[L.cmd[s][k].event][L.cmd[s][k].ticket] <= D[Home(L.cmd[s][k].event)]
    <3> DEFINE e == L.cmd[s][k].event  T == L.cmd[s][k].ticket
    <3>1. k \in 1 .. L.len[s] /\ k \in 1 .. C[s]
      BY <1>2, <2>1, <2>2
    <3>2. M.cmd[s][k] = L.cmd[s][k] /\ M.rec[e][T] = L.rec[e][T]
          /\ Home(e) \in Stream /\ L.rec[e][T] \in 1 .. L.len[Home(e)]
      BY <1>3, <2>3, <3>1, Zenon
    <3>3. M.rec[e][T] <= C[Home(e)]
      BY <1>1, <1>4, <2>3, <3>1, <3>2, Zenon DEF Cut
    <3> HIDE DEF e, T
    <3>4. L.rec[e][T] <= D[Home(e)]
      BY <1>2, <2>1, <2>2, <3>2, <3>3, SMTT(30)
    <3> QED
      BY <3>4 DEF e, T
  <2> QED
    BY <2>2, <2>3 DEF Cut, D
<1>5. GoneIsCut(M)'
  <2>1. PICK G : G = [s \in Stream |-> Gone(L, s)]
    OBVIOUS
  <2>2. Cut(L, G)
    BY <2>1 DEF LogOK, GoneIsCut
  <2>3. G = [s \in Stream' |-> Gone(M, s)']
    BY <1>1, <1>2, <2>1
  <2>4. \A s \in Stream : /\ G[s] = Gone(L, s) /\ Gone(M, s)' <= G[s] /\ G[s] <= M.len[s]
                           /\ G[s] \in Nat
    BY <1>2, <2>1, SMTT(30)
  <2>5. ASSUME NEW s \in Stream, NEW k \in 1 .. G[s], M.cmd[s][k].kind = "wait"
        PROVE  M.rec[M.cmd[s][k].event][M.cmd[s][k].ticket] <= G[Home(M.cmd[s][k].event)]
    <3>1. k \in 1 .. L.len[s]
      BY <1>2, <2>4
    <3>2. M.cmd[s][k] = L.cmd[s][k]
      BY <3>1 DEF Grown
    <3> QED
      <4> DEFINE e == L.cmd[s][k].event  T == L.cmd[s][k].ticket
      <4>1. M.rec[e][T] = L.rec[e][T]
        <5>1. L.cmd[s][k].kind = "wait"
          BY <2>5, <3>2
        <5> QED
          BY <1>3, <3>1, <5>1, Zenon
      <4>2. L.rec[e][T] <= G[Home(e)]
        BY <2>2, <2>5, <3>2 DEF Cut
      <4> QED
        BY <3>2, <4>1, <4>2
  <2>6. G \in [Stream' -> Nat]
    BY <1>1, <2>1, <2>4
  <2>7. Cut(M, G)'
    BY <1>1, <2>4, <2>5, <2>6 DEF Cut
  <2> QED
    BY <2>3, <2>7 DEF GoneIsCut, Cut
<1>6. ASSUME NEW m \in 1 .. L.works, NEW n \in 1 .. L.works, Leads(L, m, n), NEW C, Cut(M, C)',
             M.at[n] <= C[M.on[n]]
      PROVE  M.at[m] <= C[M.on[m]]
  <2>1. /\ M.at[n] = L.at[n] /\ M.on[n] = L.on[n] /\ M.at[m] = L.at[m] /\ M.on[m] = L.on[m]
        /\ L.on[n] \in Stream /\ L.on[m] \in Stream
        /\ L.at[n] \in 1 .. L.len[L.on[n]] /\ L.at[m] \in 1 .. L.len[L.on[m]]
    BY DEF Grown, LogOK, WorksOK
  <2>2. PICK D : D = Upto(L, C)
    OBVIOUS
  <2>3. \A s \in Stream : C[s] \in Nat /\ D[s] = IF C[s] <= L.len[s] THEN C[s] ELSE L.len[s]
    BY <1>1, <1>6, <2>2 DEF Cut, Upto
  <2>4. L.at[n] <= D[L.on[n]]
    BY <1>2, <1>6, <2>1, <2>3
  <2>5. L.at[m] <= D[L.on[m]]
    BY <1>4, <1>6, <2>2, <2>4 DEF Leads
  <2> QED
    BY <1>2, <2>1, <2>3, <2>5, SMTT(30)
<1>7. \A m, n \in 1 .. L.works : Leads(L, m, n) => Leads(M, m, n)'
  BY <1>6 DEF Leads
<1> QED
  BY <1>4, <1>5, <1>7

(* What the batch's work, if it has one, must be for the log to stay one.  *)
LEMMA BatchIsLogged ==
  ASSUME NEW L, LogOK(L), NEW b, BatchOK(b), Issues(b), NEW M, Grown(L, b, M),
         b.work = 1 =>
           LET c == b.new[b.on][b.pos]
           IN  /\ \A m \in 1 .. L.works : Conflict(Job(L, m), c) => Leads(M, m, L.works + 1)'
               /\ \A v \in DOMAIN c.reads : Latest(L, L.works, v, c.reads[v])
  PROVE  /\ LogOK(M)' /\ L.works \in Nat
         /\ \A m \in 1 .. L.works : Job(M, m) = Job(L, m)
         /\ b.work = 1 => Job(M, L.works + 1) = b.new[b.on][b.pos]
<1>1. Stream' = Stream /\ memory' = memory /\ started' = started
  BY DEF Issues, Stream
<1>2. \A s \in Stream : /\ L.len[s] \in Nat /\ Len(b.new[s]) \in Nat /\ Gone(L, s) \in Nat
                         /\ Gone(L, s) <= L.len[s]
  BY QueueFacts, LenProperties DEF LogOK, BatchOK
<1>3. \A s \in Stream : M.len[s] = L.len[s] + Len(b.new[s]) /\ Gone(M, s)' = Gone(L, s)
  <2>1. \A s \in Stream : M.len[s] = L.len[s] + Len(b.new[s])
    BY DEF Grown
  <2>2. \A s \in Stream : Gone(M, s)' = Gone(L, s)
    BY BatchQueue
  <2> QED
    BY <2>1, <2>2
<1>4. L.works \in Nat /\ b.work \in {0, 1} /\ M.works = L.works + b.work
  BY DEF LogOK, WorksOK, BatchOK, Grown
<1>5. \A m \in 1 .. L.works :
        /\ M.on[m] = L.on[m] /\ M.at[m] = L.at[m] /\ L.on[m] \in Stream /\ L.at[m] \in 1 .. L.len[L.on[m]]
        /\ Job(M, m) = Job(L, m)
  <2>1. ASSUME NEW m \in 1 .. L.works
        PROVE  /\ M.on[m] = L.on[m] /\ M.at[m] = L.at[m]
               /\ L.on[m] \in Stream /\ L.at[m] \in 1 .. L.len[L.on[m]]
    <3>1. M.on[m] = L.on[m] /\ M.at[m] = L.at[m]
      BY DEF Grown
    <3>2. WorksOK(L)
      BY DEF LogOK
    <3> QED
      BY <3>1, <3>2 DEF WorksOK
  <2>2. ASSUME NEW m \in 1 .. L.works
        PROVE  M.cmd[L.on[m]][L.at[m]] = L.cmd[L.on[m]][L.at[m]]
    BY <2>1 DEF Grown
  <2> QED
    BY <2>1, <2>2 DEF Job
<1>6. ASSUME b.work = 1
      PROVE  LET n == L.works + 1
             IN  /\ M.on[n] = b.on /\ b.on \in Stream /\ M.at[n] = L.len[b.on] + b.pos
                 /\ b.pos \in 1 .. Len(b.new[b.on]) /\ M.at[n] \in 1 .. M.len[b.on]
                 /\ M.at[n] > L.len[b.on] /\ Job(M, n) = b.new[b.on][b.pos]
  <2>1. /\ M.on[L.works + 1] = b.on /\ b.on \in Stream /\ M.at[L.works + 1] = L.len[b.on] + b.pos
        /\ b.pos \in 1 .. Len(b.new[b.on])
    BY <1>6 DEF Grown, BatchOK
  <2>2. Job(M, L.works + 1) = b.new[b.on][b.pos]
    BY <2>1, SMTT(30) DEF Grown, Job
  <2>3. /\ L.len[b.on] \in Nat /\ Len(b.new[b.on]) \in Nat
        /\ M.len[b.on] = L.len[b.on] + Len(b.new[b.on])
    BY <1>2, <1>3, <2>1
  <2>4. M.at[L.works + 1] \in 1 .. M.len[b.on] /\ M.at[L.works + 1] > L.len[b.on]
    BY <2>1, <2>3
  <2> QED
    BY <2>1, <2>2, <2>4
<1>7. \A m \in 1 .. M.works : m \in 1 .. L.works \/ (b.work = 1 /\ m = L.works + 1)
  BY <1>4
<1>8. WorksOK(M)'
  <2>1. ASSUME NEW m \in 1 .. M.works
        PROVE  /\ M.on[m] \in Stream /\ M.at[m] \in 1 .. M.len[M.on[m]] /\ Job(M, m).kind = "work"
               /\ DOMAIN Job(M, m).writes \subseteq DOMAIN memory
               /\ DOMAIN Job(M, m).reads \cap DOMAIN Job(M, m).writes = {}
    <3>1. CASE m \in 1 .. L.works
      <4>1. M.at[m] \in 1 .. M.len[M.on[m]]
        <5> DEFINE s == L.on[m]
        <5>1. /\ s \in Stream /\ M.on[m] = s /\ M.at[m] = L.at[m] /\ L.at[m] \in 1 .. L.len[s]
          BY <1>5, <3>1
        <5> HIDE DEF s
        <5>2. M.at[m] \in 1 .. M.len[s]
          BY <1>2, <1>3, <5>1, SMTT(30)
        <5> QED
          BY <5>1, <5>2
      <4> QED
        BY <1>5, <3>1, <4>1 DEF LogOK, WorksOK
    <3>2. CASE b.work = 1 /\ m = L.works + 1
      BY <1>6, <3>2 DEF BatchOK
    <3> QED
      BY <1>7, <3>1, <3>2
  <2>2. ASSUME NEW m \in 1 .. M.works, NEW n \in 1 .. M.works, m < n, M.on[m] = M.on[n]
        PROVE  M.at[m] < M.at[n]
    <3>1. m \in 1 .. L.works
      BY <1>4, <2>2
    <3>2. CASE n \in 1 .. L.works
      BY <1>5, <2>2, <3>1, <3>2 DEF LogOK, WorksOK
    <3>3. CASE b.work = 1 /\ n = L.works + 1
      <4>1. L.at[m] \in 1 .. L.len[L.on[m]] /\ M.at[m] = L.at[m] /\ M.on[m] = L.on[m]
        BY <1>5, <3>1
      <4>2. M.on[n] = b.on /\ b.on \in Stream /\ M.at[n] > L.len[b.on] /\ M.at[n] = L.len[b.on] + b.pos
        BY <1>6, <3>3
      <4>3. L.on[m] = b.on
        BY <2>2, <4>1, <4>2
      <4>4. L.len[b.on] \in Nat /\ b.pos \in Nat
        BY <1>2, <1>6, <3>3
      <4> QED
        BY <4>1, <4>2, <4>3, <4>4
    <3> QED
      BY <1>7, <3>2, <3>3
  <2>3. ASSUME NEW s \in Stream, NEW k \in 1 .. M.len[s], M.cmd[s][k].kind = "work"
        PROVE  \E m \in 1 .. M.works : M.on[m] = s /\ M.at[m] = k
    <3>1. CASE k \in 1 .. L.len[s]
      <4>1. M.cmd[s][k] = L.cmd[s][k]
        BY <3>1 DEF Grown
      <4>2. PICK m \in 1 .. L.works : L.on[m] = s /\ L.at[m] = k
        BY <2>3, <3>1, <4>1 DEF LogOK, WorksOK
      <4> QED
        BY <1>4, <1>5, <4>2
    <3>2. ASSUME NEW j \in 1 .. Len(b.new[s]), k = L.len[s] + j
          PROVE  \E m \in 1 .. M.works : M.on[m] = s /\ M.at[m] = k
      <4>1. M.cmd[s][k] = b.new[s][j]
        BY <3>2 DEF Grown
      <4>2. b.work = 1 /\ s = b.on /\ j = b.pos
        <5>1. LET d == b.new[s][j]
              IN  \/ d.kind = "work" /\ b.work = 1 /\ s = b.on /\ j = b.pos
                  \/ /\ d.kind = "wait" /\ d.event \in EventsOfPlan
                     /\ d.ticket \in 1 .. IF d.event \in b.events THEN issued[d.event] + 1 ELSE issued[d.event]
                  \/ /\ d = Record(d.event) /\ d.kind = "record"
                     /\ d.event \in b.events /\ Home(d.event) = s /\ b.at[d.event] = j
          BY <3>2, Zenon DEF BatchOK
        <5>2. b.new[s][j].kind = "work"
          BY <2>3, <4>1, Zenon
        <5> QED
          BY <5>1, <5>2
      <4> QED
        BY <1>4, <1>6, <3>2, <4>2
    <3> QED
      BY <3>1, <3>2, BatchCommands
  <2> QED
    <3>1. \A m : Job(M, m)' = Job(M, m)
      BY DEF Job
    <3>2. M.works \in Nat /\ DOMAIN memory' = DOMAIN memory
      BY <1>1, <1>4
    <3> QED
      BY <1>1, <2>1, <2>2, <2>3, <3>1, <3>2 DEF WorksOK
<1>9. Sorted(M)'
  <2>1. ASSUME NEW n \in 1 .. M.works, NEW m \in 1 .. n - 1, Conflict(Job(M, m), Job(M, n))
        PROVE  Leads(M, m, n)'
    <3>1. m \in 1 .. L.works
      BY <1>4, <1>7
    <3>2. CASE n \in 1 .. L.works
      <4>1. Leads(L, m, n)
        BY <1>5, <2>1, <3>1, <3>2 DEF LogOK, Sorted
      <4> QED
        BY <3>1, <3>2, <4>1, BatchCuts
    <3>3. CASE b.work = 1 /\ n = L.works + 1
      BY <1>5, <1>6, <2>1, <3>1, <3>3
    <3> QED
      BY <1>7, <3>2, <3>3
  <2> QED
    BY <2>1, Zenon DEF Sorted, Job
<1>10. Fresh(M)'
  <2>1. ASSUME NEW n \in 1 .. M.works, NEW v \in DOMAIN Job(M, n).reads
        PROVE  Latest(M, n - 1, v, Job(M, n).reads[v])
    <3>1. Latest(L, n - 1, v, Job(M, n).reads[v]) /\ n - 1 \in 0 .. L.works
      <4>1. CASE n \in 1 .. L.works
        BY <1>4, <1>5, <2>1, <4>1 DEF LogOK, Fresh
      <4>2. CASE b.work = 1 /\ n = L.works + 1
        BY <1>4, <1>6, <2>1, <4>2
      <4> QED
        BY <1>7, <4>1, <4>2
    <3>2. \A m \in 1 .. n - 1 : m \in 1 .. L.works
      BY <1>4, <3>1
    <3>3. \A m \in 1 .. n - 1 : \A k \in m + 1 .. n - 1 : k \in 1 .. L.works
      BY <1>4, <3>1
    <3> QED
      BY <1>5, <3>1, <3>2, <3>3 DEF Latest
  <2>2. \A m : Job(M, m)' = Job(M, m)
    BY DEF Job
  <2>3. \A n, v, w : Latest(M, n, v, w)' <=> Latest(M, n, v, w)
    BY <2>2 DEF Latest
  <2> QED
    BY <2>1, <2>2, <2>3 DEF Fresh
<1>11. ASSUME NEW m \in 1 .. L.works
       PROVE  (Ended(M, m)' <=> Ended(L, m)) /\ (Runs(M, m)' <=> Runs(L, m))
  <2>1. Ended(M, m)' <=> M.at[m] <= Gone(M, M.on[m])'
    BY DEF Ended
  <2>2. Runs(M, m)' <=> M.on[m] \in started /\ M.at[m] = Gone(M, M.on[m])' + 1
    BY <1>1 DEF Runs
  <2>3. Gone(M, M.on[m])' = Gone(L, L.on[m])
    BY <1>3, <1>5
  <2> QED
    BY <1>5, <2>1, <2>2, <2>3 DEF Ended, Runs
<1>12. b.work = 1 => ~Ended(M, L.works + 1)'
  <2> SUFFICES ASSUME b.work = 1 PROVE ~Ended(M, L.works + 1)'
    OBVIOUS
  <2> DEFINE n == L.works + 1
  <2>1. M.on[n] = b.on /\ b.on \in Stream /\ M.at[n] > L.len[b.on] /\ M.at[n] \in Nat
    BY <1>2, <1>3, <1>6
  <2>2. Gone(M, M.on[n])' = Gone(L, b.on)
    BY <1>3, <2>1
  <2>3. ~(M.at[n] <= Gone(M, M.on[n])')
    BY <1>2, <2>1, <2>2
  <2> QED
    BY <2>3 DEF Ended
<1>13. MemoryOK(M)'
  <2>1. ASSUME NEW m \in 1 .. M.works, Ended(M, m)', NEW v \in DOMAIN Job(M, m).writes,
               \A n \in m + 1 .. M.works :
                 v \in DOMAIN Job(M, n).writes => ~Ended(M, n)' /\ ~Runs(M, n)'
        PROVE  memory'[v] = Job(M, m).writes[v]
    <3>1. m \in 1 .. L.works /\ Ended(L, m) /\ Job(M, m) = Job(L, m)
      BY <1>5, <1>7, <1>11, <1>12, <2>1
    <3>2. \A n \in m + 1 .. L.works : n \in 1 .. L.works /\ n \in m + 1 .. M.works
      BY <1>4, <3>1
    <3>3. \A n \in m + 1 .. L.works :
            v \in DOMAIN Job(L, n).writes => ~Ended(L, n) /\ ~Runs(L, n)
      BY <1>5, <1>11, <2>1, <3>2
    <3>4. memory[v] = Job(L, m).writes[v]
      BY <2>1, <3>1, <3>3 DEF LogOK, MemoryOK
    <3> QED
      BY <1>1, <3>1, <3>4
  <2>2. \A m : Job(M, m)' = Job(M, m)
    BY DEF Job
  <2> QED
    BY <2>1, <2>2 DEF MemoryOK
<1>14. QueueOK(M)' /\ StartedOK'
  BY BatchQueue
<1>15. CommandsOK(M)' /\ EventsOK(M)'
  BY BatchCommands
<1>16. GoneIsCut(M)'
  BY BatchCuts
<1>17. LogOK(M)'
  BY <1>8, <1>9, <1>10, <1>13, <1>14, <1>15, <1>16 DEF LogOK
<1> QED
  BY <1>4, <1>5, <1>6, <1>17

-----------------------------------------------------------------------------
(* What the planner hands to the executor.                                 *)

(* A plan as plan() leaves it; what its i-th node reads and makes.         *)
Ready == PlanInv /\ planned

Read(i) == Range(nodes[sa.nodes[i]].inputs)
Made(i) == nodes[sa.nodes[i]].output

(* What the theorems about the planner say of it.                          *)
LEMMA ReadyFacts ==
  ASSUME Ready
  PROVE  /\ AllBuilt /\ GraphOK /\ finalized /\ LiveOK(sa.nodes) /\ Packed
         /\ stage = "planned" /\ built /\ WellPlanned(sa, Len(sa.nodes))
         /\ verify_no_buffer_races /\ Placed = NeedsBytes
<1>1. stage = "planned" /\ built /\ PackInv
  BY DEF Ready, planned, PlanInv
<1>2. Packed /\ mp.todo = {}
  BY <1>1 DEF PackInv
<1> QED
  BY <1>1, <1>2, ScheduleBuilt DEF Ready, planned, PlanInv, PlannedOK, Packed

(* The streams and events of the plan.                                     *)
LEMMA StreamFacts ==
  ASSUME Ready
  PROVE  /\ Len(sa.nodes) \in Nat \ {0} /\ Scheduled = 1 .. Len(sa.nodes)
         /\ sa.streams \in Nat \ {0} /\ 0 \in Stream /\ Stream \subseteq Nat
         /\ (sa.streams > 1 <=> Others # {}) /\ IsFiniteSet(Others)
         /\ \A i \in Scheduled :
              /\ sa.stream[i] \in Stream /\ sa.record[i] \in Nat \cup {kNoEventId}
              /\ sa.waits[i] \subseteq Nat
              /\ \A e \in sa.waits[i] : \E j \in 1 .. i - 1 : sa.record[j] = e
<1>1. WellPlanned(sa, Len(sa.nodes))
  BY ReadyFacts
<1>2. /\ Len(sa.nodes) \in Nat \ {0} /\ Scheduled = 1 .. Len(sa.nodes)
      /\ \A i \in Scheduled :
           /\ sa.stream[i] \in Stream /\ sa.record[i] \in Nat \cup {kNoEventId}
           /\ sa.waits[i] \subseteq Nat
           /\ \A e \in sa.waits[i] : \E j \in 1 .. i - 1 : sa.record[j] = e
  <2>1. Len(sa.nodes) \in Nat \ {0} /\ Scheduled = 1 .. Len(sa.nodes)
    BY <1>1, PlannedIsValid
  <2>2. \A i \in 1 .. Len(sa.nodes) : \A e \in sa.waits[i] : \E j \in 1 .. i - 1 : sa.record[j] = e
    BY <1>1 DEF WellPlanned
  <2>3. \A i \in 1 .. Len(sa.nodes) :
          sa.stream[i] \in Stream /\ sa.record[i] \in Nat \cup {kNoEventId} /\ sa.waits[i] \subseteq Nat
    BY <1>1 DEF WellPlanned, Stream
  <2> QED
    BY <2>1, <2>2, <2>3
<1>3. /\ sa.streams \in Nat \ {0} /\ 0 \in Stream /\ Stream \subseteq Nat
      /\ (sa.streams > 1 <=> Others # {})
  <2>1. sa.streams \in Nat \ {0}
    BY <1>1 DEF WellPlanned
  <2> DEFINE k == sa.streams
  <2>2. Stream = 0 .. k - 1 /\ Others = (0 .. k - 1) \ {0}
    BY DEF Stream, Others
  <2> HIDE DEF k
  <2>3. k > 1 <=> (0 .. k - 1) \ {0} # {}
    <3>1. k > 1 => 1 \in (0 .. k - 1) \ {0}
      BY <2>1 DEF k
    <3>2. \A x \in (0 .. k - 1) \ {0} : k > 1
      BY <2>1 DEF k
    <3> QED
      BY <3>1, <3>2
  <2> QED
    BY <2>1, <2>2, <2>3 DEF k
<1>4. IsFiniteSet(Others)
  <2> DEFINE k == sa.streams
  <2>1. IsFiniteSet(0 .. k - 1)
    BY <1>3, FS_Interval
  <2>2. Others \subseteq 0 .. k - 1
    BY DEF Stream, Others
  <2> QED
    BY <2>1, <2>2, FS_Subset
<1> QED
  BY <1>2, <1>3, <1>4

(* The events, and the streams that record them.                           *)
LEMMA EventFacts ==
  ASSUME Ready
  PROVE  /\ \A i \in Scheduled : sa.record[i] # kNoEventId =>
              NodeEvent(sa.record[i]) \in EventsOfPlan /\ Home(NodeEvent(sa.record[i])) = sa.stream[i]
         /\ \A s \in Others : JoinEvent(s) \in EventsOfPlan /\ Home(JoinEvent(s)) = s
         /\ sa.streams > 1 => ForkEvent \in EventsOfPlan /\ Home(ForkEvent) = 0
<1>1. WellPlanned(sa, Len(sa.nodes)) /\ Scheduled = 1 .. Len(sa.nodes)
  BY ReadyFacts, StreamFacts
<1>2. ASSUME NEW i \in Scheduled, sa.record[i] # kNoEventId
      PROVE  NodeEvent(sa.record[i]) \in EventsOfPlan /\ Home(NodeEvent(sa.record[i])) = sa.stream[i]
  <2>1. sa.record[i] \in 0 .. sa.events - 1
    BY <1>1, <1>2 DEF WellPlanned
  <2>2. \A j \in Scheduled : sa.record[j] = sa.record[i] => j = i
    BY <1>1, <1>2 DEF WellPlanned
  <2>3. NodeEvent(sa.record[i])[1] = "node" /\ NodeEvent(sa.record[i])[2] = sa.record[i]
    BY DEF NodeEvent
  <2>4. (CHOOSE j \in Scheduled : sa.record[j] = sa.record[i]) = i
    BY <1>2, <2>2
  <2> QED
    BY <2>1, <2>3, <2>4 DEF EventsOfPlan, Home
<1>3. ASSUME NEW s \in Others PROVE JoinEvent(s) \in EventsOfPlan /\ Home(JoinEvent(s)) = s
  <2>1. sa.streams > 1 /\ s \in Stream \ {0}
    BY <1>3, StreamFacts DEF Others
  <2>2. JoinEvent(s)[1] # "node" /\ JoinEvent(s)[2] = s
    BY DEF JoinEvent
  <2> QED
    BY <2>1, <2>2 DEF EventsOfPlan, Home
<1>4. ASSUME sa.streams > 1 PROVE ForkEvent \in EventsOfPlan /\ Home(ForkEvent) = 0
  <2>1. ForkEvent[1] # "node" /\ ForkEvent[2] = 0
    BY DEF ForkEvent
  <2> QED
    BY <1>4, <2>1 DEF EventsOfPlan, Home
<1> QED
  BY <1>2, <1>3, <1>4

(* What a scheduled node reads was fed or made by a node before it.        *)
LEMMA NodeFacts ==
  ASSUME Ready, NEW i \in Scheduled
  PROVE  /\ Read(i) \subseteq Placed /\ Made(i) \in Placed
         /\ Producer(Made(i)) = {i} /\ Made(i) \notin Input /\ i \in Accesses(Made(i))
         /\ \A t \in Read(i) :
              /\ i \in Accesses(t) /\ t # Made(i)
              /\ t \in Input \/ \E j \in Producer(t) : precedes(j, i)
<1>1. /\ GraphOK /\ finalized /\ LiveOK(sa.nodes) /\ Placed = NeedsBytes
      /\ PlanInv /\ stage # "build" /\ built /\ verify_plan_ordering
  BY ReadyFacts, ScheduleBuilt DEF Ready
<1>2. DOMAIN sa.nodes = Scheduled /\ Scheduled = 1 .. Len(sa.nodes) /\ Len(sa.nodes) \in Nat
  BY <1>1, StreamFacts DEF LiveOK
<1> DEFINE n == sa.nodes[i]
<1>3. n \in NodeId
  BY <1>1, <1>2 DEF LiveOK
<1>4. /\ InputsOf(n) = Read(i) /\ nodes[n].output = Made(i)
      /\ Read(i) \subseteq TensorId /\ Made(i) \in TensorId
      /\ tensors[Made(i)].producer = n /\ \A t \in Read(i) : tensors[t].producer < n
  BY <1>1, <1>3 DEF GraphOK, NodeOK, InputsOf, Read, Made
<1>5. NodeId = 1 .. Len(nodes) /\ Len(nodes) \in Nat
  BY <1>1 DEF GraphOK
<1>6. \A j, k \in Scheduled : sa.nodes[j] = sa.nodes[k] => j = k
  <2> SUFFICES ASSUME NEW j \in Scheduled, NEW k \in Scheduled, sa.nodes[j] = sa.nodes[k] PROVE j = k
    OBVIOUS
  <2>1. ~(j < k) /\ ~(k < j)
    BY <1>1, <1>2 DEF LiveOK
  <2> QED
    BY <1>2, <2>1
<1>7. Producer(Made(i)) = {i}
  BY <1>2, <1>4, <1>6 DEF Producer, SchedOf
<1>8. Made(i) \notin Input /\ Made(i) \in Placed /\ i \in Accesses(Made(i))
  <2>1. ~tensors[Made(i)].input
    BY <1>1, <1>3, <1>4, <1>5 DEF GraphOK, TensorOK
  <2> QED
    BY <1>1, <1>4, <1>7, <2>1 DEF Input, NeedsBytes, Accesses
<1>9. ASSUME NEW t \in Read(i)
      PROVE  /\ t \in Placed /\ i \in Accesses(t) /\ t # Made(i)
             /\ t \in Input \/ \E j \in Producer(t) : precedes(j, i)
  <2>1. t \in TensorId /\ tensors[t].producer \in 0 .. Len(nodes) /\ TensorOK(t)
    BY <1>1, <1>4 DEF GraphOK, TensorOK
  <2>2. t # Made(i)
    BY <1>3, <1>4, <1>5, <2>1
  <2>3. n \in tensors[t].consumers
    BY <1>1, <1>3, <1>4, <2>1 DEF GraphOK, DerivedOK, Consumers
  <2>4. i \in SchedOf(sa.nodes, n)
    BY <1>2 DEF SchedOf
  <2>5. i \in Accesses(t)
    BY <2>3, <2>4 DEF Accesses
  <2>6. CASE t \in Input
    BY <1>1, <2>1, <2>2, <2>5, <2>6 DEF NeedsBytes, Input
  <2>7. CASE t \notin Input
    <3>1. tensors[t].producer # 0
      BY <2>1, <2>7 DEF Input, TensorOK
    <3>2. tensors[t].producer \in Preds(n)
      BY <1>4, <3>1 DEF Preds, kInvalidNode
    <3>3. tensors[t].producer \in nodes[n].preds
      BY <1>1, <1>3, <3>2, DepthFacts
    <3>4. PICK j \in SchedOf(sa.nodes, tensors[t].producer) : precedes(j, i)
      BY <1>1, <3>3 DEF verify_plan_ordering
    <3>5. j \in Producer(t)
      BY DEF Producer
    <3> QED
      BY <1>1, <2>1, <2>2, <2>5, <3>4, <3>5 DEF NeedsBytes
  <2> QED
    BY <2>6, <2>7
<1> QED
  BY <1>7, <1>8, <1>9

(* Bytes that two tensors share are done with by one before the other.     *)
LEMMA ByteFacts ==
  ASSUME Ready
  PROVE  /\ mp.arena \in Nat /\ \A t \in Placed : t \in TensorId /\ t # 0
         /\ \A t \in Placed : /\ mp.offset[t] \in Nat /\ bytes_of(t) \in Nat
                              /\ BytesOf(t) \subseteq 0 .. mp.arena - 1
         /\ \A a, b \in Placed : a # b /\ BytesOf(a) \cap BytesOf(b) # {} =>
              /\ reusable(a) /\ reusable(b) /\ mp.policy # "kAllocPerTensor"
              /\ AllBefore(a, b) \/ AllBefore(b, a)
<1>1. /\ Packed /\ Placed = NeedsBytes /\ GraphOK /\ verify_no_buffer_races
      /\ PlanInv /\ stage # "build" /\ built
  BY ReadyFacts DEF Ready
<1>2. /\ Placed \subseteq TensorId /\ TensorId = 1 .. Len(tensors) /\ Len(tensors) \in Nat
  BY <1>1, GraphFacts DEF NeedsBytes
<1>3. /\ mp.arena \in Nat
      /\ \A t \in Placed : /\ mp.offset[t] \in Nat /\ bytes_of(t) \in Nat
                           /\ mp.offset[t] + bytes_of(t) <= mp.arena
  <2>1. \A t \in Placed : bytes_of(t) \in Nat
    BY <1>1, <1>2, SizesOfTensors
  <2>2. /\ mp.arena \in Nat
        /\ \A t \in Placed : mp.offset[t] \in Nat /\ mp.offset[t] + bytes_of(t) <= mp.arena
    BY <1>1 DEF Packed
  <2> QED
    BY <2>1, <2>2
<1>4. ASSUME NEW t \in Placed PROVE BytesOf(t) \subseteq 0 .. mp.arena - 1
  <2> DEFINE o == mp.offset[t]  n == bytes_of(t)  A == mp.arena
  <2>1. o \in Nat /\ n \in Nat /\ A \in Nat /\ o + n <= A
    BY <1>3
  <2> HIDE DEF o, n, A
  <2>2. o .. o + n - 1 \subseteq 0 .. A - 1
    BY <2>1
  <2> QED
    BY <2>2 DEF BytesOf, o, n, A
<1>5. ASSUME NEW a \in Placed, NEW b \in Placed, a # b, BytesOf(a) \cap BytesOf(b) # {}
      PROVE  /\ reusable(a) /\ reusable(b) /\ mp.policy # "kAllocPerTensor"
             /\ AllBefore(a, b) \/ AllBefore(b, a)
  <2>1. SharesBytes(a, b) /\ SharesBytes(b, a)
    <3> DEFINE o == mp.offset[a]  n == bytes_of(a)  p == mp.offset[b]  m == bytes_of(b)
    <3>1. o \in Nat /\ n \in Nat /\ p \in Nat /\ m \in Nat
      BY <1>3
    <3>2. PICK x : x \in o .. o + n - 1 /\ x \in p .. p + m - 1
      BY <1>5 DEF BytesOf
    <3> HIDE DEF o, n, p, m
    <3>3. o < p + m /\ p < o + n
      BY <3>1, <3>2
    <3> QED
      BY <3>3 DEF SharesBytes, o, n, p, m
  <2>2. can_share(mp.policy, a, b) \/ can_share(mp.policy, b, a)
    BY <1>1, <1>5, <2>1 DEF Packed, SharersMayShare
  <2>3. reusable(a) /\ reusable(b)
    BY <2>2 DEF can_share
  <2>4. mp.policy # "kAllocPerTensor"
    BY <2>2 DEF can_share, Before
  <2>5. a < b \/ b < a
    BY <1>2, <1>5
  <2>6. AllPrecede(a, b) \/ AllPrecede(b, a)
    BY <1>1, <2>1, <2>5 DEF verify_no_buffer_races
  <2> QED
    BY <1>1, <1>2, <2>3, <2>4, <2>6, ProducerComesFirst
<1> QED
  BY <1>2, <1>3, <1>4, <1>5

(* No node accesses two tensors that share a byte.                         *)
LEMMA OwnBytes ==
  ASSUME Ready, NEW i \in Scheduled, NEW t \in Placed, NEW u \in Placed,
         i \in Accesses(t), i \in Accesses(u), t # u
  PROVE  BytesOf(t) \cap BytesOf(u) = {}
<1> SUFFICES ASSUME BytesOf(t) \cap BytesOf(u) # {} PROVE FALSE
  OBVIOUS
<1>1. AllBefore(t, u) \/ AllBefore(u, t)
  BY ByteFacts
<1>2. precedes(i, i)
  BY <1>1 DEF AllBefore
<1> QED
  BY <1>2 DEF precedes

(* A command that holds tensors which share no byte has the values of      *)
(* each.                                                                   *)
LEMMA HoldingIs ==
  ASSUME NEW T, \A t, u \in T : t # u => BytesOf(t) \cap BytesOf(u) = {}
  PROVE  /\ DOMAIN Holding(T) = UNION {BytesOf(t) : t \in T}
         /\ \A t \in T : \A b \in BytesOf(t) : Holding(T)[b] = Value(t)
<1>1. ASSUME NEW t \in T, NEW b \in BytesOf(t) PROVE Holding(T)[b] = Value(t)
  <2>1. b \in UNION {BytesOf(u) : u \in T}
    OBVIOUS
  <2>2. \A u \in T : b \in BytesOf(u) => u = t
    BY <1>1
  <2>3. (CHOOSE u \in T : b \in BytesOf(u)) = t
    BY <1>1, <2>2
  <2> QED
    BY <2>1, <2>3 DEF Holding
<1> QED
  BY <1>1 DEF Holding

(* What the command of a node reads and writes.                            *)
LEMMA KernelFacts ==
  ASSUME Ready, NEW i \in Scheduled
  PROVE  LET c == Kernel(i)
         IN  /\ c.kind = "work"
             /\ DOMAIN c.writes = BytesOf(Made(i)) /\ \A b \in BytesOf(Made(i)) : c.writes[b] = Value(Made(i))
             /\ DOMAIN c.reads = UNION {BytesOf(t) : t \in Read(i)}
             /\ \A t \in Read(i) : \A b \in BytesOf(t) : c.reads[b] = Value(t)
             /\ DOMAIN c.writes \subseteq 0 .. mp.arena - 1
             /\ DOMAIN c.reads \cap DOMAIN c.writes = {}
<1>1. Kernel(i) = Work(Holding(Read(i)), Holding({Made(i)}))
  BY DEF Kernel, Read, Made
<1>2. /\ Kernel(i).kind = "work" /\ Kernel(i).reads = Holding(Read(i))
      /\ Kernel(i).writes = Holding({Made(i)})
  BY <1>1 DEF Work
<1>3. /\ Read(i) \subseteq Placed /\ Made(i) \in Placed /\ i \in Accesses(Made(i))
      /\ \A t \in Read(i) : i \in Accesses(t) /\ t # Made(i)
  BY NodeFacts
<1>4. /\ DOMAIN Holding(Read(i)) = UNION {BytesOf(t) : t \in Read(i)}
      /\ \A t \in Read(i) : \A b \in BytesOf(t) : Holding(Read(i))[b] = Value(t)
  <2>1. \A t, u \in Read(i) : t # u => BytesOf(t) \cap BytesOf(u) = {}
    BY <1>3, OwnBytes
  <2> QED
    BY <2>1, HoldingIs
<1>5. /\ DOMAIN Holding({Made(i)}) = BytesOf(Made(i))
      /\ \A b \in BytesOf(Made(i)) : Holding({Made(i)})[b] = Value(Made(i))
  <2> DEFINE T == {Made(i)}
  <2>1. \A t, u \in T : t = u
    OBVIOUS
  <2>2. UNION {BytesOf(t) : t \in T} = BytesOf(Made(i)) /\ Made(i) \in T
    OBVIOUS
  <2> HIDE DEF T
  <2>3. /\ DOMAIN Holding(T) = UNION {BytesOf(t) : t \in T}
        /\ \A t \in T : \A b \in BytesOf(t) : Holding(T)[b] = Value(t)
    BY <2>1, HoldingIs
  <2> QED
    BY <2>2, <2>3 DEF T
<1>6. BytesOf(Made(i)) \subseteq 0 .. mp.arena - 1
  BY <1>3, ByteFacts
<1>7. \A t \in Read(i) : BytesOf(t) \cap BytesOf(Made(i)) = {}
  BY <1>3, OwnBytes
<1> DEFINE X == UNION {BytesOf(t) : t \in Read(i)}
<1>8. X \cap BytesOf(Made(i)) = {}
  <2> DEFINE R == Read(i)  Y == BytesOf(Made(i))
  <2>1. \A b : b \in X <=> \E t \in R : b \in BytesOf(t)
    OBVIOUS
  <2>2. \A t \in R : BytesOf(t) \cap Y = {}
    BY <1>7
  <2> HIDE DEF R, X, Y
  <2>3. X \cap Y = {}
    BY <2>1, <2>2
  <2> QED
    BY <2>3 DEF Y
<1> DEFINE c == Kernel(i)
<1>9. c.kind = "work" /\ DOMAIN c.writes = BytesOf(Made(i)) /\ DOMAIN c.reads = X
  BY <1>2, <1>4, <1>5
<1>10. /\ \A b \in BytesOf(Made(i)) : c.writes[b] = Value(Made(i))
       /\ \A t \in Read(i) : \A b \in BytesOf(t) : c.reads[b] = Value(t)
  BY <1>2, <1>4, <1>5
<1>11. DOMAIN c.writes \subseteq 0 .. mp.arena - 1 /\ DOMAIN c.reads \cap DOMAIN c.writes = {}
  <2> HIDE DEF c, X
  <2> QED
    BY <1>6, <1>8, <1>9
<1> QED
  BY <1>9, <1>10, <1>11, Zenon

(* Kernels that conflict are ordered by the plan, as they are issued.      *)
LEMMA ConflictsAreOrdered ==
  ASSUME Ready, NEW i \in Scheduled, NEW j \in Scheduled, j < i, NEW c, NEW d,
         DOMAIN c.writes = BytesOf(Made(j)), DOMAIN d.writes = BytesOf(Made(i)),
         DOMAIN c.reads = UNION {BytesOf(t) : t \in Read(j)},
         DOMAIN d.reads = UNION {BytesOf(t) : t \in Read(i)}, Conflict(c, d)
  PROVE  precedes(j, i)
<1>1. PICK t, u : /\ t \in Read(j) \cup {Made(j)} /\ u \in Read(i) \cup {Made(i)}
                  /\ BytesOf(t) \cap BytesOf(u) # {} /\ (t = Made(j) \/ u = Made(i))
  BY DEF Conflict
<1>2. t \in Placed /\ j \in Accesses(t) /\ u \in Placed /\ i \in Accesses(u)
  BY <1>1, NodeFacts
<1>3. \A x, y \in Scheduled : precedes(x, y) => x < y
  BY PrecedesFacts, ReadyFacts DEF Ready
<1>4. i \in Nat /\ j \in Nat
  BY StreamFacts
<1>5. CASE t # u
  <2>1. AllBefore(t, u) \/ AllBefore(u, t)
    BY <1>1, <1>2, <1>5, ByteFacts
  <2>2. precedes(j, i) \/ precedes(i, j)
    BY <1>2, <2>1 DEF AllBefore
  <2> QED
    BY <1>3, <1>4, <2>2
<1>6. CASE t = u
  <2>1. CASE t = Made(j)
    <3>1. Producer(t) = {j} /\ t \notin Input
      BY <2>1, NodeFacts
    <3>2. i # j /\ Producer(Made(i)) = {i}
      BY <1>4, NodeFacts
    <3>3. u \in Read(i)
      BY <1>1, <1>6, <3>1, <3>2
    <3> QED
      BY <1>6, <3>1, <3>3, NodeFacts
  <2>2. CASE u = Made(i)
    <3>1. Producer(u) = {i} /\ u \notin Input
      BY <2>2, NodeFacts
    <3>2. i # j /\ Producer(Made(j)) = {j}
      BY <1>4, NodeFacts
    <3>3. t \in Read(j)
      BY <1>1, <1>6, <3>1, <3>2
    <3>4. precedes(i, j)
      BY <1>6, <3>1, <3>3, NodeFacts
    <3> QED
      BY <1>3, <1>4, <3>4
  <2> QED
    BY <1>1, <2>1, <2>2
<1> QED
  BY <1>5, <1>6

(* The tensors that have their bytes for themselves.                       *)
Kept(t) == \A u \in Placed : u # t => BytesOf(t) \cap BytesOf(u) = {}

(* Inputs and outputs keep their bytes, and so does every tensor when      *)
(* nothing is reused.                                                      *)
LEMMA KeptFacts ==
  ASSUME Ready
  PROVE  /\ Input \subseteq Placed /\ \A t \in Input : Kept(t)
         /\ Output \subseteq Placed /\ \A t \in Output : Kept(t)
         /\ mp.policy = "kAllocPerTensor" => \A t \in Placed : Kept(t)
         /\ \A t \in Placed : t \in Input \/ \E i \in Scheduled : i \in Producer(t)
<1>1. GraphOK /\ finalized /\ LiveOK(sa.nodes) /\ Placed = NeedsBytes
  BY ReadyFacts
<1>2. Input \subseteq Placed
  BY <1>1 DEF Input, NeedsBytes
<1>3. ASSUME NEW t \in Output PROVE t \in Placed
  <2>1. t \in TensorId /\ tensors[t].output /\ TensorOK(t)
    BY <1>1, <1>3 DEF Output, GraphOK
  <2>2. CASE t \in Input
    BY <1>2, <2>2
  <2>3. CASE t \notin Input
    <3> DEFINE n == tensors[t].producer
    <3>1. n \in NodeId /\ nodes[n].output = t
      BY <1>1, <2>1, <2>3 DEF GraphOK, TensorOK, Input
    <3>2. ~nodes[n].dead
      BY <1>1, <2>1, <3>1 DEF GraphOK, DerivedOK
    <3>3. PICK i \in 1 .. Len(sa.nodes) : sa.nodes[i] = n
      BY <1>1, <3>1, <3>2 DEF LiveOK
    <3>4. i \in Producer(t)
      BY <1>1, <3>3 DEF Producer, SchedOf, LiveOK
    <3> QED
      BY <1>1, <2>1, <3>4 DEF NeedsBytes
  <2> QED
    BY <2>2, <2>3
<1>4. \A t \in Placed : ~reusable(t) \/ mp.policy = "kAllocPerTensor" => Kept(t)
  BY ByteFacts DEF Kept
<1>5. \A t \in Input \cup Output : ~reusable(t)
  BY DEF Input, Output, reusable
<1>6. ASSUME NEW t \in Placed PROVE t \in Input \/ \E i \in Scheduled : i \in Producer(t)
  <2>1. t \in TensorId /\ (tensors[t].input \/ Producer(t) # {})
    BY <1>1, <1>6 DEF NeedsBytes
  <2>2. Producer(t) \subseteq Scheduled
    BY <2>1, AccessFacts, ReadyFacts DEF Ready
  <2> QED
    BY <2>1, <2>2 DEF Input
<1> QED
  BY <1>2, <1>3, <1>4, <1>5, <1>6

(* A kernel leaves what is made and still of use.                          *)
LEMMA NotOverwritten ==
  ASSUME Ready, NEW i \in Scheduled, NEW t \in Placed, t # Made(i),
         Kept(t) \/ \E k \in Accesses(t) : k > i,
         t \in Input \/ \E j \in Producer(t) : j < i
  PROVE  BytesOf(t) \cap BytesOf(Made(i)) = {}
<1> SUFFICES ASSUME BytesOf(t) \cap BytesOf(Made(i)) # {} PROVE FALSE
  OBVIOUS
<1> DEFINE u == Made(i)
<1>1. u \in Placed /\ i \in Accesses(u)
  BY NodeFacts
<1>2. reusable(t) /\ (AllBefore(t, u) \/ AllBefore(u, t)) /\ ~Kept(t)
  BY <1>1, ByteFacts DEF Kept
<1>3. t \notin Input
  BY <1>2 DEF reusable, Input
<1>4. PICK k \in Accesses(t) : k > i
  BY <1>2
<1>5. PICK j \in Producer(t) : j < i
  BY <1>3
<1>6. /\ k \in Scheduled /\ j \in Scheduled /\ j \in Accesses(t)
      /\ k \in Nat /\ j \in Nat /\ i \in Nat
  <2>1. Accesses(t) \subseteq Scheduled
    BY ByteFacts, AccessFacts, ReadyFacts DEF Ready
  <2>2. j \in Accesses(t)
    BY DEF Accesses
  <2>3. Scheduled \subseteq Nat
    BY StreamFacts
  <2> QED
    BY <2>1, <2>2, <2>3
<1>7. \A x, y \in Scheduled : precedes(x, y) => x < y
  BY PrecedesFacts, ReadyFacts DEF Ready
<1>8. CASE AllBefore(t, u)
  <2>1. precedes(k, i)
    BY <1>1, <1>4, <1>8 DEF AllBefore
  <2>2. k < i
    BY <1>4, <1>6, <1>7, <2>1
  <2> QED
    BY <1>4, <1>6, <2>2
<1>9. CASE AllBefore(u, t)
  <2>1. precedes(i, j)
    BY <1>1, <1>6, <1>9 DEF AllBefore
  <2>2. i < j
    BY <1>6, <1>7, <2>1
  <2> QED
    BY <1>5, <1>6, <2>2
<1> QED
  BY <1>2, <1>8, <1>9

-----------------------------------------------------------------------------
(* What the host knows of the log.                                         *)

(* Bytes the latest works on which wrote a tensor's value.                 *)
Holds(L, t) == \A b \in BytesOf(t) : Latest(L, L.works, b, Value(t))

(* A stream whose commands are all done, or awaited by stream 0.           *)
JoinedTo(L, s) ==
  \/ Gone(L, s) = L.len[s]
  \/ \E p \in 1 .. L.len[0] :
       LET c == L.cmd[0][p]
       IN  /\ c.kind = "wait" /\ c.event = JoinEvent(s) /\ c.ticket = issued[JoinEvent(s)]
           /\ L.rec[JoinEvent(s)][c.ticket] = L.len[s]

(* All that a stream has been given comes after the first n works.         *)
Follow(L, s, n) ==
  \A C : Cut(L, C) /\ C[s] = L.len[s] => \A m \in 1 .. n : L.at[m] <= C[L.on[m]]

(* What a kernel accesses.                                                 *)
Touches(c, i) == /\ DOMAIN c.writes = BytesOf(Made(i))
                 /\ DOMAIN c.reads = UNION {BytesOf(t) : t \in Read(i)}

(* The j-th work since the n-th is the kernel of the j-th node, and has    *)
(* been recorded if others wait for it.                                    *)
IssuedAs(L, n, j) ==
  /\ L.on[n + j] = sa.stream[j] /\ Touches(Job(L, n + j), j)
  /\ sa.record[j] # kNoEventId =>
       LET e == NodeEvent(sa.record[j])
       IN  issued[e] > 0 /\ L.at[n + j] < L.rec[e][issued[e]]

(* In a run all streams follow what was issued before it, its works are    *)
(* the kernels of the nodes so far, and those that the plan orders are     *)
(* led.                                                                    *)
RunOK(L) ==
  LET n == L.works - (pc - 1)
  IN  /\ n \in Nat /\ \A s \in Stream : Follow(L, s, n)
      /\ \A j \in 1 .. pc - 1 : IssuedAs(L, n, j)
      /\ \A i \in 1 .. pc - 1 : \A j \in 1 .. i - 1 :
           precedes(j, i) => Leads(L, n + j, n + i)

(* Made in this iteration, and of use to what is still to be issued.       *)
MadeYet(t) == \E j \in Producer(t) : j < pc
Needed(t) == Kept(t) \/ \E k \in Accesses(t) : k >= pc

(* An input that was fed, and every tensor that somebody may still read,   *)
(* is held.                                                                *)
DataOK(L) ==
  /\ \A t \in Input : fed[t] > 0 => Holds(L, t)
  /\ pc = 0 /\ outcome = "ok" => \A t \in Placed : Kept(t) => Holds(L, t)
  /\ pc > 0 => \A t \in Placed : MadeYet(t) /\ Needed(t) => Holds(L, t)

(* The variables of the host and what they say of each other.              *)
HostTypes ==
  /\ fed \in [Input -> Nat] /\ run \in Nat /\ pc \in 0 .. Len(sa.nodes) + 1
  /\ outcome \in {"none", "ok", "failed", "drained"}
  /\ DOMAIN memory = 0 .. mp.arena - 1
  /\ pc > 0 => outcome # "failed"
  /\ pc > 0 \/ outcome = "ok" => \A t \in Input : fed[t] > 0

(* All that the host knows of the log: between runs the other streams are  *)
(* joined to stream 0.                                                     *)
HostOK(L) ==
  /\ HostTypes /\ DataOK(L)
  /\ pc = 0 /\ outcome # "failed" => \A s \in Others : JoinedTo(L, s)
  /\ pc > 0 => RunOK(L)

(* A log that explains the state.                                          *)
ReplayOK(L) == LogOK(L) /\ HostOK(L)

(* With nothing planned nothing is on the device.                          *)
Quiet == started = {} /\ \A s \in DOMAIN queue : queue[s] = <<>>

-----------------------------------------------------------------------------
(* What stays as it is.                                                    *)

(* What depends on the plan only.                                          *)
LEMMA SamePlan ==
  ASSUME UNCHANGED planVars
  PROVE  /\ Stream' = Stream /\ Others' = Others /\ Input' = Input /\ Output' = Output
         /\ Placed' = Placed /\ Scheduled' = Scheduled /\ EventsOfPlan' = EventsOfPlan
         /\ \A e : Home(e)' = Home(e)
         /\ \A t : /\ BytesOf(t)' = BytesOf(t) /\ Producer(t)' = Producer(t)
                   /\ Accesses(t)' = Accesses(t) /\ Kept(t)' = Kept(t)
         /\ \A i : Read(i)' = Read(i) /\ Made(i)' = Made(i)
         /\ \A c, i : Touches(c, i)' = Touches(c, i)
         /\ \A i, j : precedes(i, j)' = precedes(i, j)
         /\ planned' = planned /\ UNCHANGED <<sa, mp, nodes, tensors, stage>>
<1>1. UNCHANGED <<tensors, nodes, sa, clock, pos, mp, stage>>
  BY DEF planVars, hbVars, graphVars
<1>2. Stream' = Stream /\ Others' = Others /\ Input' = Input /\ Output' = Output
      /\ Placed' = Placed /\ Scheduled' = Scheduled /\ EventsOfPlan' = EventsOfPlan
  BY <1>1 DEF Stream, Others, Input, Output, Placed, Scheduled, EventsOfPlan, TensorId
<1>3. \A e : Home(e)' = Home(e)
  BY <1>1, SameHome
<1>4. \A t : /\ BytesOf(t)' = BytesOf(t) /\ Producer(t)' = Producer(t)
             /\ Accesses(t)' = Accesses(t)
  BY <1>1 DEF BytesOf, bytes_of, Producer, Accesses, SchedOf
<1>5. \A t : Kept(t)' = Kept(t)
  BY <1>2, <1>4 DEF Kept
<1>6. \A i : Read(i)' = Read(i) /\ Made(i)' = Made(i)
  BY <1>1 DEF Read, Made
<1>7. \A c, i : Touches(c, i)' = Touches(c, i)
  BY <1>4, <1>6 DEF Touches
<1>8. \A i, j : precedes(i, j)' = precedes(i, j)
  BY <1>1 DEF precedes
<1>9. planned' = planned
  <2>1. \A a, b : SharesBytes(a, b)' = SharesBytes(a, b)
    BY <1>1 DEF SharesBytes, bytes_of
  <2>2. \A a, b : AllPrecede(a, b)' = AllPrecede(a, b)
    BY <1>4, <1>8 DEF AllPrecede
  <2> QED
    BY <1>1, <1>2, <2>1, <2>2 DEF planned, verify_no_buffer_races
<1> QED
  BY <1>1, <1>2, <1>3, <1>4, <1>5, <1>6, <1>7, <1>8, <1>9

(* The device moves on within the log, and nothing else.                   *)
LEMMA DeviceEffect ==
  ASSUME NEW L, LogOK(L), DeviceStep
  PROVE  /\ UNCHANGED <<planVars, hostVars, issued>> /\ DOMAIN memory' = DOMAIN memory
         /\ \A s \in Stream : /\ Gone(L, s)' \in Int /\ Gone(L, s) <= Gone(L, s)'
                              /\ Gone(L, s)' <= L.len[s]
         /\ \A C : Cut(L, C)' => Cut(L, C)
<1>1. PICK s \in DOMAIN queue : Start(s) \/ Finish(s) \/ PassWait(s) \/ PassRecord(s)
  BY DEF DeviceStep
<1>2. UNCHANGED <<planVars, hostVars, issued>>
  BY DEF DeviceStep
<1>3. DOMAIN memory' = DOMAIN memory
  BY <1>1 DEF Start, Finish, PassWait, PassRecord, Overwrite
<1>4. s \in Stream /\ sa' = sa
  BY <1>2 DEF LogOK, QueueOK, planVars, hbVars
<1>5. \A r \in Stream : Gone(L, r) \in Nat /\ Gone(L, r) <= L.len[r] /\ L.len[r] \in Nat
  BY QueueFacts DEF LogOK
<1>6. (\A e : Home(e)' = Home(e)) /\ Stream' = Stream
  BY <1>4, SameHome
<1>7. \A r \in Stream : Gone(L, r) <= Gone(L, r)'
  <2>1. CASE Start(s)
    BY <1>5, <2>1 DEF Start, Gone
  <2>2. CASE ~Start(s)
    <3>1. queue' = [queue EXCEPT ![s] = Tail(@)]
      BY <1>1, <2>2 DEF Finish, PassWait, PassRecord
    <3>2. queue[s] # <<>>
      BY <1>1, <2>2 DEF Finish, PassWait, PassRecord, LogOK, StartedOK
    <3>3. \A r \in Stream : Gone(L, r)' = IF r = s THEN Gone(L, r) + 1 ELSE Gone(L, r)
      <4>1. QueueOK(L)
        BY DEF LogOK
      <4> QED
        BY <1>4, <3>1, <3>2, <4>1, PopQueue
    <3> QED
      BY <1>5, <3>3
  <2> QED
    BY <2>1, <2>2
<1>8. QueueOK(L)'
  BY DeviceKeepsLog DEF LogOK
<1>9. \A r \in Stream : Gone(L, r)' <= L.len[r] /\ Gone(L, r)' \in Int
  <2> SUFFICES ASSUME NEW r \in Stream PROVE Gone(L, r)' <= L.len[r] /\ Gone(L, r)' \in Int
    OBVIOUS
  <2>1. /\ queue'[r] \in Seq({L.cmd[r][k] : k \in 1 .. L.len[r]})
        /\ Len(queue'[r]) <= L.len[r]
    BY <1>6, <1>8 DEF QueueOK
  <2>2. Len(queue'[r]) \in Nat
    BY <2>1
  <2> QED
    BY <1>5, <2>1, <2>2 DEF Gone
<1>10. ASSUME NEW C, Cut(L, C)' PROVE Cut(L, C)
  <2>1. \A r \in Stream : C[r] \in Nat /\ Gone(L, r)' <= C[r]
    BY <1>6, <1>10 DEF Cut
  <2>2. \A r \in Stream : Gone(L, r) <= C[r]
    BY <1>5, <1>7, <1>9, <2>1
  <2> QED
    BY <1>6, <1>10, <2>2 DEF Cut
<1> QED
  BY <1>2, <1>3, <1>7, <1>9, <1>10

(* What a tensor should hold depends on the inputs fed and on the run.     *)
LEMMA SameValues ==
  ASSUME UNCHANGED <<planVars, fed, run>>
  PROVE  \A L, t : Value(t)' = Value(t) /\ Holds(L, t)' = Holds(L, t)
<1>1. Input' = Input /\ \A t : BytesOf(t)' = BytesOf(t)
  BY SamePlan
<1>2. \A t : Value(t)' = Value(t)
  BY <1>1 DEF Value
<1>3. ASSUME NEW L, NEW t PROVE Holds(L, t)' = Holds(L, t)
  <2>1. BytesOf(t)' = BytesOf(t) /\ Value(t)' = Value(t)
    BY <1>1, <1>2
  <2> QED
    BY <2>1 DEF Holds, Latest, Job
<1> QED
  BY <1>2, <1>3

(* What the host knows stays true as the device goes on.                   *)
LEMMA SameHost ==
  ASSUME NEW L, HostOK(L), UNCHANGED <<planVars, pc, run, outcome, fed, issued>>,
         DOMAIN memory' = DOMAIN memory,
         \A s \in Stream : Gone(L, s) = L.len[s] => Gone(L, s)' = L.len[s],
         \A C : Cut(L, C)' => Cut(L, C)
  PROVE  HostOK(L)'
<1>1. /\ Stream' = Stream /\ Others' = Others /\ Input' = Input /\ Placed' = Placed
      /\ UNCHANGED <<sa, mp>>
      /\ \A t : /\ Producer(t)' = Producer(t) /\ Accesses(t)' = Accesses(t) /\ Kept(t)' = Kept(t)
      /\ \A c, i : Touches(c, i)' = Touches(c, i)
      /\ \A i, j : precedes(i, j)' = precedes(i, j)
  BY SamePlan
<1>2. \A t : Holds(L, t)' = Holds(L, t)
  BY SameValues
<1>3. HostTypes'
  BY <1>1 DEF HostOK, HostTypes
<1>4. DataOK(L)'
  <2>1. \A t : MadeYet(t)' = MadeYet(t) /\ Needed(t)' = Needed(t)
    BY <1>1 DEF MadeYet, Needed
  <2> QED
    BY <1>1, <1>2, <2>1 DEF HostOK, DataOK
<1>5. ASSUME NEW s \in Others, JoinedTo(L, s) PROVE JoinedTo(L, s)'
  <2>1. CASE Gone(L, s) = L.len[s]
    BY <2>1, SMTT(30) DEF JoinedTo, Others
  <2>2. CASE Gone(L, s) # L.len[s]
    BY <1>5, <2>2 DEF JoinedTo
  <2> QED
    BY <2>1, <2>2
<1>6. ASSUME RunOK(L) PROVE RunOK(L)'
  <2>1. \A s, n : Follow(L, s, n) => Follow(L, s, n)'
    BY DEF Follow
  <2>2. \A m, n : Leads(L, m, n) => Leads(L, m, n)'
    BY DEF Leads
  <2>3. \A n, j : IssuedAs(L, n, j)' = IssuedAs(L, n, j)
    <3> SUFFICES ASSUME NEW n, NEW j PROVE IssuedAs(L, n, j)' = IssuedAs(L, n, j)
      OBVIOUS
    <3>1. Touches(Job(L, n + j), j)' = Touches(Job(L, n + j), j)
      BY <1>1 DEF Job
    <3> QED
      BY <1>1, <3>1 DEF IssuedAs, NodeEvent
  <2> QED
    BY <1>1, <1>6, <2>1, <2>2, <2>3 DEF RunOK
<1> QED
  BY <1>1, <1>3, <1>4, <1>5, <1>6 DEF HostOK

(* Nothing of what the host knows depends on how far the device is.        *)
LEMMA DeviceKeepsReplay ==
  ASSUME NEW L, ReplayOK(L), DeviceStep
  PROVE  ReplayOK(L)'
<1>1. LogOK(L) /\ HostOK(L)
  BY DEF ReplayOK
<1>2. /\ UNCHANGED <<planVars, hostVars, issued>> /\ DOMAIN memory' = DOMAIN memory
      /\ \A s \in Stream : /\ Gone(L, s)' \in Int /\ Gone(L, s) <= Gone(L, s)'
                           /\ Gone(L, s)' <= L.len[s]
      /\ \A C : Cut(L, C)' => Cut(L, C)
  BY <1>1, DeviceEffect
<1>3. \A s \in Stream : Gone(L, s) = L.len[s] => Gone(L, s)' = L.len[s]
  <2> SUFFICES ASSUME NEW s \in Stream, Gone(L, s) = L.len[s] PROVE Gone(L, s)' = L.len[s]
    OBVIOUS
  <2>1. L.len[s] \in Nat
    BY <1>1, QueueFacts DEF LogOK
  <2> QED
    BY <1>2, <2>1
<1>4. HostOK(L)'
  BY <1>1, <1>2, <1>3, SameHost DEF hostVars
<1> QED
  BY <1>1, <1>4, DeviceKeepsLog DEF ReplayOK

-----------------------------------------------------------------------------
(* What a batch leaves of what the host knew.                              *)

(* The latest work to write a byte is that of the batch, or the one it     *)
(* was.                                                                    *)
LEMMA BatchLatest ==
  ASSUME NEW L, NEW b, NEW M, L.works \in Nat, b.work \in {0, 1}, M.works = L.works + b.work,
         \A m \in 1 .. L.works : Job(M, m) = Job(L, m), NEW v, NEW x,
         \/ /\ Latest(L, L.works, v, x)
            /\ b.work = 1 => v \notin DOMAIN Job(M, L.works + 1).writes
         \/ /\ b.work = 1 /\ v \in DOMAIN Job(M, L.works + 1).writes
            /\ Job(M, L.works + 1).writes[v] = x
  PROVE  Latest(M, M.works, v, x)
<1> DEFINE w == L.works
<1>1. w \in Nat /\ (b.work = 0 => M.works = w) /\ (b.work = 1 => M.works = w + 1)
  BY SMT
<1>2. CASE Latest(L, w, v, x) /\ (b.work = 1 => v \notin DOMAIN Job(M, w + 1).writes)
  <2>1. PICK m \in 1 .. w : /\ v \in DOMAIN Job(L, m).writes /\ Job(L, m).writes[v] = x
                            /\ \A k \in m + 1 .. w : v \notin DOMAIN Job(L, k).writes
    BY <1>2 DEF Latest
  <2>2. v \in DOMAIN Job(M, m).writes /\ Job(M, m).writes[v] = x /\ m \in 1 .. M.works
    <3>1. Job(M, m) = Job(L, m)
      OBVIOUS
    <3>2. m \in 1 .. M.works
      BY <1>1
    <3> QED
      BY <2>1, <3>1, <3>2
  <2>3. ASSUME NEW k \in m + 1 .. M.works PROVE v \notin DOMAIN Job(M, k).writes
    <3>1. CASE k \in m + 1 .. w
      <4>1. Job(M, k) = Job(L, k)
        BY <1>1, <3>1
      <4> QED
        BY <2>1, <3>1, <4>1
    <3>2. CASE k \notin m + 1 .. w
      <4>1. b.work = 1 /\ k = w + 1
        BY <1>1, <3>2
      <4> QED
        BY <1>2, <4>1
    <3> QED
      BY <3>1, <3>2
  <2> QED
    BY <2>2, <2>3 DEF Latest
<1>3. CASE /\ b.work = 1 /\ v \in DOMAIN Job(M, w + 1).writes
           /\ Job(M, w + 1).writes[v] = x
  <2>1. M.works = w + 1 /\ w + 1 \in 1 .. M.works /\ (w + 1) + 1 .. M.works = {}
    BY <1>1, <1>3
  <2> QED
    BY <1>3, <2>1 DEF Latest
<1> QED
  BY <1>2, <1>3

(* A stream that followed some works does so with what it is given.        *)
LEMMA BatchFollow ==
  ASSUME NEW L, LogOK(L), NEW b, BatchOK(b), Issues(b), NEW M, Grown(L, b, M),
         NEW s \in Stream, NEW n \in Nat, n <= L.works, Follow(L, s, n)
  PROVE  /\ Follow(M, s, n)'
         /\ \A C : Cut(M, C)' /\ C[s] >= L.len[s] => \A m \in 1 .. n : M.at[m] <= C[M.on[m]]
<1>1. \A r \in Stream : L.len[r] \in Nat /\ M.len[r] \in Nat /\ M.len[r] >= L.len[r]
  <2> SUFFICES ASSUME NEW r \in Stream
               PROVE L.len[r] \in Nat /\ M.len[r] \in Nat /\ M.len[r] >= L.len[r]
    OBVIOUS
  <2>1. L.len[r] \in Nat /\ M.len[r] \in Nat /\ M.len[r] = L.len[r] + Len(b.new[r])
    BY QueueFacts DEF LogOK, Grown
  <2>2. Len(b.new[r]) \in Nat
    BY DEF BatchOK
  <2> QED
    BY <2>1, <2>2
<1>2. ASSUME NEW C, Cut(M, C)', C[s] >= L.len[s], NEW m \in 1 .. n PROVE M.at[m] <= C[M.on[m]]
  <2>1. Cut(L, Upto(L, C)) /\ \A r \in Stream : C[r] \in Nat
    <3>1. Cut(L, Upto(L, C))
      BY <1>2, BatchCuts
    <3>2. Stream' = Stream
      BY BatchQueue
    <3> QED
      BY <1>2, <3>1, <3>2 DEF Cut
  <2>2. Upto(L, C)[s] = L.len[s]
    BY <1>1, <1>2, <2>1 DEF Upto
  <2>3. L.at[m] <= Upto(L, C)[L.on[m]]
    BY <2>1, <2>2 DEF Follow
  <2>4. m \in 1 .. L.works
    BY DEF LogOK, WorksOK
  <2>5. L.on[m] \in Stream /\ L.at[m] \in Nat /\ M.on[m] = L.on[m] /\ M.at[m] = L.at[m]
    BY <1>1, <2>4 DEF LogOK, WorksOK, Grown
  <2> QED
    BY <1>1, <2>1, <2>3, <2>5, SMTT(30) DEF Upto
<1>3. Follow(M, s, n)'
  <2>1. ASSUME NEW C, Cut(M, C)', C[s] = M.len[s], NEW m \in 1 .. n PROVE M.at[m] <= C[M.on[m]]
    <3>1. C[s] >= L.len[s]
      BY <1>1, <2>1
    <3> QED
      BY <1>2, <2>1, <3>1
  <2> QED
    BY <2>1 DEF Follow
<1> QED
  BY <1>2, <1>3

(* A stream that was joined and is given nothing stays so.                 *)
LEMMA BatchJoined ==
  ASSUME NEW L, LogOK(L), NEW b, BatchOK(b), Issues(b), NEW M, Grown(L, b, M),
         0 \in Stream, NEW s \in Others, JoinedTo(L, s), Len(b.new[s]) = 0, JoinEvent(s) \notin b.events,
         JoinEvent(s) \in EventsOfPlan
  PROVE  JoinedTo(M, s)'
<1>1. s \in Stream
  BY DEF Others
<1>2. L.len[s] \in Nat /\ M.len[s] = L.len[s] /\ Gone(M, s)' = Gone(L, s)
  <2>1. L.len[s] \in Nat /\ M.len[s] = L.len[s] + Len(b.new[s])
    BY <1>1, QueueFacts DEF LogOK, Grown
  <2>2. Gone(M, s)' = Gone(L, s)
    BY <1>1, BatchQueue
  <2> QED
    BY <2>1, <2>2
<1>3. CASE Gone(L, s) = L.len[s]
  BY <1>2, <1>3 DEF JoinedTo
<1>4. CASE Gone(L, s) # L.len[s]
  <2> DEFINE e == JoinEvent(s)
  <2>1. 0 \in Stream => L.len[0] \in Nat /\ M.len[0] = L.len[0] + Len(b.new[0]) /\ Len(b.new[0]) \in Nat
    <3>1. QueueOK(L)
      BY DEF LogOK
    <3>2. L.len[0] \in Nat
      BY <3>1, QueueFacts, Zenon
    <3>3. M.len[0] = L.len[0] + Len(b.new[0]) /\ b.new[0] \in Seq(b.cmds)
      BY Zenon DEF Grown, BatchOK
    <3> QED
      BY <3>2, <3>3
  <2>2. PICK p \in 1 .. L.len[0] :
          LET c == L.cmd[0][p]
          IN  /\ c.kind = "wait" /\ c.event = e /\ c.ticket = issued[e]
              /\ L.rec[e][c.ticket] = L.len[s]
    BY <1>4 DEF JoinedTo
  <2>3. issued'[e] = issued[e]
    BY DEF Issues
  <2>4. 0 \in Stream
    OBVIOUS
  <2>5. M.cmd[0][p] = L.cmd[0][p] /\ p \in 1 .. M.len[0]
    BY <2>1, <2>4 DEF Grown
  <2>6. issued[e] \in 1 .. issued[e] /\ L.rec[e][issued[e]] = M.rec[e][issued[e]]
    <3>1. CommandOK(L, 0, p)
      BY <2>2, <2>4 DEF LogOK, CommandsOK
    <3>2. issued[e] \in Nat
      BY DEF LogOK, EventsOK, RecordsOK
    <3>3. issued[e] \in 1 .. issued[e]
      BY <2>2, <3>1, <3>2, SMTT(30) DEF CommandOK
    <3> QED
      BY <3>3 DEF Grown
  <2>7. JoinedTo(M, s)' <=> \/ Gone(M, s)' = M.len[s]
                            \/ \E q \in 1 .. M.len[0] :
                                 LET c == M.cmd[0][q]
                                 IN  /\ c.kind = "wait" /\ c.event = e /\ c.ticket = issued'[e]
                                     /\ M.rec[e][c.ticket] = M.len[s]
    BY DEF JoinedTo, JoinEvent
  <2> HIDE DEF e
  <2> QED
    BY <1>2, <2>2, <2>3, <2>5, <2>6, <2>7
<1> QED
  BY <1>3, <1>4

(* A tensor is held if the work of the batch writes it, or leaves it       *)
(* alone.                                                                  *)
LEMMA BatchHolds ==
  ASSUME NEW L, NEW b, NEW M, L.works \in Nat, b.work \in {0, 1}, M.works = L.works + b.work,
         \A m \in 1 .. L.works : Job(M, m) = Job(L, m), NEW u, BytesOf(u)' = BytesOf(u),
         \/ /\ Holds(L, u) /\ Value(u)' = Value(u)
            /\ b.work = 1 => BytesOf(u) \cap DOMAIN Job(M, L.works + 1).writes = {}
         \/ /\ b.work = 1 /\ BytesOf(u) = DOMAIN Job(M, L.works + 1).writes
            /\ \A v \in BytesOf(u) : Job(M, L.works + 1).writes[v] = Value(u)'
  PROVE  Holds(M, u)'
<1> DEFINE y == Value(u)'
<1>1. ASSUME NEW v \in BytesOf(u) PROVE Latest(M, M.works, v, y)
  <2>1. CASE /\ Holds(L, u) /\ Value(u)' = Value(u)
             /\ b.work = 1 => BytesOf(u) \cap DOMAIN Job(M, L.works + 1).writes = {}
    <3>1. Latest(L, L.works, v, y)
      BY <2>1 DEF Holds
    <3>2. b.work = 1 => v \notin DOMAIN Job(M, L.works + 1).writes
      BY <2>1
    <3> HIDE DEF y
    <3> QED
      BY <3>1, <3>2, BatchLatest
  <2>2. CASE /\ b.work = 1 /\ BytesOf(u) = DOMAIN Job(M, L.works + 1).writes
             /\ \A w \in BytesOf(u) : Job(M, L.works + 1).writes[w] = Value(u)'
    <3>1. /\ b.work = 1 /\ v \in DOMAIN Job(M, L.works + 1).writes
          /\ Job(M, L.works + 1).writes[v] = y
      BY <2>2
    <3> HIDE DEF y
    <3> QED
      BY <3>1, BatchLatest
  <2> QED
    BY <2>1, <2>2
<1>2. PICK z : z = y
  OBVIOUS
<1>3. \A v \in BytesOf(u)' : Latest(M, M.works, v, z)
  BY <1>1, <1>2
<1> HIDE DEF y
<1>4. Holds(M, u)' <=> \A v \in BytesOf(u)' : Latest(M, M.works, v, y)
  BY Zenon DEF Holds, Latest, Job, y
<1> QED
  BY <1>2, <1>3, <1>4

(* Stream 0 awaits all the others have been given.                         *)
LEMMA JoinedCovers ==
  ASSUME NEW L, LogOK(L), Ready, \A s \in Others : JoinedTo(L, s)
  PROVE  /\ \A C : Cut(L, C) /\ C[0] = L.len[0] => \A s \in Stream : C[s] = L.len[s]
         /\ Follow(L, 0, L.works)
<1>1. ASSUME NEW C, Cut(L, C), C[0] = L.len[0], NEW s \in Stream PROVE C[s] = L.len[s]
  <2>1. CASE s = 0
    BY <1>1, <2>1
  <2>2. CASE s # 0
    <3>1. s \in Others
      BY <2>2 DEF Others
    <3>2. C[s] \in Nat /\ Gone(L, s) <= C[s] /\ C[s] <= L.len[s] /\ L.len[s] \in Nat /\ Gone(L, s) \in Nat
      BY <1>1, QueueFacts DEF Cut, LogOK
    <3>3. CASE Gone(L, s) = L.len[s]
      BY <3>2, <3>3
    <3>4. CASE Gone(L, s) # L.len[s]
      <4>1. PICK p \in 1 .. L.len[0] :
              LET c == L.cmd[0][p]
              IN  /\ c.kind = "wait" /\ c.event = JoinEvent(s) /\ c.ticket = issued[JoinEvent(s)]
                  /\ L.rec[JoinEvent(s)][c.ticket] = L.len[s]
        BY <3>1, <3>4 DEF JoinedTo
      <4>2. 0 \in Stream /\ Home(JoinEvent(s)) = s
        BY <3>1, StreamFacts, EventFacts
      <4>3. p \in 1 .. C[0]
        BY <1>1
      <4>4. L.rec[JoinEvent(s)][L.cmd[0][p].ticket] <= C[s]
        BY <1>1, <4>1, <4>2, <4>3 DEF Cut
      <4> QED
        BY <3>2, <4>1, <4>4
    <3> QED
      BY <3>3, <3>4
  <2> QED
    BY <2>1, <2>2
<1>2. Follow(L, 0, L.works)
  <2> SUFFICES ASSUME NEW C, Cut(L, C), C[0] = L.len[0], NEW m \in 1 .. L.works
               PROVE L.at[m] <= C[L.on[m]]
    BY DEF Follow
  <2>1. L.on[m] \in Stream /\ L.at[m] \in 1 .. L.len[L.on[m]]
    BY DEF LogOK, WorksOK
  <2>2. C[L.on[m]] = L.len[L.on[m]] /\ L.len[L.on[m]] \in Nat
    BY <1>1, <2>1, QueueFacts DEF LogOK
  <2> QED
    BY <2>1, <2>2
<1> QED
  BY <1>1, <1>2

(* A command that holds one tensor.                                        *)
LEMMA HoldingOne ==
  ASSUME NEW t
  PROVE  /\ DOMAIN Holding({t}) = BytesOf(t)
         /\ \A b \in BytesOf(t) : Holding({t})[b] = Value(t)
<1> DEFINE T == {t}
<1>1. \A u \in T, w \in T : u = w
  OBVIOUS
<1>2. UNION {BytesOf(u) : u \in T} = BytesOf(t) /\ t \in T
  OBVIOUS
<1> HIDE DEF T
<1>3. /\ DOMAIN Holding(T) = UNION {BytesOf(u) : u \in T}
      /\ \A u \in T : \A b \in BytesOf(u) : Holding(T)[b] = Value(u)
  BY <1>1, HoldingIs
<1> QED
  BY <1>2, <1>3 DEF T

(* The same in the next state.                                             *)
LEMMA HoldingOneNext ==
  ASSUME NEW t
  PROVE  (/\ DOMAIN Holding({t}) = BytesOf(t)
          /\ \A b \in BytesOf(t) : Holding({t})[b] = Value(t))'
<1>1. /\ DOMAIN Holding({t}) = BytesOf(t)
      /\ \A b \in BytesOf(t) : Holding({t})[b] = Value(t)
  BY HoldingOne
<1> QED
  BY <1>1, PTL

-----------------------------------------------------------------------------
(* The calls of the client.                                                *)

(* A copy of an input on stream 0 comes after every access to it.          *)
LEMMA SetInputKeepsReplay ==
  ASSUME NEW L, ReplayOK(L), Ready, NEW t \in Input, SetInput(t)
  PROVE  \E M : ReplayOK(M)'
<1>1. LogOK(L) /\ HostOK(L) /\ L.works \in Nat
  BY DEF ReplayOK, LogOK, WorksOK
<1>2. /\ UNCHANGED <<planVars, opts, pc, run, outcome, started, issued, done, memory>>
      /\ pc = 0 /\ outcome # "failed"
      /\ fed' = [fed EXCEPT ![t] = @ + 1]
  BY DEF SetInput, Idle
<1>3. /\ Stream' = Stream /\ Others' = Others /\ Input' = Input /\ Placed' = Placed
      /\ EventsOfPlan' = EventsOfPlan /\ UNCHANGED <<sa, mp>>
      /\ \A u : BytesOf(u)' = BytesOf(u) /\ Kept(u)' = Kept(u)
  BY <1>2, SamePlan
<1>4. t \in Placed /\ Kept(t) /\ Input \subseteq Placed /\ 0 \in Stream
  BY KeptFacts, StreamFacts
<1>5. PICK W : W = Work(<<>>, Holding({t})')
  OBVIOUS
<1>6. /\ W.kind = "work" /\ DOMAIN W.reads = {} /\ DOMAIN W.writes = BytesOf(t)
      /\ \A v \in BytesOf(t) : W.writes[v] = Value(t)'
  BY <1>3, <1>5, HoldingOneNext DEF Work
<1>7. PICK b : b = [new |-> [s \in Stream |-> IF s = 0 THEN <<W>> ELSE <<>>], cmds |-> {W},
                    events |-> {}, at |-> <<>>, work |-> 1, on |-> 0, pos |-> 1]
  OBVIOUS
<1>8. /\ b.new[0] = <<W>> /\ \A s \in Stream : s # 0 => b.new[s] = <<>>
      /\ b.cmds = {W} /\ b.events = {} /\ b.work = 1 /\ b.on = 0 /\ b.pos = 1
      /\ b.new[b.on][b.pos] = W
  BY <1>4, <1>7
<1>9. BatchOK(b)
  <2>1. ASSUME NEW s \in Stream
        PROVE  /\ b.new[s] \in Seq(b.cmds)
               /\ \A k \in 1 .. Len(b.new[s]) : b.new[s][k].kind = "work" /\ s = b.on /\ k = b.pos
    <3>1. CASE s = 0
      <4>1. <<W>> \in Seq({W}) /\ Len(<<W>>) = 1 /\ <<W>>[1] = W
        OBVIOUS
      <4>2. \A k \in 1 .. Len(<<W>>) : k = 1
        BY <4>1
      <4> QED
        BY <1>6, <1>8, <3>1, <4>1, <4>2
    <3>2. CASE s # 0
      <4>1. <<>> \in Seq({W}) /\ Len(<<>>) = 0
        OBVIOUS
      <4>2. b.new[s] = <<>> /\ b.cmds = {W}
        BY <1>8, <3>2
      <4>3. b.new[s] \in Seq(b.cmds) /\ Len(b.new[s]) = 0
        BY <4>1, <4>2
      <4> QED
        BY <4>3
    <3> QED
      BY <3>1, <3>2
  <2>2. DOMAIN W.writes \subseteq DOMAIN memory
    BY <1>1, <1>4, <1>6, ByteFacts DEF HostOK, HostTypes
  <2>3. b.on \in Stream /\ b.pos \in 1 .. Len(b.new[b.on])
    BY <1>4, <1>8
  <2> QED
    BY <1>6, <1>8, <2>1, <2>2, <2>3 DEF BatchOK
<1>10. Issues(b)
  <2>1. DOMAIN queue = Stream /\ DOMAIN issued = EventsOfPlan
    BY <1>1 DEF LogOK, QueueOK, EventsOK
  <2>2. queue' = [queue EXCEPT ![0] = Append(@, W)]
    BY <1>5 DEF SetInput
  <2>3. ASSUME NEW s \in Stream PROVE queue'[s] = queue[s] \o b.new[s]
    <3>1. queue[s] \in Seq({L.cmd[s][k] : k \in 1 .. L.len[s]})
      BY <1>1 DEF LogOK, QueueOK
    <3> DEFINE q == queue[s]
    <3>2. Append(q, W) = q \o <<W>> /\ q \o <<>> = q
      <4> DEFINE S == {L.cmd[s][k] : k \in 1 .. L.len[s]} \cup {W}
      <4>1. q \in Seq(S) /\ W \in S
        BY <3>1
      <4> HIDE DEF q, S
      <4> QED
        BY <4>1, AppendIsConcat, ConcatEmptySeq
    <3> QED
      BY <1>8, <2>1, <2>2, <3>2
  <2> QED
    BY <1>2, <1>3, <1>8, <2>1, <2>2, <2>3 DEF Issues
<1>11. PICK M : Grown(L, b, M)
  BY <1>1, <1>9, GrownExists
<1>12. M.works = L.works + 1 /\ M.on[L.works + 1] = 0 /\ M.at[L.works + 1] = L.len[0] + 1
       /\ L.len[0] \in Nat
  BY <1>1, <1>4, <1>8, <1>11, QueueFacts DEF Grown, LogOK
<1>13. \A s \in Others : JoinedTo(L, s)
  BY <1>1, <1>2 DEF HostOK
<1>14. \A m \in 1 .. L.works : Leads(M, m, L.works + 1)'
  <2> SUFFICES ASSUME NEW m \in 1 .. L.works, NEW C, Cut(M, C)', L.len[0] + 1 <= C[0]
               PROVE M.at[m] <= C[M.on[m]]
    BY <1>12 DEF Leads
  <2>1. C[0] \in Nat
    BY <1>3, <1>4 DEF Cut
  <2>2. Follow(L, 0, L.works)
    BY <1>1, <1>13, JoinedCovers
  <2> QED
    BY <1>1, <1>4, <1>9, <1>10, <1>11, <1>12, <2>1, <2>2, BatchFollow
<1>15. /\ LogOK(M)' /\ \A m \in 1 .. L.works : Job(M, m) = Job(L, m)
       /\ Job(M, L.works + 1) = W
  <2>1. LET c == b.new[b.on][b.pos]
        IN  /\ \A m \in 1 .. L.works : Conflict(Job(L, m), c) => Leads(M, m, L.works + 1)'
            /\ \A v \in DOMAIN c.reads : Latest(L, L.works, v, c.reads[v])
    BY <1>6, <1>8, <1>14
  <2> QED
    BY <1>1, <1>8, <1>9, <1>10, <1>11, <2>1, BatchIsLogged
<1>16. ASSUME NEW s \in Others PROVE JoinedTo(M, s)'
  <2>1. s \in Stream /\ Len(b.new[s]) = 0 /\ JoinEvent(s) \notin b.events /\ JoinEvent(s) \in EventsOfPlan
    BY <1>8, EventFacts DEF Others
  <2> QED
    BY <1>1, <1>4, <1>9, <1>10, <1>11, <1>13, <2>1, BatchJoined
<1>17. fed[t] \in Nat /\ \A u \in Input : u # t => fed'[u] = fed[u]
  BY <1>1, <1>2 DEF HostOK, HostTypes
<1>18. Holds(M, t)'
  BY <1>1, <1>3, <1>6, <1>8, <1>12, <1>15, BatchHolds
<1>19. ASSUME NEW u \in Placed, u # t, Holds(L, u) PROVE Holds(M, u)'
  <2>1. BytesOf(u) \cap DOMAIN Job(M, L.works + 1).writes = {}
    BY <1>4, <1>6, <1>15, <1>19 DEF Kept
  <2>2. Value(u)' = Value(u)
    BY <1>2, <1>3, <1>17, <1>19 DEF Value
  <2> QED
    BY <1>1, <1>3, <1>8, <1>12, <1>15, <1>19, <2>1, <2>2, BatchHolds
<1>20. HostTypes'
  BY <1>1, <1>2, <1>3, <1>17 DEF HostOK, HostTypes
<1>21. DataOK(M)'
  <2>1. ASSUME NEW u \in Input, fed'[u] > 0 PROVE Holds(M, u)'
    BY <1>1, <1>4, <1>17, <1>18, <1>19, <2>1 DEF HostOK, DataOK
  <2>2. ASSUME outcome = "ok", NEW u \in Placed, Kept(u) PROVE Holds(M, u)'
    BY <1>1, <1>2, <1>18, <1>19, <2>2 DEF HostOK, DataOK
  <2>3. pc' = 0
    BY <1>2
  <2> QED
    BY <1>2, <1>3, <2>1, <2>2, <2>3 DEF DataOK
<1>22. HostOK(M)'
  BY <1>2, <1>3, <1>16, <1>20, <1>21 DEF HostOK
<1> QED
  BY <1>15, <1>22 DEF ReplayOK

(* The commands of a new run: maybe the fill, maybe the fork.              *)
LEMMA FillAndFork ==
  ASSUME NEW P, NEW F, NEW S, P \in S, F \in S, NEW fill \in BOOLEAN, NEW fork \in BOOLEAN, NEW z,
         z = IF fork THEN Append(IF fill THEN <<P>> ELSE <<>>, F)
                     ELSE IF fill THEN <<P>> ELSE <<>>
  PROVE  /\ z \in Seq(S)
         /\ Len(z) = (IF fill THEN 1 ELSE 0) + (IF fork THEN 1 ELSE 0)
         /\ fill => z[1] = P /\ Len(z) \in {1, 2}
         /\ fork => z[Len(z)] = F /\ Len(z) \in {1, 2}
         /\ \A k \in 1 .. Len(z) : (fill /\ k = 1) \/ (fork /\ k = Len(z))
<1>1. CASE fill /\ fork
  <2> DEFINE q == <<P>>
  <2>1. z = Append(q, F) /\ q \in Seq(S) /\ Len(q) = 1 /\ q[1] = P
    BY <1>1
  <2> HIDE DEF q
  <2>2. z \in Seq(S) /\ Len(z) = 2 /\ z[1] = P /\ z[2] = F
    BY <2>1
  <2>3. \A k \in 1 .. 2 : k = 1 \/ k = 2
    OBVIOUS
  <2> QED
    BY <1>1, <2>2, <2>3
<1>2. CASE fill /\ ~fork
  <2>1. z = <<P>>
    BY <1>2
  <2>2. z \in Seq(S) /\ Len(z) = 1 /\ z[1] = P
    BY <2>1, SMTT(30)
  <2> QED
    BY <1>2, <2>2
<1>3. CASE ~fill /\ fork
  <2>1. z = <<F>>
    BY <1>3
  <2>2. z \in Seq(S) /\ Len(z) = 1 /\ z[1] = F
    BY <2>1
  <2> QED
    BY <1>3, <2>2
<1>4. CASE ~fill /\ ~fork
  <2>1. z = <<>>
    BY <1>4
  <2>2. z \in Seq(S) /\ Len(z) = 0
    BY <2>1
  <2> QED
    BY <1>4, <2>2
<1> QED
  BY <1>1, <1>2, <1>3, <1>4

(* A run begins with the poison, when the client asks for it, and the      *)
(* fork.                                                                   *)
LEMMA BeginRunKeepsReplay ==
  ASSUME NEW L, ReplayOK(L), Ready, opts.poison_buffers \in BOOLEAN, BeginRun
  PROVE  \E M : ReplayOK(M)'
<1>1. LogOK(L) /\ HostOK(L) /\ L.works \in Nat
  BY DEF ReplayOK, LogOK, WorksOK
<1>2. /\ UNCHANGED <<planVars, opts, iteration, probes, outcome, fed, started, done, memory>>
      /\ pc = 0 /\ outcome # "failed" /\ run' = run + 1 /\ pc' = 1
      /\ \A t \in Input : fed[t] > 0
  BY DEF BeginRun, Idle
<1>3. /\ Stream' = Stream /\ Others' = Others /\ Input' = Input /\ Placed' = Placed
      /\ EventsOfPlan' = EventsOfPlan /\ UNCHANGED <<sa, mp>> /\ \A e : Home(e)' = Home(e)
      /\ \A u : BytesOf(u)' = BytesOf(u) /\ Producer(u)' = Producer(u)
  BY <1>2, SamePlan
<1>4. Input \subseteq Placed /\ 0 \in Stream /\ (sa.streams = 1 => Others = {}) /\ sa.streams \in Nat \ {0}
  BY KeptFacts, StreamFacts
<1> DEFINE fork == sa.streams # 1  fill == opts.poison_buffers
<1>5. fork \in BOOLEAN /\ fill \in BOOLEAN /\ (fork => sa.streams > 1)
  BY <1>4
<1>6. PICK P : P = Work(<<>>, [v \in Poisoned |-> Fill])
  OBVIOUS
<1>7. PICK F : F = Record(ForkEvent)
  OBVIOUS
<1>8. PICK W : W = Wait(ForkEvent)'
  OBVIOUS
<1>9. /\ P.kind = "work" /\ DOMAIN P.reads = {} /\ DOMAIN P.writes = Poisoned
      /\ Poisoned \subseteq DOMAIN memory /\ \A t \in Input : BytesOf(t) \cap Poisoned = {}
  BY <1>6 DEF Work, Poisoned
<1>10. F = Record(F.event) /\ F.kind = "record" /\ F.event = ForkEvent
  BY <1>7 DEF Record
<1>11. W.kind = "wait" /\ W.event = ForkEvent /\ W.ticket = issued'[ForkEvent]
  BY <1>8 DEF Wait, ForkEvent
<1>12. Poison' = IF fill THEN <<P>> ELSE <<>>
  <2>1. Fill' = Fill /\ Poisoned' = Poisoned
    BY <1>2, <1>3 DEF Fill, Poisoned
  <2> QED
    BY <1>2, <1>6, <2>1 DEF Poison
<1>13. PICK z : z = IF fork THEN Append(IF fill THEN <<P>> ELSE <<>>, F)
                            ELSE IF fill THEN <<P>> ELSE <<>>
  OBVIOUS
<1>14. PICK b : b = [new |-> [s \in Stream |-> IF s = 0 THEN z ELSE <<W>>], cmds |-> {P, F, W},
                     events |-> IF fork THEN {ForkEvent} ELSE {}, at |-> [e \in {ForkEvent} |-> Len(z)],
                     work |-> IF fill THEN 1 ELSE 0, on |-> 0, pos |-> 1]
  OBVIOUS
<1>15. /\ b.new[0] = z /\ \A s \in Others : b.new[s] = <<W>>
       /\ b.cmds = {P, F, W} /\ b.events = (IF fork THEN {ForkEvent} ELSE {})
       /\ b.at[ForkEvent] = Len(z) /\ b.work = (IF fill THEN 1 ELSE 0) /\ b.on = 0 /\ b.pos = 1
  BY <1>4, <1>14 DEF Others
<1> HIDE DEF fork, fill
<1>16. /\ z \in Seq({P, F, W})
       /\ Len(z) = (IF fill THEN 1 ELSE 0) + (IF fork THEN 1 ELSE 0)
       /\ fill => z[1] = P /\ Len(z) \in {1, 2}
       /\ fork => z[Len(z)] = F /\ Len(z) \in {1, 2}
       /\ \A k \in 1 .. Len(z) : (fill /\ k = 1) \/ (fork /\ k = Len(z))
  BY <1>5, <1>13, FillAndFork, SMTT(30)
<1>17. ASSUME NEW s \in Others
       PROVE  /\ b.new[s] \in Seq({P, F, W}) /\ Len(b.new[s]) = 1 /\ b.new[s][1] = W
              /\ s \in Stream /\ fork /\ s # 0
  <2>1. <<W>> \in Seq({P, F, W}) /\ Len(<<W>>) = 1 /\ <<W>>[1] = W
    OBVIOUS
  <2>2. fork
    BY <1>4 DEF fork
  <2> QED
    BY <1>15, <2>1, <2>2 DEF Others
<1>18. fork => ForkEvent \in EventsOfPlan /\ Home(ForkEvent) = 0
  BY <1>5, EventFacts
<1>19. /\ DOMAIN queue = Stream /\ DOMAIN issued = EventsOfPlan
       /\ fork => issued[ForkEvent] \in Nat
  BY <1>1, <1>18 DEF LogOK, QueueOK, EventsOK, RecordsOK
<1>20. issued' = IF fork THEN [issued EXCEPT ![ForkEvent] = @ + 1] ELSE issued
  BY DEF BeginRun, Issue, fork
<1>21. BatchOK(b)
  <2>1. \A s \in Stream : b.new[s] \in Seq(b.cmds)
    BY <1>15, <1>16, <1>17 DEF Others
  <2>2. \A e \in b.events : /\ e = ForkEvent /\ fork
    BY <1>15
  <2>3. ASSUME fork
        PROVE  /\ Home(ForkEvent) \in Stream /\ b.at[ForkEvent] \in 1 .. Len(b.new[Home(ForkEvent)])
               /\ b.new[Home(ForkEvent)][b.at[ForkEvent]] = F
    BY <1>4, <1>15, <1>16, <1>18, <2>3
  <2>4. ASSUME NEW s \in Stream, NEW k \in 1 .. Len(b.new[s])
        PROVE  LET c == b.new[s][k]
               IN  \/ c = P /\ fill /\ s = 0 /\ k = 1
                   \/ c = W /\ fork
                   \/ c = F /\ fork /\ s = 0 /\ k = Len(z)
    <3>1. CASE s = 0
      BY <1>15, <1>16, <2>4, <3>1
    <3>2. CASE s # 0
      <4>1. s \in Others
        BY <3>2 DEF Others
      <4>2. Len(b.new[s]) = 1 /\ b.new[s][1] = W /\ fork
        BY <1>17, <4>1
      <4>3. k = 1
        BY <2>4, <4>2
      <4> QED
        BY <4>2, <4>3
    <3> QED
      BY <3>1, <3>2
  <2>5. ASSUME NEW s \in Stream, NEW k \in 1 .. Len(b.new[s])
        PROVE  LET c == b.new[s][k]
               IN  \/ c.kind = "work" /\ b.work = 1 /\ s = b.on /\ k = b.pos
                   \/ /\ c.kind = "wait" /\ c.event \in EventsOfPlan
                      /\ c.ticket \in 1 .. IF c.event \in b.events THEN issued[c.event] + 1 ELSE issued[c.event]
                   \/ /\ c = Record(c.event) /\ c.kind = "record"
                      /\ c.event \in b.events /\ Home(c.event) = s /\ b.at[c.event] = k
    <3> DEFINE c == b.new[s][k]
    <3>1. \/ c = P /\ fill /\ s = 0 /\ k = 1
          \/ c = W /\ fork
          \/ c = F /\ fork /\ s = 0 /\ k = Len(z)
      BY <2>4
    <3> HIDE DEF c
    <3>2. CASE c = P /\ fill /\ s = 0 /\ k = 1
      BY <1>9, <1>15, <3>2 DEF c
    <3>3. CASE c = W /\ fork
      <4>1. /\ c.kind = "wait" /\ c.event = ForkEvent /\ c.ticket = issued[ForkEvent] + 1
            /\ ForkEvent \in b.events /\ ForkEvent \in EventsOfPlan /\ issued[ForkEvent] \in Nat
        BY <1>11, <1>15, <1>18, <1>19, <1>20, <3>3
      <4>2. c.ticket \in 1 .. issued[ForkEvent] + 1
        BY <4>1
      <4> QED
        BY <4>1, <4>2 DEF c
    <3>4. CASE c = F /\ fork /\ s = 0 /\ k = Len(z)
      <4>1. c = Record(c.event) /\ c.kind = "record" /\ c.event = ForkEvent
        BY <1>10, <3>4
      <4> QED
        BY <1>15, <1>18, <3>4, <4>1 DEF c
    <3> QED
      BY <3>1, <3>2, <3>3, <3>4
  <2>6. fill => /\ b.on \in Stream /\ b.pos \in 1 .. Len(b.new[b.on]) /\ b.new[b.on][b.pos] = P
    BY <1>4, <1>15, <1>16
  <2>7. b.events \subseteq EventsOfPlan /\ b.work \in {0, 1} /\ (b.work = 1 <=> fill)
    BY <1>15, <1>18
  <2>8. \A e \in b.events :
          /\ Home(e) \in Stream /\ b.at[e] \in 1 .. Len(b.new[Home(e)])
          /\ b.new[Home(e)][b.at[e]].kind = "record" /\ b.new[Home(e)][b.at[e]].event = e
    BY <1>10, <2>2, <2>3
  <2>9. b.work = 1 =>
          /\ b.on \in Stream /\ b.pos \in 1 .. Len(b.new[b.on])
          /\ b.new[b.on][b.pos].kind = "work"
          /\ DOMAIN b.new[b.on][b.pos].writes \subseteq DOMAIN memory
          /\ DOMAIN b.new[b.on][b.pos].reads \cap DOMAIN b.new[b.on][b.pos].writes = {}
    BY <1>9, <2>6, <2>7
  <2> QED
    BY <2>1, <2>5, <2>7, <2>8, <2>9 DEF BatchOK
<1>22. Issues(b)
  <2>1. ASSUME NEW s \in Stream PROVE queue'[s] = queue[s] \o b.new[s]
    <3>1. CASE fork
      <4>1. queue' = [r \in Stream |->
               queue[r] \o IF r = 0 THEN Append(Poison', F) ELSE <<W>>]
        BY <1>7, <1>8, <3>1 DEF BeginRun, fork
      <4>2. Append(Poison', F) = z
        BY <1>12, <1>13, <3>1
      <4>3. queue'[s] = queue[s] \o IF s = 0 THEN z ELSE <<W>>
        BY <4>1, <4>2
      <4> QED
        BY <1>15, <4>3 DEF Others
    <3>2. CASE ~fork
      <4>1. queue' = [queue EXCEPT ![0] = @ \o Poison']
        BY <3>2 DEF BeginRun, fork
      <4>2. Poison' = z
        BY <1>12, <1>13, <3>2
      <4>3. s = 0
        BY <1>4, <3>2 DEF fork, Others
      <4> QED
        BY <1>15, <1>19, <4>1, <4>2, <4>3
    <3> QED
      BY <3>1, <3>2
  <2>2. DOMAIN queue' = Stream
    <3>1. CASE fork
      BY <3>1 DEF BeginRun, fork
    <3>2. CASE ~fork
      BY <1>19, <3>2 DEF BeginRun, fork
    <3> QED
      BY <3>1, <3>2
  <2>3. /\ DOMAIN issued' = EventsOfPlan
        /\ \A e \in EventsOfPlan : issued'[e] = IF e \in b.events THEN issued[e] + 1 ELSE issued[e]
    <3>1. CASE fork
      BY <1>15, <1>18, <1>19, <1>20, <3>1
    <3>2. CASE ~fork
      BY <1>15, <1>19, <1>20, <3>2
    <3> QED
      BY <3>1, <3>2
  <2> QED
    BY <1>2, <1>3, <2>1, <2>2, <2>3 DEF Issues
<1>23. PICK M : Grown(L, b, M)
  BY <1>1, <1>21, GrownExists
<1>24. /\ fill => b.new[b.on][b.pos] = P
       /\ b.work \in {0, 1} /\ (b.work = 1 <=> fill) /\ M.works = L.works + b.work
       /\ L.len[0] \in Nat /\ M.len[0] = L.len[0] + Len(z)
       /\ fill => M.on[L.works + 1] = 0 /\ M.at[L.works + 1] = L.len[0] + 1
  BY <1>1, <1>4, <1>15, <1>16, <1>23, QueueFacts DEF Grown, LogOK
<1>25. Follow(L, 0, L.works)
  BY <1>1, <1>2, JoinedCovers DEF HostOK
<1>26. fill => \A m \in 1 .. L.works : Leads(M, m, L.works + 1)'
  <2> SUFFICES ASSUME fill, NEW m \in 1 .. L.works, NEW C, Cut(M, C)', L.len[0] + 1 <= C[0]
               PROVE M.at[m] <= C[M.on[m]]
    BY <1>24 DEF Leads
  <2>1. C[0] \in Nat /\ C[0] >= L.len[0]
    BY <1>3, <1>4, <1>24 DEF Cut
  <2> QED
    BY <1>1, <1>4, <1>21, <1>22, <1>23, <1>25, <2>1, BatchFollow
<1>27. /\ LogOK(M)' /\ \A m \in 1 .. L.works : Job(M, m) = Job(L, m)
       /\ fill => Job(M, L.works + 1) = P
  <2>1. b.work = 1 =>
          LET c == b.new[b.on][b.pos]
          IN  /\ \A m \in 1 .. L.works : Conflict(Job(L, m), c) => Leads(M, m, L.works + 1)'
              /\ \A v \in DOMAIN c.reads : Latest(L, L.works, v, c.reads[v])
    BY <1>9, <1>24, <1>26
  <2> QED
    BY <1>1, <1>21, <1>22, <1>23, <1>24, <2>1, BatchIsLogged
<1>28. ASSUME NEW s \in Stream PROVE Follow(M, s, M.works)'
  <2> SUFFICES ASSUME NEW C, Cut(M, C)', C[s] = M.len[s], NEW m \in 1 .. M.works
               PROVE M.at[m] <= C[M.on[m]]
    BY DEF Follow
  <2>1. C[0] \in Nat /\ C[0] >= M.len[0]
    <3>1. C[0] \in Nat /\ M.len[0] \in Nat
      BY <1>3, <1>4, <1>16, <1>24 DEF Cut
    <3>2. CASE s = 0
      BY <3>1, <3>2
    <3>3. CASE s # 0
      <4>1. s \in Others /\ fork
        BY <1>17, <3>3 DEF Others
      <4>2. M.len[s] = L.len[s] + 1 /\ L.len[s] \in Nat /\ M.cmd[s][L.len[s] + 1] = W
        <5>1. Len(b.new[s]) = 1 /\ b.new[s][1] = W
          BY <1>17, <4>1
        <5>2. L.len[s] \in Nat
          BY <1>1, QueueFacts DEF LogOK
        <5>3. M.len[s] = L.len[s] + Len(b.new[s]) /\ M.cmd[s][L.len[s] + 1] = b.new[s][1]
          <6>1. 1 \in 1 .. Len(b.new[s])
            BY <5>1
          <6> QED
            BY <1>23, <6>1 DEF Grown
        <5> QED
          BY <5>1, <5>2, <5>3
      <4>3. M.cmd[s][C[s]] = W /\ C[s] \in 1 .. C[s]
        BY <4>2
      <4>4. M.rec[W.event][W.ticket] <= C[Home(W.event)]
        BY <1>3, <1>11, <4>3 DEF Cut
      <4>5. W.ticket = issued[ForkEvent] + 1
        BY <1>11, <1>18, <1>19, <1>20, <4>1
      <4>6. M.rec[ForkEvent][issued[ForkEvent] + 1] = L.len[0] + Len(z)
        BY <1>15, <1>18, <1>23, <4>1 DEF Grown
      <4> QED
        BY <1>11, <1>18, <1>24, <3>1, <4>1, <4>4, <4>5, <4>6
    <3> QED
      BY <3>2, <3>3
  <2>2. CASE m \in 1 .. L.works
    <3>1. C[0] >= L.len[0]
      BY <1>16, <1>24, <2>1
    <3> QED
      BY <1>1, <1>4, <1>21, <1>22, <1>23, <1>25, <2>2, <3>1, BatchFollow
  <2>3. CASE m \notin 1 .. L.works
    <3>1. fill /\ m = L.works + 1
      BY <1>1, <1>24, <2>3
    <3> QED
      BY <1>16, <1>24, <2>1, <3>1, SMTT(30)
  <2> QED
    BY <2>2, <2>3
<1>29. HostTypes'
  <2>1. 1 \in 0 .. Len(sa.nodes) + 1
    BY StreamFacts
  <2>2. run + 1 \in Nat
    BY <1>1 DEF HostOK, HostTypes
  <2> QED
    BY <1>1, <1>2, <1>3, <2>1, <2>2 DEF HostOK, HostTypes
<1>30. ASSUME NEW t \in Input PROVE Holds(M, t)'
  <2>1. Holds(L, t)
    BY <1>1, <1>2 DEF HostOK, DataOK
  <2>2. Value(t)' = Value(t)
    BY <1>2, <1>3 DEF Value
  <2>3. b.work = 1 => BytesOf(t) \cap DOMAIN Job(M, L.works + 1).writes = {}
    BY <1>9, <1>24, <1>27
  <2> QED
    BY <1>1, <1>3, <1>24, <1>27, <2>1, <2>2, <2>3, BatchHolds
<1>31. DataOK(M)'
  <2>1. ASSUME NEW t \in Placed PROVE ~MadeYet(t)'
    <3>1. Producer(t) \subseteq Scheduled
      BY ByteFacts, AccessFacts, ReadyFacts DEF Ready
    <3>2. \A j \in Scheduled : j \in Nat /\ j >= 1
      BY StreamFacts
    <3> QED
      BY <1>2, <1>3, <3>1, <3>2 DEF MadeYet
  <2>2. pc' = 1
    BY <1>2
  <2> QED
    BY <1>3, <1>30, <2>1, <2>2 DEF DataOK
<1>32. RunOK(M)'
  <2> DEFINE w == M.works
  <2>1. w \in Nat /\ w - (1 - 1) = w
    BY <1>1, <1>24
  <2>2. \A s \in Stream' : Follow(M, s, w)'
    BY <1>3, <1>28
  <2>3. 1 .. 1 - 1 = {}
    OBVIOUS
  <2> HIDE DEF w
  <2>4. RunOK(M)' <=> LET n == M.works - (1 - 1)
                      IN  /\ n \in Nat /\ \A s \in Stream' : Follow(M, s, n)'
                          /\ \A j \in 1 .. 1 - 1 : IssuedAs(M, n, j)'
                          /\ \A i \in 1 .. 1 - 1 : \A j \in 1 .. i - 1 :
                               precedes(j, i)' => Leads(M, n + j, n + i)'
    BY <1>2 DEF RunOK
  <2> QED
    BY <2>1, <2>2, <2>3, <2>4 DEF w
<1>33. HostOK(M)'
  BY <1>2, <1>29, <1>31, <1>32 DEF HostOK
<1> QED
  BY <1>27, <1>33 DEF ReplayOK

-----------------------------------------------------------------------------
(* Issuing a node.                                                         *)

(* The elements of a set in any order.                                     *)
LEMMA ListFacts ==
  ASSUME NEW S, IsFiniteSet(S)
  PROVE  /\ SetToSeq(S) \in Seq(S)
         /\ \A x \in S : \E k \in 1 .. Len(SetToSeq(S)) : SetToSeq(S)[k] = x
<1> DEFINE n == Cardinality(S)  g == SetToSeq(S)
<1>1. n \in Nat /\ ExistsBijection(1 .. n, S)
  BY FS_CardinalityType
<1>2. \E f \in [1 .. n -> S] : IsInjective(f)
  BY <1>1 DEF ExistsBijection, Bijection, Injection
<1>3. g \in [1 .. n -> S] /\ IsInjective(g)
  BY <1>2 DEF SetToSeq
<1>4. g \in Injection(1 .. n, S)
  BY <1>3 DEF Injection
<1>5. Cardinality(1 .. n) = n
  <2>1. Cardinality(1 .. n) = n - 1 + 1
    BY <1>1, FS_Interval
  <2> QED
    BY <1>1, <2>1
<1>6. g \in Surjection(1 .. n, S)
  BY <1>4, <1>5, FS_Injection
<1> HIDE DEF g, n
<1>7. g \in Seq(S) /\ Len(g) = n
  BY <1>1, <1>3
<1>8. \A x \in S : \E k \in 1 .. n : g[k] = x
  BY <1>6 DEF Surjection
<1> QED
  BY <1>7, <1>8 DEF g

(* What precedes a node does so over the node before it on its stream, or  *)
(* over an event that it awaits.                                           *)
LEMMA LastEdge ==
  ASSUME Ready, NEW j \in Scheduled, NEW i \in Scheduled, precedes(j, i)
  PROVE  \E w \in Scheduled :
           /\ w < i /\ (w = j \/ (precedes(j, w) /\ j < w))
           /\ sa.stream[w] = sa.stream[i] \/ (sa.record[w] # kNoEventId /\ sa.record[w] \in sa.waits[i])
<1>1. PlanInv /\ stage # "build" /\ built /\ WellPlanned(sa, Len(sa.nodes))
  BY ReadyFacts DEF Ready
<1>2. \A v \in Scheduled : v \in Absorbed
  <2>1. InOrder
    BY <1>1, PlannedIsValid
  <2>2. Scheduled = 1 .. pos
    BY <1>1 DEF built, Scheduled, WellPlanned
  <2>3. \A v \in Scheduled : \E k \in Scheduled : sa.order[k] = v
    BY <2>1, Zenon DEF InOrder
  <2> QED
    BY <2>2, <2>3, Zenon DEF Absorbed
<1>3. \A u, v \in Scheduled :
        precedes(u, v) <=> Edge(u, v) \/ \E w \in Scheduled : Edge(w, v) /\ precedes(u, w)
  BY <1>1, <1>2, InvClocks DEF ClocksAreReachability
<1>4. PICK w \in Scheduled : Edge(w, i) /\ (w = j \/ precedes(j, w))
  BY <1>3
<1>5. precedes(w, i)
  BY <1>3, <1>4
<1>6. w < i /\ (precedes(j, w) => j < w)
  BY <1>1, <1>5, PrecedesFacts
<1>7. sa.stream[w] = sa.stream[i] \/ (sa.record[w] # kNoEventId /\ sa.record[w] \in sa.waits[i])
  BY <1>4 DEF Edge, NextOnStream, Awaits
<1> QED
  BY <1>4, <1>6, <1>7

(* The waits of a node are for events that were recorded in this run.      *)
LEMMA IssuedWaits ==
  ASSUME NEW L, ReplayOK(L), Ready, pc \in Scheduled
  PROVE  LET S == {Wait(NodeEvent(e)) : e \in sa.waits[pc]}
             q == WaitsFor(pc)
         IN  /\ q \in Seq(S) /\ \A e \in sa.waits[pc] : \E k \in 1 .. Len(q) : q[k] = Wait(NodeEvent(e))
             /\ \A c \in S : /\ c.kind = "wait" /\ c.event \in EventsOfPlan
                             /\ c.ticket \in 1 .. issued[c.event]
<1> DEFINE S == {Wait(NodeEvent(e)) : e \in sa.waits[pc]}
           q == WaitsFor(pc)
<1>1. /\ LogOK(L) /\ RunOK(L) /\ pc \in Nat
      /\ \A e \in sa.waits[pc] : \E j \in 1 .. pc - 1 : sa.record[j] = e
      /\ \A j \in 1 .. pc - 1 : j \in Scheduled
  <2>1. /\ Scheduled = 1 .. Len(sa.nodes) /\ Len(sa.nodes) \in Nat
        /\ \A e \in sa.waits[pc] : \E j \in 1 .. pc - 1 : sa.record[j] = e
    BY StreamFacts
  <2>2. pc \in Nat /\ pc > 0 /\ \A j \in 1 .. pc - 1 : j \in 1 .. Len(sa.nodes)
    BY <2>1
  <2> QED
    BY <2>1, <2>2 DEF ReplayOK, HostOK
<1>2. WellPlanned(sa, Len(sa.nodes)) /\ Scheduled = 1 .. Len(sa.nodes)
  BY ReadyFacts, StreamFacts
<1>3. IsFiniteSet(S)
  <2>1. IsFiniteSet(sa.waits[pc])
    <3> DEFINE k == sa.events
    <3>1. k \in Nat /\ \A e \in sa.waits[pc] : e \in 0 .. k - 1
      <4>1. k \in Nat
        BY <1>2 DEF WellPlanned
      <4>2. \A j \in Scheduled : sa.record[j] = kNoEventId \/ sa.record[j] \in 0 .. k - 1
        BY <1>2 DEF WellPlanned
      <4>3. \A e \in sa.waits[pc] : e \in Nat
        BY StreamFacts
      <4> QED
        BY <1>1, <4>1, <4>2, <4>3 DEF kNoEventId
    <3> HIDE DEF k
    <3>2. IsFiniteSet(0 .. k - 1)
      BY <3>1, FS_Interval
    <3> QED
      BY <3>1, <3>2, FS_Subset
  <2> DEFINE f == [e \in sa.waits[pc] |-> Wait(NodeEvent(e))]
             T == {f[e] : e \in sa.waits[pc]}
  <2>2. IsFiniteSet(T)
    <3> HIDE DEF f
    <3> QED
      BY <2>1, ImageIsFinite
  <2>3. T = S
    OBVIOUS
  <2> QED
    BY <2>2, <2>3
<1>4. ASSUME NEW e \in sa.waits[pc]
      PROVE  LET c == Wait(NodeEvent(e))
             IN  /\ c.kind = "wait" /\ c.event \in EventsOfPlan
                 /\ c.ticket \in 1 .. issued[c.event]
  <2> DEFINE x == NodeEvent(e)  c == Wait(x)
  <2>1. PICK j \in 1 .. pc - 1 : sa.record[j] = e
    BY <1>1
  <2>2. j \in Scheduled /\ e # kNoEventId
    <3>1. e \in Nat
      BY StreamFacts
    <3> QED
      BY <1>1, <3>1 DEF kNoEventId
  <2>3. x \in EventsOfPlan
    BY <2>1, <2>2, EventFacts
  <2>4. issued[x] > 0
    BY <1>1, <2>1, <2>2 DEF RunOK, IssuedAs
  <2>5. issued[x] \in Nat
    BY <1>1, <2>3 DEF LogOK, EventsOK, RecordsOK
  <2>6. c.kind = "wait" /\ c.event = x /\ c.ticket = issued[x]
    BY DEF Wait
  <2> HIDE DEF x, c
  <2>7. c.kind = "wait" /\ c.event \in EventsOfPlan /\ c.ticket \in 1 .. issued[c.event]
    BY <2>3, <2>4, <2>5, <2>6
  <2> QED
    BY <2>7 DEF c, x
<1>5. /\ q \in Seq(S)
      /\ \A x \in S : \E k \in 1 .. Len(q) : q[k] = x
  <2>1. q = SetToSeq(S)
    BY DEF WaitsFor
  <2> HIDE DEF S, q
  <2> QED
    BY <1>3, <2>1, ListFacts
<1>6. \A c \in S : /\ c.kind = "wait" /\ c.event \in EventsOfPlan
                   /\ c.ticket \in 1 .. issued[c.event]
  BY <1>4
<1>7. \A e \in sa.waits[pc] : \E k \in 1 .. Len(q) : q[k] = Wait(NodeEvent(e))
  BY <1>5
<1> HIDE DEF S, q
<1>8. /\ q \in Seq(S) /\ \A e \in sa.waits[pc] : \E k \in 1 .. Len(q) : q[k] = Wait(NodeEvent(e))
      /\ \A c \in S : /\ c.kind = "wait" /\ c.event \in EventsOfPlan
                      /\ c.ticket \in 1 .. issued[c.event]
  BY <1>5, <1>6, <1>7
<1> QED
  BY <1>8 DEF S, q

(* The commands of a node: its waits, its kernel, and maybe its record.    *)
LEMMA KernelAfter ==
  ASSUME NEW S, NEW q \in Seq(S), NEW B, NEW t \in Seq(B), Len(t) \in {1, 2}
  PROVE  /\ q \o t \in Seq(S \cup B) /\ Len(q) \in Nat /\ Len(q \o t) = Len(q) + Len(t)
         /\ \A k \in 1 .. Len(q) : (q \o t)[k] = q[k]
         /\ (q \o t)[Len(q) + 1] = t[1] /\ (Len(t) = 2 => (q \o t)[Len(q) + 2] = t[2])
<1>1. /\ q \o t \in Seq(S \cup B) /\ Len(q \o t) = Len(q) + Len(t) /\ Len(q) \in Nat
      /\ \A i \in 1 .. Len(q) : (q \o t)[i] = q[i]
      /\ \A i \in 1 .. Len(t) : (q \o t)[Len(q) + i] = t[i]
  BY ConcatFacts
<1>2. (q \o t)[Len(q) + 1] = t[1]
  <2>1. 1 \in 1 .. Len(t)
    <3> DEFINE m == Len(t)
    <3>1. m \in {1, 2}
      OBVIOUS
    <3> HIDE DEF m
    <3>2.  1 \in 1 .. m
      BY <3>1
    <3> QED
      BY <3>2 DEF m
  <2> QED
    BY <1>1, <2>1
<1>3. Len(t) = 2 => (q \o t)[Len(q) + 2] = t[2]
  <2>1. Len(t) = 2 => 2 \in 1 .. Len(t)
    OBVIOUS
  <2> QED
    BY <1>1, <2>1
<1> QED
  BY <1>1, <1>2, <1>3

(* What the host issues for a node, as a batch.                            *)
NodeCommands(b) ==
  /\ b.work = 1 /\ b.on = sa.stream[pc] /\ b.new[b.on][b.pos] = Kernel(pc) /\ b.pos \in Nat
  /\ \A e \in b.events : sa.record[pc] # kNoEventId /\ e = NodeEvent(sa.record[pc])
  /\ sa.record[pc] # kNoEventId =>
       NodeEvent(sa.record[pc]) \in b.events /\ b.at[NodeEvent(sa.record[pc])] > b.pos
  /\ \A e \in sa.waits[pc] : \E k \in 1 .. b.pos - 1 : b.new[b.on][k] = Wait(NodeEvent(e))

(* What issuing a node gives to its stream: waits, the kernel, a record.   *)
LEMMA NodeBatch ==
  ASSUME NEW L, ReplayOK(L), Ready, IssueNode
  PROVE  \E b : BatchOK(b) /\ Issues(b) /\ NodeCommands(b)
<1>1. LogOK(L) /\ HostOK(L) /\ pc \in Scheduled /\ UNCHANGED <<planVars, started, done, memory>>
  BY DEF ReplayOK, IssueNode
<1> DEFINE rec == sa.record[pc] # kNoEventId
<1>2. PICK s : s = sa.stream[pc]
  OBVIOUS
<1>3. PICK x : x = NodeEvent(sa.record[pc])
  OBVIOUS
<1>4. PICK K : K = Kernel(pc)
  OBVIOUS
<1>5. PICK R : R = Record(x)
  OBVIOUS
<1>6. PICK S : S = {Wait(NodeEvent(e)) : e \in sa.waits[pc]}
  OBVIOUS
<1>7. PICK q : q = WaitsFor(pc)
  OBVIOUS
<1> DEFINE t == IF rec THEN <<K, R>> ELSE <<K>>
<1>8. PICK z : z = q \o t
  OBVIOUS
<1>9. /\ q \in Seq(S) /\ \A e \in sa.waits[pc] : \E k \in 1 .. Len(q) : q[k] = Wait(NodeEvent(e))
      /\ \A c \in S : /\ c.kind = "wait" /\ c.event \in EventsOfPlan
                      /\ c.ticket \in 1 .. issued[c.event]
  BY <1>1, <1>6, <1>7, IssuedWaits
<1>10. /\ s \in Stream /\ (rec => x \in EventsOfPlan /\ Home(x) = s)
       /\ R = Record(R.event) /\ R.kind = "record" /\ R.event = x
  BY <1>1, <1>2, <1>3, <1>5, StreamFacts, EventFacts DEF Record
<1>11. /\ K.kind = "work" /\ DOMAIN K.writes \subseteq DOMAIN memory
       /\ DOMAIN K.reads \cap DOMAIN K.writes = {}
  BY <1>1, <1>4, KernelFacts DEF HostOK, HostTypes
<1>12. PICK b : b = [new |-> [r \in Stream |-> IF r = s THEN z ELSE <<>>], cmds |-> S \cup {K, R},
                     events |-> IF rec THEN {x} ELSE {}, at |-> [e \in {x} |-> Len(q) + 2],
                     work |-> 1, on |-> s, pos |-> Len(q) + 1]
  OBVIOUS
<1>13. /\ b.new[s] = z /\ \A r \in Stream : r # s => b.new[r] = <<>>
       /\ b.cmds = S \cup {K, R} /\ b.events = (IF rec THEN {x} ELSE {})
       /\ b.at[x] = Len(q) + 2 /\ b.work = 1 /\ b.on = s /\ b.pos = Len(q) + 1
  BY <1>10, <1>12
<1>14. /\ t \in Seq({K, R}) /\ Len(t) = (IF rec THEN 2 ELSE 1) /\ t[1] = K
       /\ Len(t) = 2 => t[2] = R
  <2>1. <<K, R>> \in Seq({K, R}) /\ Len(<<K, R>>) = 2 /\ <<K, R>>[1] = K /\ <<K, R>>[2] = R
    OBVIOUS
  <2>2. <<K>> \in Seq({K, R}) /\ Len(<<K>>) = 1 /\ <<K>>[1] = K
    OBVIOUS
  <2> QED
    BY <2>1, <2>2
<1> HIDE DEF rec, t
<1>15. /\ z \in Seq(S \cup {K, R}) /\ Len(q) \in Nat
       /\ Len(z) = Len(q) + 1 + (IF rec THEN 1 ELSE 0)
       /\ \A k \in 1 .. Len(q) : z[k] = q[k]
       /\ z[Len(q) + 1] = K /\ (rec => z[Len(q) + 2] = R)
       /\ \A k \in 1 .. Len(z) : k \in 1 .. Len(q) \/ k = Len(q) + 1 \/ (rec /\ k = Len(q) + 2)
  <2>1. q \in Seq(S) /\ Len(t) \in {1, 2} /\ (Len(t) = 2 <=> rec)
    BY <1>9, <1>14
  <2>2. /\ z \in Seq(S \cup {K, R}) /\ Len(q) \in Nat /\ Len(z) = Len(q) + Len(t)
        /\ \A k \in 1 .. Len(q) : z[k] = q[k]
        /\ z[Len(q) + 1] = K /\ (Len(t) = 2 => z[Len(q) + 2] = R)
        /\ \A k \in 1 .. Len(z) : \/ k \in 1 .. Len(q) \/ k = Len(q) + 1
                                  \/ (Len(t) = 2 /\ k = Len(q) + 2)
    <3> DEFINE B == {K, R}
    <3>1. q \in Seq(S) /\ z = q \o t
      BY <1>8, <2>1
    <3>2. t \in Seq(B) /\ Len(t) \in {1, 2} /\ t[1] = K /\ (Len(t) = 2 => t[2] = R)
      BY <1>14
    <3> HIDE DEF B
    <3>3. q \o t \in Seq(S \cup B)
      BY <3>1, <3>2, KernelAfter
    <3>4. Len(q) \in Nat /\ Len(q \o t) = Len(q) + Len(t)
      BY <3>1, <3>2, KernelAfter
    <3>5. \A k \in 1 .. Len(q) : (q \o t)[k] = q[k]
      BY <3>1, <3>2, KernelAfter
    <3>6. (q \o t)[Len(q) + 1] = t[1] /\ (Len(t) = 2 => (q \o t)[Len(q) + 2] = t[2])
      BY <3>1, <3>2, KernelAfter
    <3>7. \A k \in 1 .. Len(q) + Len(t) : \/ k \in 1 .. Len(q) \/ k = Len(q) + 1
                                          \/ (Len(t) = 2 /\ k = Len(q) + 2)
      <4> DEFINE n == Len(q)  m == Len(t)
      <4>1. n \in Nat /\ (m = 1 \/ m = 2)
        BY <3>2, <3>4
      <4> HIDE DEF n, m
      <4>2. \A k \in 1 .. n + m : k \in 1 .. n \/ k = n + 1 \/ (m = 2 /\ k = n + 2)
        BY <4>1
      <4> QED
        BY <4>2 DEF n, m
    <3> QED
      BY <3>1, <3>2, <3>3, <3>4, <3>5, <3>6, <3>7 DEF B
  <2> QED
    BY <1>14, <2>1, <2>2
<1>16. ASSUME NEW r \in Stream, r # s
       PROVE  b.new[r] \in Seq(S \cup {K, R}) /\ Len(b.new[r]) = 0 /\ 1 .. Len(b.new[r]) = {}
  <2>1. <<>> \in Seq(S \cup {K, R}) /\ Len(<<>>) = 0 /\ 1 .. 0 = {}
    OBVIOUS
  <2> QED
    BY <1>13, <1>16, <2>1
<1>17. ASSUME NEW k \in 1 .. Len(z)
       PROVE  LET c == z[k]
              IN  \/ c.kind = "work" /\ b.work = 1 /\ s = b.on /\ k = b.pos
                  \/ /\ c.kind = "wait" /\ c.event \in EventsOfPlan
                     /\ c.ticket \in 1 .. IF c.event \in b.events THEN issued[c.event] + 1 ELSE issued[c.event]
                  \/ /\ c = Record(c.event) /\ c.kind = "record"
                     /\ c.event \in b.events /\ Home(c.event) = s /\ b.at[c.event] = k
  <2> DEFINE c == z[k]
  <2>1. CASE k \in 1 .. Len(q)
    <3>1. c \in S
      <4>1. q[k] \in S
        BY <1>9, <2>1
      <4> QED
        BY <1>15, <2>1, <4>1
    <3> HIDE DEF c
    <3>2. /\ c.kind = "wait" /\ c.event \in EventsOfPlan
          /\ c.ticket \in 1 .. issued[c.event] /\ issued[c.event] \in Nat
      <4>1. /\ c.kind = "wait" /\ c.event \in EventsOfPlan
            /\ c.ticket \in 1 .. issued[c.event]
        BY <1>9, <3>1
      <4> QED
        BY <1>1, <4>1 DEF LogOK, EventsOK, RecordsOK
    <3>3. c.ticket \in 1 .. IF c.event \in b.events THEN issued[c.event] + 1 ELSE issued[c.event]
      BY <3>2
    <3> QED
      BY <3>2, <3>3 DEF c
  <2>2. CASE k = Len(q) + 1
    BY <1>11, <1>13, <1>15, <2>2
  <2>3. CASE rec /\ k = Len(q) + 2
    <3>1. c = R
      BY <1>15, <2>3
    <3> HIDE DEF c
    <3>2. c = Record(c.event) /\ c.kind = "record" /\ c.event = x
      BY <1>10, <3>1
    <3>3. c.event \in b.events /\ Home(c.event) = s /\ b.at[c.event] = k
      BY <1>10, <1>13, <2>3, <3>2, SMTT(30)
    <3> QED
      BY <3>2, <3>3 DEF c
  <2> QED
    BY <1>15, <2>1, <2>2, <2>3
<1>18. BatchOK(b)
  <2>1. \A r \in Stream : b.new[r] \in Seq(b.cmds)
    BY <1>13, <1>15, <1>16
  <2>2. b.events \subseteq EventsOfPlan
    BY <1>10, <1>13
  <2>3. \A e \in b.events :
          /\ Home(e) \in Stream /\ b.at[e] \in 1 .. Len(b.new[Home(e)])
          /\ b.new[Home(e)][b.at[e]].kind = "record" /\ b.new[Home(e)][b.at[e]].event = e
    <3> SUFFICES ASSUME rec
                 PROVE  /\ Home(x) \in Stream /\ b.at[x] \in 1 .. Len(b.new[Home(x)])
                        /\ b.new[Home(x)][b.at[x]].kind = "record" /\ b.new[Home(x)][b.at[x]].event = x
      BY <1>13
    <3>1. Len(q) + 2 \in 1 .. Len(z)
      BY <1>15
    <3> QED
      BY <1>10, <1>13, <1>15, <3>1
  <2>4. \A r \in Stream : \A k \in 1 .. Len(b.new[r]) :
          LET c == b.new[r][k]
          IN  \/ c.kind = "work" /\ b.work = 1 /\ r = b.on /\ k = b.pos
              \/ /\ c.kind = "wait" /\ c.event \in EventsOfPlan
                 /\ c.ticket \in 1 .. IF c.event \in b.events THEN issued[c.event] + 1 ELSE issued[c.event]
              \/ /\ c = Record(c.event) /\ c.kind = "record"
                 /\ c.event \in b.events /\ Home(c.event) = r /\ b.at[c.event] = k
    <3> SUFFICES ASSUME NEW r \in Stream, NEW k \in 1 .. Len(b.new[r])
        PROVE  LET c == b.new[r][k]
               IN  \/ c.kind = "work" /\ b.work = 1 /\ r = b.on /\ k = b.pos
                   \/ /\ c.kind = "wait" /\ c.event \in EventsOfPlan
                      /\ c.ticket \in 1 .. IF c.event \in b.events THEN issued[c.event] + 1 ELSE issued[c.event]
                   \/ /\ c = Record(c.event) /\ c.kind = "record"
                      /\ c.event \in b.events /\ Home(c.event) = r /\ b.at[c.event] = k
      OBVIOUS
    <3>1. r = s
      BY <1>16
    <3>2. b.new[r] = z
      BY <1>13, <3>1
    <3> QED
      BY <1>17, <3>1, <3>2
  <2>5. /\ b.on \in Stream /\ b.pos \in 1 .. Len(b.new[b.on]) /\ b.new[b.on][b.pos] = K
    BY <1>10, <1>13, <1>15
  <2> QED
    BY <1>11, <1>13, <2>1, <2>2, <2>3, <2>4, <2>5 DEF BatchOK
<1>19. Issues(b)
  <2>1. DOMAIN queue = Stream /\ DOMAIN issued = EventsOfPlan
    BY <1>1 DEF LogOK, QueueOK, EventsOK
  <2>2. /\ queue' = [queue EXCEPT ![s] = @ \o q \o t]
        /\ issued' = IF rec THEN [issued EXCEPT ![x] = @ + 1] ELSE issued
    BY <1>2, <1>3, <1>4, <1>5, <1>7 DEF IssueNode, Issue, rec, t
  <2>3. (queue[s] \o q) \o t = queue[s] \o z
    <3> DEFINE A == {L.cmd[s][k] : k \in 1 .. L.len[s]}  B == A \cup S \cup {K, R}
               p == queue[s]
    <3>1. p \in Seq(A)
      BY <1>1, <1>10 DEF LogOK, QueueOK
    <3>2. t \in Seq(B)
      <4> DEFINE D == {K, R}
      <4>1. t \in Seq(D) /\ D \subseteq B
        BY <1>14
      <4> HIDE DEF B, D
      <4> QED
        BY <4>1
    <3>3. A \subseteq B /\ S \subseteq B /\ z = q \o t
      BY <1>8
    <3> HIDE DEF A, B, p
    <3>4. p \in Seq(B) /\ q \in Seq(B)
      BY <1>9, <3>1, <3>3
    <3>5. (p \o q) \o t = p \o (q \o t)
      BY <3>2, <3>4, ConcatAssociative, SMTT(30)
    <3> QED
      BY <3>3, <3>5 DEF p
  <2>4. ASSUME NEW r \in Stream PROVE queue'[r] = queue[r] \o b.new[r]
    <3>1. CASE r = s
      BY <1>13, <2>1, <2>2, <2>3, <3>1
    <3>2. CASE r # s
      <4>1. queue'[r] = queue[r] /\ b.new[r] = <<>>
        BY <1>13, <2>1, <2>2, <3>2
      <4> DEFINE A == {L.cmd[r][k] : k \in 1 .. L.len[r]}  p == queue[r]
      <4>2. p \in Seq(A)
        BY <1>1 DEF LogOK, QueueOK
      <4> HIDE DEF A, p
      <4>3. p \o <<>> = p
        BY <4>2, ConcatEmptySeq
      <4> QED
        BY <4>1, <4>3 DEF p
    <3> QED
      BY <3>1, <3>2
  <2>5. /\ DOMAIN issued' = EventsOfPlan
        /\ \A e \in EventsOfPlan : issued'[e] = IF e \in b.events THEN issued[e] + 1 ELSE issued[e]
    <3>1. CASE rec
      BY <1>10, <1>13, <2>1, <2>2, <3>1
    <3>2. CASE ~rec
      BY <1>13, <2>1, <2>2, <3>2
    <3> QED
      BY <3>1, <3>2
  <2>6. DOMAIN queue' = Stream /\ UNCHANGED <<sa, started, done, memory>>
    BY <1>1, <2>1, <2>2 DEF planVars, hbVars
  <2> QED
    BY <2>4, <2>5, <2>6 DEF Issues
<1>20. \A e \in sa.waits[pc] : \E k \in 1 .. b.pos - 1 : b.new[b.on][k] = Wait(NodeEvent(e))
  <2> SUFFICES ASSUME NEW e \in sa.waits[pc]
               PROVE \E k \in 1 .. b.pos - 1 : b.new[b.on][k] = Wait(NodeEvent(e))
    OBVIOUS
  <2>1. PICK k \in 1 .. Len(q) : q[k] = Wait(NodeEvent(e))
    BY <1>9
  <2>2. k \in 1 .. b.pos - 1 /\ b.new[b.on][k] = q[k]
    BY <1>13, <1>15
  <2> QED
    BY <2>1, <2>2
<1>21. /\ b.work = 1 /\ b.on = sa.stream[pc] /\ b.new[b.on][b.pos] = Kernel(pc) /\ b.pos \in Nat
       /\ \A e \in b.events : sa.record[pc] # kNoEventId /\ e = NodeEvent(sa.record[pc])
       /\ sa.record[pc] # kNoEventId =>
            NodeEvent(sa.record[pc]) \in b.events /\ b.at[NodeEvent(sa.record[pc])] > b.pos
  BY <1>2, <1>3, <1>4, <1>13, <1>15 DEF rec
<1> QED
  BY <1>18, <1>19, <1>20, <1>21 DEF NodeCommands

(* The kernel of a node comes after those of the nodes that precede it.    *)
LEMMA NodeLeads ==
  ASSUME NEW L, ReplayOK(L), Ready, IssueNode, NEW b, BatchOK(b), Issues(b), NodeCommands(b),
         NEW M, Grown(L, b, M), NEW n, n = L.works - (pc - 1), NEW j \in 1 .. pc - 1, precedes(j, pc)
  PROVE  Leads(M, n + j, L.works + 1)'
<1>1. LogOK(L) /\ RunOK(L) /\ pc \in Scheduled
  <2>1. pc \in Scheduled /\ Scheduled = 1 .. Len(sa.nodes) /\ Len(sa.nodes) \in Nat
    BY StreamFacts DEF IssueNode
  <2> QED
    BY <2>1 DEF ReplayOK, HostOK
<1>2. n = L.works - (pc - 1)
  OBVIOUS
<1>3. PICK i : i = pc
  OBVIOUS
<1>4. PICK s : s = sa.stream[i]
  OBVIOUS
<1>5. /\ i \in Nat \ {0} /\ n \in Nat /\ L.works \in Nat /\ L.works = n + (i - 1)
      /\ j \in Scheduled /\ i \in Scheduled /\ s \in Stream
      /\ Scheduled = 1 .. Len(sa.nodes) /\ Len(sa.nodes) \in Nat
  <2>1. /\ pc \in Scheduled /\ Scheduled = 1 .. Len(sa.nodes) /\ Len(sa.nodes) \in Nat
        /\ sa.stream[pc] \in Stream
    BY <1>1, StreamFacts
  <2>2. n \in Nat /\ L.works \in Nat
    BY <1>1, <1>2 DEF RunOK, LogOK, WorksOK
  <2> QED
    BY <1>2, <1>3, <1>4, <2>1, <2>2
<1>6. \A w \in 1 .. i - 1 : IssuedAs(L, n, w) /\ w \in Scheduled
  BY <1>1, <1>2, <1>3, <1>5 DEF RunOK
<1>7. M.on[L.works + 1] = s /\ M.at[L.works + 1] = L.len[s] + b.pos /\ b.pos \in Nat /\ L.len[s] \in Nat
  <2>1. b.work = 1 /\ b.on = s /\ b.pos \in Nat
    BY <1>3, <1>4 DEF NodeCommands
  <2>2. L.len[s] \in Nat
    BY <1>1, <1>5, QueueFacts DEF LogOK
  <2> QED
    BY <2>1, <2>2 DEF Grown
<1> SUFFICES ASSUME NEW C, Cut(M, C)', L.len[s] + b.pos <= C[s]
             PROVE  M.at[n + j] <= C[M.on[n + j]]
  BY <1>7 DEF Leads
<1>8. \A r \in Stream : C[r] \in Nat
  <2>1. Stream' = Stream
    BY <1>1, BatchQueue
  <2> QED
    BY <2>1 DEF Cut
<1>9. PICK w \in Scheduled :
        /\ w < i /\ (w = j \/ (precedes(j, w) /\ j < w))
        /\ sa.stream[w] = s \/ (sa.record[w] # kNoEventId /\ sa.record[w] \in sa.waits[i])
  BY <1>3, <1>4, <1>5, LastEdge
<1>10. /\ w \in 1 .. i - 1 /\ n + w \in 1 .. L.works /\ L.on[n + w] = sa.stream[w]
       /\ M.on[n + w] = L.on[n + w] /\ M.at[n + w] = L.at[n + w]
       /\ L.on[n + w] \in Stream /\ L.at[n + w] \in 1 .. L.len[L.on[n + w]]
  <2>1. w \in 1 .. i - 1 /\ n + w \in 1 .. L.works
    BY <1>5, <1>9
  <2> QED
    BY <1>1, <1>6, <2>1 DEF IssuedAs, Grown, LogOK, WorksOK
<1>11. M.at[n + w] <= C[M.on[n + w]]
  <2>1. CASE sa.stream[w] = s
    <3>1. M.on[n + w] = s /\ M.at[n + w] = L.at[n + w] /\ L.at[n + w] \in 1 .. L.len[s]
      BY <1>10, <2>1
    <3>2. C[s] \in Nat /\ L.len[s] <= C[s]
      BY <1>5, <1>7, <1>8, SMTT(30)
    <3> QED
      BY <1>7, <3>1, <3>2
  <2>2. CASE sa.record[w] # kNoEventId /\ sa.record[w] \in sa.waits[i]
    <3>1. PICK x : x = NodeEvent(sa.record[w])
      OBVIOUS
    <3>2. x \in EventsOfPlan /\ Home(x) = sa.stream[w]
      BY <2>2, <3>1, EventFacts
    <3>3. issued[x] \in Nat \ {0} /\ L.at[n + w] < L.rec[x][issued[x]] /\ L.rec[x][issued[x]] \in Nat
      <4>1. issued[x] > 0 /\ L.at[n + w] < L.rec[x][issued[x]]
        BY <1>6, <1>10, <2>2, <3>1 DEF IssuedAs
      <4>2. RecordsOK(L, x)
        BY <1>1, <3>2 DEF LogOK, EventsOK
      <4>3. issued[x] \in Nat /\ issued[x] \in 1 .. issued[x]
        BY <4>1, <4>2 DEF RecordsOK
      <4>4. L.rec[x][issued[x]] \in Nat
        BY <4>2, <4>3 DEF RecordsOK
      <4> QED
        BY <4>1, <4>3, <4>4
    <3>4. PICK k \in 1 .. b.pos - 1 : b.new[s][k] = Wait(x)
      BY <1>3, <1>4, <2>2, <3>1 DEF NodeCommands
    <3>5. Wait(x).kind = "wait" /\ Wait(x).event = x /\ Wait(x).ticket = issued[x]
      BY DEF Wait
    <3>6. M.cmd[s][L.len[s] + k] = Wait(x) /\ L.len[s] + k \in 1 .. C[s]
      <4>1. b.pos \in 1 .. Len(b.new[s]) /\ Len(b.new[s]) \in Nat
        <5>1. b.work = 1 /\ b.on = s
          BY <1>3, <1>4 DEF NodeCommands
        <5>2. b.pos \in 1 .. Len(b.new[b.on]) /\ b.new[s] \in Seq(b.cmds)
          BY <1>5, <5>1 DEF BatchOK
        <5> QED
          BY <5>1, <5>2
      <4>2. k \in 1 .. Len(b.new[s])
        BY <1>7, <4>1
      <4>3. M.cmd[s][L.len[s] + k] = b.new[s][k]
        BY <1>5, <4>2 DEF Grown
      <4>4. L.len[s] + k \in 1 .. C[s]
        <5>1. C[s] \in Nat /\ k \in 1 .. b.pos - 1
          BY <1>5, <1>8
        <5> QED
          BY <1>7, <5>1
      <4> QED
        BY <3>4, <4>3, <4>4
    <3>7. M.rec[x][issued[x]] <= C[Home(x)]
      <4>1. Stream' = Stream /\ \A e : Home(e)' = Home(e)
        BY SameHome DEF Issues
      <4> QED
        BY <1>5, <3>5, <3>6, <4>1 DEF Cut
    <3>8. M.rec[x][issued[x]] = L.rec[x][issued[x]]
      BY <3>2, <3>3 DEF Grown
    <3>9. sa.stream[w] = M.on[n + w] /\ C[M.on[n + w]] \in Nat /\ L.at[n + w] \in Nat
      <4>1. L.len[L.on[n + w]] \in Nat
        BY <1>1, <1>10, QueueFacts DEF LogOK
      <4> QED
        BY <1>8, <1>10, <4>1
    <3>10. L.at[n + w] < L.rec[x][issued[x]] /\ L.rec[x][issued[x]] <= C[M.on[n + w]]
      BY <3>2, <3>3, <3>7, <3>8, <3>9
    <3> QED
      BY <1>10, <3>3, <3>9, <3>10
  <2> QED
    BY <1>9, <2>1, <2>2
<1>12. CASE w = j
  BY <1>11, <1>12
<1>13. CASE precedes(j, w) /\ j < w
  <2>1. j \in 1 .. w - 1 /\ n + j \in 1 .. L.works
    BY <1>5, <1>10, <1>13
  <2>2. Leads(L, n + j, n + w)
    BY <1>1, <1>2, <1>3, <1>10, <1>13, <2>1 DEF RunOK
  <2>3. Leads(M, n + j, n + w)'
    BY <1>1, <1>10, <2>1, <2>2, BatchCuts
  <2> QED
    BY <1>11, <2>3 DEF Leads
<1> QED
  BY <1>9, <1>12, <1>13

(* The kernel of a node comes after what it conflicts with, and reads what *)
(* is there.                                                               *)
LEMMA NodeIsLogged ==
  ASSUME NEW L, ReplayOK(L), Ready, IssueNode, NEW b, BatchOK(b), Issues(b), NodeCommands(b),
         NEW M, Grown(L, b, M)
  PROVE  /\ LogOK(M)' /\ L.works \in Nat
         /\ \A m \in 1 .. L.works : Job(M, m) = Job(L, m)
         /\ Job(M, L.works + 1) = Kernel(pc)
<1>1. LogOK(L) /\ HostOK(L) /\ RunOK(L) /\ pc \in Scheduled /\ pc \in Nat \ {0}
  <2>1. pc \in Scheduled /\ Scheduled = 1 .. Len(sa.nodes) /\ Len(sa.nodes) \in Nat
    BY StreamFacts DEF IssueNode
  <2> QED
    BY <2>1 DEF ReplayOK, HostOK
<1>2. PICK n : n = L.works - (pc - 1)
  OBVIOUS
<1>3. PICK i : i = pc
  OBVIOUS
<1>4. PICK s : s = sa.stream[i]
  OBVIOUS
<1>5. PICK K : K = Kernel(i)
  OBVIOUS
<1>6. /\ i \in Nat \ {0} /\ n \in Nat /\ L.works \in Nat /\ L.works = n + (i - 1)
      /\ i \in Scheduled /\ s \in Stream
      /\ \A j \in 1 .. i - 1 : j \in Scheduled
  <2>1. /\ pc \in Scheduled /\ Scheduled = 1 .. Len(sa.nodes) /\ Len(sa.nodes) \in Nat
        /\ sa.stream[pc] \in Stream
    BY <1>1, StreamFacts
  <2>2. n \in Nat /\ L.works \in Nat
    BY <1>1, <1>2 DEF RunOK, LogOK, WorksOK
  <2>3. \A j \in 1 .. i - 1 : j \in 1 .. Len(sa.nodes)
    BY <1>3, <2>1
  <2> QED
    BY <1>2, <1>3, <1>4, <2>1, <2>2, <2>3
<1>7. /\ K.kind = "work" /\ DOMAIN K.writes = BytesOf(Made(i))
      /\ DOMAIN K.reads = UNION {BytesOf(t) : t \in Read(i)}
      /\ \A t \in Read(i) : \A v \in BytesOf(t) : K.reads[v] = Value(t)
  BY <1>5, <1>6, KernelFacts
<1>8. b.work = 1 /\ b.on = s /\ b.new[b.on][b.pos] = K /\ b.pos \in Nat
  BY <1>3, <1>4, <1>5 DEF NodeCommands
<1>9. M.on[L.works + 1] = s /\ M.at[L.works + 1] = L.len[s] + b.pos /\ L.len[s] \in Nat
  <2>1. L.len[s] \in Nat
    BY <1>1, <1>6, QueueFacts DEF LogOK
  <2> QED
    BY <1>8, <2>1 DEF Grown
<1>10. ASSUME NEW m \in 1 .. L.works, Conflict(Job(L, m), K) PROVE Leads(M, m, L.works + 1)'
  <2>1. CASE m \in 1 .. n
    <3> SUFFICES ASSUME NEW C, Cut(M, C)', L.len[s] + b.pos <= C[s] PROVE M.at[m] <= C[M.on[m]]
      BY <1>9 DEF Leads
    <3>1. C[s] \in Nat
      <4>1. Stream' = Stream
        BY <1>1, BatchQueue
      <4> QED
        BY <1>6, <4>1 DEF Cut
    <3>2. C[s] >= L.len[s]
      BY <1>8, <1>9, <3>1
    <3>3. Follow(L, s, n) /\ n <= L.works
      BY <1>1, <1>2, <1>6 DEF RunOK
    <3> QED
      BY <1>1, <1>6, <2>1, <3>2, <3>3, BatchFollow
  <2>2. CASE m \notin 1 .. n
    <3>1. PICK j : j = m - n
      OBVIOUS
    <3>2. j \in 1 .. i - 1 /\ m = n + j
      BY <1>6, <2>2, <3>1
    <3>3. Touches(Job(L, n + j), j)
      BY <1>1, <1>2, <1>3, <3>2 DEF RunOK, IssuedAs
    <3>4. precedes(j, i)
      <4> DEFINE c == Job(L, n + j)
      <4>1. /\ DOMAIN c.writes = BytesOf(Made(j))
            /\ DOMAIN c.reads = UNION {BytesOf(t) : t \in Read(j)} /\ Conflict(c, K)
        BY <1>10, <3>2, <3>3 DEF Touches
      <4>2. j < i /\ j \in Scheduled
        BY <1>6, <3>2
      <4> HIDE DEF c
      <4> QED
        BY <1>6, <1>7, <4>1, <4>2, ConflictsAreOrdered
    <3> QED
      BY <1>2, <1>3, <3>2, <3>4, NodeLeads
  <2> QED
    BY <2>1, <2>2
<1>11. ASSUME NEW v \in DOMAIN K.reads PROVE Latest(L, L.works, v, K.reads[v])
  <2>1. PICK t \in Read(i) : v \in BytesOf(t)
    BY <1>7
  <2>2. K.reads[v] = Value(t)
    BY <1>7, <2>1
  <2>3. /\ t \in Placed /\ i \in Accesses(t)
        /\ t \in Input \/ \E j \in Producer(t) : precedes(j, i)
    BY <1>6, <2>1, NodeFacts
  <2>4. Holds(L, t)
    <3>1. CASE t \in Input
      BY <1>1, <3>1 DEF HostOK, HostTypes, DataOK
    <3>2. CASE t \notin Input
      <4>1. PICK j \in Producer(t) : precedes(j, i)
        BY <2>3, <3>2
      <4>2. j < i
        <5>1. j \in Scheduled
          BY <2>3, ByteFacts, AccessFacts, ReadyFacts DEF Ready
        <5> QED
          BY <1>6, <4>1, <5>1, PrecedesFacts, ReadyFacts DEF Ready
      <4>3. MadeYet(t) /\ Needed(t)
        BY <1>3, <1>6, <2>3, <4>1, <4>2 DEF MadeYet, Needed
      <4> QED
        BY <1>1, <2>3, <4>3 DEF HostOK, DataOK
    <3> QED
      BY <3>1, <3>2
  <2> QED
    BY <2>1, <2>2, <2>4 DEF Holds
<1>12. b.work = 1 =>
         LET c == b.new[b.on][b.pos]
         IN  /\ \A m \in 1 .. L.works : Conflict(Job(L, m), c) => Leads(M, m, L.works + 1)'
             /\ \A v \in DOMAIN c.reads : Latest(L, L.works, v, c.reads[v])
  BY <1>8, <1>10, <1>11
<1> QED
  BY <1>1, <1>3, <1>5, <1>8, <1>12, BatchIsLogged

(* The node that was issued takes its place in the run.                    *)
LEMMA NodeKeepsRun ==
  ASSUME NEW L, ReplayOK(L), Ready, IssueNode, NEW b, BatchOK(b), Issues(b), NodeCommands(b),
         NEW M, Grown(L, b, M)
  PROVE  RunOK(M)'
<1>1. LogOK(L) /\ HostOK(L) /\ RunOK(L) /\ pc \in Scheduled /\ pc \in Nat \ {0}
  <2>1. pc \in Scheduled /\ Scheduled = 1 .. Len(sa.nodes) /\ Len(sa.nodes) \in Nat
    BY StreamFacts DEF IssueNode
  <2> QED
    BY <2>1 DEF ReplayOK, HostOK
<1>2. PICK n : n = L.works - (pc - 1)
  OBVIOUS
<1>3. PICK i : i = pc
  OBVIOUS
<1>4. PICK s : s = sa.stream[i]
  OBVIOUS
<1>5. /\ i \in Nat \ {0} /\ n \in Nat /\ L.works \in Nat /\ L.works = n + (i - 1)
      /\ i \in Scheduled /\ s \in Stream
      /\ \A j \in 1 .. i - 1 : j \in Scheduled
  <2>1. /\ pc \in Scheduled /\ Scheduled = 1 .. Len(sa.nodes) /\ Len(sa.nodes) \in Nat
        /\ sa.stream[pc] \in Stream
    BY <1>1, StreamFacts
  <2>2. n \in Nat /\ L.works \in Nat
    BY <1>1, <1>2 DEF RunOK, LogOK, WorksOK
  <2>3. \A j \in 1 .. i - 1 : j \in 1 .. Len(sa.nodes)
    BY <1>3, <2>1
  <2> QED
    BY <1>2, <1>3, <1>4, <2>1, <2>2, <2>3
<1>6. UNCHANGED planVars /\ pc' = i + 1
  BY <1>3 DEF IssueNode
<1>7. /\ Stream' = Stream /\ UNCHANGED sa /\ \A c, j : Touches(c, j)' = Touches(c, j)
      /\ \A j, k : precedes(j, k)' = precedes(j, k)
  BY <1>6, SamePlan
<1>8. b.work = 1 /\ b.on = s /\ b.pos \in Nat
  BY <1>3, <1>4 DEF NodeCommands
<1>9. M.works = L.works + 1 /\ M.works - ((i + 1) - 1) = n
  BY <1>5, <1>8 DEF Grown
<1>10. \A r \in Stream : Follow(M, r, n)'
  <2> SUFFICES ASSUME NEW r \in Stream PROVE Follow(M, r, n)'
    OBVIOUS
  <2>1. Follow(L, r, n) /\ n <= L.works
    BY <1>1, <1>2, <1>5 DEF RunOK
  <2> QED
    BY <1>1, <1>5, <2>1, BatchFollow
<1>11. /\ \A m \in 1 .. L.works : Job(M, m) = Job(L, m)
       /\ Job(M, L.works + 1) = Kernel(i)
  BY <1>3, NodeIsLogged
<1>12. ASSUME NEW j \in 1 .. i - 1 PROVE IssuedAs(M, n, j)'
  <2>1. IssuedAs(L, n, j) /\ j \in Scheduled /\ n + j \in 1 .. L.works
    BY <1>1, <1>2, <1>3, <1>5 DEF RunOK
  <2>2. M.on[n + j] = L.on[n + j] /\ M.at[n + j] = L.at[n + j]
    BY <2>1 DEF Grown
  <2>3. M.on[n + j] = sa.stream[j] /\ Touches(Job(L, n + j), j)
    BY <2>1, <2>2 DEF IssuedAs
  <2>4. Touches(Job(M, n + j), j)'
    <3>1. PICK c : c = Job(L, n + j)
      OBVIOUS
    <3>2. Touches(c, j)'
      BY <1>7, <2>3, <3>1
    <3>3. Job(M, n + j) = c
      BY <1>11, <2>1, <3>1
    <3> QED
      BY <3>2, <3>3 DEF Job
  <2>5. ASSUME sa.record[j] # kNoEventId
        PROVE  LET e == NodeEvent(sa.record[j])
               IN  issued'[e] > 0 /\ M.at[n + j] < M.rec[e][issued'[e]]
    <3>1. PICK x : x = NodeEvent(sa.record[j])
      OBVIOUS
    <3>2. x \in EventsOfPlan
      BY <2>1, <2>5, <3>1, EventFacts
    <3>3. x \notin b.events
      <4> SUFFICES ASSUME x \in b.events PROVE FALSE
        OBVIOUS
      <4>1. sa.record[i] # kNoEventId /\ x = NodeEvent(sa.record[i])
        BY <1>3 DEF NodeCommands
      <4>2. sa.record[i] = sa.record[j]
        BY <3>1, <4>1 DEF NodeEvent
      <4>3. i # j
        BY <1>5
      <4>4. WellPlanned(sa, Len(sa.nodes))
        BY ReadyFacts
      <4>5. Valid
        BY <4>4, PlannedIsValid
      <4> QED
        BY <1>5, <2>1, <4>1, <4>2, <4>3, <4>5 DEF Valid
    <3>4. issued'[x] = issued[x]
      BY <3>2, <3>3 DEF Issues
    <3>5. issued[x] > 0 /\ L.at[n + j] < L.rec[x][issued[x]]
      BY <2>1, <2>5, <3>1 DEF IssuedAs
    <3>6. issued[x] \in 1 .. issued[x]
      <4>1. issued[x] \in Nat
        BY <1>1, <3>2 DEF LogOK, EventsOK, RecordsOK
      <4> QED
        BY <3>5, <4>1
    <3>7. M.rec[x][issued[x]] = L.rec[x][issued[x]]
      BY <3>2, <3>6 DEF Grown
    <3> QED
      BY <2>2, <3>1, <3>4, <3>5, <3>7
  <2> QED
    BY <1>7, <2>3, <2>4, <2>5 DEF IssuedAs, NodeEvent
<1>13. IssuedAs(M, n, i)'
  <2>1. n + i = L.works + 1
    BY <1>5
  <2>2. M.on[n + i] = sa.stream[i] /\ M.at[n + i] = L.len[s] + b.pos
    BY <1>4, <1>8, <2>1 DEF Grown
  <2>3. Touches(Job(M, n + i), i)'
    <3>1. PICK c : c = Kernel(i)
      OBVIOUS
    <3>2. Touches(c, i)
      BY <1>5, <3>1, KernelFacts DEF Touches
    <3>3. Touches(c, i)'
      BY <1>7, <3>2
    <3>4. Job(M, n + i) = c
      BY <1>11, <2>1, <3>1
    <3> QED
      BY <3>3, <3>4 DEF Job
  <2>4. ASSUME sa.record[i] # kNoEventId
        PROVE  LET e == NodeEvent(sa.record[i])
               IN  issued'[e] > 0 /\ M.at[n + i] < M.rec[e][issued'[e]]
    <3>1. PICK x : x = NodeEvent(sa.record[i])
      OBVIOUS
    <3>2. x \in EventsOfPlan /\ Home(x) = s
      BY <1>4, <1>5, <2>4, <3>1, EventFacts
    <3>3. x \in b.events /\ b.at[x] > b.pos
      BY <1>3, <2>4, <3>1 DEF NodeCommands
    <3>4. issued'[x] = issued[x] + 1 /\ issued[x] \in Nat
      BY <1>1, <3>2, <3>3 DEF Issues, LogOK, EventsOK, RecordsOK
    <3>5. M.rec[x][issued[x] + 1] = L.len[s] + b.at[x]
      BY <3>2, <3>3 DEF Grown
    <3>6. L.len[s] \in Nat
      BY <1>1, <1>5, QueueFacts DEF LogOK
    <3>7. b.at[x] \in Nat
      <4>1. b.at[x] \in 1 .. Len(b.new[s])
        BY <3>2, <3>3 DEF BatchOK
      <4> QED
        BY <4>1
    <3> QED
      BY <1>8, <2>2, <3>1, <3>3, <3>4, <3>5, <3>6, <3>7
  <2> QED
    BY <1>7, <2>2, <2>3, <2>4 DEF IssuedAs, NodeEvent
<1>14. ASSUME NEW a \in 1 .. i, NEW j \in 1 .. a - 1, precedes(j, a) PROVE Leads(M, n + j, n + a)'
  <2>1. CASE a = i
    <3>1. n + i = L.works + 1
      BY <1>5
    <3>2. Leads(M, n + j, L.works + 1)'
      BY <1>2, <1>3, <1>14, <2>1, NodeLeads
    <3> QED
      BY <2>1, <3>1, <3>2
  <2>2. CASE a # i
    <3>1. a \in 1 .. i - 1 /\ n + j \in 1 .. L.works /\ n + a \in 1 .. L.works
      BY <1>5, <2>2
    <3>2. Leads(L, n + j, n + a)
      BY <1>1, <1>2, <1>3, <1>14, <3>1 DEF RunOK
    <3> QED
      BY <1>1, <3>1, <3>2, BatchCuts
  <2> QED
    BY <2>1, <2>2
<1>15. \A j \in 1 .. i : IssuedAs(M, n, j)'
  <2>1. \A j \in 1 .. i : j \in 1 .. i - 1 \/ j = i
    BY <1>5
  <2> QED
    BY <1>12, <1>13, <2>1
<1>16. (i + 1) - 1 = i
  BY <1>5
<1>17. RunOK(M)' <=> LET m == M.works - ((i + 1) - 1)
                     IN  /\ m \in Nat /\ \A r \in Stream' : Follow(M, r, m)'
                         /\ \A j \in 1 .. (i + 1) - 1 : IssuedAs(M, m, j)'
                         /\ \A a \in 1 .. (i + 1) - 1 : \A j \in 1 .. a - 1 :
                              precedes(j, a)' => Leads(M, m + j, m + a)'
  BY <1>6 DEF RunOK
<1> QED
  BY <1>5, <1>7, <1>9, <1>10, <1>14, <1>15, <1>16, <1>17

(* A node reads what was made before, and writes what nobody needs.        *)
LEMMA IssueNodeKeepsReplay ==
  ASSUME NEW L, ReplayOK(L), Ready, IssueNode
  PROVE  \E M : ReplayOK(M)'
<1>1. LogOK(L) /\ HostOK(L)
  BY DEF ReplayOK
<1>2. PICK b : BatchOK(b) /\ Issues(b) /\ NodeCommands(b)
  BY NodeBatch
<1>3. PICK M : Grown(L, b, M)
  BY <1>1, <1>2, GrownExists
<1>4. /\ LogOK(M)' /\ L.works \in Nat
      /\ \A m \in 1 .. L.works : Job(M, m) = Job(L, m)
      /\ Job(M, L.works + 1) = Kernel(pc)
  BY <1>2, <1>3, NodeIsLogged
<1>5. PICK i : i = pc
  OBVIOUS
<1>6. /\ i \in Scheduled /\ i \in Nat \ {0} /\ i + 1 \in 0 .. Len(sa.nodes) + 1 /\ pc' = i + 1
      /\ \A j \in Scheduled : j \in Nat
  <2>1. pc \in Scheduled /\ Scheduled = 1 .. Len(sa.nodes) /\ Len(sa.nodes) \in Nat
    BY StreamFacts DEF IssueNode
  <2> QED
    BY <1>5, <2>1 DEF IssueNode
<1>7. UNCHANGED <<planVars, opts, run, iteration, outcome, fed, started, done, memory>>
  BY DEF IssueNode
<1>8. /\ Stream' = Stream /\ Others' = Others /\ Input' = Input /\ Placed' = Placed
      /\ UNCHANGED <<sa, mp>>
      /\ \A u : /\ BytesOf(u)' = BytesOf(u) /\ Kept(u)' = Kept(u)
                /\ Producer(u)' = Producer(u) /\ Accesses(u)' = Accesses(u)
  BY <1>7, SamePlan
<1>9. b.work = 1 /\ M.works = L.works + b.work
  BY <1>2, <1>3 DEF NodeCommands, Grown
<1>10. \A u : Value(u)' = Value(u)
  BY <1>7, SameValues
<1>11. HostTypes'
  BY <1>1, <1>5, <1>6, <1>7, <1>8 DEF HostOK, HostTypes
<1>12. Holds(M, Made(i))'
  <2> DEFINE u == Made(i)
  <2>1. PICK w : w = u
    OBVIOUS
  <2>2. /\ BytesOf(w) = DOMAIN Kernel(i).writes
        /\ \A v \in BytesOf(w) : Kernel(i).writes[v] = Value(w)
    BY <1>6, <2>1, KernelFacts
  <2>3. Job(M, L.works + 1) = Kernel(i)
    BY <1>4, <1>5
  <2>4. /\ BytesOf(w) = DOMAIN Job(M, L.works + 1).writes
        /\ \A v \in BytesOf(w) : Job(M, L.works + 1).writes[v] = Value(w)'
    BY <1>10, <2>2, <2>3
  <2>5. BytesOf(w)' = BytesOf(w)
    BY <1>8
  <2>6. Holds(M, w)'
    BY <1>4, <1>9, <2>4, <2>5, BatchHolds
  <2>7. Made(i)' = w
    BY <1>7, <2>1, SamePlan
  <2> QED
    BY <2>6, <2>7 DEF Holds
<1>13. ASSUME NEW t \in Placed, t # Made(i), Holds(L, t), Kept(t) \/ \E k \in Accesses(t) : k > i,
              t \in Input \/ \E j \in Producer(t) : j < i
       PROVE  Holds(M, t)'
  <2>1. BytesOf(t) \cap BytesOf(Made(i)) = {}
    BY <1>6, <1>13, NotOverwritten
  <2>2. DOMAIN Job(M, L.works + 1).writes = BytesOf(Made(i))
    BY <1>4, <1>5, <1>6, KernelFacts
  <2>3. b.work = 1 => BytesOf(t) \cap DOMAIN Job(M, L.works + 1).writes = {}
    BY <2>1, <2>2
  <2> QED
    BY <1>4, <1>8, <1>9, <1>10, <1>13, <2>3, BatchHolds
<1>14. ASSUME NEW t \in Input, fed[t] > 0 PROVE Holds(M, t)'
  <2>1. t \in Placed /\ Kept(t)
    BY KeptFacts
  <2>2. t # Made(i)
    BY <1>6, NodeFacts
  <2>3. Holds(L, t)
    BY <1>1, <1>14 DEF HostOK, DataOK
  <2> QED
    BY <1>13, <2>1, <2>2, <2>3
<1>15. ASSUME NEW t \in Placed, MadeYet(t)', Needed(t)' PROVE Holds(M, t)'
  <2>1. PICK j \in Producer(t) : j < i + 1
    BY <1>6, <1>8, <1>15 DEF MadeYet
  <2>2. Kept(t) \/ \E k \in Accesses(t) : k >= i + 1
    BY <1>6, <1>8, <1>15 DEF Needed
  <2>3. Producer(t) \subseteq Scheduled /\ Accesses(t) \subseteq Scheduled
    BY ByteFacts, AccessFacts, ReadyFacts DEF Ready
  <2>4. CASE t = Made(i)
    <3>1. PICK w : w = t
      OBVIOUS
    <3>2. Made(i)' = Made(i)
      BY <1>7, SamePlan
    <3> QED
      BY <1>12, <2>4, <3>2 DEF Holds
  <2>5. CASE t # Made(i)
    <3>1. j # i
      <4> SUFFICES ASSUME j = i PROVE FALSE
        OBVIOUS
      <4>1. tensors[t].producer = sa.nodes[i]
        BY <2>1 DEF Producer, SchedOf
      <4>2. GraphOK /\ LiveOK(sa.nodes) /\ t \in TensorId
        BY ReadyFacts, ByteFacts
      <4>3. sa.nodes[i] \in NodeId
        BY <1>6, <4>2, StreamFacts DEF LiveOK
      <4>4. nodes[sa.nodes[i]].output = t
        BY <4>1, <4>2, <4>3 DEF GraphOK, TensorOK, NodeId
      <4> QED
        BY <2>5, <4>4 DEF Made
    <3>2. j < i /\ j \in Nat
      <4>1. j \in Nat
        BY <1>6, <2>3
      <4> QED
        BY <1>6, <2>1, <3>1, <4>1
    <3>3. Kept(t) \/ \E k \in Accesses(t) : k > i /\ k >= i
      <4>1. \A k \in Accesses(t) : k \in Nat
        BY <1>6, <2>3
      <4>2. \A k \in Accesses(t) : k >= i + 1 => k > i /\ k >= i
        BY <1>6, <4>1
      <4> QED
        BY <2>2, <4>2
    <3>4. Holds(L, t)
      <4>1. MadeYet(t)
        BY <1>5, <3>2 DEF MadeYet
      <4>2. Needed(t)
        BY <1>5, <3>3 DEF Needed
      <4>3. pc > 0
        BY <1>5, <1>6
      <4> QED
        BY <1>1, <4>1, <4>2, <4>3 DEF HostOK, DataOK
    <3> QED
      BY <1>13, <2>5, <3>2, <3>3, <3>4
  <2> QED
    BY <2>4, <2>5
<1>16. pc' > 0 /\ pc' # 0
  BY <1>6
<1>17. DataOK(M)'
  <2>1. \A t \in Input' : fed'[t] > 0 => Holds(M, t)'
    BY <1>7, <1>8, <1>14
  <2>2. \A t \in Placed' : MadeYet(t)' /\ Needed(t)' => Holds(M, t)'
    BY <1>8, <1>15
  <2> QED
    BY <1>16, <2>1, <2>2 DEF DataOK
<1>18. RunOK(M)'
  BY <1>2, <1>3, NodeKeepsRun
<1>19. HostOK(M)'
  BY <1>11, <1>16, <1>17, <1>18 DEF HostOK
<1> QED
  BY <1>4, <1>19 DEF ReplayOK

-----------------------------------------------------------------------------
(* Waits and records alone write nothing.                                  *)
LEMMA NoWorkHolds ==
  ASSUME NEW L, LogOK(L), NEW b, BatchOK(b), Issues(b), b.work = 0, NEW M, Grown(L, b, M),
         UNCHANGED <<planVars, fed, run>>
  PROVE  LogOK(M)' /\ \A t : Holds(L, t) => Holds(M, t)'
<1>1. LogOK(M)' /\ L.works \in Nat /\ \A m \in 1 .. L.works : Job(M, m) = Job(L, m)
  BY BatchIsLogged
<1>2. M.works = L.works + b.work
  BY DEF Grown
<1>3. \A t : BytesOf(t)' = BytesOf(t) /\ Value(t)' = Value(t)
  BY SamePlan, SameValues
<1>4. ASSUME NEW t, Holds(L, t) PROVE Holds(M, t)'
  BY <1>1, <1>2, <1>3, <1>4, BatchHolds
<1> QED
  BY <1>1, <1>4

(* A launch that fails leaves its waits, and a run that nobody looks at.   *)
LEMMA LaunchFailsKeepsReplay ==
  ASSUME NEW L, ReplayOK(L), Ready, LaunchFails
  PROVE  \E M : ReplayOK(M)'
<1>1. LogOK(L) /\ HostOK(L) /\ pc \in Scheduled
  BY DEF ReplayOK, LaunchFails
<1>2. /\ UNCHANGED <<planVars, opts, run, iteration, fed, started, issued, done, memory>>
      /\ pc' = 0 /\ outcome' = "failed"
  BY DEF LaunchFails
<1>3. /\ Stream' = Stream /\ Input' = Input /\ EventsOfPlan' = EventsOfPlan /\ UNCHANGED <<sa, mp>>
  BY <1>2, SamePlan
<1>4. PICK s : s = sa.stream[pc]
  OBVIOUS
<1>5. PICK S : S = {Wait(NodeEvent(e)) : e \in sa.waits[pc]}
  OBVIOUS
<1>6. PICK q : q = WaitsFor(pc)
  OBVIOUS
<1>7. /\ q \in Seq(S) /\ s \in Stream
      /\ \A c \in S : /\ c.kind = "wait" /\ c.event \in EventsOfPlan
                      /\ c.ticket \in 1 .. issued[c.event]
  BY <1>1, <1>4, <1>5, <1>6, IssuedWaits, StreamFacts
<1>8. PICK b : b = [new |-> [r \in Stream |-> IF r = s THEN q ELSE <<>>], cmds |-> S,
                    events |-> {}, at |-> <<>>, work |-> 0, on |-> 0, pos |-> 0]
  OBVIOUS
<1>9. /\ \A r \in Stream : b.new[r] = IF r = s THEN q ELSE <<>>
      /\ b.cmds = S /\ b.events = {} /\ b.work = 0
  BY <1>8
<1>10. BatchOK(b)
  <2>1. ASSUME NEW r \in Stream
        PROVE  /\ b.new[r] \in Seq(S)
               /\ \A k \in 1 .. Len(b.new[r]) : b.new[r][k] \in S
    <3>1. <<>> \in Seq(S)
      OBVIOUS
    <3>2. b.new[r] \in Seq(S)
      BY <1>7, <1>9, <3>1
    <3> QED
      BY <3>2, ElementOfSeq
  <2> QED
    BY <1>7, <1>9, <2>1 DEF BatchOK
<1>11. Issues(b)
  <2>1. DOMAIN queue = Stream /\ DOMAIN issued = EventsOfPlan
    BY <1>1 DEF LogOK, QueueOK, EventsOK
  <2>2. queue' = [queue EXCEPT ![s] = @ \o q]
    BY <1>4, <1>6 DEF LaunchFails
  <2>3. ASSUME NEW r \in Stream PROVE queue'[r] = queue[r] \o b.new[r]
    <3>1. queue[r] \in Seq({L.cmd[r][k] : k \in 1 .. L.len[r]})
      BY <1>1 DEF LogOK, QueueOK
    <3>2. queue[r] \o <<>> = queue[r]
      BY <3>1, ConcatEmptySeq
    <3> QED
      BY <1>9, <2>1, <2>2, <3>2
  <2> QED
    BY <1>2, <1>3, <1>9, <2>1, <2>2, <2>3 DEF Issues
<1>12. PICK M : Grown(L, b, M)
  BY <1>1, <1>10, GrownExists
<1>13. LogOK(M)' /\ \A t : Holds(L, t) => Holds(M, t)'
  BY <1>1, <1>2, <1>9, <1>10, <1>11, <1>12, NoWorkHolds
<1>14. HostTypes'
  <2>1. 0 \in 0 .. Len(sa.nodes) + 1
    BY StreamFacts
  <2> QED
    BY <1>1, <1>2, <1>3, <2>1 DEF HostOK, HostTypes
<1>15. DataOK(M)'
  <2>1. \A t \in Input' : fed'[t] > 0 => Holds(M, t)'
    BY <1>1, <1>2, <1>3, <1>13 DEF HostOK, DataOK
  <2> QED
    BY <1>2, <2>1 DEF DataOK
<1>16. HostOK(M)'
  BY <1>2, <1>14, <1>15 DEF HostOK
<1> QED
  BY <1>13, <1>16 DEF ReplayOK

(* What Join appends: a record to each other stream, its wait to stream 0. *)
LEMMA JoinFacts ==
  ASSUME Ready, UNCHANGED planVars
  PROVE  LET W(s) == [kind |-> "wait", event |-> JoinEvent(s), ticket |-> issued'[JoinEvent(s)]]
         IN  /\ JoinWaits' \in Seq({W(s) : s \in Others})
             /\ \A s \in Others : \E k \in 1 .. Len(JoinWaits') : JoinWaits'[k] = W(s)
<1> DEFINE W(s) == [kind |-> "wait", event |-> JoinEvent(s), ticket |-> issued'[JoinEvent(s)]]
           V == {W(s) : s \in Others}
<1>1. PICK joins : joins = SetToSeq(Others)
  OBVIOUS
<1>2. Others' = Others
  BY SamePlan
<1>3. /\ joins \in Seq(Others) /\ Len(joins) \in Nat /\ DOMAIN joins = 1 .. Len(joins)
      /\ \A s \in Others : \E k \in 1 .. Len(joins) : joins[k] = s
  <2>1. IsFiniteSet(Others)
    BY StreamFacts
  <2>2. joins \in Seq(Others) /\ \A s \in Others : \E k \in 1 .. Len(joins) : joins[k] = s
    BY <1>1, <2>1, ListFacts
  <2> QED
    BY <2>2, LenProperties
<1>4. PICK J : J = JoinWaits'
  OBVIOUS
<1>5. J = [i \in 1 .. Len(joins) |-> W(joins[i])]
  <2>1. SetToSeq(Others)' = joins
    BY <1>1, <1>2
  <2>2. J = [i \in DOMAIN joins |-> Wait(JoinEvent(joins[i]))']
    BY <1>4, <2>1 DEF JoinWaits, Wait, JoinEvent
  <2> QED
    BY <1>3, <2>2 DEF Wait, JoinEvent
<1>6. \A i \in 1 .. Len(joins) : W(joins[i]) \in V
  BY <1>3, ElementOfSeq
<1>7. \A s \in Others : \E k \in 1 .. Len(joins) : J[k] = W(s)
  BY <1>3, <1>5
<1> HIDE DEF W, V
<1>8. J \in Seq(V) /\ Len(J) = Len(joins)
  BY <1>3, <1>5, <1>6
<1> QED
  BY <1>4, <1>7, <1>8 DEF W, V

(* What the join gives to the streams: a record to each of the others, and *)
(* the waits to stream 0.                                                  *)
LEMMA JoinBatch ==
  ASSUME NEW L, ReplayOK(L), Ready, Join
  PROVE  \E b : /\ BatchOK(b) /\ Issues(b) /\ b.work = 0 /\ b.new[0] = JoinWaits'
                /\ \A s \in Others : JoinEvent(s) \in b.events /\ b.at[JoinEvent(s)] = 1 /\ Len(b.new[s]) = 1
<1>1. LogOK(L) /\ HostOK(L) /\ 0 \in Stream
  BY StreamFacts DEF ReplayOK
<1>2. UNCHANGED <<planVars, opts, run, fed, started, done, memory>>
  BY DEF Join
<1>3. /\ Stream' = Stream /\ Others' = Others /\ EventsOfPlan' = EventsOfPlan /\ UNCHANGED <<sa, mp>>
  BY <1>2, SamePlan
<1> DEFINE W(s) == [kind |-> "wait", event |-> JoinEvent(s), ticket |-> issued'[JoinEvent(s)]]
<1>4. PICK J : J = JoinWaits'
  OBVIOUS
<1>5. PICK V : V = {W(s) : s \in Others}
  OBVIOUS
<1>6. J \in Seq(V)
  BY <1>2, <1>4, <1>5, JoinFacts
<1>7. PICK X : X = {JoinEvent(s) : s \in Others}
  OBVIOUS
<1>8. X \subseteq EventsOfPlan /\ \A s \in Others : JoinEvent(s) \in X /\ Home(JoinEvent(s)) = s
  BY <1>7, EventFacts
<1>9. PICK R : R = {Record(x) : x \in X}
  OBVIOUS
<1>10. DOMAIN issued = EventsOfPlan /\ \A x \in EventsOfPlan : issued[x] \in Nat
  BY <1>1 DEF LogOK, EventsOK, RecordsOK
<1>11. /\ DOMAIN issued' = EventsOfPlan
       /\ \A x \in EventsOfPlan : issued'[x] = IF x \in X THEN issued[x] + 1 ELSE issued[x]
  BY <1>7, <1>10 DEF Join
<1>12. PICK b : b = [new |-> [r \in Stream |-> IF r = 0 THEN J ELSE <<Record(JoinEvent(r))>>],
                     cmds |-> V \cup R, events |-> X, at |-> [x \in X |-> 1],
                     work |-> 0, on |-> 0, pos |-> 0]
  OBVIOUS
<1>13. /\ b.new[0] = J /\ \A r \in Others : b.new[r] = <<Record(JoinEvent(r))>>
       /\ b.cmds = V \cup R /\ b.events = X /\ b.work = 0 /\ \A x \in X : b.at[x] = 1
  BY <1>1, <1>12 DEF Others
<1>14. \A r \in Stream : r = 0 \/ r \in Others
  BY DEF Others
<1>15. \A c \in V : /\ c.kind = "wait" /\ c.event \in EventsOfPlan /\ c.event \in X
                    /\ c.ticket \in 1 .. issued[c.event] + 1
  <2> SUFFICES ASSUME NEW s \in Others
               PROVE  /\ W(s).kind = "wait" /\ W(s).event \in EventsOfPlan /\ W(s).event \in X
                      /\ W(s).ticket \in 1 .. issued[W(s).event] + 1
    BY <1>5
  <2>1. PICK x : x = JoinEvent(s)
    OBVIOUS
  <2>2. x \in X /\ x \in EventsOfPlan /\ issued'[x] = issued[x] + 1 /\ issued[x] \in Nat
    BY <1>8, <1>10, <1>11, <2>1
  <2>3. W(s).kind = "wait" /\ W(s).event = x /\ W(s).ticket = issued'[x]
    BY <2>1
  <2> HIDE DEF W
  <2> QED
    BY <2>2, <2>3
<1> HIDE DEF W
<1>16. ASSUME NEW s \in Others
       PROVE  LET c == b.new[s][1]
              IN  /\ b.new[s] \in Seq(b.cmds) /\ Len(b.new[s]) = 1 /\ \A k \in 1 .. Len(b.new[s]) : k = 1
                  /\ c = Record(JoinEvent(s)) /\ c.kind = "record" /\ c.event = JoinEvent(s)
  <2>1. PICK c : c = Record(JoinEvent(s))
    OBVIOUS
  <2>2. c \in b.cmds /\ c.kind = "record" /\ c.event = JoinEvent(s)
    BY <1>8, <1>9, <1>13, <2>1 DEF Record
  <2>3. b.new[s] = <<c>>
    BY <1>13, <2>1
  <2>4. Len(<<c>>) = 1 /\ <<c>>[1] = c /\ <<c>> \in Seq(b.cmds)
    <3> DEFINE B == b.cmds
    <3>1. c \in B
      BY <2>2
    <3> HIDE DEF B
    <3>2. <<c>> \in Seq(B) /\ Len(<<c>>) = 1 /\ <<c>>[1] = c
      BY <3>1
    <3> QED
      BY <3>2 DEF B
  <2> QED
    BY <2>1, <2>2, <2>3, <2>4
<1>17. J \in Seq(b.cmds) /\ \A k \in 1 .. Len(J) : J[k] \in V
  <2>1. \A k \in 1 .. Len(J) : J[k] \in V
    BY <1>6, ElementOfSeq
  <2> QED
    BY <1>6, <1>13, <2>1, SeqByElements
<1>18. BatchOK(b)
  <2>1. \A s \in Stream : b.new[s] \in Seq(b.cmds)
    BY <1>13, <1>14, <1>16, <1>17
  <2>2. \A x \in X : \E s \in Others : x = JoinEvent(s)
    BY <1>7
  <2>3. ASSUME NEW x \in b.events
        PROVE  /\ Home(x) \in Stream /\ b.at[x] \in 1 .. Len(b.new[Home(x)])
               /\ b.new[Home(x)][b.at[x]].kind = "record" /\ b.new[Home(x)][b.at[x]].event = x
    <3>1. PICK s \in Others : x = JoinEvent(s)
      BY <1>13, <2>2
    <3>2. Home(x) = s /\ s \in Stream /\ b.at[x] = 1
      BY <1>8, <1>13, <3>1 DEF Others
    <3> QED
      BY <1>16, <3>1, <3>2
  <2>4. ASSUME NEW s \in Stream, NEW k \in 1 .. Len(b.new[s])
        PROVE  LET c == b.new[s][k]
               IN  \/ /\ c.kind = "wait" /\ c.event \in EventsOfPlan
                      /\ c.ticket \in 1 .. IF c.event \in b.events THEN issued[c.event] + 1
                                                                    ELSE issued[c.event]
                   \/ /\ c = Record(c.event) /\ c.kind = "record"
                      /\ c.event \in b.events /\ Home(c.event) = s /\ b.at[c.event] = k
    <3>1. CASE s = 0
      <4>1. b.new[s][k] \in V
        BY <1>13, <1>17, <3>1
      <4> QED
        BY <1>13, <1>15, <4>1
    <3>2. CASE s \in Others
      BY <1>8, <1>13, <1>16, <3>2
    <3> QED
      BY <1>14, <3>1, <3>2
  <2> QED
    BY <1>8, <1>13, <2>1, <2>3, <2>4 DEF BatchOK
<1>19. Issues(b)
  <2>1. queue' = [r \in Stream |-> queue[r] \o IF r = 0 THEN J ELSE <<Record(JoinEvent(r))>>]
    BY <1>4 DEF Join
  <2>2. DOMAIN queue' = Stream /\ \A r \in Stream : queue'[r] = queue[r] \o b.new[r]
    BY <1>12, <2>1
  <2> QED
    BY <1>2, <1>3, <1>11, <1>13, <2>2 DEF Issues
<1> QED
  BY <1>4, <1>8, <1>13, <1>16, <1>18, <1>19

(* A run ends with the outputs held and all streams joined.                *)
LEMMA JoinKeepsReplay ==
  ASSUME NEW L, ReplayOK(L), Ready, Join
  PROVE  \E M : ReplayOK(M)'
<1>1. LogOK(L) /\ HostOK(L) /\ 0 \in Stream
  BY StreamFacts DEF ReplayOK
<1>2. /\ UNCHANGED <<planVars, opts, run, fed, started, done, memory>>
      /\ pc = Len(sa.nodes) + 1 /\ pc' = 0 /\ outcome' = "ok"
  BY DEF Join
<1>3. /\ Stream' = Stream /\ Others' = Others /\ Input' = Input /\ Placed' = Placed
      /\ UNCHANGED <<sa, mp>> /\ \A u : Kept(u)' = Kept(u)
  BY <1>2, SamePlan
<1>4. PICK b : /\ BatchOK(b) /\ Issues(b) /\ b.work = 0 /\ b.new[0] = JoinWaits'
               /\ \A s \in Others :
                    JoinEvent(s) \in b.events /\ b.at[JoinEvent(s)] = 1 /\ Len(b.new[s]) = 1
  BY JoinBatch
<1>5. PICK M : Grown(L, b, M)
  BY <1>1, <1>4, GrownExists
<1>6. LogOK(M)' /\ \A t : Holds(L, t) => Holds(M, t)'
  BY <1>1, <1>2, <1>4, <1>5, NoWorkHolds
<1>7. ASSUME NEW s \in Others PROVE JoinedTo(M, s)'
  <2>1. PICK x : x = JoinEvent(s)
    OBVIOUS
  <2>2. x \in EventsOfPlan /\ x \in b.events /\ Home(x) = s /\ b.at[x] = 1 /\ s \in Stream /\ Len(b.new[s]) = 1
    BY <1>4, <2>1, EventFacts DEF Others
  <2>3. issued[x] \in Nat /\ issued'[x] = issued[x] + 1
    BY <1>1, <1>4, <2>2 DEF LogOK, EventsOK, RecordsOK, Issues
  <2>4. PICK J : J = JoinWaits'
    OBVIOUS
  <2>5. PICK k \in 1 .. Len(J) : J[k] = [kind |-> "wait", event |-> x, ticket |-> issued'[x]]
    BY <1>2, <2>1, <2>4, JoinFacts
  <2>6. /\ L.len[0] \in Nat /\ M.len[0] = L.len[0] + Len(J) /\ M.cmd[0][L.len[0] + k] = J[k]
        /\ M.len[s] = L.len[s] + 1
    BY <1>1, <1>4, <1>5, <2>2, <2>4, QueueFacts, ZenonT(30) DEF Grown, LogOK
  <2>7. Len(J) \in Nat
    BY <1>1, <1>4, <2>4 DEF BatchOK
  <2>8. L.len[0] + k \in 1 .. M.len[0]
    BY <2>6, <2>7
  <2>9. M.rec[x][issued'[x]] = M.len[s]
    BY <1>5, <2>2, <2>3, <2>6 DEF Grown
  <2>10. LET c == M.cmd[0][L.len[0] + k]
         IN  /\ c.kind = "wait" /\ c.event = x /\ c.ticket = issued'[x]
             /\ M.rec[x][c.ticket] = M.len[s]
    BY <2>5, <2>6, <2>9
  <2>11. JoinedTo(M, s)' <=> \/ Gone(M, s)' = M.len[s]
                             \/ \E p \in 1 .. M.len[0] :
                                  LET c == M.cmd[0][p]
                                  IN  /\ c.kind = "wait" /\ c.event = x /\ c.ticket = issued'[x]
                                      /\ M.rec[x][c.ticket] = M.len[s]
    BY <2>1 DEF JoinedTo, JoinEvent
  <2> QED
    BY <2>8, <2>10, <2>11
<1>8. pc > 0 /\ Len(sa.nodes) \in Nat /\ \A i \in Scheduled : i < pc
  <2>1. Len(sa.nodes) \in Nat /\ Scheduled = 1 .. Len(sa.nodes)
    BY StreamFacts
  <2> QED
    BY <1>2, <2>1
<1>9. HostTypes'
  <2>1. 0 \in 0 .. Len(sa.nodes) + 1
    BY <1>8
  <2> QED
    BY <1>1, <1>2, <1>3, <1>8, <2>1 DEF HostOK, HostTypes
<1>10. DataOK(M)'
  <2>1. ASSUME NEW t \in Input PROVE Holds(M, t)'
    <3>1. fed[t] > 0
      BY <1>1, <1>8 DEF HostOK, HostTypes
    <3> QED
      BY <1>1, <1>6, <3>1 DEF HostOK, DataOK
  <2>2. ASSUME NEW t \in Placed, Kept(t), t \notin Input PROVE Holds(M, t)'
    <3>1. PICK i \in Scheduled : i \in Producer(t)
      BY <2>2, KeptFacts
    <3>2. MadeYet(t) /\ Needed(t)
      BY <1>8, <2>2, <3>1 DEF MadeYet, Needed
    <3> QED
      BY <1>1, <1>6, <1>8, <3>2 DEF HostOK, DataOK
  <2>3. \A t \in Placed' : Kept(t)' => Holds(M, t)'
    BY <1>3, <2>1, <2>2
  <2>4. \A t \in Input' : Holds(M, t)'
    BY <1>3, <2>1
  <2>5. ~(pc' > 0)
    BY <1>2
  <2> QED
    BY <2>3, <2>4, <2>5 DEF DataOK
<1>11. HostOK(M)'
  BY <1>2, <1>3, <1>7, <1>9, <1>10 DEF HostOK
<1> QED
  BY <1>6, <1>11 DEF ReplayOK

-----------------------------------------------------------------------------
(* Steps that issue nothing.                                               *)

(* A log depends on the schedule and the device only.                      *)
LEMMA SameLog ==
  ASSUME NEW L, LogOK(L), UNCHANGED <<sa, deviceVars>>
  PROVE  LogOK(L)'
<1>1. UNCHANGED <<queue, started, issued, done, memory>>
  BY DEF deviceVars
<1>2. /\ QueueOK(L)' /\ CommandsOK(L)' /\ EventsOK(L)' /\ WorksOK(L)' /\ GoneIsCut(L)'
      /\ Sorted(L)' /\ Fresh(L)' /\ \A r : Gone(L, r)' = Gone(L, r)
  BY <1>1, StayKeeps
<1>3. StartedOK'
  <2>1. Stream' = Stream
    BY SameHome
  <2> QED
    BY <1>1, <2>1 DEF LogOK, StartedOK
<1>4. MemoryOK(L)'
  <2>1. \A m : /\ Job(L, m)' = Job(L, m) /\ (Ended(L, m)' <=> Ended(L, m))
               /\ (Runs(L, m)' <=> Runs(L, m))
    BY <1>1 DEF Job, Ended, Runs, Gone
  <2> QED
    BY <1>1, <2>1 DEF LogOK, MemoryOK
<1> QED
  BY <1>2, <1>3, <1>4 DEF LogOK

(* Whatever changes beside the plan, the host's place in it and the device.*)
LEMMA SameReplay ==
  ASSUME NEW L, ReplayOK(L), UNCHANGED <<planVars, pc, run, outcome, fed, deviceVars>>
  PROVE  ReplayOK(L)'
<1>1. LogOK(L) /\ HostOK(L) /\ UNCHANGED <<queue, started, issued, done, memory, sa>>
  BY SamePlan DEF ReplayOK, deviceVars
<1>2. LogOK(L)'
  BY <1>1, SameLog
<1>3. \A s : Gone(L, s)' = Gone(L, s)
  BY <1>1 DEF Gone
<1>4. \A C : Cut(L, C)' <=> Cut(L, C)
  <2>1. (\A e : Home(e)' = Home(e)) /\ Stream' = Stream
    BY <1>1, SameHome
  <2> QED
    BY <1>3, <2>1 DEF Cut
<1>5. HostOK(L)'
  BY <1>1, <1>3, <1>4, SameHost
<1> QED
  BY <1>2, <1>5 DEF ReplayOK

(* A device that is idle has done the whole log.                           *)
LEMMA IdleIsDone ==
  ASSUME NEW L, LogOK(L), DeviceIdle
  PROVE  started = {} /\ \A s \in Stream : Gone(L, s) = L.len[s]
<1>1. \A s \in Stream : queue[s] = <<>>
  BY DEF DeviceIdle, LogOK, QueueOK
<1> QED
  BY <1>1, QueueFacts DEF LogOK, StartedOK

(* Synchronizing joins whatever a failure has left.                        *)
LEMMA SynchronizeKeepsReplay ==
  ASSUME NEW L, ReplayOK(L), Ready, Synchronize
  PROVE  ReplayOK(L)'
<1>1. LogOK(L) /\ HostOK(L) /\ pc = 0 /\ DeviceIdle
  BY DEF ReplayOK, Synchronize, Idle
<1>2. /\ UNCHANGED <<planVars, opts, pc, run, fed, deviceVars>>
      /\ outcome' = IF outcome = "failed" THEN "drained" ELSE outcome
  BY DEF Synchronize
<1>3. LogOK(L)'
  BY <1>1, <1>2, SameLog, SamePlan
<1>4. /\ Stream' = Stream /\ Others' = Others /\ Input' = Input /\ Placed' = Placed
      /\ UNCHANGED <<sa, mp>> /\ \A u : Kept(u)' = Kept(u)
  BY <1>2, SamePlan
<1>5. \A t : Holds(L, t)' = Holds(L, t)
  BY <1>2, SameValues
<1>6. ASSUME NEW s \in Others PROVE JoinedTo(L, s)'
  <2>1. Gone(L, s) = L.len[s]
    BY <1>1, IdleIsDone DEF Others
  <2>2. Gone(L, s)' = Gone(L, s)
    BY <1>2 DEF Gone, deviceVars
  <2> QED
    BY <2>1, <2>2 DEF JoinedTo
<1>7. HostTypes'
  BY <1>1, <1>2, <1>4 DEF HostOK, HostTypes, deviceVars
<1>8. DataOK(L)'
  BY <1>1, <1>2, <1>4, <1>5 DEF HostOK, DataOK
<1>9. HostOK(L)'
  BY <1>1, <1>2, <1>4, <1>6, <1>7, <1>8 DEF HostOK
<1> QED
  BY <1>3, <1>9 DEF ReplayOK

-----------------------------------------------------------------------------
(* A new plan.                                                             *)

(* A device with a new plan, before any call.                              *)
Blank ==
  /\ queue = [s \in Stream |-> <<>>] /\ started = {}
  /\ issued = [e \in EventsOfPlan |-> 0] /\ done = [e \in EventsOfPlan |-> 0]
  /\ memory = [b \in 0 .. mp.arena - 1 |-> Torn]
  /\ pc = 0 /\ run = 0 /\ outcome = "none" /\ fed = [t \in Input |-> 0]

(* Its log is empty.                                                       *)
LEMMA BlankIsReplay == Blank /\ Ready => \E L : ReplayOK(L)
<1> SUFFICES ASSUME Blank, Ready PROVE \E L : ReplayOK(L)
  OBVIOUS
<1>1. PICK L : L = [len |-> [s \in Stream |-> 0], cmd |-> <<>>, rec |-> <<>>,
                    works |-> 0, on |-> <<>>, at |-> <<>>]
  OBVIOUS
<1>2. L.len \in [Stream -> Nat] /\ L.works = 0 /\ \A s \in Stream : L.len[s] = 0
  BY <1>1
<1>3. /\ DOMAIN queue = Stream /\ \A s \in Stream : queue[s] = <<>>
      /\ started = {} /\ DOMAIN issued = EventsOfPlan /\ DOMAIN done = EventsOfPlan
      /\ \A e \in EventsOfPlan : issued[e] = 0 /\ done[e] = 0
  BY DEF Blank
<1>4. \A s \in Stream : Gone(L, s) = 0
  BY <1>2, <1>3 DEF Gone
<1>5. QueueOK(L)
  <2>1. ASSUME NEW s \in Stream
        PROVE  /\ queue[s] \in Seq({L.cmd[s][k] : k \in 1 .. L.len[s]}) /\ Len(queue[s]) <= L.len[s]
               /\ \A i \in 1 .. Len(queue[s]) : queue[s][i] = L.cmd[s][Gone(L, s) + i]
    <3> DEFINE S == {L.cmd[s][k] : k \in 1 .. L.len[s]}
    <3>1. queue[s] = <<>> /\ L.len[s] = 0
      BY <1>2, <1>3
    <3> HIDE DEF S
    <3>2. queue[s] \in Seq(S) /\ Len(queue[s]) = 0
      BY <3>1
    <3> QED
      BY <3>1, <3>2 DEF S
  <2> QED
    BY <1>2, <1>3, <2>1 DEF QueueOK
<1>6. CommandsOK(L)
  BY <1>2 DEF CommandsOK
<1>7. EventsOK(L)
  BY <1>3 DEF EventsOK, RecordsOK
<1>8. WorksOK(L)
  BY <1>2 DEF WorksOK
<1>9. GoneIsCut(L)
  BY <1>2, <1>4 DEF GoneIsCut, Cut
<1>10. StartedOK /\ Sorted(L) /\ Fresh(L) /\ MemoryOK(L)
  BY <1>2, <1>3 DEF StartedOK, Sorted, Fresh, MemoryOK
<1>11. LogOK(L)
  BY <1>5, <1>6, <1>7, <1>8, <1>9, <1>10 DEF LogOK
<1>12. HostTypes
  <2>1. 0 \in 0 .. Len(sa.nodes) + 1
    BY StreamFacts
  <2>2. pc = 0 /\ run = 0 /\ outcome = "none" /\ DOMAIN memory = 0 .. mp.arena - 1
    BY DEF Blank
  <2>3. fed \in [Input -> Nat]
    BY DEF Blank
  <2> QED
    BY <2>1, <2>2, <2>3 DEF HostTypes
<1>13. DataOK(L)
  <2>1. \A t \in Input : fed[t] = 0
    BY DEF Blank
  <2> QED
    BY <2>1 DEF Blank, DataOK
<1>14. \A s \in Others : JoinedTo(L, s)
  BY <1>2, <1>4 DEF JoinedTo, Others
<1>15. HostOK(L)
  BY <1>12, <1>13, <1>14 DEF HostOK, Blank
<1> QED
  BY <1>11, <1>15 DEF ReplayOK

(* The same in the next state.                                             *)
LEMMA BlankNext == Blank' /\ Ready' => (\E L : ReplayOK(L))'
BY BlankIsReplay, PTL

(* It has nothing to do.                                                   *)
LEMMA BlankIsQuiet == Blank => Quiet
BY DEF Blank, Quiet

(* The same in the next state.                                             *)
LEMMA BlankQuietNext == Blank' => Quiet'
BY BlankIsQuiet, PTL

-----------------------------------------------------------------------------
(* The invariant.                                                          *)

(* Options a client may ask for.                                           *)
OptionsOK(o) ==
  o \in [schedule : SchedulePolicy, memory : MemoryPolicy, num_streams : Nat,
         poison_buffers : BOOLEAN, profile : BOOLEAN, profile_slots : Nat]

(* There is a log that explains the state.                                 *)
Replays == \E L : ReplayOK(L)

(* The inductive invariant: the planner is as PlanInv says, and with a     *)
(* plan there is a log.                                                    *)
ExecInv ==
  /\ OptionsOK(opts) /\ PlanInv
  /\ planned => Replays
  /\ ~planned => Quiet

(* The steps of plan() are steps of the planner with these options.        *)
LEMMA PlanIsAny ==
  ASSUME OptionsOK(opts), PlanStep
  PROVE  AnyPlan /\ stage # "planned"
<1>1. opts.schedule \in SchedulePolicy /\ opts.memory \in MemoryPolicy /\ opts.num_streams \in Nat
  BY DEF OptionsOK
<1>2. CASE stage = "build" /\ ~finalized /\ Finalize /\ UNCHANGED <<hbVars, mp, stage, schedule>>
  BY <1>2 DEF AnyPlan, Build
<1>3. CASE finalized /\ PlanStreams(opts.schedule, opts.num_streams)
  BY <1>1, <1>3 DEF AnyPlan, PlanStreams
<1>4. CASE OrderNode
  BY <1>4 DEF AnyPlan, OrderNode
<1>5. CASE verify_plan_ordering /\ PlanMemory(opts.memory)
  BY <1>1, <1>5 DEF AnyPlan, PlanMemory
<1>6. CASE PackTensor
  BY <1>6 DEF AnyPlan, PackTensor
<1> QED
  BY <1>2, <1>3, <1>4, <1>5, <1>6 DEF PlanStep

(* Planning leaves the tensors, but for who consumes them.                 *)
LEMMA PlanStepTensors ==
  ASSUME GraphOK, PlanStep
  PROVE  /\ Input' = Input /\ (finalized => tensors' = tensors /\ finalized')
<1>1. CASE stage = "build" /\ ~finalized /\ Finalize /\ UNCHANGED <<hbVars, mp, stage, schedule>>
  <2>1. CASE tensors' = tensors
    BY <1>1, <2>1 DEF Input, TensorId
  <2>2. CASE tensors' = [t \in TensorId |-> [tensors[t] EXCEPT !.consumers = Consumers(t)]]
    <3>1. DOMAIN tensors' = TensorId
      BY <2>2
    <3>2. ASSUME NEW t \in TensorId PROVE tensors'[t].input = tensors[t].input
      <4>1. tensors[t] \in TensorRecord
        BY GraphFacts
      <4>2. tensors'[t] = [tensors[t] EXCEPT !.consumers = Consumers(t)]
        BY <2>2
      <4> QED
        BY <4>1, <4>2 DEF TensorRecord
    <3> QED
      BY <1>1, <3>1, <3>2 DEF Input, TensorId
  <2> QED
    BY <1>1, <2>1, <2>2 DEF Finalize, Fails
<1>2. CASE UNCHANGED <<tensors, finalized>>
  BY <1>2 DEF Input, TensorId
<1> QED
  BY <1>1, <1>2 DEF PlanStep, PlanStreams, OrderNode, PlanMemory, PackTensor, graphVars

(* plan() starts with an empty log.                                        *)
LEMMA PlanKeeps ==
  ASSUME ExecInv, Plan
  PROVE  ExecInv'
<1>1. PlanStep /\ opts' = opts
  BY DEF Plan
<1>0. Blank'
  <2>1. queue' = [s \in Stream |-> <<>>]' /\ started' = {}
    BY DEF Plan
  <2>2. issued' = [e \in EventsOfPlan |-> 0]' /\ done' = [e \in EventsOfPlan |-> 0]'
    BY DEF Plan
  <2>3. memory' = [b \in 0 .. mp.arena - 1 |-> Torn]'
    BY DEF Plan
  <2>4. pc' = 0 /\ run' = 0 /\ outcome' = "none"
    BY DEF Plan
  <2>5. fed' = [t \in Input |-> 0]'
    <3>1. fed' = [t \in Input |-> 0]
      BY DEF Plan
    <3>2. Input' = Input
      BY PlanStepTensors DEF Plan, ExecInv, PlanInv, PackInv
    <3> QED
      BY <3>1, <3>2
  <2> QED
    BY <2>1, <2>2, <2>3, <2>4, <2>5 DEF Blank
<1>2. PlanInv'
  BY <1>1, PlanIsAny, PlanInvNext DEF ExecInv
<1>3. Quiet' /\ (planned' => Replays')
  BY <1>0, <1>2, BlankNext, BlankQuietNext DEF Ready, Replays
<1> QED
  BY <1>1, <1>2, <1>3 DEF ExecInv, OptionsOK

(* The plan is dropped, and nothing else is touched.                       *)
LEMMA DiscardKeeps ==
  ASSUME ExecInv, planned, DeviceIdle, Discard, UNCHANGED deviceVars, OptionsOK(opts)'
  PROVE  ExecInv'
<1>1. PICK L : ReplayOK(L)
  BY DEF ExecInv, Replays
<1>2. started = {}
  BY <1>1, IdleIsDone DEF ReplayOK
<1>3. Quiet'
  BY <1>2 DEF Quiet, DeviceIdle, deviceVars
<1>4. ~planned'
  BY DEF planned, Discard
<1>5. PlanInv'
  BY PlanInvNext DEF ExecInv, AnyPlan
<1> QED
  BY <1>3, <1>4, <1>5 DEF ExecInv

(* The calls that replay leave the plan alone.                             *)
LEMMA SamePlanInv ==
  ASSUME PlanInv, UNCHANGED planVars
  PROVE  PlanInv' /\ planned' = planned
BY PlanInvNext, SamePlan

(* So do those that only change the options.                               *)
LEMMA SameKeeps ==
  ASSUME ExecInv, UNCHANGED <<planVars, pc, run, outcome, fed, deviceVars>>, OptionsOK(opts)'
  PROVE  ExecInv'
<1>1. PlanInv' /\ planned' = planned
  BY SamePlanInv DEF ExecInv
<1>2. planned' => Replays'
  BY <1>1, SameReplay DEF ExecInv, Replays
<1>3. ~planned' => Quiet'
  BY <1>1 DEF ExecInv, Quiet, deviceVars
<1> QED
  BY <1>1, <1>2, <1>3 DEF ExecInv

(* A step of the host or the device under a plan.                          *)
LEMMA StepKeeps ==
  ASSUME ExecInv, \/ \E t \in Input : SetInput(t)
                  \/ BeginRun \/ IssueNode \/ LaunchFails \/ Join \/ Synchronize
                  \/ DeviceStep
  PROVE  ExecInv'
<1>1. UNCHANGED planVars /\ opts' = opts
  BY Zenon DEF SetInput, BeginRun, IssueNode, LaunchFails, Join, Synchronize, DeviceStep, hostVars
<1>2. PlanInv' /\ planned' = planned /\ OptionsOK(opts)'
  BY <1>1, SamePlanInv DEF ExecInv, OptionsOK
<1>3. planned
  <2>1. ASSUME Quiet PROVE ~DeviceStep
    BY <2>1, Zenon DEF Quiet, DeviceStep, Start, Finish, PassWait, PassRecord
  <2>2. ASSUME ~DeviceStep PROVE planned
    BY <2>2, Zenon DEF SetInput, BeginRun, IssueNode, LaunchFails, Join, Synchronize, Idle
  <2> QED
    BY <2>1, <2>2 DEF ExecInv
<1>4. Ready /\ opts.poison_buffers \in BOOLEAN
  BY <1>3 DEF ExecInv, Ready, OptionsOK
<1>5. PICK L : ReplayOK(L)
  BY <1>3 DEF ExecInv, Replays
<1>6. Replays'
  <2>1. CASE \E t \in Input : SetInput(t)
    BY <1>4, <1>5, <2>1, SetInputKeepsReplay DEF Replays
  <2>2. CASE BeginRun
    BY <1>4, <1>5, <2>2, BeginRunKeepsReplay DEF Replays
  <2>3. CASE IssueNode
    BY <1>4, <1>5, <2>3, IssueNodeKeepsReplay DEF Replays
  <2>4. CASE LaunchFails
    BY <1>4, <1>5, <2>4, LaunchFailsKeepsReplay DEF Replays
  <2>5. CASE Join
    BY <1>4, <1>5, <2>5, JoinKeepsReplay DEF Replays
  <2>6. CASE Synchronize
    BY <1>4, <1>5, <2>6, SynchronizeKeepsReplay DEF Replays
  <2>7. CASE DeviceStep
    BY <1>5, <2>7, DeviceKeepsReplay DEF Replays
  <2> QED
    BY <2>1, <2>2, <2>3, <2>4, <2>5, <2>6, <2>7
<1> QED
  BY <1>2, <1>3, <1>6 DEF ExecInv

(* Every step of the executor keeps the invariant.                         *)
LEMMA ExecInvStep ==
  ASSUME ExecInv, [Next]_<<planVars, hostVars, deviceVars>>
  PROVE  ExecInv'
<1>1. CASE Plan
  BY <1>1, PlanKeeps
<1>2. CASE PlanAgain
  <2>1. planned /\ DeviceIdle /\ Discard /\ UNCHANGED deviceVars /\ opts' = opts
    BY <1>2 DEF PlanAgain, Idle, hostVars
  <2>2. OptionsOK(opts)'
    BY <2>1 DEF ExecInv, OptionsOK
  <2> QED
    BY <2>1, <2>2, DiscardKeeps
<1>3. CASE UNCHANGED <<planVars, hostVars, deviceVars>>
  <2>1. UNCHANGED <<planVars, opts, pc, run, outcome, fed, deviceVars>>
    BY <1>3 DEF hostVars
  <2>2. OptionsOK(opts)'
    BY <2>1 DEF ExecInv, OptionsOK
  <2> QED
    BY <2>1, <2>2, SameKeeps
<1>4. CASE \/ \E t \in Input : SetInput(t)
           \/ BeginRun \/ IssueNode \/ LaunchFails \/ Join \/ Synchronize
           \/ DeviceStep
  BY <1>4, StepKeeps
<1> QED
  BY <1>1, <1>2, <1>3, <1>4 DEF Next

(* It holds before the first plan.                                         *)
LEMMA ExecInvInit == Init => ExecInv
<1> SUFFICES ASSUME Init PROVE ExecInv
  OBVIOUS
<1>1. PICK g \in Graphs : tensors = g.tensors /\ nodes = g.nodes
  BY DEF Init
<1>2. ~finalized /\ stage = "build"
  BY DEF Init
<1>3. Constructed(g)
  BY ExecutorAssumption
<1>4. tensors \in Seq(TensorRecord) /\ nodes \in Seq(NodeRecord)
  BY <1>1, <1>3 DEF Constructed
<1>5. /\ Len(nodes) \in Nat /\ NodeId = 1 .. Len(nodes)
      /\ \A n \in NodeId : nodes[n] \in NodeRecord
      /\ \A t \in TensorId : tensors[t] \in TensorRecord
  BY <1>4, LenProperties, ElementOfSeq DEF NodeId, TensorId
<1>6. ASSUME NEW n \in NodeId PROVE NodeOK(n)
  <2>1. nodes[n].op \in OpKinds /\ nodes[n].inputs \in Seq(Nat)
    BY <1>5 DEF NodeRecord
  <2> DEFINE in == nodes[n].inputs
  <2>2. /\ Range(in) \cup {nodes[n].output} \subseteq TensorId
        /\ tensors[nodes[n].output].producer = n
        /\ \A t \in Range(in) : tensors[t].producer < n
        /\ infer_shapes(nodes[n].op, [i \in DOMAIN in |-> tensors[in[i]].shape]) # {}
    <3>1. n \in DOMAIN g.nodes /\ g.nodes = nodes /\ g.tensors = tensors
      BY <1>1 DEF NodeId
    <3>2. LET j == g.nodes[n].inputs
          IN  /\ Range(j) \cup {g.nodes[n].output} \subseteq DOMAIN g.tensors
              /\ g.tensors[g.nodes[n].output].producer = n
              /\ \A t \in Range(j) : g.tensors[t].producer < n
              /\ infer_shapes(g.nodes[n].op, [i \in DOMAIN j |-> g.tensors[j[i]].shape]) # {}
      BY <1>3, <3>1 DEF Constructed
    <3> QED
      BY <3>1, <3>2 DEF TensorId
  <2> QED
    BY <2>1, <2>2 DEF NodeOK, InputsOf, ShapesOf
<1>7. ASSUME NEW t \in TensorId PROVE TensorOK(t)
  <2>1. LET p == tensors[t].producer
        IN  /\ p \in {kInvalidNode} \cup NodeId
            /\ tensors[t].input <=> p = kInvalidNode
            /\ p # kInvalidNode => nodes[p].output = t
            /\ tensors[t].consumers = {}
    BY <1>1, <1>3 DEF Constructed, NodeId, TensorId
  <2> QED
    BY <1>5, <2>1 DEF TensorOK, kInvalidNode
<1>8. GraphOK
  BY <1>2, <1>4, <1>5, <1>6, <1>7 DEF GraphOK
<1>9. PlanInv
  BY <1>2, <1>8 DEF Init, PlanInv, PackInv, SchedulePolicy
<1>10. OptionsOK(opts)
  <2>1. opts \in ExecutorOptions
    BY ExecutorAssumption DEF Init
  <2> QED
    BY <2>1, PlanningAssumption DEF ExecutorOptions, OptionsOK
<1>11. ~planned /\ Quiet
  BY <1>2 DEF Init, planned, Quiet
<1> QED
  BY <1>9, <1>10, <1>11 DEF ExecInv

(* It always holds.                                                        *)
LEMMA ExecInvAlways == Spec => []ExecInv
<1>1. ExecInv /\ [Next]_<<planVars, hostVars, deviceVars>> => ExecInv'
  BY ExecInvStep
<1> QED
  BY <1>1, ExecInvInit, PTL DEF Spec

-----------------------------------------------------------------------------
(* What the invariant says.                                                *)

(* What it says of commands that run at once.                              *)
LEMMA InvNoConflict == ExecInv => NoConflictingAccess
<1>1. CASE Replays
  BY <1>1, LogNoConflict DEF Replays, ReplayOK
<1>2. CASE Quiet
  BY <1>2 DEF Quiet, NoConflictingAccess
<1> QED
  BY <1>1, <1>2 DEF ExecInv

(* What it says of what is read.                                           *)
LEMMA InvFresh == ExecInv => ReadsAreFresh
<1>1. CASE Replays
  BY <1>1, LogFresh DEF Replays, ReplayOK
<1>2. CASE Quiet
  BY <1>2 DEF Quiet, ReadsAreFresh
<1> QED
  BY <1>1, <1>2 DEF ExecInv

(* What is held is read once the device is idle.                           *)
LEMMA HeldIsStored ==
  ASSUME NEW L, LogOK(L), DeviceIdle, NEW t, Holds(L, t), NEW b \in BytesOf(t)
  PROVE  memory[b] = Value(t)
<1>1. PICK v : v = Value(t)
  OBVIOUS
<1>2. Latest(L, L.works, b, v)
  BY <1>1 DEF Holds
<1>3. PICK m \in 1 .. L.works : /\ b \in DOMAIN Job(L, m).writes /\ Job(L, m).writes[b] = v
                                /\ \A k \in m + 1 .. L.works : b \notin DOMAIN Job(L, k).writes
  BY <1>2 DEF Latest
<1>4. Ended(L, m)
  <2>1. L.on[m] \in Stream /\ L.at[m] \in 1 .. L.len[L.on[m]]
    BY DEF LogOK, WorksOK
  <2>2. Gone(L, L.on[m]) = L.len[L.on[m]] /\ L.len[L.on[m]] \in Nat
    BY <2>1, IdleIsDone, QueueFacts DEF LogOK
  <2> QED
    BY <2>1, <2>2 DEF Ended
<1> QED
  BY <1>1, <1>3, <1>4 DEF LogOK, MemoryOK

(* After a run the device is done with, memory holds what the log says.    *)
LEMMA KeptIsStored ==
  ASSUME ExecInv, Idle, DeviceIdle, outcome = "ok", NEW t \in Placed, Kept(t), NEW b \in BytesOf(t)
  PROVE  memory[b] = Value(t)
<1>1. planned /\ pc = 0
  BY DEF Idle
<1>2. PICK L : ReplayOK(L)
  BY <1>1 DEF ExecInv, Replays
<1>3. LogOK(L) /\ Holds(L, t)
  BY <1>1, <1>2 DEF ReplayOK, HostOK, DataOK
<1> QED
  BY <1>3, HeldIsStored

(* What it says of the outputs.                                            *)
LEMMA InvOutputs == ExecInv => OutputsReady
<1> SUFFICES ASSUME ExecInv, Idle, DeviceIdle, outcome = "ok", NEW t \in Output, NEW b \in BytesOf(t)
             PROVE  memory[b] = Value(t)
  BY DEF OutputsReady
<1>1. Ready
  BY DEF ExecInv, Ready, Idle
<1> QED
  BY <1>1, KeptFacts, KeptIsStored

(* The records still to pass are among those issued and not done.          *)
LEMMA RecordsLeft ==
  ASSUME NEW L, LogOK(L), NEW s \in Stream, NEW x \in EventsOfPlan, Home(x) = s,
         NEW j \in 1 .. Len(queue[s])
  PROVE  LET S == {r \in 1 .. j : queue[s][r] = Record(x)}
         IN  Cardinality(S) \in Nat /\ issued[x] >= done[x] + Cardinality(S)
<1> DEFINE S == {r \in 1 .. j : queue[s][r] = Record(x)}
           I == issued[x]  d == done[x]  G == Gone(L, s)  T == d + 1 .. I
<1>1. I \in Nat /\ d \in 0 .. I /\ G \in Nat /\ Len(queue[s]) \in Nat /\ L.len[s] = G + Len(queue[s])
  <2>1. I \in Nat /\ d \in 0 .. I
    BY DEF LogOK, EventsOK, RecordsOK
  <2>2. L.len[s] \in Nat /\ Len(queue[s]) \in Nat /\ G \in Nat
    BY QueueFacts DEF LogOK
  <2>3. G = L.len[s] - Len(queue[s])
    BY DEF Gone
  <2> HIDE DEF G
  <2> QED
    BY <2>1, <2>2, <2>3
<1>2. ASSUME NEW r \in S PROVE \E U \in T : L.rec[x][U] = G + r
  <2>1. r \in 1 .. Len(queue[s]) /\ queue[s][r] = L.cmd[s][G + r] /\ queue[s][r] = Record(x)
    <3>1. r \in 1 .. Len(queue[s])
      BY <1>1
    <3> QED
      BY <3>1 DEF LogOK, QueueOK
  <2>2. G + r \in 1 .. L.len[s] /\ ~(G + r <= G)
    BY <1>1, <2>1
  <2>3. CommandOK(L, s, G + r)
    BY <2>2 DEF LogOK, CommandsOK
  <2>4. L.cmd[s][G + r].kind = "record" /\ L.cmd[s][G + r].event = x
    BY <2>1 DEF Record
  <2>5. PICK U \in 1 .. I : L.rec[x][U] = G + r
    BY <2>3, <2>4 DEF CommandOK
  <2>6. ~(U <= d)
    BY <2>2, <2>5, SMTT(30) DEF LogOK, EventsOK, RecordsOK
  <2> QED
    BY <1>1, <2>5, <2>6
<1> DEFINE f == [r \in S |-> CHOOSE U \in T : L.rec[x][U] = G + r]
<1>3. \A r \in S : f[r] \in T /\ L.rec[x][f[r]] = G + r
  BY <1>2
<1>4. \A r \in S : r \in Nat
  OBVIOUS
<1>5. f \in Injection(S, T)
  <2>1. f \in [S -> T]
    BY <1>3
  <2> HIDE DEF f
  <2>2. ASSUME NEW a \in S, NEW b \in S, f[a] = f[b] PROVE a = b
    <3>1. G + a = G + b
      BY <1>3, <2>2
    <3> QED
      BY <1>1, <1>4, <3>1
  <2> QED
    BY <2>1, <2>2 DEF Injection, IsInjective
<1> HIDE DEF f, S
<1>6. IsFiniteSet(T) /\ Cardinality(T) = I - d
  <2> HIDE DEF I, d
  <2>1. IsFiniteSet(d + 1 .. I) /\ Cardinality(d + 1 .. I) = IF d + 1 > I THEN 0 ELSE I - (d + 1) + 1
    <3>1. d + 1 \in Int /\ I \in Int
      BY <1>1
    <3> DEFINE a == d + 1
    <3>2. a \in Int
      BY <3>1
    <3> HIDE DEF a
    <3>3. IsFiniteSet(a .. I) /\ Cardinality(a .. I) = IF a > I THEN 0 ELSE I - a + 1
      BY <3>1, <3>2, FS_Interval
    <3> QED
      BY <3>3 DEF a
  <2> QED
    BY <1>1, <2>1
<1>7. IsFiniteSet(S) /\ Cardinality(S) <= Cardinality(T)
  BY <1>5, <1>6, FS_Injection
<1>8. Cardinality(S) \in Nat
  BY <1>7, FS_CardinalityType
<1> HIDE DEF I, d, T
<1>9. Cardinality(S) \in Nat /\ I >= d + Cardinality(S)
  BY <1>1, <1>6, <1>7, <1>8
<1> QED
  BY <1>9 DEF S, I, d

(* What it says of the streams between runs.                               *)
LEMMA InvFreed == ExecInv => ArenaIsFreedInOrder
<1> SUFFICES ASSUME ExecInv, Idle, outcome # "failed", NEW s \in Others,
                    NEW i \in DOMAIN queue[s], queue[s][i].kind = "work"
             PROVE  Joined(s, i)
  BY DEF ArenaIsFreedInOrder
<1>1. Ready
  BY DEF ExecInv, Ready, Idle
<1>2. PICK L : ReplayOK(L)
  BY <1>1 DEF ExecInv, Replays, Ready
<1>3. LogOK(L) /\ JoinedTo(L, s)
  BY <1>2 DEF ReplayOK, HostOK, Idle
<1>4. PICK x : x = JoinEvent(s)
  OBVIOUS
<1>5. s \in Stream /\ 0 \in Stream /\ x \in EventsOfPlan /\ Home(x) = s
  BY <1>1, <1>4, StreamFacts, EventFacts DEF Others
<1> DEFINE q == queue[s]  l == Len(q)  G == Gone(L, s)
<1>6. /\ DOMAIN q = 1 .. l /\ l \in Nat /\ i \in 1 .. l /\ L.len[s] \in Nat /\ G \in Nat
      /\ L.len[s] = G + l /\ \A k \in 1 .. l : q[k] = L.cmd[s][G + k]
  <2>1. /\ q \in Seq({L.cmd[s][k] : k \in 1 .. L.len[s]})
        /\ \A k \in 1 .. l : q[k] = L.cmd[s][G + k]
    BY <1>3, <1>5 DEF LogOK, QueueOK
  <2>2. DOMAIN q = 1 .. l /\ l \in Nat
    BY <2>1, LenProperties
  <2>3. L.len[s] \in Nat /\ G \in Nat /\ G = L.len[s] - l
    BY <1>3, <1>5, QueueFacts DEF LogOK, Gone
  <2> HIDE DEF q, l, G
  <2>4. L.len[s] = G + l
    BY <2>2, <2>3
  <2> QED
    BY <2>1, <2>2, <2>3, <2>4 DEF q
<1>7. PICK p \in 1 .. L.len[0] :
        LET c == L.cmd[0][p]
        IN  /\ c.kind = "wait" /\ c.event = x /\ c.ticket = issued[x]
            /\ L.rec[x][c.ticket] = L.len[s]
  <2>1. G # L.len[s]
    <3> HIDE DEF l, q, G
    <3> QED
      BY <1>6
  <2> QED
    BY <1>3, <1>4, <2>1, Zenon DEF JoinedTo
<1>8. issued[x] \in 1 .. issued[x]
  <2>1. issued[x] \in Nat
    BY <1>3, <1>5 DEF LogOK, EventsOK, RecordsOK
  <2>2. CommandOK(L, 0, p)
    BY <1>3, <1>5 DEF LogOK, CommandsOK
  <2> QED
    BY <1>7, <2>1, <2>2 DEF CommandOK
<1> DEFINE H == Gone(L, 0)  r == queue[0]
<1>9. /\ H \in Nat /\ L.len[0] \in Nat /\ DOMAIN r = 1 .. Len(r) /\ Len(r) \in Nat
      /\ L.len[0] = H + Len(r) /\ \A k \in 1 .. Len(r) : r[k] = L.cmd[0][H + k]
  <2>1. /\ r \in Seq({L.cmd[0][k] : k \in 1 .. L.len[0]})
        /\ \A k \in 1 .. Len(r) : r[k] = L.cmd[0][H + k]
    BY <1>3, <1>5 DEF LogOK, QueueOK
  <2>2. DOMAIN r = 1 .. Len(r) /\ Len(r) \in Nat
    BY <2>1, LenProperties
  <2>3. L.len[0] \in Nat /\ H \in Nat /\ H = L.len[0] - Len(r)
    BY <1>3, <1>5, QueueFacts DEF LogOK, Gone
  <2> HIDE DEF r, H
  <2>4. L.len[0] = H + Len(r)
    BY <2>2, <2>3
  <2> QED
    BY <2>1, <2>2, <2>3, <2>4 DEF r
<1>10. ~(p <= H)
  <2> SUFFICES ASSUME p <= H PROVE FALSE
    OBVIOUS
  <2> DEFINE C == [t \in Stream |-> Gone(L, t)]
  <2>1. Cut(L, C) /\ C[0] = H /\ C[s] = G
    BY <1>3, <1>5 DEF LogOK, GoneIsCut
  <2>2. p \in 1 .. C[0]
    BY <1>9, <2>1
  <2> HIDE DEF C, H, G
  <2>3. L.rec[x][L.cmd[0][p].ticket] <= C[s]
    BY <1>5, <1>7, <2>1, <2>2 DEF Cut
  <2> HIDE DEF q, l
  <2> QED
    BY <1>6, <1>7, <2>1, <2>3
<1>11. PICK k \in 1 .. Len(r) : p = H + k
  <2> HIDE DEF r, H
  <2>1. p - H \in 1 .. Len(r) /\ p = H + (p - H)
    BY <1>9, <1>10
  <2> QED
    BY <2>1
<1>12. k \in DOMAIN queue[0] /\ queue[0][k].kind = "wait" /\ queue[0][k].event = x
       /\ queue[0][k].ticket = issued[x]
  <2>1. queue[0][k] = L.cmd[0][p]
    BY <1>9, <1>11
  <2> QED
    BY <1>7, <1>9, <2>1
<1>13. q[l] = Record(x) /\ l \in 1 .. l
  <2>1. l \in 1 .. l /\ G + l \in 1 .. L.len[s]
    <3> HIDE DEF q, l, G
    <3> QED
      BY <1>6
  <2>2. q[l] = L.cmd[s][L.len[s]]
    BY <1>6, <2>1
  <2>3. L.cmd[s][L.len[s]].kind = "record" /\ L.cmd[s][L.len[s]].event = x
    <3>1. RecordsOK(L, x)
      BY <1>3, <1>5, Zenon DEF LogOK, EventsOK
    <3>2. /\ L.cmd[s][L.rec[x][issued[x]]].kind = "record"
          /\ L.cmd[s][L.rec[x][issued[x]]].event = x
      BY <1>5, <1>8, <3>1, Zenon DEF RecordsOK
    <3>3. L.rec[x][issued[x]] = L.len[s]
      BY <1>7, Zenon
    <3> QED
      BY <3>2, <3>3, Zenon
  <2>4. L.len[s] \in 1 .. L.len[s]
    BY <1>6, <2>1
  <2>5. CommandOK(L, s, L.len[s])
    BY <1>3, <1>5, <2>4 DEF LogOK, CommandsOK
  <2>6. L.cmd[s][L.len[s]] = Record(x)
    BY <2>3, <2>5 DEF CommandOK
  <2> QED
    BY <2>1, <2>2, <2>6
<1>14. l \in i + 1 .. Len(queue[s])
  <2>1. i # l
    BY <1>13 DEF Record
  <2> HIDE DEF q, l
  <2>2. l \in i + 1 .. l
    BY <1>6, <2>1
  <2> QED
    BY <2>2 DEF q, l
<1>15. issued[x] >= done[x] + Cardinality({t \in 1 .. l : queue[s][t] = Record(x)})
  <2>1. l \in 1 .. Len(queue[s])
    BY <1>13
  <2> QED
    BY <1>3, <1>5, <2>1, RecordsLeft
<1>16. queue[s][l] = Record(x)
  BY <1>13
<1> HIDE DEF l
<1>17. \E j \in i + 1 .. Len(queue[s]), h \in DOMAIN queue[0] :
         /\ queue[s][j] = Record(x)
         /\ queue[0][h].kind = "wait" /\ queue[0][h].event = x
         /\ queue[0][h].ticket >= done[x] + Cardinality({t \in 1 .. j : queue[s][t] = Record(x)})
  BY <1>12, <1>14, <1>15, <1>16
<1> QED
  BY <1>4, <1>17 DEF Joined

-----------------------------------------------------------------------------
(* The gate.                                                               *)

(* What the gate reads of a tensor that holds its value.                   *)
Right(t) == [i \in 0 .. bytes_of(t) - 1 |-> [tensor |-> t, version |-> 0]]

(* Bits that are all right.                                                *)
AllRight(bits) == \A t \in DOMAIN bits : bits[t] = Right(t)

(* The inductive invariant of the gate: what it has taken so far is right, *)
(* so nothing differs.                                                     *)
GateInv ==
  /\ ExecInv
  /\ OptionsOK(saved) /\ config \in 0 .. Configs
  /\ phase = "client" => first = <<>> /\ golden = <<>>
  /\ phase # "client" => finalized
  /\ AllRight(first) /\ AllRight(golden)
  /\ GateRaisesNoFalseAlarm

(* What the gate takes after a run is right.                               *)
LEMMA GotIsRight ==
  ASSUME ExecInv, Ran
  PROVE  AllRight(Got)
<1>1. Ready /\ Idle /\ DeviceIdle /\ outcome = "ok"
  BY DEF ExecInv, Ready, Ran, Idle
<1>2. \A t \in tensors_to_check : t \in Placed /\ Kept(t)
  BY <1>1, KeptFacts DEF tensors_to_check
<1>3. ASSUME NEW t \in tensors_to_check PROVE Bits(t) = Right(t)
  <2>1. t \in Placed /\ Kept(t) /\ t # 0 /\ mp.offset[t] \in Nat /\ bytes_of(t) \in Nat
    BY <1>1, <1>2, ByteFacts
  <2>2. ASSUME NEW i \in 0 .. bytes_of(t) - 1
        PROVE  LET v == memory[mp.offset[t] + i]
               IN  (IF v.tensor = 0 THEN v ELSE [v EXCEPT !.version = 0])
                     = [tensor |-> t, version |-> 0]
    <3>1. mp.offset[t] + i \in BytesOf(t)
      <4> DEFINE o == mp.offset[t]  n == bytes_of(t)
      <4>1. o \in Nat /\ n \in Nat
        BY <2>1
      <4> HIDE DEF o, n
      <4>2. o + i \in o .. o + n - 1
        BY <2>2, <4>1 DEF n
      <4> QED
        BY <4>2 DEF BytesOf, o, n
    <3>2. memory[mp.offset[t] + i] = Value(t)
      BY <1>1, <2>1, <3>1, KeptIsStored
    <3> QED
      BY <2>1, <3>2 DEF Value
  <2> QED
    BY <2>2 DEF Bits, Right
<1> QED
  BY <1>3 DEF AllRight, Got

(* Right bits do not differ.                                               *)
LEMMA RightIsAlike ==
  ASSUME NEW f, NEW g, AllRight(f), AllRight(g)
  PROVE  ~Differs(f, g)
BY DEF AllRight, Differs

(* The gate asks for options a client may ask for.                         *)
LEMMA OptionsOfOK ==
  ASSUME OptionsOK(saved), NEW c \in 0 .. Configs
  PROVE  OptionsOK(OptionsOf(c))
<1> DEFINE s == IF c = 0 THEN "kSequential" ELSE GateSchedules[((c - 1) \div Len(GateMemories)) + 1]
           m == IF c = 0 THEN "kAllocPerTensor" ELSE GateMemories[((c - 1) % Len(GateMemories)) + 1]
<1>1. Len(GateMemories) = 3 /\ Len(GateSchedules) = 3 /\ Configs = 9
  BY DEF GateMemories, GateSchedules, Configs
<1>2. c = 0 \/ (((c - 1) \div 3) + 1 \in 1 .. 3 /\ ((c - 1) % 3) + 1 \in 1 .. 3)
  BY <1>1
<1>3. \A k \in 1 .. 3 : GateSchedules[k] \in SchedulePolicy /\ GateMemories[k] \in MemoryPolicy
  <2>1. \A k \in 1 .. 3 : k = 1 \/ k = 2 \/ k = 3
    OBVIOUS
  <2>2. /\ GateSchedules[1] \in SchedulePolicy /\ GateMemories[1] \in MemoryPolicy
        /\ GateSchedules[2] \in SchedulePolicy /\ GateMemories[2] \in MemoryPolicy
        /\ GateSchedules[3] \in SchedulePolicy /\ GateMemories[3] \in MemoryPolicy
    BY DEF GateSchedules, GateMemories, SchedulePolicy, MemoryPolicy
  <2> QED
    BY <2>1, <2>2
<1>4. s \in SchedulePolicy /\ m \in MemoryPolicy
  BY <1>1, <1>2, <1>3 DEF SchedulePolicy, MemoryPolicy
<1>5. OptionsOf(c) = [saved EXCEPT !.schedule = s, !.memory = m,
                                   !.num_streams = IF s = "kSequential" THEN 1 ELSE saved.num_streams,
                                   !.poison_buffers = TRUE]
  BY DEF OptionsOf
<1> DEFINE k == IF s = "kSequential" THEN 1 ELSE saved.num_streams
           p == TRUE
<1>6. k \in Nat /\ p \in BOOLEAN
  BY DEF OptionsOK
<1> HIDE DEF s, m, k, p
<1>7. OptionsOK([saved EXCEPT !.schedule = s, !.memory = m, !.num_streams = k, !.poison_buffers = p])
  BY <1>4, <1>6 DEF OptionsOK
<1> QED
  BY <1>5, <1>7 DEF k, p

(* The golden ones are.                                                    *)
LEMMA GoldenOptionsOK == OptionsOK(saved) => OptionsOK(OptionsOf(0))
<1>1. 0 \in 0 .. Configs
  BY DEF Configs, GateMemories, GateSchedules
<1> QED
  BY <1>1, OptionsOfOK

(* The same in the next state.                                             *)
LEMMA GoldenOptionsOKNext == OptionsOK(saved)' => OptionsOK(OptionsOf(0))'
BY GoldenOptionsOK, PTL

(* What is right depends on the tensors of the graph.                      *)
LEMMA RightStays ==
  ASSUME tensors' = tensors
  PROVE  \A f : AllRight(f)' <=> AllRight(f)
<1>1. \A t : Right(t)' = Right(t)
  BY DEF Right, bytes_of
<1> QED
  BY <1>1 DEF AllRight

(* The graph is the same for all configurations once it is finalized.      *)
LEMMA NextKeepsGraph ==
  ASSUME ExecInv, finalized, [Next]_<<planVars, hostVars, deviceVars>>
  PROVE  tensors' = tensors /\ finalized'
<1>1. CASE Plan
  BY <1>1, PlanStepTensors DEF Plan, ExecInv, PlanInv, PackInv
<1>2. CASE PlanAgain
  BY <1>2 DEF PlanAgain, Discard, graphVars
<1>3. CASE UNCHANGED planVars
  BY <1>3 DEF planVars, graphVars
<1> QED
  BY <1>1, <1>2, <1>3, Zenon
  DEF Next, SetInput, BeginRun, IssueNode, LaunchFails, Join, Synchronize, DeviceStep

(* Steps of the executor keep the invariant of the gate.                   *)
LEMMA GateByNext ==
  ASSUME GateInv, [Next]_<<planVars, hostVars, deviceVars>>, UNCHANGED gateVars
  PROVE  GateInv'
<1>1. ExecInv'
  BY ExecInvStep DEF GateInv
<1>2. UNCHANGED <<phase, config, first, golden, saved>>
  BY DEF gateVars
<1>3. phase # "client" => tensors' = tensors /\ finalized'
  BY NextKeepsGraph DEF GateInv
<1>4. AllRight(first)' /\ AllRight(golden)'
  <2>1. CASE phase = "client"
    <3>1. first' = <<>> /\ golden' = <<>>
      BY <1>2, <2>1 DEF GateInv
    <3>2. DOMAIN <<>> = {}
      OBVIOUS
    <3> QED
      BY <3>1, <3>2 DEF AllRight
  <2>2. CASE phase # "client"
    BY <1>2, <1>3, <2>2, RightStays DEF GateInv, AllRight
  <2> QED
    BY <2>1, <2>2
<1> QED
  BY <1>1, <1>2, <1>3, <1>4 DEF GateInv, OptionsOK, Configs, GateSchedules, GateMemories, GateRaisesNoFalseAlarm

(* Each way a gate goes on by itself.                                      *)
LEMMA ReplanKeeps ==
  ASSUME ExecInv, planned, DeviceIdle, NEW o, OptionsOK(o), Replan(o)
  PROVE  ExecInv' /\ tensors' = tensors /\ finalized' = finalized
<1>1. opts' = o /\ Discard /\ UNCHANGED deviceVars
  BY DEF Replan
<1>2. OptionsOK(opts)'
  BY <1>1 DEF OptionsOK
<1> QED
  BY <1>1, <1>2, DiscardKeeps DEF Discard, graphVars

(* Keeping the plan for another run does, too.                             *)
LEMMA KeepKeeps ==
  ASSUME ExecInv, Keep, OptionsOK(opts)'
  PROVE  ExecInv' /\ tensors' = tensors /\ finalized' = finalized
<1>1. ExecInv'
  BY SameKeeps DEF Keep
<1> QED
  BY <1>1 DEF Keep, planVars, graphVars

(* Taking and comparing the bits does.                                     *)
LEMMA LookKeeps ==
  ASSUME GateInv, Look
  PROVE  GateInv'
<1>1. ExecInv /\ Ran /\ planned /\ DeviceIdle /\ phase = "run" /\ finalized
  BY DEF GateInv, Look, Ran, Idle
<1>2. AllRight(Got) /\ AllRight(First)
  BY <1>1, GotIsRight DEF GateInv, First
<1>3. ~Varies /\ ~Wrong /\ ~Accused
  BY <1>2, RightIsAlike DEF GateInv, Varies, Wrong, Accused
<1>4. /\ phase' = IF LastRun /\ config = Configs THEN "restore" ELSE "run"
      /\ config' = IF ~LastRun \/ config = Configs THEN config ELSE config + 1
      /\ first' = IF MoreRuns THEN First ELSE <<>>
      /\ golden' = IF LastRun /\ config = 0 THEN First ELSE golden
      /\ saved' = saved
  BY <1>3 DEF Look, Accused, MoreRuns
<1>5. Configs = 9 /\ Configs' = 9
  BY DEF Configs, GateMemories, GateSchedules
<1>6. config' \in 0 .. Configs'
  BY <1>4, <1>5 DEF GateInv
<1>7. ExecInv' /\ tensors' = tensors /\ finalized' = finalized
  <2>1. CASE MoreRuns
    <3>1. opts' = opts /\ Keep
      BY <1>3, <2>1 DEF Look
    <3>2. OptionsOK(opts)'
      BY <1>1, <3>1 DEF ExecInv, OptionsOK
    <3> QED
      BY <1>1, <3>1, <3>2, KeepKeeps
  <2>2. CASE ~MoreRuns
    <3>1. Replan(IF phase' = "run" THEN OptionsOf(config + 1) ELSE saved)
      BY <1>3, <2>2 DEF Look
    <3>2. phase' = "run" => config + 1 \in 0 .. Configs
      BY <1>3, <1>4, <1>5, <2>2 DEF GateInv, MoreRuns
    <3>3. OptionsOK(IF phase' = "run" THEN OptionsOf(config + 1) ELSE saved)
      BY <3>2, OptionsOfOK DEF GateInv
    <3> QED
      BY <1>1, <3>1, <3>3, ReplanKeeps
  <2> QED
    BY <2>1, <2>2
<1>8. AllRight(first') /\ AllRight(golden')
  <2>1. AllRight(<<>>)
    <3>1. DOMAIN <<>> = {}
      OBVIOUS
    <3> QED
      BY <3>1 DEF AllRight
  <2> QED
    BY <1>2, <1>4, <2>1 DEF GateInv
<1>9. AllRight(first)' /\ AllRight(golden)'
  <2>1. \A t : Right(t)' = Right(t)
    BY <1>7 DEF Right, bytes_of
  <2> QED
    BY <1>8, <2>1 DEF AllRight
<1>10. phase' \in {"run", "restore"} /\ OptionsOK(saved)'
  BY <1>4 DEF GateInv, OptionsOK
<1> QED
  BY <1>1, <1>6, <1>7, <1>9, <1>10 DEF GateInv, GateRaisesNoFalseAlarm

(* So every step of the gate does.                                         *)
LEMMA GateInvStep ==
  ASSUME GateInv, [GateNext]_<<planVars, hostVars, deviceVars, gateVars>>
  PROVE  GateInv'
<1> DEFINE Ordinary == [Next]_<<planVars, hostVars, deviceVars>> /\ UNCHANGED gateVars
<1>1. CASE Ordinary
  BY <1>1, GateByNext
<1>2. CASE Client \/ Drive \/ Device \/ Restore
  <2>1. Next /\ UNCHANGED gateVars
    BY <1>2 DEF Client, Drive, Device, Restore, Next
  <2> QED
    BY <1>1, <2>1
<1>3. CASE Begin
  <2>1. ExecInv /\ planned /\ DeviceIdle /\ first = <<>> /\ golden = <<>>
    BY <1>3 DEF GateInv, Begin, Idle
  <2>2. /\ phase' = "run" /\ config' = 0 /\ saved' = opts /\ UNCHANGED <<first, golden>>
        /\ Replan(OptionsOf(0)')
    BY <1>3 DEF Begin
  <2>3. finalized
    BY <2>1, ReadyFacts DEF ExecInv, Ready
  <2>4. OptionsOK(saved)'
    BY <2>1, <2>2 DEF ExecInv, OptionsOK
  <2>5. OptionsOK(OptionsOf(0)')
    BY <2>4, GoldenOptionsOKNext DEF OptionsOK
  <2>6. ExecInv' /\ tensors' = tensors /\ finalized' = finalized
    BY <2>1, <2>2, <2>5, ReplanKeeps
  <2>7. AllRight(first)' /\ AllRight(golden)'
    <3>1. DOMAIN <<>> = {}
      OBVIOUS
    <3> QED
      BY <2>1, <2>2, <3>1 DEF AllRight
  <2>8. config' \in 0 .. Configs'
    BY <2>2 DEF Configs, GateMemories, GateSchedules
  <2> QED
    BY <2>2, <2>3, <2>4, <2>6, <2>7, <2>8 DEF GateInv, GateRaisesNoFalseAlarm
<1>4. CASE Look
  BY <1>4, LookKeeps
<1>5. CASE GiveUp \/ Pass
  <2>1. /\ phase # "client" /\ phase' \in {"error", "passed"} /\ Keep
        /\ UNCHANGED <<config, first, golden, saved>> /\ opts' \in {opts, saved}
    BY <1>5 DEF GiveUp, Pass, Ends
  <2>2. OptionsOK(opts)' /\ OptionsOK(saved)'
    BY <2>1 DEF GateInv, ExecInv, OptionsOK
  <2>3. ExecInv' /\ tensors' = tensors /\ finalized' = finalized
    BY <2>1, <2>2, KeepKeeps DEF GateInv
  <2>4. AllRight(first)' /\ AllRight(golden)'
    BY <2>1, <2>3, RightStays DEF GateInv, AllRight
  <2>5. config' \in 0 .. Configs'
    BY <2>1 DEF GateInv, Configs, GateMemories, GateSchedules
  <2> QED
    BY <2>1, <2>2, <2>3, <2>4, <2>5 DEF GateInv, GateRaisesNoFalseAlarm
<1>6. CASE UNCHANGED <<planVars, hostVars, deviceVars, gateVars>>
  BY <1>1, <1>6
<1> QED
  BY <1>2, <1>3, <1>4, <1>5, <1>6 DEF GateNext

(* It holds when the gate is called.                                       *)
LEMMA GateInvInit == GateInit => GateInv
<1> SUFFICES ASSUME GateInit PROVE GateInv
  OBVIOUS
<1>1. ExecInv /\ saved = opts
  BY ExecInvInit DEF GateInit
<1>2. 0 \in 0 .. Configs
  BY DEF Configs, GateMemories, GateSchedules
<1>3. AllRight(<<>>)
  <2>1. DOMAIN <<>> = {}
    OBVIOUS
  <2> QED
    BY <2>1 DEF AllRight
<1> QED
  BY <1>1, <1>2, <1>3 DEF GateInit, GateInv, ExecInv, OptionsOK, GateRaisesNoFalseAlarm

(* It always holds.                                                        *)
LEMMA GateInvAlways == GateSpec => []GateInv
<1>1. GateInv /\ [GateNext]_<<planVars, hostVars, deviceVars, gateVars>> => GateInv'
  BY GateInvStep
<1> QED
  BY <1>1, GateInvInit, PTL DEF GateSpec

-----------------------------------------------------------------------------
(* The probes.  A ring of m slots, after it complete runs out of ran: slot *)
(* s holds the run P[s], a run that completed, another in each slot, and   *)
(* the latest m of them when no call has failed.  The slot that comes next *)
(* holds the run in progress, of the nodes it has issued, and what a run   *)
(* that failed left.                                                       *)

(* A launch of run r; how many slots are filled; and how many runs are     *)
(* over.                                                                   *)
Both(r) == [start |-> r, stop |-> r]
Filled(m, it) == IF m <= it THEN m ELSE it
Over(at, ran) == IF at > 0 THEN ran - 1 ELSE ran

(* The kinds of the values, and that each run that completed is over.      *)
Typed(P, m, S, ring, at, ran, it) ==
  /\ P \in [0 .. m - 1 -> Nat] /\ ring \in [S -> [0 .. m - 1 -> [start : Nat, stop : Nat]]]
  /\ at \in Nat /\ ran \in Nat /\ it \in Nat /\ it <= Over(at, ran)

(* A filled slot holds its run, unless it is next and a run is in it.      *)
SlotsHold(P, m, S, ring, ran, it) ==
  \A i \in S : \A s \in 0 .. Filled(m, it) - 1 :
    s # it % m \/ ran = it => ring[i][s] = Both(P[s])

(* The slot that is next holds the run in progress, of the nodes so far.   *)
NextHolds(m, S, ring, at, ran, it) ==
  \A i \in S : i < at => ring[i][it % m] = Both(ran)

(* No two slots hold the same run.                                         *)
Apart(P, m, it) ==
  \A s, r \in 0 .. Filled(m, it) - 1 : P[s] = P[r] => s = r

(* last: the latest run that is over.  With no failure slot s holds this   *)
(* one of the latest m.                                                    *)
SlotRun(s, m, it) == it - (it % m) + s + 1 - (IF s < it % m THEN 0 ELSE m)

(* The slots hold runs that are over, and the latest ones if none failed.  *)
LatestOf(P, m, last, it) ==
  \A s \in 0 .. Filled(m, it) - 1 :
    /\ P[s] \in 1 .. last
    /\ it = last => P[s] = SlotRun(s, m, it)

(* What a ring is, with the runs P it holds.                               *)
RingIs(P, m, S, ring, at, ran, it) ==
  /\ Typed(P, m, S, ring, at, ran, it)
  /\ SlotsHold(P, m, S, ring, ran, it)
  /\ NextHolds(m, S, ring, at, ran, it)
  /\ Apart(P, m, it)
  /\ LatestOf(P, m, Over(at, ran), it)

(* How the slot moves from one iteration to the next.                      *)
LEMMA RemainderIs ==
  ASSUME NEW m \in Nat \ {0}, NEW n \in Nat
  PROVE  /\ n % m \in 0 .. m - 1 /\ (n < m => n % m = n) /\ n % m <= n
         /\ (n + 1) % m = IF (n % m) + 1 = m THEN 0 ELSE (n % m) + 1
<1> DEFINE q == n \div m  c == n % m  p == (n + 1) \div m  d == (n + 1) % m
<1>1. q \in Nat /\ c \in 0 .. m - 1 /\ n = m * q + c
  OBVIOUS
<1>2. p \in Nat /\ d \in 0 .. m - 1 /\ n + 1 = m * p + d
  OBVIOUS
<1> HIDE DEF q, c, p, d
<1>3. m * (p - q) = m * p - m * q /\ m * (p - q - 1) = m * p - m * q - m
  BY <1>1, <1>2
<1>4. \A k \in Int : k >= 1 => m * k >= m
  OBVIOUS
<1>5. \A k \in Int : k <= -1 => m * k <= -m
  OBVIOUS
<1>6. p - q \in Int /\ p - q - 1 \in Int
  BY <1>1, <1>2
<1>7. ~(p - q <= -1)
  BY <1>1, <1>2, <1>3, <1>5, <1>6
<1>8. ~(p - q - 1 >= 1)
  BY <1>1, <1>2, <1>3, <1>4, <1>6
<1>9. p = q \/ p = q + 1
  BY <1>1, <1>2, <1>7, <1>8
<1>10. d = IF c + 1 = m THEN 0 ELSE c + 1
  BY <1>1, <1>2, <1>9, <1>3
<1>11. m * q >= 0
  BY <1>1
<1>12. n < m => c = n
  BY <1>1, <1>4, <1>11
<1> QED
  BY <1>1, <1>10, <1>11, <1>12 DEF c, d

(* A run that begins writes nothing yet.                                   *)
LEMMA RingBegins ==
  ASSUME NEW m \in Nat \ {0}, NEW S, NEW P, NEW ring, NEW ran, NEW it, S \subseteq Nat \ {0},
         RingIs(P, m, S, ring, 0, ran, it)
  PROVE  RingIs(P, m, S, ring, 1, ran + 1, it)
<1>1. Over(0, ran) = ran /\ Over(1, ran + 1) = ran /\ ran \in Nat /\ it \in Nat /\ it <= ran
  BY DEF Over, RingIs, Typed
<1>2. ran + 1 # it /\ \A i \in S : ~(i < 1)
  BY <1>1
<1>3. Typed(P, m, S, ring, 1, ran + 1, it)
  BY <1>1 DEF RingIs, Typed
<1>4. SlotsHold(P, m, S, ring, ran + 1, it)
  BY <1>2 DEF RingIs, SlotsHold
<1>5. NextHolds(m, S, ring, 1, ran + 1, it)
  BY <1>2 DEF NextHolds
<1> QED
  BY <1>1, <1>3, <1>4, <1>5 DEF RingIs

(* A node that is issued is timed in the slot that is next.                *)
LEMMA RingNode ==
  ASSUME NEW m \in Nat \ {0}, NEW S, NEW P, NEW ring, NEW ran, NEW it, NEW at \in S,
         S \subseteq Nat \ {0}, RingIs(P, m, S, ring, at, ran, it)
  PROVE  RingIs(P, m, S, [ring EXCEPT ![at][it % m] = Both(ran)], at + 1, ran, it)
<1> DEFINE new == [ring EXCEPT ![at][it % m] = Both(ran)]
           R == [start : Nat, stop : Nat]
           D == 0 .. m - 1
           c == it % m
<1>1. /\ at \in Nat /\ at > 0 /\ at + 1 > 0 /\ at + 1 \in Nat /\ ran \in Nat /\ it \in Nat
      /\ it <= ran - 1 /\ Over(at, ran) = ran - 1 /\ Over(at + 1, ran) = ran - 1
  BY DEF RingIs, Over, Typed
<1>2. c \in D /\ Both(ran) \in R /\ ring \in [S -> [D -> R]]
  BY <1>1, RemainderIs DEF Both, RingIs, Typed
<1>3. /\ SlotsHold(P, m, S, ring, ran, it) /\ NextHolds(m, S, ring, at, ran, it)
      /\ P \in [D -> Nat]
  BY DEF RingIs, Typed
<1> HIDE DEF R, D, c
<1>4. /\ new \in [S -> [D -> R]]
      /\ new[at][c] = Both(ran)
      /\ \A i \in S : \A s \in D : i # at \/ s # c => new[i][s] = ring[i][s]
  BY <1>2 DEF c
<1> HIDE DEF new
<1>5. SlotsHold(P, m, S, new, ran, it)
  <2> SUFFICES ASSUME NEW i \in S, NEW s \in 0 .. Filled(m, it) - 1, s # c \/ ran = it
               PROVE  new[i][s] = Both(P[s])
    BY DEF SlotsHold, c
  <2>1. s # c /\ s \in D
    BY <1>1 DEF Filled, D
  <2>2. ring[i][s] = Both(P[s])
    BY <1>3, <2>1 DEF SlotsHold, c
  <2> QED
    BY <1>4, <2>1, <2>2
<1>6. NextHolds(m, S, new, at + 1, ran, it)
  <2> SUFFICES ASSUME NEW i \in S, i < at + 1
               PROVE  new[i][c] = Both(ran)
    BY DEF NextHolds, c
  <2>1. CASE i = at
    BY <1>4, <2>1
  <2>2. CASE i # at
    <3>1. i < at
      BY <1>1, <2>2
    <3>2. ring[i][c] = Both(ran)
      BY <1>3, <3>1 DEF NextHolds, c
    <3> QED
      BY <1>2, <1>4, <2>2, <3>2
  <2> QED
    BY <2>1, <2>2
<1>7. Typed(P, m, S, new, at + 1, ran, it)
  BY <1>1, <1>3, <1>4 DEF Typed, R, D
<1>8. RingIs(P, m, S, new, at + 1, ran, it)
  BY <1>1, <1>5, <1>6, <1>7 DEF RingIs
<1> QED
  BY <1>8 DEF new

(* A run that fails leaves something in the slot that is next, and the     *)
(* next run overwrites it.                                                 *)
LEMMA RingFails ==
  ASSUME NEW m \in Nat \ {0}, NEW S, NEW P, NEW ring, NEW ran, NEW it, NEW at \in S,
         NEW r \in [start : Nat, stop : Nat],
         S \subseteq Nat \ {0}, RingIs(P, m, S, ring, at, ran, it)
  PROVE  RingIs(P, m, S, [ring EXCEPT ![at][it % m] = r], 0, ran, it)
<1> DEFINE new == [ring EXCEPT ![at][it % m] = r]
           R == [start : Nat, stop : Nat]
           D == 0 .. m - 1
           c == it % m
<1>1. /\ at \in Nat /\ at > 0 /\ ran \in Nat /\ it \in Nat
      /\ it <= ran - 1 /\ Over(at, ran) = ran - 1 /\ Over(0, ran) = ran
  BY DEF RingIs, Over, Typed
<1>2. c \in D /\ r \in R /\ ring \in [S -> [D -> R]]
  BY <1>1, RemainderIs DEF RingIs, Typed
<1>3. SlotsHold(P, m, S, ring, ran, it) /\ LatestOf(P, m, ran - 1, it) /\ P \in [D -> Nat]
  BY <1>1 DEF RingIs, Typed
<1> HIDE DEF R, D, c
<1>4. /\ new \in [S -> [D -> R]]
      /\ \A i \in S : \A s \in D : s # c => new[i][s] = ring[i][s]
  BY <1>2 DEF c
<1> HIDE DEF new
<1>5. SlotsHold(P, m, S, new, ran, it)
  <2> SUFFICES ASSUME NEW i \in S, NEW s \in 0 .. Filled(m, it) - 1, s # c \/ ran = it
               PROVE  new[i][s] = Both(P[s])
    BY DEF SlotsHold, c
  <2>1. s # c /\ s \in D
    BY <1>1 DEF Filled, D
  <2>2. ring[i][s] = Both(P[s])
    BY <1>3, <2>1 DEF SlotsHold, c
  <2> QED
    BY <1>4, <2>1, <2>2
<1>6. NextHolds(m, S, new, 0, ran, it)
  BY DEF NextHolds
<1>7. Typed(P, m, S, new, 0, ran, it)
  BY <1>1, <1>3, <1>4, SMTT(30) DEF Typed, R, D
<1>8. LatestOf(P, m, ran, it)
  <2>1. it # ran /\ \A k \in 1 .. ran - 1 : k \in 1 .. ran
    BY <1>1
  <2> QED
    BY <1>3, <2>1 DEF LatestOf
<1>9. RingIs(P, m, S, new, 0, ran, it)
  BY <1>1, <1>5, <1>6, <1>7, <1>8 DEF RingIs
<1> QED
  BY <1>9 DEF new

(* A run that completes makes its slot one of those that are filled.       *)
LEMMA RingJoins ==
  ASSUME NEW m \in Nat \ {0}, NEW S, NEW P, NEW ring, NEW ran, NEW it, NEW at \in Nat \ {0},
         S \subseteq Nat \ {0}, RingIs(P, m, S, ring, at, ran, it), \A i \in S : i < at
  PROVE  RingIs([P EXCEPT ![it % m] = ran], m, S, ring, 0, ran, it + 1)
<1> DEFINE new == [P EXCEPT ![it % m] = ran]
           c == it % m
           d == (it + 1) % m
           old == 0 .. Filled(m, it) - 1
           next == it + 1
           now == 0 .. Filled(m, next) - 1
           D == 0 .. m - 1
<1>1. /\ ran \in Nat /\ it \in Nat /\ next \in Nat /\ next = it + 1
      /\ it <= ran - 1 /\ Over(at, ran) = ran - 1 /\ Over(0, ran) = ran
  BY DEF RingIs, Over, Typed
<1>2. /\ c \in D /\ (it < m => c = it) /\ d = IF c + 1 = m THEN 0 ELSE c + 1
  BY <1>1, RemainderIs
<1>3. /\ P \in [D -> Nat] /\ SlotsHold(P, m, S, ring, ran, it)
      /\ NextHolds(m, S, ring, at, ran, it) /\ Apart(P, m, it) /\ LatestOf(P, m, ran - 1, it)
  BY <1>1 DEF RingIs, Typed
<1>4. /\ new \in [D -> Nat] /\ new[c] = ran
      /\ \A s \in D : s # c => new[s] = P[s]
  BY <1>1, <1>2, <1>3
<1> HIDE DEF new, c, d, next
<1>5. \A s \in now : s \in D /\ (s # c => s \in old)
  <2>1. CASE m <= it
    <3>1. Filled(m, it) = m /\ Filled(m, next) = m
      BY <1>1, <2>1 DEF Filled
    <3> QED
      BY <3>1
  <2>2. CASE ~(m <= it)
    <3>1. Filled(m, it) = it /\ c = it /\ next <= m /\ Filled(m, next) = next
      BY <1>1, <1>2, <2>2 DEF Filled
    <3> HIDE DEF D
    <3>2. now = 0 .. it /\ old = 0 .. it - 1
      BY <1>1, <3>1
    <3>3. \A s \in 0 .. it : s \in D /\ (s # it => s \in 0 .. it - 1)
      BY <1>1, <3>1 DEF D
    <3> QED
      BY <3>1, <3>2, <3>3
  <2> QED
    BY <2>1, <2>2
<1>6. /\ \A i \in S : \A s \in old : s # c => ring[i][s] = Both(P[s])
      /\ \A i \in S : ring[i][c] = Both(ran)
      /\ \A s, q \in old : P[s] = P[q] => s = q
      /\ \A s \in old : /\ P[s] \in 1 .. ran - 1
                        /\ it = ran - 1 => P[s] = SlotRun(s, m, it)
  <2>1. \A i \in S : \A s \in old : s # c => ring[i][s] = Both(P[s])
    BY <1>3 DEF SlotsHold, c
  <2>2. \A i \in S : ring[i][c] = Both(ran)
    BY <1>3 DEF NextHolds, c
  <2>3. \A s, q \in old : P[s] = P[q] => s = q
    BY <1>3 DEF Apart
  <2>4. \A s \in old : /\ P[s] \in 1 .. ran - 1
                       /\ it = ran - 1 => P[s] = SlotRun(s, m, it)
    BY <1>3 DEF LatestOf
  <2> QED
    BY <2>1, <2>2, <2>3, <2>4
<1> HIDE DEF old, now, D
<1>7. \A i \in S : \A s \in now : ring[i][s] = Both(new[s])
  BY <1>4, <1>5, <1>6
<1>8. \A s, q \in now : new[s] = new[q] => s = q
  <2> SUFFICES ASSUME NEW s \in now, NEW q \in now, new[s] = new[q], s # q PROVE FALSE
    OBVIOUS
  <2>1. CASE s = c
    <3>1. new[s] = ran /\ q # c /\ new[q] = P[q] /\ P[q] \in 1 .. ran - 1
      BY <1>4, <1>5, <1>6, <2>1
    <3>2. ran \in 1 .. ran - 1
      BY <3>1
    <3> QED
      BY <1>1, <3>2
  <2>2. CASE q = c
    <3>1. new[q] = ran /\ s # c /\ new[s] = P[s] /\ P[s] \in 1 .. ran - 1
      BY <1>4, <1>5, <1>6, <2>2
    <3> QED
      BY <1>1, <3>1
  <2>3. CASE s # c /\ q # c
    BY <1>4, <1>5, <1>6, <2>3
  <2> QED
    BY <2>1, <2>2, <2>3
<1>9. ASSUME NEW s \in now
      PROVE  /\ new[s] \in 1 .. ran
             /\ next = ran => new[s] = SlotRun(s, m, next)
  <2>0. /\ SlotRun(s, m, it) = it - c + s + 1 - (IF s < c THEN 0 ELSE m)
        /\ SlotRun(s, m, next) = next - d + s + 1 - (IF s < d THEN 0 ELSE m)
    <3>1. it % m = c /\ next % m = d
      BY DEF c, d, next
    <3> QED
      BY <3>1 DEF SlotRun
  <2>1. c \in 0 .. m - 1 /\ s \in 0 .. m - 1 /\ s \in Int /\ c \in Int
    BY <1>2, <1>5 DEF D
  <2>2. CASE s = c
    BY <2>0, <1>1, <1>2, <1>4, <2>1, <2>2
  <2>3. CASE s # c
    <3>1. /\ new[s] = P[s] /\ P[s] \in 1 .. ran - 1
          /\ it = ran - 1 => P[s] = SlotRun(s, m, it)
      BY <1>4, <1>5, <1>6, <2>3
    <3> QED
      BY <2>0, <1>1, <1>2, <2>1, <2>3, <3>1
  <2> QED
    BY <2>2, <2>3
<1>10. Typed(new, m, S, ring, 0, ran, next)
  BY <1>1, <1>4, SMTT(30) DEF RingIs, Typed, D
<1>11. SlotsHold(new, m, S, ring, ran, next)
  BY <1>7 DEF SlotsHold, now
<1>12. NextHolds(m, S, ring, 0, ran, next)
  BY DEF NextHolds
<1>13. Apart(new, m, next)
  BY <1>8 DEF Apart, now
<1>14. LatestOf(new, m, ran, next)
  BY <1>9 DEF LatestOf, now
<1>15. RingIs(new, m, S, ring, 0, ran, next)
  BY <1>1, <1>10, <1>11, <1>12, <1>13, <1>14 DEF RingIs
<1> QED
  BY <1>15 DEF new, next

(* A new ring, and what a whole one says.                                  *)
LEMMA RingStarts ==
  ASSUME NEW m \in Nat \ {0}, NEW S, S \subseteq Nat \ {0},
         NEW ring, ring = [i \in S |-> [s \in 0 .. m - 1 |-> Both(0)]]
  PROVE  RingIs([s \in 0 .. m - 1 |-> 0], m, S, ring, 0, 0, 0)
<1>1. Filled(m, 0) = 0 /\ 0 .. 0 - 1 = {} /\ Over(0, 0) = 0
  BY DEF Filled, Over
<1>2. Both(0) \in [start : Nat, stop : Nat]
  BY DEF Both
<1>3. \A i \in S : ~(i < 0)
  OBVIOUS
<1> QED
  BY <1>1, <1>2, <1>3 DEF RingIs, Typed, SlotsHold, NextHolds, Apart, LatestOf

(* What the slots show of the runs in them.                                *)
RingShows(P, S, ring, ran, it, n) ==
  LET T == 0 .. n - 1
      runs == {P[s] : s \in T}
  IN  /\ \A i \in S : \A s \in T : ring[i][s] = Both(P[s])
      /\ Cardinality(runs) = n /\ runs \subseteq 1 .. ran
      /\ ran = it => runs = ran - n + 1 .. ran

(* Between runs the filled slots are what collect_timings may report.      *)
LEMMA RingSays ==
  ASSUME NEW m \in Nat \ {0}, NEW S, NEW P, NEW ring, NEW ran, NEW it, S \subseteq Nat \ {0},
         RingIs(P, m, S, ring, 0, ran, it), ran <= m \/ ran = it
  PROVE  RingShows(P, S, ring, ran, it, Filled(m, it))
<1> DEFINE n == Filled(m, it)  T == 0 .. n - 1  runs == {P[s] : s \in T}  c == it % m
<1>1. /\ ran \in Nat /\ it \in Nat /\ it <= ran /\ Over(0, ran) = ran
      /\ SlotsHold(P, m, S, ring, ran, it) /\ Apart(P, m, it) /\ LatestOf(P, m, ran, it)
  BY DEF RingIs, Over, Typed
<1>2. n \in Nat /\ n <= m /\ n <= it /\ (n = m \/ n = it)
  BY <1>1 DEF Filled
<1>3. c \in 0 .. m - 1 /\ (it < m => c = it)
  BY <1>1, RemainderIs
<1> HIDE DEF n, c
<1>4. ASSUME NEW i \in S, NEW s \in T PROVE ring[i][s] = Both(P[s])
  <2>1. s # c \/ ran = it
    BY <1>1, <1>2, <1>3
  <2> QED
    BY <1>1, <2>1 DEF SlotsHold, c, n
<1>5. \A s \in T : P[s] \in 1 .. ran /\ (ran = it => P[s] = SlotRun(s, m, it))
  BY <1>1 DEF LatestOf, n
<1>6. \A s, r \in T : P[s] = P[r] => s = r
  BY <1>1 DEF Apart, n
<1>7. IsFiniteSet(T) /\ Cardinality(T) = n
  <2> DEFINE z == 0  k == n - 1
  <2>1. z \in Int /\ k \in Int /\ (IF z > k THEN 0 ELSE k - z + 1) = n
    BY <1>2
  <2> HIDE DEF z, k
  <2>2. IsFiniteSet(z .. k) /\ Cardinality(z .. k) = n
    BY <2>1, FS_Interval
  <2> QED
    BY <2>2 DEF z, k
<1>8. ASSUME NEW s \in T, ran = it PROVE P[s] \in ran - n + 1 .. ran
  <2>1. P[s] = SlotRun(s, m, it)
    BY <1>5, <1>8
  <2>2. SlotRun(s, m, it) = it - c + s + 1 - (IF s < c THEN 0 ELSE m)
    BY DEF SlotRun, c
  <2>3. CASE n = m
    BY <1>1, <1>2, <1>3, <1>8, <2>1, <2>2, <2>3
  <2>4. CASE n < m
    <3>1. n = it /\ c = it
      BY <1>1, <1>2, <1>3, <2>4
    <3> QED
      BY <1>1, <1>2, <1>3, <1>8, <2>1, <2>2, <3>1
  <2> QED
    BY <1>2, <2>3, <2>4
<1> HIDE DEF T
<1>9. Cardinality(runs) = n
  <2> DEFINE f == [s \in T |-> P[s]]
  <2>1. f \in [T -> runs] /\ (\A s \in T : f[s] = P[s])
    OBVIOUS
  <2>2. \A x \in runs : \E s \in T : f[s] = x
    BY <2>1
  <2> HIDE DEF f, runs
  <2>3. f \in Bijection(T, runs)
    BY <1>6, <2>1, <2>2 DEF Bijection, Injection, Surjection, IsInjective
  <2> QED
    BY <1>7, <2>3, FS_Bijection DEF ExistsBijection
<1>10. runs \subseteq 1 .. ran
  BY <1>5
<1>11. ASSUME ran = it PROVE runs = ran - n + 1 .. ran
  <2> DEFINE a == ran - n + 1
  <2>1. runs \subseteq a .. ran
    BY <1>8, <1>11
  <2>2. a \in Int /\ ran \in Int /\ (IF a > ran THEN 0 ELSE ran - a + 1) = n
    BY <1>1, <1>2
  <2> HIDE DEF a, runs
  <2>3. IsFiniteSet(a .. ran) /\ Cardinality(a .. ran) = n
    BY <2>2, FS_Interval
  <2>4. runs = a .. ran
    BY <1>9, <2>1, <2>3, FS_Subset
  <2> QED
    BY <2>4 DEF a
<1> QED
  BY <1>4, <1>9, <1>10, <1>11 DEF n, T, RingShows

-----------------------------------------------------------------------------
(* The ring of each scheduled node, under a plan.                          *)

(* The probes are such a ring.                                             *)
RingOK == \E P : RingIs(P, probe_slots, Scheduled, probes, pc, run, iteration)

(* The slots that collect_timings reads are those that are filled.         *)
LEMMA ProbeSlots ==
  ASSUME OptionsOK(opts), iteration \in Nat
  PROVE  /\ probe_slots \in Nat \ {0}
         /\ TimedSlots = Filled(probe_slots, iteration)
<1>1. opts.profile_slots \in Nat
  BY DEF OptionsOK
<1>2. ASSUME NEW a \in Nat, NEW b \in Nat
      PROVE  Max({a, b}) \in {a, b} /\ Max({a, b}) >= a
  BY DEF Max
<1>3. ASSUME NEW a \in Nat, NEW b \in Nat
      PROVE  Min({a, b}) = IF a <= b THEN a ELSE b
  BY DEF Min
<1>4. probe_slots \in Nat \ {0}
  BY <1>1, <1>2 DEF probe_slots
<1>5. TimedSlots = Filled(probe_slots, iteration)
  BY <1>3, <1>4 DEF TimedSlots, Filled
<1> QED
  BY <1>4, <1>5

(* The inductive invariant of an executor that profiles.                   *)
RingInv == planned /\ opts.profile => RingOK

(* Calls that time nothing keep it.                                        *)
LEMMA SameRing ==
  ASSUME UNCHANGED <<planVars, pc, run, iteration, probes>>,
         opts.profile' = opts.profile, opts.profile_slots' = opts.profile_slots, RingInv
  PROVE  RingInv'
<1>1. planned' = planned /\ Scheduled' = Scheduled
  BY SamePlan
<1>2. probe_slots' = probe_slots
  BY DEF probe_slots
<1> QED
  BY <1>1, <1>2 DEF RingInv, RingOK

(* A new plan has a new ring.                                              *)
LEMMA RingNew ==
  ASSUME OptionsOK(opts), Ready, opts.profile, pc = 0, run = 0, iteration = 0, probes = ProbeRing
  PROVE  RingOK
<1>1. probe_slots \in Nat \ {0} /\ Scheduled \subseteq Nat \ {0}
  BY ProbeSlots, StreamFacts
<1>2. NeverRecorded = Both(0)
  BY DEF NeverRecorded, Both
<1>3. probes = [i \in Scheduled |-> [s \in 0 .. probe_slots - 1 |-> Both(0)]]
  BY <1>2 DEF ProbeRing
<1> QED
  BY <1>1, <1>3, RingStarts DEF RingOK

(* What a plan leaves of the probes.                                       *)
NewRing == /\ OptionsOK(opts) /\ Ready /\ opts.profile
           /\ pc = 0 /\ run = 0 /\ iteration = 0 /\ probes = ProbeRing

(* The same in the next state.                                             *)
LEMMA RingNewNext == NewRing' => RingOK'
<1>1. NewRing => RingOK
  BY RingNew DEF NewRing
<1> QED
  BY <1>1, PTL

(* plan() keeps the invariant,                                             *)
LEMMA RingByPlan ==
  ASSUME ExecInv, Plan
  PROVE  RingInv'
<1>1. ExecInv'
  BY PlanKeeps
<1>2. OptionsOK(opts)' /\ (planned' => Ready')
  BY <1>1 DEF ExecInv, Ready
<1>3. pc' = 0 /\ run' = 0 /\ iteration' = 0 /\ probes' = ProbeRing'
  BY DEF Plan
<1> QED
  BY <1>2, <1>3, RingNewNext DEF RingInv, NewRing

(* and so do the steps of a run,                                           *)
LEMMA RingByRun ==
  ASSUME ExecInv, RingInv, BeginRun \/ IssueNode \/ LaunchFails \/ Join
  PROVE  RingInv'
<1> SUFFICES ASSUME opts.profile PROVE RingOK'
  BY Zenon DEF RingInv, BeginRun, IssueNode, LaunchFails, Join
<1>1. UNCHANGED <<planVars, opts>> /\ planned
  BY Zenon DEF BeginRun, IssueNode, LaunchFails, Join, Idle
<1>2. Scheduled' = Scheduled /\ probe_slots' = probe_slots
  BY <1>1, SamePlan DEF probe_slots
<1>3. PICK P : RingIs(P, probe_slots, Scheduled, probes, pc, run, iteration)
  BY <1>1 DEF RingInv, RingOK
<1> DEFINE m == probe_slots  c == iteration % probe_slots  R == [start : Nat, stop : Nat]
<1>4. /\ iteration \in Nat /\ run \in Nat /\ pc \in Nat
      /\ probes \in [Scheduled -> [0 .. m - 1 -> R]]
  BY <1>3 DEF RingIs, Typed
<1>5. m \in Nat \ {0} /\ Scheduled \subseteq Nat \ {0} /\ Scheduled = 1 .. Len(sa.nodes)
      /\ Len(sa.nodes) \in Nat
  BY <1>1, <1>4, ProbeSlots, StreamFacts DEF ExecInv, Ready
<1>6. c \in 0 .. m - 1
  BY <1>4, <1>5, RemainderIs
<1>7. CASE BeginRun
  <2>1. pc = 0 /\ pc' = 1 /\ run' = run + 1 /\ UNCHANGED <<iteration, probes>>
    BY <1>7 DEF BeginRun, Idle
  <2> QED
    BY <1>2, <1>3, <1>5, <2>1, RingBegins DEF RingOK
<1>8. CASE IssueNode
  <2>1. /\ pc \in Scheduled /\ pc' = pc + 1 /\ UNCHANGED <<run, iteration>>
        /\ probes' = [probes EXCEPT ![pc][c] =
                        [end \in {"start", "stop"} |-> IF end \in {"start", "stop"} THEN run ELSE @[end]]]
    BY <1>8, Zenon DEF IssueNode, Probe
  <2>2. probes' = [probes EXCEPT ![pc][c] = Both(run)]
    <3>1. [end \in {"start", "stop"} |-> IF end \in {"start", "stop"} THEN run ELSE probes[pc][c][end]] = Both(run)
      BY DEF Both
    <3> QED
      BY <2>1, <3>1
  <2>3. RingIs(P, m, Scheduled, [probes EXCEPT ![pc][c] = Both(run)], pc + 1, run, iteration)
    BY <1>3, <1>5, <2>1, RingNode
  <2> QED
    BY <1>2, <2>1, <2>2, <2>3, Zenon DEF RingOK
<1>9. CASE LaunchFails
  <2> DEFINE r == [end \in {"start", "stop"} |-> IF end \in {"start"} THEN run ELSE probes[pc][c][end]]
  <2>1. pc \in Scheduled /\ pc' = 0 /\ UNCHANGED <<run, iteration>> /\ probes' = [probes EXCEPT ![pc][c] = r]
    BY <1>9 DEF LaunchFails, Probe
  <2>2. r \in R
    <3>1. probes[pc][c] \in R
      BY <1>4, <1>6, <2>1
    <3> QED
      BY <1>4, <3>1
  <2> HIDE DEF r
  <2>3. RingIs(P, m, Scheduled, [probes EXCEPT ![pc][c] = r], 0, run, iteration)
    BY <1>3, <1>5, <2>1, <2>2, RingFails
  <2> QED
    BY <1>2, <2>1, <2>3 DEF RingOK
<1>10. CASE Join
  <2>1. pc = Len(sa.nodes) + 1 /\ pc' = 0 /\ iteration' = iteration + 1 /\ UNCHANGED <<run, probes>>
    BY <1>10 DEF Join
  <2>2. pc \in Nat \ {0} /\ \A i \in Scheduled : i < pc
    BY <1>5, <2>1
  <2>3. RingIs([P EXCEPT ![c] = run], m, Scheduled, probes, 0, run, iteration + 1)
    BY <1>3, <1>5, <2>2, RingJoins
  <2> QED
    BY <1>2, <2>1, <2>3 DEF RingOK
<1> QED
  BY <1>7, <1>8, <1>9, <1>10

(* and every step of the executor.                                         *)
LEMMA RingByNext ==
  ASSUME ExecInv, RingInv, [Next]_<<planVars, hostVars, deviceVars>>
  PROVE  RingInv'
<1>1. CASE Plan
  BY <1>1, RingByPlan
<1>2. CASE PlanAgain
  <2>1. ~planned'
    BY <1>2 DEF PlanAgain, Discard, planned
  <2> QED
    BY <2>1 DEF RingInv
<1>3. CASE BeginRun \/ IssueNode \/ LaunchFails \/ Join
  BY <1>3, RingByRun
<1>4. CASE UNCHANGED <<planVars, pc, run, iteration, probes, opts>>
  BY <1>4, SameRing
<1> QED
  BY <1>1, <1>2, <1>3, <1>4 DEF Next, SetInput, Synchronize, DeviceStep, hostVars

(* What the invariant says of the timings.                                 *)
LEMMA RingSteady == ExecInv /\ RingInv => TimingsAreOfOneRun
<1> SUFFICES ASSUME ExecInv, RingInv, Idle, opts.profile,
                    run <= probe_slots \/ run = iteration, NEW i \in Scheduled
             PROVE  LET runs == {t.start : t \in Timings(i)}
                    IN  /\ \A t \in Timings(i) : t.start = t.stop
                        /\ Cardinality(runs) = TimedSlots /\ runs \subseteq 1 .. run
                        /\ run = iteration => runs = run - TimedSlots + 1 .. run
                        /\ \A j \in Scheduled : Timings(j) = Timings(i)
  BY DEF TimingsAreOfOneRun
<1>1. planned /\ pc = 0
  BY DEF Idle
<1>2. PICK P : RingIs(P, probe_slots, Scheduled, probes, 0, run, iteration)
  BY <1>1 DEF RingInv, RingOK
<1>3. iteration \in Nat
  BY <1>2 DEF RingIs, Typed
<1>4. /\ probe_slots \in Nat \ {0} /\ Scheduled \subseteq Nat \ {0}
      /\ TimedSlots = Filled(probe_slots, iteration)
  BY <1>1, <1>3, ProbeSlots, StreamFacts DEF ExecInv, Ready
<1> DEFINE T == 0 .. TimedSlots - 1
           runs == {P[s] : s \in T}
<1>5. /\ \A j \in Scheduled : \A s \in T : probes[j][s] = Both(P[s])
      /\ Cardinality(runs) = TimedSlots /\ runs \subseteq 1 .. run
      /\ run = iteration => runs = run - TimedSlots + 1 .. run
  <2>1. RingShows(P, Scheduled, probes, run, iteration, TimedSlots)
    BY <1>2, <1>4, RingSays
  <2> QED
    BY <2>1 DEF RingShows
<1> HIDE DEF T
<1>6. \A j \in Scheduled : Timings(j) = {Both(P[s]) : s \in T}
  BY <1>5 DEF Timings, T
<1>7. {t.start : t \in Timings(i)} = runs /\ \A t \in Timings(i) : t.start = t.stop
  <2>1. \A s \in T : Both(P[s]).start = P[s] /\ Both(P[s]).stop = P[s]
    BY DEF Both
  <2> QED
    BY <1>6, <2>1
<1> HIDE DEF runs
<1> QED
  BY <1>5, <1>6, <1>7

-----------------------------------------------------------------------------
(* A gate asks for the probes its client asked for.                        *)

(* Options with the probes of the client.                                  *)
SameProbes(o) == o.profile = saved.profile /\ o.profile_slots = saved.profile_slots

(* The invariant of the probes, under the gate.                            *)
ProbesInv == RingInv /\ (phase # "client" => SameProbes(opts))

(* The gate changes no option of the probes.                               *)
LEMMA OptionsOfProbes ==
  ASSUME OptionsOK(saved), NEW c
  PROVE  SameProbes(OptionsOf(c))
BY DEF OptionsOf, SameProbes, OptionsOK

(* Nor do its golden options.                                              *)
LEMMA GoldenProbesNext == OptionsOK(saved)' => SameProbes(OptionsOf(0))'
<1>1. OptionsOK(saved) => SameProbes(OptionsOf(0))
  BY OptionsOfProbes
<1> QED
  BY <1>1, PTL

(* Keeping the plan keeps the probes.                                      *)
LEMMA KeepRing ==
  ASSUME RingInv, Keep, phase # "client" => SameProbes(opts), phase # "client",
         saved' = saved, opts' \in {opts, saved}
  PROVE  ProbesInv'
<1>1. SameProbes(opts)
  OBVIOUS
<1>2. opts'.profile = opts.profile /\ opts'.profile_slots = opts.profile_slots
  BY <1>1 DEF SameProbes
<1>3. RingInv'
  BY <1>2, SameRing DEF Keep
<1>4. SameProbes(opts)'
  BY <1>1, <1>2 DEF SameProbes
<1> QED
  BY <1>3, <1>4 DEF ProbesInv

(* Every step of the gate keeps the ring.                                  *)
LEMMA ProbesInvStep ==
  ASSUME GateInv, ProbesInv, [GateNext]_<<planVars, hostVars, deviceVars, gateVars>>
  PROVE  ProbesInv'
<1>1. CASE [Next]_<<planVars, hostVars, deviceVars>> /\ UNCHANGED gateVars
  <2>1. RingInv' /\ phase' = phase /\ saved' = saved
    BY <1>1, RingByNext DEF GateInv, ProbesInv, gateVars
  <2>2. opts' = opts
    BY <1>1, Zenon DEF Next, Plan, PlanAgain, SetInput, BeginRun, IssueNode, LaunchFails, Join,
                Synchronize, DeviceStep, hostVars
  <2> QED
    BY <2>1, <2>2 DEF ProbesInv, SameProbes
<1>2. CASE Client \/ Drive \/ Device \/ Restore
  <2>1. Next /\ UNCHANGED gateVars
    BY <1>2 DEF Client, Drive, Device, Restore, Next
  <2> QED
    BY <1>1, <2>1
<1>3. CASE Begin
  <2>1. saved' = opts /\ opts' = OptionsOf(0)' /\ Discard
    BY <1>3 DEF Begin, Replan
  <2>2. OptionsOK(saved)'
    BY <2>1 DEF GateInv, ExecInv, OptionsOK
  <2>3. SameProbes(opts)'
    BY <2>1, <2>2, GoldenProbesNext DEF SameProbes
  <2>4. ~planned'
    BY <2>1 DEF Discard, planned
  <2> QED
    BY <2>3, <2>4 DEF ProbesInv, RingInv
<1>4. CASE Look
  <2>1. phase # "client" /\ OptionsOK(saved) /\ saved' = saved
    BY <1>4 DEF Look, Ran, GateInv
  <2>2. CASE Accused \/ MoreRuns
    <3>1. Keep /\ opts' \in {opts, saved}
      BY <1>4, <2>2 DEF Look
    <3> QED
      BY <2>1, <3>1, KeepRing DEF ProbesInv
  <2>3. CASE ~(Accused \/ MoreRuns)
    <3>1. Replan(IF phase' = "run" THEN OptionsOf(config + 1) ELSE saved)
      BY <1>4, <2>3 DEF Look
    <3>2. opts' = OptionsOf(config + 1) \/ opts' = saved
      BY <3>1 DEF Replan
    <3>3. SameProbes(opts')
      BY <2>1, <3>2, OptionsOfProbes DEF SameProbes
    <3>4. ~planned'
      BY <3>1 DEF Replan, Discard, planned
    <3> QED
      BY <2>1, <3>3, <3>4 DEF ProbesInv, RingInv, SameProbes
  <2> QED
    BY <2>2, <2>3
<1>5. CASE GiveUp \/ Pass
  <2>1. phase # "client" /\ Keep /\ saved' = saved /\ opts' \in {opts, saved}
    BY <1>5 DEF GiveUp, Pass, Ends
  <2> QED
    BY <2>1, KeepRing DEF ProbesInv
<1>6. CASE UNCHANGED <<planVars, hostVars, deviceVars, gateVars>>
  BY <1>1, <1>6
<1> QED
  BY <1>2, <1>3, <1>4, <1>5, <1>6 DEF GateNext

-----------------------------------------------------------------------------
(* For every graph, every option, any number of runs, failures and copies  *)
(* of inputs, and every order in which the device does the work: of an     *)
(* executor with any client, and of one whose client calls the gate.       *)

(* No two commands that run at once on two streams touch the same byte     *)
(* while one of them writes it: replay in executor.cpp needs no more waits *)
(* than those the plan has.                                                *)
THEOREM ExecutorNeverConflicts ==
  (Spec => []NoConflictingAccess) /\ (GateSpec => []NoConflictingAccess)
<1>1. GateInv => NoConflictingAccess
  BY InvNoConflict DEF GateInv
<1> QED
  BY <1>1, InvNoConflict, ExecInvAlways, GateInvAlways, PTL

(* A kernel of run_async finds in each byte it reads what the run it is    *)
(* part of, or the latest set_input before that, put there, from its start *)
(* to its end, although the planner gave the byte to several tensors.      *)
THEOREM ExecutorReadsAreFresh ==
  (Spec => []ReadsAreFresh) /\ (GateSpec => []ReadsAreFresh)
<1>1. GateInv => ReadsAreFresh
  BY InvFresh DEF GateInv
<1> QED
  BY <1>1, InvFresh, ExecInvAlways, GateInvAlways, PTL

(* When the device has done all of a run that did not fail, each output of *)
(* the graph holds the value of that run: copy_output reads no stale byte. *)
THEOREM ExecutorOutputsReady ==
  (Spec => []OutputsReady) /\ (GateSpec => []OutputsReady)
<1>1. GateInv => OutputsReady
  BY InvOutputs DEF GateInv
<1> QED
  BY <1>1, InvOutputs, ExecInvAlways, GateInvAlways, PTL

(* Between runs, and unless one failed, what is put on stream 0 next comes *)
(* after all the work on the others: the join of run_async makes it safe   *)
(* that the Storage of the arena notes stream 0 alone.                     *)
THEOREM ExecutorFreesTheArenaInOrder ==
  (Spec => []ArenaIsFreedInOrder) /\ (GateSpec => []ArenaIsFreedInOrder)
<1>1. GateInv => ArenaIsFreedInOrder
  BY InvFreed DEF GateInv
<1> QED
  BY <1>1, InvFreed, ExecInvAlways, GateInvAlways, PTL

(* collect_timings reports, for every node, one launch per slot, of the    *)
(* same runs for all nodes, and the latest of them: the iteration counter  *)
(* that only a run which did not fail moves finds the right slot.          *)
THEOREM ExecutorTimesOneRun ==
  (Spec => []TimingsAreOfOneRun) /\ (GateSpec => []TimingsAreOfOneRun)
<1>1. ExecInv /\ RingInv /\ [Next]_<<planVars, hostVars, deviceVars>> => RingInv'
  BY RingByNext
<1>2. Init => RingInv
  BY DEF Init, RingInv, planned
<1>3. Spec => []TimingsAreOfOneRun
  BY <1>1, <1>2, RingSteady, ExecInvAlways, PTL DEF Spec
<1>4. GateInv /\ ProbesInv /\ [GateNext]_<<planVars, hostVars, deviceVars, gateVars>> => ProbesInv'
  BY ProbesInvStep
<1>5. GateInit => ProbesInv
  BY <1>2 DEF GateInit, ProbesInv
<1>6. GateInv /\ ProbesInv => TimingsAreOfOneRun
  BY RingSteady DEF GateInv, ProbesInv
<1>7. GateSpec => []TimingsAreOfOneRun
  BY <1>4, <1>5, <1>6, GateInvAlways, PTL DEF GateSpec
<1> QED
  BY <1>3, <1>7

(* validate_numerics accuses no plan of the planner: whatever the device   *)
(* does, each configuration gives the same bits in every run, and those of *)
(* the golden one.                                                         *)
THEOREM GateNeverAccuses == GateSpec => []GateRaisesNoFalseAlarm
<1>1. GateInv => GateRaisesNoFalseAlarm
  BY DEF GateInv
<1> QED
  BY <1>1, GateInvAlways, PTL
=============================================================================
