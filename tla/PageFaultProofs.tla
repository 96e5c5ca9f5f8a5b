-------------------------- MODULE PageFaultProofs --------------------------
(***************************************************************************)
(* Proofs about PageFault, for every set of processes and threads, every   *)
(* size of the relay buffer and every threshold.                           *)
(*                                                                         *)
(* The invariant has two independent parts on top of the types: Bits, on   *)
(* the bit of a process and the life of the process, and Records, on what  *)
(* the relay buffer, last_tvs and the log hold of a fault.                 *)
(***************************************************************************)
EXTENDS PageFault, TLAPS

USE PidsAssumption, ThresholdAssumption, PageFaultBounds

-----------------------------------------------------------------------------
(* The inductive invariant *)

AllRun(p) == \A t \in Tids : pc[p][t] = "run"

(* Bits are set only while the module is there.  A process that is not     *)
(* (yet) traced is not in exit(); one whose bit is set has no thread in    *)
(* exit(); one whose bit is not set, although the module is there and no   *)
(* thread is in exit(), did not clear it itself.                           *)
Bits ==
  /\ ~loaded => track_pids = {} /\ relay = << >>
  /\ feed <= loads
  /\ \A p \in Pids :
       /\ proc[p] # "traced" => AllRun(p)
       /\ p \in track_pids => p \in killed \/ (proc[p] = "traced" /\ AllRun(p))
       /\ loaded /\ proc[p] = "traced" /\ AllRun(p) /\ p \notin track_pids => p \in unsettled

(* Record i of a buffer is the entry of process p into a fault. *)
IsEntry(buf, i, p) == ~buf[i].complete /\ buf[i].tgid = p

(* After the first n records of buf pf will take at for the beginning of a *)
(* fault of p, having remembered tvs before them.                          *)
Timed(buf, tvs, p, n, at) ==
  \/ \E j \in 1..n : /\ IsEntry(buf, j, p) /\ buf[j].tv = at
                     /\ \A k \in j+1..n : ~IsEntry(buf, k, p)
  \/ tvs[p] = at /\ \A k \in 1..n : ~IsEntry(buf, k, p)

(* pf will find the beginning of every sure fault whose exit it has not    *)
(* read, and of every sure fault that has not ended.                       *)
Chain ==
  /\ \A i \in 1..Len(relay) : relay[i].of.sure =>
       Timed(relay, last_tvs, relay[i].tgid, i - 1, relay[i].of.at)
  /\ \A p \in Pids, t \in Tids : fault[p][t].sure =>
       Timed(relay, last_tvs, p, Len(relay), fault[p][t].at)

Long(f) == f.end - f.begin > Threshold

(* Faults of one thread follow each other in time. *)
InTime ==
  /\ \A f \in real : f.end <= now
  /\ \A p \in Pids, t \in Tids : fault[p][t].sure =>
       \A f \in real : f.tgid = p /\ f.pid = t => f.end <= fault[p][t].at

(* Only exits have a fault; no long fault has two of them.  All of them    *)
(* are among the real ones.                                                *)
Once ==
  /\ \A i \in 1..Len(relay) :
       relay[i].of.sure => relay[i].complete /\ FaultOf(relay[i]) \in real
  /\ \A i, j \in 1..Len(relay) :
       /\ relay[i].of.sure /\ relay[j].of.sure
       /\ FaultOf(relay[i]) = FaultOf(relay[j]) /\ Long(FaultOf(relay[i]))
       => i = j

Records ==
  /\ loaded /\ feed = loads => Chain
  /\ InTime /\ Once /\ TrueFaults

IInv == TypeOK /\ Bits /\ OwnStatus /\ Records

-----------------------------------------------------------------------------
(* Types *)

(* The initial state has the types of the declarations. *)
LEMMA TypeInit == Init => TypeOK
<1> SUFFICES ASSUME Init PROVE TypeOK
  OBVIOUS
<1>1. /\ fault \in [Pids -> [Tids -> InFault]] /\ last_tvs \in [Pids -> Times]
      /\ proc \in [Pids -> {"none", "up", "traced"}]
      /\ pc \in [Pids -> [Tids -> {"run", "last"}]] /\ status \in [Pids -> {"own", "one"}]
  BY DEF Init, InFault, Times, NoFault
<1>2. relay \in Seq(Rec) /\ Len(relay) = 0
  BY DEF Init
<1>3. loaded \in BOOLEAN
  BY DEF Init
<1>4. /\ loads \in 0..MaxLoads /\ feed \in 0..MaxLoads /\ now \in Times
      /\ starts \in 0..MaxStarts /\ faults \in 0..MaxFaults /\ Len(relay) <= RelayCap
  BY <1>2 DEF Init, Times
<1>5. /\ track_pids = {} /\ log = {} /\ real = {} /\ unsettled = {} /\ killed = {}
  BY DEF Init
<1> QED BY <1>1, <1>2, <1>3, <1>4, <1>5 DEF TypeOK

(* A record that is written to the relay buffer keeps its type. *)
LEMMA AppendType ==
  ASSUME TypeOK, NEW r \in Rec, Len(relay) < RelayCap
  PROVE  /\ Append(relay, r) \in Seq(Rec) /\ Len(Append(relay, r)) = Len(relay) + 1
         /\ \A i \in 1..Len(relay) : Append(relay, r)[i] = relay[i]
         /\ Append(relay, r)[Len(relay) + 1] = r
BY DEF TypeOK

(* The fault of an exit record has the type of the members of real. *)
LEMMA FaultOfType ==
  ASSUME NEW r \in Rec
  PROVE  FaultOf(r) \in Faults
BY DEF FaultOf, Faults, Rec, InFault

(* A fault that is no longer sure keeps its type. *)
LEMMA UnsureType ==
  ASSUME NEW f \in InFault
  PROVE  [f EXCEPT !.sure = FALSE] \in InFault
BY DEF InFault

(* ... and so does the record of its exit. *)
LEMMA UnsureRecType ==
  ASSUME NEW r \in Rec
  PROVE  [r EXCEPT !.of.sure = FALSE] \in Rec
<1>1. [r.of EXCEPT !.sure = FALSE] \in InFault
  BY UnsureType DEF Rec
<1>2. [r EXCEPT !.of.sure = FALSE] = [r EXCEPT !.of = [r.of EXCEPT !.sure = FALSE]]
  BY DEF Rec
<1> QED BY <1>1, <1>2 DEF Rec

(* A process that is over leaves its pid and its threads as they were      *)
(* before it.                                                              *)
LEMMA OverType ==
  ASSUME TypeOK, NEW p \in Pids, Over(p)
  PROVE  /\ proc' \in [Pids -> {"none", "up", "traced"}]
         /\ pc' \in [Pids -> [Tids -> {"run", "last"}]]
         /\ proc'[p] = "none" /\ \A t \in Tids : pc'[p][t] = "run"
         /\ \A q \in Pids \ {p} : proc'[q] = proc[q] /\ pc'[q] = pc[q]
BY DEF TypeOK, Over

(* Every step keeps the types. *)
LEMMA TypeStep == TypeOK /\ [Next]_vars => TypeOK'
<1> SUFFICES ASSUME TypeOK, [Next]_vars PROVE TypeOK'
  OBVIOUS
<1> USE DEF module, program, pf, history
<1>1. CASE init_module
  BY <1>1 DEF TypeOK, init_module, Running
<1>2. CASE cleanup_module
  <2>1. relay' \in Seq(Rec) /\ Len(relay') = 0
    BY <1>2 DEF cleanup_module
  <2>2. loaded' \in BOOLEAN
    BY <1>2 DEF cleanup_module
  <2>3. Len(relay') <= RelayCap
    BY <2>1
  <2> QED BY <1>2, <2>1, <2>2, <2>3 DEF TypeOK, cleanup_module
<1>3. CASE pid_off_write_all
  BY <1>3 DEF TypeOK, pid_off_write_all
<1>4. CASE PfStart
  <2>1. relay' \in Seq(Rec) /\ Len(relay') = Len(relay)
    <3>1. \A i \in 1..Len(relay) : [relay[i] EXCEPT !.of.sure = FALSE] \in Rec
      BY UnsureRecType, SMTT(40) DEF TypeOK
    <3>2. relay' = [i \in 1..Len(relay) |-> [relay[i] EXCEPT !.of.sure = FALSE]]
      BY <1>4 DEF PfStart
    <3>3. Len(relay) \in Nat
      BY DEF TypeOK
    <3> QED BY <3>1, <3>2, <3>3, SMTT(40)
  <2>2. fault' \in [Pids -> [Tids -> InFault]]
    <3>1. \A p \in Pids, t \in Tids : [fault[p][t] EXCEPT !.sure = FALSE] \in InFault
      BY UnsureType, SMTT(40) DEF TypeOK
    <3> QED BY <1>4, <3>1 DEF PfStart
  <2>3. last_tvs' \in [Pids -> Times]
    BY <1>4 DEF PfStart, Times
  <2> QED BY <1>4, <2>1, <2>2, <2>3 DEF TypeOK, PfStart
<1>5. CASE PfStop
  BY <1>5 DEF TypeOK, PfStop
<1>6. CASE reader_thr
  <2>1. Head(relay) \in Rec /\ relay' \in Seq(Rec) /\ Len(relay') = Len(relay) - 1
    BY <1>6 DEF reader_thr, TypeOK
  <2>2. last_tvs' \in [Pids -> Times]
    BY <1>6, <2>1 DEF reader_thr, Entered, TypeOK, Rec
  <2>3. log' \subseteq [tgid : Pids, pid : Tids, begin : Times, end : Times, sure : BOOLEAN]
    BY <1>6, <2>1 DEF reader_thr, TypeOK, Rec, InFault
  <2>4. Len(relay') <= RelayCap
    BY <2>1 DEF TypeOK
  <2> QED BY <1>6, <2>1, <2>2, <2>3, <2>4 DEF TypeOK, reader_thr
<1>7. CASE Tick
  BY <1>7, SMTT(40) DEF TypeOK, Tick, Times
<1>8. ASSUME NEW p \in Pids, Start(p) PROVE TypeOK'
  BY <1>8 DEF TypeOK, Start
<1>9. ASSUME NEW p \in Pids, Leave(p) \/ Kill(p) PROVE TypeOK'
  BY <1>9, OverType, SMTT(40) DEF TypeOK, Leave, Kill
<1>10. ASSUME NEW p \in Pids, fork_init(p) PROVE TypeOK'
  <2>1. CASE loaded /\ p \in BigPids
    BY <1>10, <2>1, OverType DEF TypeOK, fork_init
  <2>2. CASE ~(loaded /\ p \in BigPids)
    BY <1>10, <2>2, ZenonT(60) DEF TypeOK, fork_init
  <2> QED BY <2>1, <2>2
<1>11. ASSUME NEW p \in Pids, Exec(p) PROVE TypeOK'
  BY <1>11 DEF TypeOK, Exec
<1>12. ASSUME NEW p \in Pids, NEW t \in Tids, exit(p, t) PROVE TypeOK'
  <2>1. CASE loaded /\ p \notin track_pids
    <3>1. unsettled' \subseteq Pids /\ status' \in [Pids -> {"own", "one"}]
      BY <1>12, <2>1, SMTT(40) DEF TypeOK, exit
    <3>2. Over(p) /\ UNCHANGED track_pids
      BY <1>12, <2>1 DEF exit
    <3> QED BY <1>12, <3>1, <3>2, OverType DEF TypeOK, exit
  <2>2. CASE ~(loaded /\ p \notin track_pids)
    <3>1. pc' \in [Pids -> [Tids -> {"run", "last"}]]
      <4>1. pc' = [pc EXCEPT ![p][t] = "last"]
        BY <1>12, <2>2 DEF exit
      <4> QED BY <4>1 DEF TypeOK
    <3> QED BY <1>12, <2>2, <3>1 DEF TypeOK, exit
  <2> QED BY <2>1, <2>2
<1>13. ASSUME NEW p \in Pids, NEW t \in Tids, real_exit(p, t) PROVE TypeOK'
  BY <1>13, OverType DEF TypeOK, real_exit
<1>14. ASSUME NEW p \in Pids, NEW t \in Tids, NEW first \in BOOLEAN, entry_probe(p, t, first)
       PROVE  TypeOK'
  <2> DEFINE r == [tgid |-> p, pid |-> t, complete |-> FALSE, tv |-> now, of |-> NoFault]
  <2>1. r \in Rec
    BY DEF TypeOK, Rec, InFault, NoFault, Times
  <2>2. relay' \in Seq(Rec) /\ Len(relay') <= RelayCap
    <3>1. CASE Written(p, first)
      <4>1. relay' = Append(relay, r) /\ Len(relay) < RelayCap
        BY <1>14, <3>1 DEF entry_probe, Written
      <4> HIDE DEF r
      <4>2. relay' \in Seq(Rec) /\ Len(relay') = Len(relay) + 1
        BY <2>1, <4>1, AppendType
      <4> QED BY <4>1, <4>2 DEF TypeOK
    <3>2. CASE ~Written(p, first)
      BY <1>14, <3>2 DEF entry_probe, TypeOK
    <3> QED BY <3>1, <3>2
  <2>3. fault' \in [Pids -> [Tids -> InFault]]
    <3>1. now \in Times /\ \A u \in Tids : fault[p][u].at \in Times
      BY DEF TypeOK, InFault
    <3>2. CASE Written(p, first)
      <4>1. fault' = [fault EXCEPT ![p] = [u \in Tids |->
                         [at |-> IF u = t THEN now ELSE fault[p][u].at, sure |-> u = t]]]
        BY <1>14, <3>2 DEF entry_probe, TypeOK
      <4>2. [u \in Tids |-> [at |-> IF u = t THEN now ELSE fault[p][u].at, sure |-> u = t]]
              \in [Tids -> InFault]
        BY <3>1 DEF InFault
      <4> QED BY <4>1, <4>2 DEF TypeOK
    <3>3. CASE ~Written(p, first)
      <4>1. [at |-> now, sure |-> FALSE] \in InFault
        BY <3>1 DEF InFault
      <4>2. fault' = [fault EXCEPT ![p][t] = [at |-> now, sure |-> FALSE]]
        BY <1>14, <3>3 DEF entry_probe
      <4> QED BY <4>1, <4>2 DEF TypeOK
    <3> QED BY <3>2, <3>3
  <2> QED BY <1>14, <2>2, <2>3, SMTT(40) DEF TypeOK, entry_probe
<1>15. ASSUME NEW p \in Pids, NEW t \in Tids, NEW first \in BOOLEAN, exit_probe(p, t, first)
       PROVE  TypeOK'
  <2> DEFINE r == [tgid |-> p, pid |-> t, complete |-> TRUE, tv |-> now, of |-> fault[p][t]]
  <2>1. r \in Rec
    BY DEF TypeOK, Rec
  <2>2. relay' \in Seq(Rec) /\ Len(relay') <= RelayCap
    BY <1>15, <2>1, AppendType DEF exit_probe, Written, TypeOK
  <2>3. real' \subseteq Faults
    BY <1>15, <2>1, FaultOfType DEF exit_probe, TypeOK
  <2>4. fault' \in [Pids -> [Tids -> InFault]]
    BY <1>15 DEF exit_probe, TypeOK, InFault, NoFault, Times
  <2> QED BY <1>15, <2>2, <2>3, <2>4 DEF TypeOK, exit_probe
<1>16. CASE UNCHANGED vars
  BY <1>16 DEF TypeOK, vars
<1> QED BY <1>1, <1>2, <1>3, <1>4, <1>5, <1>6, <1>7, <1>8, <1>9, <1>10, <1>11, <1>12,
           <1>13, <1>14, <1>15, <1>16 DEF Next

-----------------------------------------------------------------------------
(* The bit of a process *)

(* What Bits says of one process. *)
BitOf(p) ==
  /\ proc[p] # "traced" => AllRun(p)
  /\ p \in track_pids => p \in killed \/ (proc[p] = "traced" /\ AllRun(p))
  /\ loaded /\ proc[p] = "traced" /\ AllRun(p) /\ p \notin track_pids => p \in unsettled
  /\ status[p] = "one" => p \in unsettled

(* A step that leaves a process and its bit alone, does not load the       *)
(* module and settles nobody, says nothing new of the process.             *)
LEMMA BitFrame ==
  ASSUME NEW q \in Pids, BitOf(q),
         proc'[q] = proc[q], pc'[q] = pc[q], status'[q] = status[q],
         q \in track_pids' <=> q \in track_pids, q \in killed => q \in killed',
         q \in unsettled => q \in unsettled', loaded' => loaded
  PROVE  BitOf(q)'
BY DEF BitOf, AllRun

(* Every step keeps Bits and OwnStatus. *)
LEMMA BitsStep == TypeOK /\ Bits /\ OwnStatus /\ [Next]_vars => Bits' /\ OwnStatus'
<1> SUFFICES ASSUME TypeOK, Bits, OwnStatus, [Next]_vars PROVE Bits' /\ OwnStatus'
  OBVIOUS
<1> USE DEF module, program, pf, history
<1> DEFINE G == (~loaded => track_pids = {} /\ relay = << >>) /\ feed <= loads
<1>a. G /\ \A p \in Pids : BitOf(p)
  BY DEF Bits, OwnStatus, BitOf
<1>b. SUFFICES G' /\ \A q \in Pids : BitOf(q)'
  BY DEF Bits, OwnStatus, BitOf
<1>1. CASE init_module
  <2>1. G'
    BY <1>1, <1>a DEF init_module, TypeOK
  <2>2. ASSUME NEW q \in Pids PROVE BitOf(q)'
    BY <1>1, <1>a, <2>2 DEF init_module, BitOf, AllRun, Running
  <2> QED BY <2>1, <2>2
<1>2. CASE cleanup_module
  <2>1. G'
    BY <1>2, <1>a DEF cleanup_module
  <2>2. ASSUME NEW q \in Pids PROVE BitOf(q)'
    BY <1>2, <1>a, <2>2 DEF cleanup_module, BitOf, AllRun
  <2> QED BY <2>1, <2>2
<1>3. CASE pid_off_write_all
  <2>1. G'
    BY <1>3, <1>a DEF pid_off_write_all
  <2>2. ASSUME NEW q \in Pids PROVE BitOf(q)'
    BY <1>3, <1>a, <2>2 DEF pid_off_write_all, BitOf, AllRun
  <2> QED BY <2>1, <2>2
<1>4. CASE PfStart
  <2>1. G'
    BY <1>4, <1>a DEF PfStart, TypeOK
  <2>2. \A q \in Pids : BitOf(q)'
    BY <1>4, <1>a DEF PfStart, BitOf, AllRun
  <2> QED BY <2>1, <2>2
<1>5. CASE PfStop
  <2>1. G'
    BY <1>5, <1>a DEF PfStop, TypeOK
  <2>2. \A q \in Pids : BitOf(q)'
    BY <1>5, <1>a DEF PfStop, BitOf, AllRun
  <2> QED BY <2>1, <2>2
<1>6. CASE reader_thr
  <2>1. G'
    BY <1>6, <1>a DEF reader_thr
  <2>2. \A q \in Pids : BitOf(q)'
    BY <1>6, <1>a DEF reader_thr, BitOf, AllRun
  <2> QED BY <2>1, <2>2
<1>7. CASE Tick
  BY <1>7, <1>a DEF Tick, BitOf, AllRun
<1>8. ASSUME NEW p \in Pids, Start(p) PROVE G' /\ \A q \in Pids : BitOf(q)'
  <2>1. G'
    BY <1>8, <1>a DEF Start
  <2>2. BitOf(p)'
    BY <1>8, <1>a DEF Start, BitOf, AllRun, TypeOK
  <2>3. ASSUME NEW q \in Pids \ {p} PROVE BitOf(q)'
    BY <1>8, <1>a, <2>3, BitFrame DEF Start, TypeOK
  <2> QED BY <2>1, <2>2, <2>3
<1>9. ASSUME NEW p \in Pids, Leave(p) PROVE G' /\ \A q \in Pids : BitOf(q)'
  <2>1. G'
    BY <1>9, <1>a DEF Leave
  <2>2. BitOf(p)'
    BY <1>9, <1>a, OverType DEF Leave, BitOf, AllRun
  <2>3. ASSUME NEW q \in Pids \ {p} PROVE BitOf(q)'
    BY <1>9, <1>a, <2>3, BitFrame, OverType DEF Leave
  <2> QED BY <2>1, <2>2, <2>3
<1>10. ASSUME NEW p \in Pids, Kill(p) PROVE G' /\ \A q \in Pids : BitOf(q)'
  <2>1. G'
    BY <1>10, <1>a DEF Kill
  <2>2. BitOf(p)'
    BY <1>10, <1>a, OverType DEF Kill, BitOf, AllRun
  <2>3. ASSUME NEW q \in Pids \ {p} PROVE BitOf(q)'
    BY <1>10, <1>a, <2>3, BitFrame, OverType DEF Kill
  <2> QED BY <2>1, <2>2, <2>3
<1>11. ASSUME NEW p \in Pids, fork_init(p) PROVE G' /\ \A q \in Pids : BitOf(q)'
  <2>1. G'
    BY <1>11, <1>a DEF fork_init
  <2>2. CASE loaded /\ p \in BigPids
    <3>1. BitOf(p)'
      BY <1>11, <1>a, <2>2, OverType DEF fork_init, BitOf, AllRun, TypeOK
    <3>2. ASSUME NEW q \in Pids \ {p} PROVE BitOf(q)'
      BY <1>11, <1>a, <2>2, <3>2, BitFrame, OverType DEF fork_init, TypeOK
    <3> QED BY <2>1, <3>1, <3>2
  <2>3. CASE ~(loaded /\ p \in BigPids)
    <3>1. BitOf(p)'
      BY <1>11, <1>a, <2>3, SMTT(40) DEF fork_init, BitOf, AllRun, TypeOK
    <3>2. ASSUME NEW q \in Pids \ {p} PROVE BitOf(q)'
      BY <1>11, <1>a, <2>3, <3>2, BitFrame DEF fork_init, TypeOK
    <3> QED BY <2>1, <3>1, <3>2
  <2> QED BY <2>2, <2>3
<1>12. ASSUME NEW p \in Pids, Exec(p) PROVE G' /\ \A q \in Pids : BitOf(q)'
  <2>1. G'
    BY <1>12, <1>a DEF Exec
  <2>2. BitOf(p)'
    BY <1>12, <1>a DEF Exec, BitOf, AllRun, TypeOK
  <2>3. ASSUME NEW q \in Pids \ {p} PROVE BitOf(q)'
    BY <1>12, <1>a, <2>3, BitFrame DEF Exec, TypeOK
  <2> QED BY <2>1, <2>2, <2>3
<1>13. ASSUME NEW p \in Pids, NEW t \in Tids, exit(p, t) PROVE G' /\ \A q \in Pids : BitOf(q)'
  <2>1. G'
    BY <1>13, <1>a DEF exit
  <2>2. CASE loaded /\ p \notin track_pids
    <3>1. Over(p) /\ proc[p] = "traced" /\ UNCHANGED <<track_pids, killed, loaded>>
          /\ status' = [status EXCEPT ![p] = "one"]
          /\ unsettled' = IF AllRun(p) THEN unsettled ELSE unsettled \cup {p}
      BY <1>13, <2>2 DEF exit, AllRun, TypeOK
    <3>2. BitOf(p)'
      BY <1>a, <2>2, <3>1, OverType DEF BitOf, AllRun, TypeOK
    <3>3. ASSUME NEW q \in Pids \ {p} PROVE BitOf(q)'
      BY <1>a, <3>1, <3>3, BitFrame, OverType DEF TypeOK
    <3> QED BY <2>1, <3>2, <3>3
  <2>3. CASE ~(loaded /\ p \notin track_pids)
    <3>1. pc' = [pc EXCEPT ![p][t] = "last"] /\ track_pids' = track_pids \ {p}
          /\ proc[p] = "traced" /\ UNCHANGED <<proc, status, unsettled, killed, loaded>>
      BY <1>13, <2>3 DEF exit
    <3>2. pc'[p][t] = "last" /\ \A q \in Pids \ {p} : pc'[q] = pc[q]
      BY <3>1 DEF TypeOK
    <3>3. BitOf(p)'
      BY <1>a, <3>1, <3>2 DEF BitOf, AllRun
    <3>4. ASSUME NEW q \in Pids \ {p} PROVE BitOf(q)'
      BY <1>a, <3>1, <3>2, <3>4, BitFrame
    <3> QED BY <2>1, <3>3, <3>4
  <2> QED BY <2>2, <2>3
<1>14. ASSUME NEW p \in Pids, NEW t \in Tids, real_exit(p, t) PROVE G' /\ \A q \in Pids : BitOf(q)'
  <2>1. G'
    BY <1>14, <1>a DEF real_exit
  <2>2. BitOf(p)'
    BY <1>14, <1>a, OverType DEF real_exit, BitOf, AllRun
  <2>3. ASSUME NEW q \in Pids \ {p} PROVE BitOf(q)'
    BY <1>14, <1>a, <2>3, BitFrame, OverType DEF real_exit
  <2> QED BY <2>1, <2>2, <2>3
<1>15. ASSUME NEW p \in Pids, NEW t \in Tids, NEW first \in BOOLEAN, entry_probe(p, t, first)
       PROVE  G' /\ \A q \in Pids : BitOf(q)'
  <2>1. ~loaded => UNCHANGED relay
    BY <1>15, <1>a DEF entry_probe, Written
  <2> QED BY <1>15, <1>a, <2>1 DEF entry_probe, BitOf, AllRun
<1>16. ASSUME NEW p \in Pids, NEW t \in Tids, NEW first \in BOOLEAN, exit_probe(p, t, first)
       PROVE  G' /\ \A q \in Pids : BitOf(q)'
  <2>1. ~loaded => UNCHANGED relay
    BY <1>16, <1>a DEF exit_probe, Written
  <2> QED BY <1>16, <1>a, <2>1 DEF exit_probe, BitOf, AllRun
<1>17. CASE UNCHANGED vars
  BY <1>17, <1>a DEF vars, BitOf, AllRun
<1> QED BY <1>1, <1>2, <1>3, <1>4, <1>5, <1>6, <1>7, <1>8, <1>9, <1>10, <1>11, <1>12,
           <1>13, <1>14, <1>15, <1>16, <1>17 DEF Next

-----------------------------------------------------------------------------
(* The records of a fault *)

(* Timed looks at the first n records, and at what was remembered of p. *)
LEMMA TimedFrame ==
  ASSUME NEW a, NEW b, NEW tvs, NEW new, NEW p, NEW n \in Nat, NEW at,
         Timed(a, tvs, p, n, at), \A i \in 1..n : b[i] = a[i], new[p] = tvs[p]
  PROVE  Timed(b, new, p, n, at)
BY DEF Timed, IsEntry

(* A record that is not an entry of p changes nothing for p. *)
LEMMA TimedExtend ==
  ASSUME NEW a, NEW tvs, NEW p, NEW n \in Nat, NEW at,
         Timed(a, tvs, p, n, at), ~IsEntry(a, n + 1, p)
  PROVE  Timed(a, tvs, p, n + 1, at)
<1>1. ASSUME NEW j \in 1..n, IsEntry(a, j, p), a[j].tv = at, \A k \in j+1..n : ~IsEntry(a, k, p)
      PROVE  Timed(a, tvs, p, n + 1, at)
  <2>1. j \in 1..n+1 /\ \A k \in j+1..n+1 : k = n + 1 \/ k \in j+1..n
    OBVIOUS
  <2> QED BY <1>1, <2>1 DEF Timed
<1>2. ASSUME tvs[p] = at, \A k \in 1..n : ~IsEntry(a, k, p)
      PROVE  Timed(a, tvs, p, n + 1, at)
  <2>1. \A k \in 1..n+1 : k = n + 1 \/ k \in 1..n
    OBVIOUS
  <2> QED BY <1>2, <2>1 DEF Timed
<1> QED BY <1>1, <1>2 DEF Timed

(* After an entry of p it is that entry that counts. *)
LEMMA TimedEntry ==
  ASSUME NEW a, NEW tvs, NEW p, NEW n \in Nat, IsEntry(a, n + 1, p)
  PROVE  Timed(a, tvs, p, n + 1, a[n + 1].tv)
<1>1. n + 1 \in 1..n+1 /\ (n + 1) + 1..n+1 = {}
  OBVIOUS
<1> QED BY <1>1 DEF Timed

(* reader_thr() takes the first record, and remembers it if it is an       *)
(* entry: what it will take for the beginning of a fault does not change.  *)
LEMMA TimedShift ==
  ASSUME NEW a \in Seq(Rec), a # << >>, NEW tvs, NEW new, NEW p, NEW n \in 1..Len(a), NEW at,
         Timed(a, tvs, p, n, at),
         IsEntry(a, 1, p) => new[p] = a[1].tv, ~IsEntry(a, 1, p) => new[p] = tvs[p]
  PROVE  Timed(Tail(a), new, p, n - 1, at)
<1>1. \A k \in 1..n-1 : Tail(a)[k] = a[k + 1]
  OBVIOUS
<1>2. \A k \in 1..n-1 : IsEntry(Tail(a), k, p) <=> IsEntry(a, k + 1, p)
  BY <1>1 DEF IsEntry
<1>3. ASSUME NEW j \in 1..n, IsEntry(a, j, p), a[j].tv = at, \A k \in j+1..n : ~IsEntry(a, k, p)
      PROVE  Timed(Tail(a), new, p, n - 1, at)
  <2>1. CASE j = 1
    <3>1. \A k \in 1..n-1 : k + 1 \in j+1..n
      BY <2>1
    <3>2. \A k \in 1..n-1 : ~IsEntry(Tail(a), k, p)
      BY <1>2, <1>3, <3>1
    <3> QED BY <1>3, <2>1, <3>2 DEF Timed
  <2>2. CASE j # 1
    <3>1. /\ j - 1 \in 1..n-1 /\ (j - 1) + 1 = j
          /\ \A k \in (j-1)+1..n-1 : k \in 1..n-1 /\ k + 1 \in j+1..n
      BY <2>2
    <3>2. \A k \in (j-1)+1..n-1 : ~IsEntry(Tail(a), k, p)
      BY <1>2, <1>3, <3>1
    <3>3. IsEntry(Tail(a), j - 1, p) /\ Tail(a)[j - 1].tv = at
      BY <1>1, <1>2, <1>3, <3>1
    <3> QED BY <3>1, <3>2, <3>3 DEF Timed
  <2> QED BY <2>1, <2>2
<1>4. ASSUME tvs[p] = at, \A k \in 1..n : ~IsEntry(a, k, p)
      PROVE  Timed(Tail(a), new, p, n - 1, at)
  <2>1. 1 \in 1..n /\ \A k \in 1..n-1 : k + 1 \in 1..n
    OBVIOUS
  <2>2. \A k \in 1..n-1 : ~IsEntry(Tail(a), k, p)
    BY <1>2, <1>4, <2>1
  <2> QED BY <1>4, <2>1, <2>2 DEF Timed
<1> QED BY <1>3, <1>4 DEF Timed

(* Records says nothing of the bits and of the processes, and the less the *)
(* fewer buffers pf can read.                                              *)
LEMMA RecordsFrame ==
  ASSUME Records, UNCHANGED <<relay, last_tvs, log, fault, real, now>>,
         loaded' /\ feed' = loads' => loaded /\ feed = loads
  PROVE  Records'
BY ZenonT(60) DEF Records, Chain, InTime, Once, TrueFaults, Pending, FaultOf, Long

(* Faults whose exit waits in the buffer. *)
LEMMA PendingDef ==
  \A f : f \in Pending <=> \E i \in 1..Len(relay) : relay[i].of.sure /\ f = FaultOf(relay[i])
BY DEF Pending

(* The faults the log is sure of. *)
SureLog == {[tgid |-> l.tgid, pid |-> l.pid, begin |-> l.begin, end |-> l.end] : l \in {k \in log : k.sure}}

(* What is lost with its records is not expected in the log. *)
LEMMA LossKeeps ==
  ASSUME Once, InTime, TrueFaults, UNCHANGED <<log, now>>, real' = real \ Pending, Pending' = {},
         \A p \in Pids, t \in Tids : fault'[p][t].sure => fault[p][t].sure /\ fault'[p][t].at = fault[p][t].at
  PROVE  InTime' /\ TrueFaults'
<1>1. InTime'
  BY DEF InTime
<1>2. SureLog' = {f \in real' : f.end - f.begin > Threshold} \ Pending'
  BY DEF TrueFaults, SureLog
<1> QED BY <1>1, <1>2 DEF TrueFaults, SureLog

(* reader_thr() logs what it should. *)
LEMMA ReaderKeeps ==
  ASSUME TypeOK, Bits, Records, reader_thr
  PROVE  Records'
<1> DEFINE r == Head(relay)
<1>1. /\ relay \in Seq(Rec) /\ relay # << >> /\ relay' = Tail(relay) /\ r \in Rec /\ r = relay[1]
      /\ Len(relay) \in Nat \ {0} /\ Len(relay') = Len(relay) - 1
      /\ \A i \in 1..Len(relay') : relay'[i] = relay[i + 1] /\ i + 1 \in 1..Len(relay) /\ i + 1 # 1
      /\ 1 \in 1..Len(relay)
  BY DEF reader_thr, TypeOK
<1>2. UNCHANGED <<fault, real, now, loaded, loads, feed>> /\ loaded /\ feed = loads /\ Chain
  BY <1>1 DEF reader_thr, Bits, Records, program, history
<1>3. /\ r.complete => UNCHANGED last_tvs
      /\ ~r.complete => last_tvs' = [last_tvs EXCEPT ![r.tgid] = r.tv] /\ UNCHANGED log
      /\ r.complete => log' = IF r.tv - last_tvs[r.tgid] > Threshold
                        THEN log \cup {[tgid |-> r.tgid, pid |-> r.pid, begin |-> last_tvs[r.tgid],
                                        end |-> r.tv, sure |-> r.of.sure]}
                        ELSE log
  BY DEF reader_thr, Entered
<1> HIDE DEF r
<1>4. \A p \in Pids : /\ IsEntry(relay, 1, p) => last_tvs'[p] = relay[1].tv
                      /\ ~IsEntry(relay, 1, p) => last_tvs'[p] = last_tvs[p]
  BY <1>1, <1>3 DEF IsEntry, TypeOK, Rec
<1>5. Chain'
  <2>1. ASSUME NEW i \in 1..Len(relay'), relay'[i].of.sure
        PROVE  Timed(relay', last_tvs', relay'[i].tgid, i - 1, relay'[i].of.at)
    <3>1. i \in 1..Len(relay) /\ i + 1 \in 1..Len(relay) /\ relay'[i] = relay[i + 1] /\ (i + 1) - 1 = i
          /\ relay[i + 1] \in Rec
      BY <1>1
    <3>2. Timed(relay, last_tvs, relay'[i].tgid, i, relay'[i].of.at)
      BY <1>2, <2>1, <3>1 DEF Chain
    <3>3. relay'[i].tgid \in Pids
      BY <3>1 DEF Rec
    <3> QED BY <1>1, <1>4, <3>1, <3>2, <3>3, TimedShift
  <2>2. ASSUME NEW p \in Pids, NEW t \in Tids, fault'[p][t].sure
        PROVE  Timed(relay', last_tvs', p, Len(relay'), fault'[p][t].at)
    <3>1. Timed(relay, last_tvs, p, Len(relay), fault[p][t].at) /\ fault' = fault
      BY <1>2, <2>2 DEF Chain
    <3>2. Len(relay) \in 1..Len(relay)
      BY <1>1
    <3> QED BY <1>1, <1>4, <3>1, <3>2, TimedShift, ZenonT(60)
  <2> QED BY <2>1, <2>2 DEF Chain
<1>6. InTime'
  BY <1>2 DEF Records, InTime
<1>7. Once'
  <2>1. ASSUME NEW i \in 1..Len(relay'), relay'[i].of.sure
        PROVE  relay'[i].complete /\ FaultOf(relay'[i]) \in real'
    BY <1>1, <1>2, <2>1 DEF Records, Once
  <2>2. ASSUME NEW i \in 1..Len(relay'), NEW j \in 1..Len(relay'), relay'[i].of.sure, relay'[j].of.sure,
               FaultOf(relay'[i]) = FaultOf(relay'[j]), Long(FaultOf(relay'[i]))
        PROVE  i = j
    <3>1. i + 1 = j + 1
      BY <1>1, <2>2 DEF Records, Once
    <3> QED BY <3>1
  <2> QED BY <2>1, <2>2 DEF Once
<1>8. SureLog = {f \in real : Long(f)} \ Pending
  BY DEF Records, TrueFaults, SureLog, Long
<1>9. Pending' \subseteq Pending
  <2> SUFFICES ASSUME NEW f \in Pending' PROVE f \in Pending
    OBVIOUS
  <2>1. PICK i \in 1..Len(relay') : relay'[i].of.sure /\ f = FaultOf(relay'[i])
    BY DEF Pending
  <2>2. i + 1 \in 1..Len(relay) /\ relay'[i] = relay[i + 1]
    BY <1>1
  <2> QED BY <2>1, <2>2, PendingDef
<1>10. r.of.sure => r.complete /\ FaultOf(r) \in real /\ FaultOf(r) \in Pending
  BY <1>1, PendingDef DEF Records, Once
<1>11. \A f \in Pending : f \in Pending' \/ (r.of.sure /\ f = FaultOf(r))
  <2> SUFFICES ASSUME NEW f \in Pending PROVE f \in Pending' \/ (r.of.sure /\ f = FaultOf(r))
    OBVIOUS
  <2>1. PICK i \in 1..Len(relay) : relay[i].of.sure /\ f = FaultOf(relay[i])
    BY PendingDef
  <2>2. CASE i = 1
    BY <1>1, <2>1, <2>2
  <2>3. CASE i # 1
    <3>1. i - 1 \in 1..Len(relay') /\ relay'[i - 1] = relay[i]
      BY <1>1, <2>3
    <3> QED BY <2>1, <3>1 DEF Pending
  <2> QED BY <2>2, <2>3
<1>12. r.of.sure /\ Long(FaultOf(r)) => FaultOf(r) \notin Pending'
  <2> SUFFICES ASSUME r.of.sure, Long(FaultOf(r)), FaultOf(r) \in Pending' PROVE FALSE
    OBVIOUS
  <2>1. PICK i \in 1..Len(relay') : relay'[i].of.sure /\ FaultOf(r) = FaultOf(relay'[i])
    BY DEF Pending
  <2>2. i + 1 \in 1..Len(relay) /\ relay'[i] = relay[i + 1] /\ i + 1 # 1
    BY <1>1
  <2> QED BY <1>1, <2>1, <2>2 DEF Records, Once
<1>13. r.of.sure => last_tvs[r.tgid] = r.of.at
  <2>1. 1 - 1 = 0
    OBVIOUS
  <2> QED BY <1>1, <1>2, <2>1 DEF Chain, Timed
<1>14. SureLog' = IF r.of.sure /\ Long(FaultOf(r)) THEN SureLog \cup {FaultOf(r)} ELSE SureLog
  <2>1. CASE r.of.sure
    <3>1. /\ FaultOf(r) = [tgid |-> r.tgid, pid |-> r.pid, begin |-> last_tvs[r.tgid], end |-> r.tv]
          /\ Long(FaultOf(r)) <=> r.tv - last_tvs[r.tgid] > Threshold
      BY <1>13, <2>1 DEF FaultOf, Long
    <3>2. CASE Long(FaultOf(r))
      <4>1. log' = log \cup {[tgid |-> r.tgid, pid |-> r.pid, begin |-> last_tvs[r.tgid],
                              end |-> r.tv, sure |-> r.of.sure]}
        BY <1>3, <1>10, <2>1, <3>1, <3>2
      <4> DEFINE e == [tgid |-> r.tgid, pid |-> r.pid, begin |-> last_tvs[r.tgid],
                       end |-> r.tv, sure |-> r.of.sure]
                 F(l) == [tgid |-> l.tgid, pid |-> l.pid, begin |-> l.begin, end |-> l.end]
      <4>2. e.sure /\ F(e) = FaultOf(r)
        BY <2>1, <3>1
      <4>3. log' = log \cup {e}
        BY <4>1
      <4>4. SureLog = {F(l) : l \in {k \in log : k.sure}} /\ SureLog' = {F(l) : l \in {k \in log' : k.sure}}
        BY DEF SureLog
      <4> HIDE DEF e, F
      <4>5. SureLog' = SureLog \cup {FaultOf(r)}
        BY <4>2, <4>3, <4>4
      <4> QED BY <2>1, <3>2, <4>5
    <3>3. CASE ~Long(FaultOf(r))
      BY <1>3, <1>10, <2>1, <3>1, <3>3 DEF SureLog
    <3> QED BY <3>2, <3>3
  <2>2. CASE ~r.of.sure
    <3>1. \A l \in log' : l.sure => l \in log
      BY <1>3, <2>2
    <3>2. log \subseteq log'
      BY <1>3
    <3> QED BY <2>2, <3>1, <3>2 DEF SureLog
  <2> QED BY <2>1, <2>2
<1>15. SureLog' = {f \in real' : Long(f)} \ Pending'
  BY <1>2, <1>8, <1>9, <1>10, <1>11, <1>12, <1>14
<1> QED BY <1>2, <1>5, <1>6, <1>7, <1>15 DEF Records, TrueFaults, SureLog, Long

(* An entry makes its own fault the sure one of the process. *)
LEMMA EntryKeeps ==
  ASSUME TypeOK, Bits, Records, NEW p \in Pids, NEW t \in Tids, NEW first \in BOOLEAN,
         entry_probe(p, t, first)
  PROVE  Records'
<1> DEFINE r == [tgid |-> p, pid |-> t, complete |-> FALSE, tv |-> now, of |-> NoFault]
<1>1. UNCHANGED <<real, now, log, last_tvs, loaded, loads, feed>>
  BY DEF entry_probe, pf, history
<1>2. /\ \A q \in Pids \ {p} : fault'[q] = fault[q]
      /\ \A u \in Tids \ {t} : fault'[p][u].sure => fault[p][u].sure /\ fault'[p][u].at = fault[p][u].at
      /\ fault'[p][t].at = now
  <2>1. CASE Written(p, first)
    <3>1. fault' = [fault EXCEPT ![p] = [u \in Tids |->
                           [at |-> IF u = t THEN now ELSE fault[p][u].at, sure |-> u = t]]]
      BY <2>1 DEF entry_probe, TypeOK
    <3> QED BY <3>1 DEF TypeOK
  <2>2. CASE ~Written(p, first)
    <3>1. fault' = [fault EXCEPT ![p][t] = [at |-> now, sure |-> FALSE]]
      BY <2>2 DEF entry_probe
    <3> QED BY <3>1 DEF TypeOK
  <2> QED BY <2>1, <2>2
<1>3. InTime'
  <2>1. ASSUME NEW q \in Pids, NEW u \in Tids, fault'[q][u].sure, NEW f \in real, f.tgid = q, f.pid = u
        PROVE  f.end <= fault'[q][u].at
    <3>1. CASE q = p /\ u = t
      BY <1>2, <3>1 DEF Records, InTime
    <3>2. CASE ~(q = p /\ u = t)
      BY <1>2, <2>1, <3>2 DEF Records, InTime
    <3> QED BY <3>1, <3>2
  <2> QED BY <1>1, <2>1 DEF Records, InTime
<1>4. CASE ~Written(p, first)
  <2>1. relay' = relay /\ fault' = [fault EXCEPT ![p][t] = [at |-> now, sure |-> FALSE]]
    BY <1>4 DEF entry_probe
  <2>2. ~fault'[p][t].sure
    BY <2>1 DEF TypeOK
  <2>3. loaded' /\ feed' = loads' => Chain'
    <3> SUFFICES ASSUME Chain, NEW q \in Pids, NEW u \in Tids, fault'[q][u].sure
                 PROVE  fault[q][u].sure /\ fault'[q][u].at = fault[q][u].at
      BY <1>1, <2>1 DEF Records, Chain
    <3> QED BY <1>2, <2>2
  <2>4. Once' /\ TrueFaults'
    BY <1>1, <2>1 DEF Records, Once, TrueFaults, Pending
  <2> QED BY <1>3, <2>3, <2>4 DEF Records
<1>5. CASE Written(p, first)
  <2>1. r \in Rec /\ r.of.sure = FALSE /\ relay' = Append(relay, r) /\ Len(relay) < RelayCap
    BY <1>5 DEF entry_probe, Written, TypeOK, Rec, InFault, NoFault, Times
  <2>2. fault' = [fault EXCEPT ![p] = [u \in Tids |->
                         [at |-> IF u = t THEN now ELSE fault[p][u].at, sure |-> u = t]]]
    BY <1>5 DEF entry_probe, TypeOK
  <2>3. \A u \in Tids \ {t} : ~fault'[p][u].sure
    BY <2>2 DEF TypeOK
  <2>4. r.tgid = p /\ ~r.complete /\ r.tv = now
    OBVIOUS
  <2> HIDE DEF r
  <2>5. /\ Len(relay) \in Nat /\ Len(relay') = Len(relay) + 1
        /\ \A i \in 1..Len(relay) : relay'[i] = relay[i]
        /\ relay'[Len(relay) + 1] = r
    BY <2>1, AppendType DEF TypeOK
  <2>6. \A i \in 1..Len(relay') : relay'[i].of.sure => i \in 1..Len(relay) /\ relay'[i] = relay[i]
    BY <2>1, <2>5
  <2>7. ASSUME loaded', feed' = loads' PROVE Chain'
    <3>1. Chain
      BY <1>1, <2>7 DEF Records
    <3>2. ASSUME NEW i \in 1..Len(relay'), relay'[i].of.sure
          PROVE  Timed(relay', last_tvs', relay'[i].tgid, i - 1, relay'[i].of.at)
      <4>1. i \in 1..Len(relay) /\ relay'[i] = relay[i]
        BY <2>6, <3>2
      <4>2. Timed(relay, last_tvs, relay[i].tgid, i - 1, relay[i].of.at)
        BY <3>1, <3>2, <4>1 DEF Chain
      <4>3. i - 1 \in Nat /\ \A j \in 1..i-1 : relay'[j] = relay[j]
        BY <2>5, <4>1
      <4> QED BY <1>1, <4>1, <4>2, <4>3, TimedFrame
    <3>3. ASSUME NEW q \in Pids, NEW u \in Tids, fault'[q][u].sure
          PROVE  Timed(relay', last_tvs', q, Len(relay'), fault'[q][u].at)
      <4>1. CASE q # p
        <5>1. Timed(relay, last_tvs, q, Len(relay), fault[q][u].at) /\ fault'[q][u] = fault[q][u]
          BY <1>2, <3>1, <3>3, <4>1 DEF Chain
        <5>2. Timed(relay', last_tvs', q, Len(relay), fault[q][u].at)
          BY <1>1, <2>5, <5>1, TimedFrame
        <5>3. ~IsEntry(relay', Len(relay) + 1, q)
          BY <2>4, <2>5, <4>1 DEF IsEntry
        <5> QED BY <2>5, <5>1, <5>2, <5>3, TimedExtend
      <4>2. CASE q = p
        <5>1. u = t
          BY <2>3, <3>3, <4>2
        <5>2. IsEntry(relay', Len(relay) + 1, p) /\ relay'[Len(relay) + 1].tv = fault'[p][t].at
          BY <1>2, <2>4, <2>5 DEF IsEntry
        <5>3. Timed(relay', last_tvs', p, Len(relay) + 1, relay'[Len(relay) + 1].tv)
          BY <2>5, <5>2, TimedEntry
        <5> QED BY <2>5, <4>2, <5>1, <5>2, <5>3
      <4> QED BY <4>1, <4>2
    <3> QED BY <3>2, <3>3 DEF Chain
  <2>8. Once'
    <3>1. ASSUME NEW i \in 1..Len(relay'), relay'[i].of.sure
          PROVE  relay'[i].complete /\ FaultOf(relay'[i]) \in real'
      BY <1>1, <2>6, <3>1 DEF Records, Once
    <3>2. ASSUME NEW i \in 1..Len(relay'), NEW j \in 1..Len(relay'), relay'[i].of.sure, relay'[j].of.sure,
                 FaultOf(relay'[i]) = FaultOf(relay'[j]), Long(FaultOf(relay'[i]))
          PROVE  i = j
      BY <2>6, <3>2 DEF Records, Once
    <3> QED BY <3>1, <3>2 DEF Once
  <2>9. Pending' = Pending
    <3>1. \A f : f \in Pending' <=> \E i \in 1..Len(relay') : relay'[i].of.sure /\ f = FaultOf(relay'[i])
      BY DEF Pending
    <3>2. 1..Len(relay) \subseteq 1..Len(relay')
      BY <2>5
    <3> QED BY <2>5, <2>6, <3>1, <3>2, PendingDef
  <2>10. TrueFaults'
    BY <1>1, <2>9 DEF Records, TrueFaults
  <2> QED BY <1>3, <2>7, <2>8, <2>10 DEF Records
<1> QED BY <1>4, <1>5

(* An exit, if it is written, waits in the buffer for pf. *)
LEMMA ExitKeeps ==
  ASSUME TypeOK, Bits, Records, NEW p \in Pids, NEW t \in Tids, NEW first \in BOOLEAN,
         exit_probe(p, t, first)
  PROVE  Records'
<1> DEFINE r == [tgid |-> p, pid |-> t, complete |-> TRUE, tv |-> now, of |-> fault[p][t]]
<1>1. UNCHANGED <<now, log, last_tvs, loaded, loads, feed>>
  BY DEF exit_probe, pf
<1>2. /\ \A q \in Pids \ {p} : fault'[q] = fault[q]
      /\ \A u \in Tids \ {t} : fault'[p][u] = fault[p][u]
      /\ ~fault'[p][t].sure
  <2>1. fault' = [fault EXCEPT ![p][t] = NoFault]
    BY DEF exit_probe
  <2> QED BY <2>1 DEF TypeOK, NoFault
<1>3. \A q \in Pids, u \in Tids : fault'[q][u].sure =>
        fault[q][u].sure /\ fault'[q][u] = fault[q][u] /\ ~(q = p /\ u = t)
  BY <1>2
<1>4. r \in Rec /\ r.complete /\ r.tgid = p /\ r.of = fault[p][t]
      /\ FaultOf(r) = [tgid |-> p, pid |-> t, begin |-> fault[p][t].at, end |-> now]
  BY DEF TypeOK, Rec, FaultOf
<1>5. /\ relay' = IF Written(p, first) THEN Append(relay, r) ELSE relay
      /\ real' = IF Written(p, first) /\ r.of.sure THEN real \cup {FaultOf(r)} ELSE real
  BY DEF exit_probe
<1> HIDE DEF r
<1>6. InTime'
  <2>1. \A f \in real' : f \in real \/ f = FaultOf(r)
    BY <1>5
  <2>2. \A f \in real' : f.end <= now
    BY <1>4, <2>1, SMTT(40) DEF Records, InTime, TypeOK, Times
  <2>3. ASSUME NEW q \in Pids, NEW u \in Tids, fault'[q][u].sure, NEW f \in real', f.tgid = q, f.pid = u
        PROVE  f.end <= fault'[q][u].at
    <3>1. f \in real
      BY <1>3, <1>4, <2>1, <2>3
    <3> QED BY <1>3, <2>3, <3>1 DEF Records, InTime
  <2> QED BY <1>1, <2>2, <2>3 DEF InTime
<1>7. CASE ~Written(p, first)
  <2>1. relay' = relay /\ real' = real
    BY <1>5, <1>7
  <2>2. loaded' /\ feed' = loads' => Chain'
    BY <1>1, <1>3, <2>1 DEF Records, Chain
  <2>3. Once' /\ TrueFaults'
    BY <1>1, <2>1 DEF Records, Once, TrueFaults, Pending
  <2> QED BY <1>6, <2>2, <2>3 DEF Records
<1>8. CASE Written(p, first)
  <2>1. relay' = Append(relay, r) /\ Len(relay) < RelayCap
        /\ real' = IF r.of.sure THEN real \cup {FaultOf(r)} ELSE real
    BY <1>5, <1>8 DEF Written
  <2>2. /\ Len(relay) \in Nat /\ Len(relay') = Len(relay) + 1
        /\ \A i \in 1..Len(relay) : relay'[i] = relay[i]
        /\ relay'[Len(relay) + 1] = r
        /\ \A i \in 1..Len(relay') : i \in 1..Len(relay) \/ i = Len(relay) + 1
    BY <1>4, <2>1, AppendType DEF TypeOK
  <2>3. ASSUME r.of.sure, NEW f \in real, f = FaultOf(r) PROVE ~Long(f)
    <3>1. f.tgid = p /\ f.pid = t /\ f.begin = fault[p][t].at /\ f.end = now
      BY <1>4, <2>3
    <3>2. f.end <= fault[p][t].at
      BY <1>4, <2>3, <3>1 DEF Records, InTime
    <3>3. fault[p][t].at \in Nat /\ now \in Nat
      BY DEF TypeOK, InFault, Times
    <3> QED BY <3>1, <3>2, <3>3 DEF Long
  <2>4. ASSUME loaded', feed' = loads' PROVE Chain'
    <3>1. Chain
      BY <1>1, <2>4 DEF Records
    <3>2. ASSUME NEW i \in 1..Len(relay'), relay'[i].of.sure
          PROVE  Timed(relay', last_tvs', relay'[i].tgid, i - 1, relay'[i].of.at)
      <4>1. CASE i \in 1..Len(relay)
        <5>1. Timed(relay, last_tvs, relay[i].tgid, i - 1, relay[i].of.at) /\ relay'[i] = relay[i]
          BY <2>2, <3>1, <3>2, <4>1 DEF Chain
        <5>2. i - 1 \in Nat /\ \A j \in 1..i-1 : relay'[j] = relay[j]
          BY <2>2, <4>1
        <5> QED BY <1>1, <5>1, <5>2, TimedFrame
      <4>2. CASE i = Len(relay) + 1
        <5>1. i - 1 = Len(relay) /\ relay'[i] = r
          BY <2>2, <4>2
        <5>2. Timed(relay, last_tvs, p, Len(relay), fault[p][t].at)
          BY <1>4, <3>1, <3>2, <5>1 DEF Chain
        <5> QED BY <1>1, <1>4, <2>2, <5>1, <5>2, TimedFrame, ZenonT(60)
      <4> QED BY <2>2, <4>1, <4>2
    <3>3. ASSUME NEW q \in Pids, NEW u \in Tids, fault'[q][u].sure
          PROVE  Timed(relay', last_tvs', q, Len(relay'), fault'[q][u].at)
      <4>1. Timed(relay, last_tvs, q, Len(relay), fault[q][u].at) /\ fault'[q][u] = fault[q][u]
        BY <1>3, <3>1, <3>3 DEF Chain
      <4>2. Timed(relay', last_tvs', q, Len(relay), fault[q][u].at)
        BY <1>1, <2>2, <4>1, TimedFrame
      <4>3. ~IsEntry(relay', Len(relay) + 1, q)
        BY <1>4, <2>2 DEF IsEntry
      <4> QED BY <2>2, <4>1, <4>2, <4>3, TimedExtend
    <3> QED BY <3>2, <3>3 DEF Chain
  <2>5. Once'
    <3>1. ASSUME NEW i \in 1..Len(relay'), relay'[i].of.sure
          PROVE  relay'[i].complete /\ FaultOf(relay'[i]) \in real'
      BY <1>4, <2>1, <2>2, <3>1 DEF Records, Once
    <3>2. ASSUME NEW i \in 1..Len(relay), relay[i].of.sure, r.of.sure
          PROVE  ~(FaultOf(relay[i]) = FaultOf(r) /\ Long(FaultOf(relay[i])))
      BY <2>3, <3>2 DEF Records, Once
    <3>3. ASSUME NEW i \in 1..Len(relay'), NEW j \in 1..Len(relay'), relay'[i].of.sure, relay'[j].of.sure,
                 FaultOf(relay'[i]) = FaultOf(relay'[j]), Long(FaultOf(relay'[i]))
          PROVE  i = j
      <4>1. CASE i \in 1..Len(relay) /\ j \in 1..Len(relay)
        BY <2>2, <3>3, <4>1 DEF Records, Once
      <4>2. CASE i = Len(relay) + 1 /\ j \in 1..Len(relay)
        BY <2>2, <3>2, <3>3, <4>2
      <4>3. CASE i \in 1..Len(relay) /\ j = Len(relay) + 1
        BY <2>2, <3>2, <3>3, <4>3
      <4> QED BY <2>2, <4>1, <4>2, <4>3
    <3> QED BY <3>1, <3>3 DEF Once
  <2>6. Pending' = IF r.of.sure THEN Pending \cup {FaultOf(r)} ELSE Pending
    <3>1. \A f : f \in Pending' <=> \E i \in 1..Len(relay') : relay'[i].of.sure /\ f = FaultOf(relay'[i])
      BY DEF Pending
    <3>2. 1..Len(relay) \subseteq 1..Len(relay') /\ Len(relay) + 1 \in 1..Len(relay')
      BY <2>2
    <3>3. \A f : f \in Pending' <=> f \in Pending \/ (r.of.sure /\ f = FaultOf(r))
      BY <2>2, <3>1, <3>2, PendingDef
    <3> QED BY <3>3
  <2>7. {f \in real' : Long(f)} \ Pending' = {f \in real : Long(f)} \ Pending
    BY <2>1, <2>3, <2>6
  <2>8. TrueFaults'
    BY <1>1, <2>7 DEF Records, TrueFaults, Long
  <2> QED BY <1>6, <2>4, <2>5, <2>8 DEF Records
<1> QED BY <1>7, <1>8

(* Every step keeps Records. *)
LEMMA RecordsStep == TypeOK /\ Bits /\ Records /\ [Next]_vars => Records'
<1> SUFFICES ASSUME TypeOK, Bits, Records, [Next]_vars PROVE Records'
  OBVIOUS
<1> USE DEF module, program, pf, history
<1>1. CASE init_module
  BY <1>1, RecordsFrame DEF init_module, Bits, TypeOK
<1>2. CASE cleanup_module
  <2>1. Pending' = {} /\ Len(relay') = 0
    BY <1>2 DEF cleanup_module, Pending
  <2>2. InTime' /\ TrueFaults'
    BY <1>2, <2>1, LossKeeps DEF cleanup_module, Records
  <2>3. Once'
    BY <2>1 DEF Once
  <2> QED BY <1>2, <2>2, <2>3 DEF cleanup_module, Records
<1>3. CASE pid_off_write_all
  BY <1>3, RecordsFrame DEF pid_off_write_all
<1>4. CASE PfStart
  <2>1. /\ relay' = [i \in 1..Len(relay) |-> [relay[i] EXCEPT !.of.sure = FALSE]]
        /\ fault' = [p \in Pids |-> [t \in Tids |-> [fault[p][t] EXCEPT !.sure = FALSE]]]
        /\ real' = real \ Pending /\ UNCHANGED <<log, now>>
    BY <1>4 DEF PfStart
  <2>2. /\ Len(relay) \in Nat /\ Len(relay') = Len(relay)
        /\ \A i \in 1..Len(relay') : ~relay'[i].of.sure
    BY <2>1, SMTT(40) DEF TypeOK, Rec, InFault
  <2>3. \A p \in Pids, t \in Tids : ~fault'[p][t].sure
    BY <2>1, SMTT(40) DEF TypeOK, InFault
  <2>4. Pending' = {} /\ Once' /\ Chain'
    BY <2>2, <2>3 DEF Pending, Once, Chain
  <2>5. InTime' /\ TrueFaults'
    BY <2>1, <2>3, <2>4, LossKeeps DEF Records
  <2> QED BY <2>4, <2>5 DEF Records
<1>5. CASE PfStop
  BY <1>5, RecordsFrame DEF PfStop, Bits, TypeOK
<1>6. CASE reader_thr
  BY <1>6, ReaderKeeps
<1>7. CASE Tick
  <2>1. now <= now' /\ now \in Nat /\ now' \in Nat /\ \A f \in real : f.end \in Nat
    BY <1>7 DEF Tick, TypeOK, Times, Faults
  <2>2. InTime'
    BY <1>7, <2>1 DEF Tick, Records, InTime
  <2> QED BY <1>7, <2>2 DEF Tick, Records, Chain, Once, TrueFaults, Pending
<1>8. ASSUME NEW p \in Pids, Start(p) \/ Leave(p) \/ Kill(p) \/ fork_init(p) \/ Exec(p)
      PROVE  Records'
  BY <1>8, RecordsFrame DEF Start, Leave, Kill, fork_init, Exec
<1>9. ASSUME NEW p \in Pids, NEW t \in Tids, exit(p, t) \/ real_exit(p, t) PROVE Records'
  BY <1>9, RecordsFrame DEF exit, real_exit
<1>10. ASSUME NEW p \in Pids, NEW t \in Tids, NEW first \in BOOLEAN, entry_probe(p, t, first)
       PROVE  Records'
  BY <1>10, EntryKeeps
<1>11. ASSUME NEW p \in Pids, NEW t \in Tids, NEW first \in BOOLEAN, exit_probe(p, t, first)
       PROVE  Records'
  BY <1>11, ExitKeeps
<1>12. CASE UNCHANGED vars
  BY <1>12, RecordsFrame DEF vars
<1> QED BY <1>1, <1>2, <1>3, <1>4, <1>5, <1>6, <1>7, <1>8, <1>9, <1>10, <1>11, <1>12 DEF Next

-----------------------------------------------------------------------------
(* Theorems *)

(* The initial state satisfies the invariant. *)
LEMMA InitInv == Init => IInv
<1> SUFFICES ASSUME Init PROVE IInv
  OBVIOUS
<1>1. TypeOK
  BY TypeInit
<1>2. Bits /\ OwnStatus
  BY DEF Init, Bits, OwnStatus, AllRun
<1>3. Len(relay) = 0 /\ real = {} /\ log = {} /\ \A p \in Pids, t \in Tids : ~fault[p][t].sure
  BY DEF Init, NoFault
<1>4. InTime /\ Once
  BY <1>3 DEF InTime, Once
<1>5. TrueFaults /\ Chain
  BY <1>3 DEF TrueFaults, Chain
<1> QED BY <1>1, <1>2, <1>4, <1>5 DEF IInv, Records

(* The invariant holds in every state. *)
LEMMA Invariance == Spec => []IInv
<1>1. IInv /\ [Next]_vars => IInv'
  BY TypeStep, BitsStep, RecordsStep DEF IInv
<1> QED BY InitInv, <1>1, PTL DEF Spec

(* The module, pf and the processes keep their types; in particular the    *)
(* relay buffer holds no more records than fit, and no pid too large for   *)
(* the bit map is ever tracked.                                            *)
THEOREM TypeCorrect == Spec => []TypeOK
<1>1. IInv => TypeOK
  BY DEF IInv
<1> QED BY <1>1, Invariance, PTL

(* The bit of a process does not outlive the process, and does not pass to *)
(* the next one with its pid, unless the process ended without exit().     *)
THEOREM BitEndsWithProcess == Spec => []Untracked
<1>1. IInv => Untracked
  BY DEF IInv, TypeOK, Bits, Untracked, AllRun
<1> QED BY <1>1, Invariance, PTL

(* exit() ends a process with the status the program gave it, except in    *)
(* the four cases in which its bit was not its own doing.                  *)
THEOREM StatusKept == Spec => []OwnStatus
<1>1. IInv => OwnStatus
  BY DEF IInv
<1> QED BY <1>1, Invariance, PTL

(* The log of pf holds exactly the faults above the threshold that it can  *)
(* be sure of, each with the times at which it really began and ended.     *)
THEOREM LogIsTrue == Spec => []TrueFaults
<1>1. IInv => TrueFaults
  BY DEF IInv, Records
<1> QED BY <1>1, Invariance, PTL
=============================================================================
