----------------------------- MODULE PageFault ------------------------------
(***************************************************************************)
(* The page fault monitor: the kernel module (pfdura/pfdura-mod.c), its    *)
(* reader pf (trace/pf.c), and the traced processes that switch tracking   *)
(* on and off for themselves (pfdura() in trace/vfd.c).                    *)
(*                                                                         *)
(* A process is tracked by a bit for its pid.  Two probes write a record   *)
(* each when a thread of a tracked process enters and leaves               *)
(* handle_mm_fault(), into a relay buffer per processor; pf reads that of  *)
(* the first processor, remembers the last entry of a process (last_tvs,   *)
(* by tgid) and, when it reads an exit, logs the fault if it took longer   *)
(* than a threshold.                                                       *)
(***************************************************************************)
EXTENDS Integers, Sequences, FiniteSets

CONSTANTS
  Pids,       \* process ids; the kernel hands them out again
  BigPids,    \* those of PID_MAX_DEFAULT or more
  Tids,       \* threads of a process
  Threshold,  \* faults up to that long are not logged: 100 us
  RelayCap,   \* records that fit the relay buffer
  MaxTime,    \* bound: the clock
  MaxStarts,  \* bound: processes that are started
  MaxLoads,   \* bound: loads of the module
  MaxFaults   \* bound: faults that begin

ASSUME PidsAssumption == BigPids \subseteq Pids /\ Tids # {}
ASSUME ThresholdAssumption == Threshold \in Nat
ASSUME PageFaultBounds == /\ RelayCap \in Nat \ {0} /\ MaxTime \in Nat \ {0}
                          /\ MaxStarts \in Nat /\ MaxLoads \in Nat \ {0} /\ MaxFaults \in Nat

VARIABLES
  \* kernel and module
  loads,      \* times the module was loaded
  loaded,     \* whether it is
  track_pids, \* the bits that are set
  relay,      \* the buffer of the first processor
  now,        \* the time of day
  \* the programs
  starts,     \* processes started so far
  proc,       \* proc[p]: "none"; "up", not in the hands of the library (yet);
              \* "traced", after vfd_init()
  pc,         \* pc[p][t]: "run" or, in exit(), "last"
  fault,      \* fault[p][t]: the fault a thread is in
  faults,     \* faults that have begun so far
  \* pf
  feed,       \* the load whose buffer pf has opened; 0: pf does not run
  last_tvs,   \* the last entry of a process
  log,        \* the pairs of SYS_PAGEFAULT records
  \* history
  real,       \* faults with both records in the buffer, or read since
  unsettled,  \* processes whose bit is not what they made it: see the actions
  killed,     \* pids that a traced process gave up without exit()
  status      \* how the last process of a pid left exit(): "own" or "one"

module  == <<loads, loaded, track_pids, relay>>
program == <<starts, proc, pc, fault, faults>>
pf      == <<feed, last_tvs, log>>
history == <<real, unsettled, killed, status>>
vars    == <<module, now, program, pf, history>>

NoFault == [at |-> 0, sure |-> FALSE]
Running == {p \in Pids : proc[p] # "none"}

(* The fault of which r is the exit. *)
FaultOf(r) == [tgid |-> r.tgid, pid |-> r.pid, begin |-> r.of.at, end |-> r.tv]

Pending == {FaultOf(relay[i]) : i \in {j \in 1..Len(relay) : relay[j].of.sure}}

-----------------------------------------------------------------------------
(* pfdura-mod.c *)

(* init_module(): processes that run already are not tracked. *)
init_module ==
  /\ ~loaded /\ loads < MaxLoads
  /\ loaded' = TRUE /\ loads' = loads + 1
  /\ track_pids' = {}
  /\ unsettled' = unsettled \cup Running
  /\ UNCHANGED <<relay, now, program, pf, real, killed, status>>

(* cleanup_module(): what pf has not read is lost. *)
cleanup_module ==
  /\ loaded
  /\ loaded' = FALSE
  /\ track_pids' = {} /\ relay' = << >>
  /\ real' = real \ Pending
  /\ UNCHANGED <<loads, now, program, pf, unsettled, killed, status>>

(* pid_off_write() of 0, which only an operator writes. *)
pid_off_write_all ==
  /\ loaded /\ track_pids # {}
  /\ track_pids' = {}
  /\ unsettled' = unsettled \cup track_pids
  /\ UNCHANGED <<loads, loaded, relay, now, program, pf, real, killed, status>>

(* relay_write(): on another processor the record goes where nobody reads, *)
(* and a full buffer drops it.                                             *)
Written(p, first) == p \in track_pids /\ first /\ Len(relay) < RelayCap

(* A thread enters handle_mm_fault(), on the first processor or not.  Its  *)
(* fault is sure as long as no other entry of the process follows.         *)
entry_probe(p, t, first) ==
  /\ proc[p] # "none" /\ fault[p][t] = NoFault /\ faults < MaxFaults
  /\ faults' = faults + 1
  /\ IF Written(p, first)
     THEN /\ relay' = Append(relay, [tgid |-> p, pid |-> t, complete |-> FALSE, tv |-> now, of |-> NoFault])
          /\ fault' = [fault EXCEPT ![p] = [u \in Tids |->
                         [at |-> IF u = t THEN now ELSE @[u].at, sure |-> u = t]]]
     ELSE /\ fault' = [fault EXCEPT ![p][t] = [at |-> now, sure |-> FALSE]]
          /\ UNCHANGED relay
  /\ UNCHANGED <<loads, loaded, track_pids, now, starts, proc, pc, pf, history>>

exit_probe(p, t, first) ==
  LET r == [tgid |-> p, pid |-> t, complete |-> TRUE, tv |-> now, of |-> fault[p][t]]
  IN  /\ proc[p] # "none" /\ fault[p][t] # NoFault
      /\ relay' = IF Written(p, first) THEN Append(relay, r) ELSE relay
      /\ real' = IF Written(p, first) /\ r.of.sure THEN real \cup {FaultOf(r)} ELSE real
      /\ fault' = [fault EXCEPT ![p][t] = NoFault]
      /\ UNCHANGED <<loads, loaded, track_pids, now, starts, proc, pc, faults, pf, unsettled, killed, status>>

-----------------------------------------------------------------------------
(* pf.c *)

(* main() and the start of reader_thr(): what an earlier pf has read of a  *)
(* fault under way is forgotten.                                           *)
PfStart ==
  /\ feed = 0 /\ loaded
  /\ feed' = loads
  /\ last_tvs' = [p \in Pids |-> 0]
  /\ relay' = [i \in 1..Len(relay) |-> [relay[i] EXCEPT !.of.sure = FALSE]]
  /\ fault' = [p \in Pids |-> [t \in Tids |-> [fault[p][t] EXCEPT !.sure = FALSE]]]
  /\ real' = real \ Pending
  /\ UNCHANGED <<loads, loaded, track_pids, now, starts, proc, pc, faults, log, unsettled, killed, status>>

(* SIGINT or SIGTERM. *)
PfStop ==
  /\ feed # 0
  /\ feed' = 0
  /\ UNCHANGED <<module, now, program, last_tvs, log, history>>

(* Mutant: a fault is timed from the first entry of the process. *)
Entered_first(r) ==
  last_tvs' = [last_tvs EXCEPT ![r.tgid] = IF @ = 0 THEN r.tv ELSE @]

Entered(r) == last_tvs' = [last_tvs EXCEPT ![r.tgid] = r.tv]

(* A buffer whose module has been unloaded gives nothing, for ever. *)
reader_thr ==
  /\ feed = loads /\ relay # << >>
  /\ relay' = Tail(relay)
  /\ LET r == Head(relay)
     IN  IF r.complete
         THEN /\ log' = IF r.tv - last_tvs[r.tgid] > Threshold
                        THEN log \cup {[tgid |-> r.tgid, pid |-> r.pid, begin |-> last_tvs[r.tgid],
                                        end |-> r.tv, sure |-> r.of.sure]}
                        ELSE log
              /\ UNCHANGED last_tvs
         ELSE Entered(r) /\ UNCHANGED log
  /\ UNCHANGED <<loads, loaded, track_pids, now, program, feed, history>>

-----------------------------------------------------------------------------
(* vfd.c *)

(* The process is over once its threads have left the kernel. *)
Over(p) ==
  /\ \A t \in Tids : fault[p][t] = NoFault
  /\ proc' = [proc EXCEPT ![p] = "none"]
  /\ pc' = [pc EXCEPT ![p] = [t \in Tids |-> "run"]]

(* fork() by some process, or the kernel's. *)
Start(p) ==
  /\ proc[p] = "none" /\ starts < MaxStarts
  /\ starts' = starts + 1
  /\ proc' = [proc EXCEPT ![p] = "up"]
  /\ unsettled' = unsettled \ {p}
  /\ status' = [status EXCEPT ![p] = "own"]
  /\ UNCHANGED <<module, now, pc, fault, faults, pf, real, killed>>

(* A process without the library ends. *)
Leave(p) ==
  /\ proc[p] = "up" /\ Over(p)
  /\ UNCHANGED <<module, now, starts, fault, faults, pf, history>>

(* pfdura(1, pid), in fork_init().  pid_on_write() refuses a large pid,    *)
(* and the process ends.                                                   *)
fork_init(p) ==
  /\ proc[p] = "up"
  /\ IF loaded /\ p \in BigPids
     THEN /\ Over(p)
          /\ status' = [status EXCEPT ![p] = "one"]
          /\ unsettled' = unsettled \cup {p}
          /\ UNCHANGED <<track_pids, killed>>
     ELSE /\ proc' = [proc EXCEPT ![p] = "traced"]
          /\ track_pids' = IF loaded THEN track_pids \cup {p} ELSE track_pids
          /\ killed' = killed \ {p}
          /\ UNCHANGED <<pc, status, unsettled>>
  /\ UNCHANGED <<loads, loaded, relay, now, starts, fault, faults, pf, real>>

(* exec() keeps the pid, and the bit. *)
Exec(p) ==
  /\ proc[p] = "traced" /\ \A t \in Tids : pc[p][t] = "run" /\ fault[p][t] = NoFault
  /\ proc' = [proc EXCEPT ![p] = "up"]
  /\ killed' = killed \cup {p}
  /\ UNCHANGED <<module, now, starts, pc, fault, faults, pf, real, unsettled, status>>

(* Mutant: exit() does not untrack, as abort(). *)
exit_tracked(p, t) ==
  /\ proc[p] = "traced" /\ pc[p][t] = "run"
  /\ pc' = [pc EXCEPT ![p][t] = "last"]
  /\ UNCHANGED <<module, now, starts, proc, fault, faults, pf, history>>

(* Mutant: it untracks before and after it flushes. *)
real_exit_untracks(p, t) ==
  /\ proc[p] = "traced" /\ pc[p][t] = "last" /\ Over(p)
  /\ status' = [status EXCEPT ![p] = IF loaded /\ p \notin track_pids THEN "one" ELSE @]
  /\ UNCHANGED <<module, now, starts, fault, faults, pf, real, unsettled, killed>>

(* exit(): pfdura(0, pid).  pid_off_write() refuses a pid whose bit is not *)
(* set: then the process ends there, by real_exit(1), whose atexit()       *)
(* handler vfd_shutdown() still flushes its records.                       *)
exit(p, t) ==
  /\ proc[p] = "traced" /\ pc[p][t] = "run"
  /\ IF loaded /\ p \notin track_pids
     THEN /\ Over(p)
          /\ status' = [status EXCEPT ![p] = "one"]
          /\ unsettled' = IF \E u \in Tids : pc[p][u] = "last" THEN unsettled \cup {p} ELSE unsettled
          /\ UNCHANGED track_pids
     ELSE /\ track_pids' = track_pids \ {p}
          /\ pc' = [pc EXCEPT ![p][t] = "last"]
          /\ UNCHANGED <<proc, status, unsettled>>
  /\ UNCHANGED <<loads, loaded, relay, now, starts, fault, faults, pf, real, killed>>

(* lb_flush() and real_exit(status) *)
real_exit(p, t) ==
  /\ proc[p] = "traced" /\ pc[p][t] = "last" /\ Over(p)
  /\ UNCHANGED <<module, now, starts, fault, faults, pf, history>>

(* abort(), _exit(), a signal: nobody clears the bit. *)
Kill(p) ==
  /\ proc[p] = "traced" /\ Over(p)
  /\ killed' = killed \cup {p}
  /\ UNCHANGED <<module, now, starts, fault, faults, pf, real, unsettled, status>>

Tick ==
  /\ now < MaxTime
  /\ now' = now + 1
  /\ UNCHANGED <<module, program, pf, history>>

-----------------------------------------------------------------------------
Init ==
  /\ loads = 0 /\ loaded = FALSE /\ track_pids = {} /\ relay = << >>
  /\ now = 1 /\ starts = 0 /\ faults = 0
  /\ proc = [p \in Pids |-> "none"]
  /\ pc = [p \in Pids |-> [t \in Tids |-> "run"]]
  /\ fault = [p \in Pids |-> [t \in Tids |-> NoFault]]
  /\ feed = 0 /\ last_tvs = [p \in Pids |-> 0] /\ log = {}
  /\ real = {} /\ unsettled = {} /\ killed = {} /\ status = [p \in Pids |-> "own"]

Next ==
  \/ init_module \/ cleanup_module \/ pid_off_write_all
  \/ PfStart \/ PfStop \/ reader_thr \/ Tick
  \/ \E p \in Pids :
       \/ Start(p) \/ Leave(p) \/ fork_init(p) \/ Exec(p) \/ Kill(p)
       \/ \E t \in Tids : exit(p, t) \/ real_exit(p, t)
       \/ \E t \in Tids, first \in BOOLEAN : entry_probe(p, t, first) \/ exit_probe(p, t, first)

Spec == Init /\ [][Next]_vars

-----------------------------------------------------------------------------
(* Properties *)

Times == 0..MaxTime
Faults == [tgid : Pids, pid : Tids, begin : Times, end : Times]
InFault == [at : Times, sure : BOOLEAN]
Rec == [tgid : Pids, pid : Tids, complete : BOOLEAN, tv : Times, of : InFault]

(* Types of the module, of pf and of the processes. *)
TypeOK ==
  /\ loads \in 0..MaxLoads /\ loaded \in BOOLEAN /\ track_pids \subseteq Pids \ BigPids
  /\ relay \in Seq(Rec) /\ Len(relay) <= RelayCap
  /\ now \in Times /\ starts \in 0..MaxStarts /\ faults \in 0..MaxFaults
  /\ proc \in [Pids -> {"none", "up", "traced"}] /\ pc \in [Pids -> [Tids -> {"run", "last"}]]
  /\ fault \in [Pids -> [Tids -> InFault]]
  /\ feed \in 0..MaxLoads /\ last_tvs \in [Pids -> Times]
  /\ log \subseteq [tgid : Pids, pid : Tids, begin : Times, end : Times, sure : BOOLEAN]
  /\ real \subseteq Faults /\ unsettled \subseteq Pids /\ killed \subseteq Pids
  /\ status \in [Pids -> {"own", "one"}]

(* pf logs a fault with the times it really began and ended at, and every  *)
(* fault that took longer than the threshold, whatever else the processes  *)
(* do and however far pf is behind; except for a fault that another thread *)
(* of the process had one inside of, or one of whose records was lost      *)
(* (buffer full, other processor, pf or module restarted).                 *)
TrueFaults ==
  {[tgid |-> l.tgid, pid |-> l.pid, begin |-> l.begin, end |-> l.end] : l \in {k \in log : k.sure}}
    = {f \in real : f.end - f.begin > Threshold} \ Pending

(* exit() ends the process with the status the program gave it, unless the *)
(* module was loaded after the process, an operator untracked all, two     *)
(* threads are in exit(), or the pid is too large for the module.          *)
OwnStatus == \A p \in Pids : status[p] = "one" => p \in unsettled

(* Only running traced processes are tracked: the bit does not outlive the *)
(* process and pass to the next one with its pid, unless the process ended *)
(* some other way than exit() (abort() does not untrack).                  *)
Untracked ==
  \A p \in track_pids : p \in killed \/ (proc[p] = "traced" /\ \E t \in Tids : pc[p][t] = "run")
=============================================================================
