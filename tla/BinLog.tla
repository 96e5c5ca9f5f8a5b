------------------------------- MODULE BinLog -------------------------------
(***************************************************************************)
(* The logging half of libbtrace.so (logd/binlog.c and its callers in      *)
(* trace/vfd.c): every thread collects records in a buffer of its own and  *)
(* flushes it to the connection its process has to the log daemon, on a    *)
(* descriptor that all threads and forked children share.                  *)
(*                                                                         *)
(* A wrapped call is a list of library steps, kept in todo[t] and executed *)
(* one at a time, so that other tasks run in between: read(), for          *)
(* instance, is <<log>>, and fork() is <<flush, fork>>.  A byte is         *)
(* <<t, n, k, s>>: byte k of the s bytes of record n of task t.            *)
(***************************************************************************)
EXTENDS Integers, Sequences, FiniteSets

CONSTANTS
  PIPE_BUF,   \* bytes in a thread's buffer
  Programs,   \* the kinds of program that are checked: records of
              \*   sizes    sizes of the records (predict_size()) it logs
              \*   partial  whether write() may write less than it is asked to
              \*   threads  whether it creates threads
              \*   overlap  whether it creates a thread, or forks, while another
              \*            one of its threads starts or exits
              \*   tasks, procs, conns, recs   bounds: its threads, over all
              \*            processes; its processes; its connections to the log
              \*            daemon; records of a task, not counting its last
  NTasks, NProcs, NConns   \* the largest of these bounds

ASSUME PipeBufAssumption == PIPE_BUF \in Nat /\ PIPE_BUF > 2
ASSUME BinLogBounds == NTasks \in Nat \ {0} /\ NProcs \in Nat \ {0} /\ NConns \in Nat \ {0}
ASSUME ProgramsAssumption ==
  \A g \in Programs :
    /\ g.sizes \subseteq Nat \ {0} /\ g.recs \in Nat
    /\ g.partial \in BOOLEAN /\ g.threads \in BOOLEAN /\ g.overlap \in BOOLEAN
    /\ g.tasks \in 1..NTasks /\ g.procs \in 1..NProcs /\ g.conns \in 1..NConns

Tasks == 1..NTasks
Procs == 1..NProcs
Conns == 1..NConns            \* in the order socket() makes them
LOGD_FD == 0                  \* 79 in the code
Fds == 0..NConns              \* LOGD_FD, and what socket() returns
None == 0                     \* no task, process or connection; a closed descriptor
CtlSize == 2                  \* bytes of the records the library adds of its own

VARIABLES
  prog,      \* the program, one of Programs
  proc,      \* the process a task belongs to
  todo,      \* the library steps a task has yet to do; << >> in program code
  lb,        \* the first lbptr bytes of its buffer
  start,     \* how many of them lb_flush() has written
  nrec,      \* records it has put in its buffer so far
  ctxfd,     \* ctx->logfd
  newfd,     \* newfd of logd_init()
  state,     \* "idle" (not created yet), "live", "ended"
  logfd,     \* the global logfd of a process
  fdtab,     \* its descriptors: the connection each refers to
  fate,      \* of a process: "running"; "asked" (it calls exit(), abort() or
             \* returns from main()); "fatal" (the library ends it)
  up,        \* the connections that connect() has established
  wire,      \* the bytes written to a connection
  parent     \* who forked a task, and after how many records

vars == <<prog, proc, todo, lb, start, nrec, ctxfd, newfd, state, logfd, fdtab, fate, up,
          wire, parent>>
kernel == <<fdtab, up, wire>>
task == <<proc, lb, start, nrec, ctxfd, newfd, state>>

Record(t, n, s) == [k \in 1..s |-> <<t, n, k, s>>]

(* Steps. *)
log(s)    == <<"log", s>>
append(s) == <<"append", s>>
flush     == <<"flush", 0>>
step(op)  == <<op, 0>>

Step == {"log", "append", "flush", "fork", "spawn", "exec", "end", "close", "die",
         "socket", "connect", "dup2", "newfd", "ctx"} \X Nat

Has(t, op) == \E i \in 1..Len(todo[t]) : todo[t][i][1] = op

MinOf(S) == CHOOSE x \in S : \A y \in S : x <= y

-----------------------------------------------------------------------------
(* The wrapped calls *)

Calls(t) == state[t] = "live" /\ todo[t] = << >>

Begin(t, steps) ==
  /\ todo' = [todo EXCEPT ![t] = steps]
  /\ UNCHANGED <<task, logfd, kernel, parent, prog>>

(* Any call that only logs: read(), open(), connect(), ... *)
Call(t) ==
  /\ Calls(t) /\ nrec[t] < prog.recs
  /\ \E s \in prog.sizes : Begin(t, <<log(s)>>)
  /\ UNCHANGED fate

IdleTasks == {u \in 1..prog.tasks : state[u] = "idle"}
IdleProcs == {p \in 1..prog.procs : \A u \in Tasks : proc[u] # p}

(* Mutant: the parent's records are left in its buffer. *)
fork_steps_unflushed == <<step("fork")>>

fork_steps == <<flush, step("fork")>>

fork(t) == /\ Calls(t) /\ IdleTasks # {} /\ IdleProcs # {}
           /\ Begin(t, fork_steps)
           /\ UNCHANGED fate

(* Mutant: the descriptor is closed before it is duplicated. *)
logd_init_closes_first ==
  <<step("socket"), step("connect"), step("close"), step("dup2"), step("newfd"), step("ctx")>>

logd_init ==
  <<step("socket"), step("connect"), step("dup2"), step("close"), step("newfd"), step("ctx")>>

(* Connections made, and those that tasks are about to make. *)
Made == {c \in Conns : \E p \in Procs, f \in Fds : fdtab[p][f] = c} \cup up
Claimed == Cardinality(Made) + Cardinality({u \in Tasks : state[u] = "live" /\ Has(u, "socket")})

pthread_create(t) ==
  /\ prog.threads /\ Calls(t) /\ IdleTasks # {} /\ Claimed < prog.conns
  /\ Begin(t, <<log(CtlSize), step("spawn"), log(CtlSize)>>)
  /\ UNCHANGED fate

execve(t) ==
  /\ Calls(t) /\ nrec[t] < prog.recs /\ Claimed < prog.conns
  /\ Begin(t, <<log(CtlSize), flush, step("exec")>>)
  /\ UNCHANGED fate

(* Mutant: exit() leaves the records to the operating system. *)
exit_steps_unflushed == <<log(CtlSize), step("close"), step("die")>>

(* exit(): a flush, then vfd_shutdown() from atexit(). *)
exit_steps == <<flush, log(CtlSize), flush, step("close"), step("die")>>

(* exit(); a return from main(), which is not wrapped; abort(). *)
exit(t) ==
  /\ Calls(t)
  /\ fate' = [fate EXCEPT ![proc[t]] = "asked"]
  /\ \/ Begin(t, exit_steps)
     \/ Begin(t, Tail(exit_steps))
     \/ Begin(t, <<flush, step("die")>>)

(* The thread's function returns. *)
Return(t) == /\ prog.threads /\ Calls(t) /\ t # MinOf({u \in Tasks : proc[u] = proc[t]})
             /\ Begin(t, <<flush, step("end")>>)
             /\ UNCHANGED fate

-----------------------------------------------------------------------------
(* The steps *)

At(t, op) == state[t] = "live" /\ todo[t] # << >> /\ Head(todo[t])[1] = op

Done(t) == todo' = [todo EXCEPT ![t] = Tail(@)]

(* The records of a task so far, and one more of s bytes. *)
Put(t, s) ==
  /\ nrec' = [nrec EXCEPT ![t] = @ + 1]
  /\ lb' = [lb EXCEPT ![t] = @ \o Record(t, nrec[t] + 1, s)]

Fatal(t) ==
  fate' = [fate EXCEPT ![proc[t]] = IF @ = "running" THEN "fatal" ELSE @]

(* The process of t is over, and all its threads with it. *)
Gone(t) ==
  /\ state' = [u \in Tasks |-> IF proc[u] = proc[t] THEN "ended" ELSE state[u]]
  /\ fdtab' = [fdtab EXCEPT ![proc[t]] = [f \in Fds |-> None]]

(* Mutant: there is room for a little more. *)
NoRoom_off_by_one(t, s) == Len(lb[t]) + s > PIPE_BUF + 1

NoRoom(t, s) == Len(lb[t]) + s > PIPE_BUF - 1

(* lb_alloc_bytes(), and the record that LOGBIN_gen() puts there. *)
lb_alloc_bytes(t) ==
  /\ At(t, "log")
  /\ LET s == Head(todo[t])[2]
     IN  \/ /\ s > PIPE_BUF         \* "alloc too big": exit(1)
            /\ todo' = [todo EXCEPT ![t] = exit_steps]
            /\ Fatal(t)
            /\ UNCHANGED <<nrec, lb>>
         \/ /\ s <= PIPE_BUF /\ NoRoom(t, s)
            /\ todo' = [todo EXCEPT ![t] = <<flush, append(s)>> \o Tail(@)]
            /\ UNCHANGED <<nrec, lb, fate>>
         \/ /\ s <= PIPE_BUF /\ ~NoRoom(t, s)
            /\ Put(t, s) /\ Done(t)
            /\ UNCHANGED fate
  /\ UNCHANGED <<proc, start, ctxfd, newfd, state, logfd, kernel, parent, prog>>

LogAfterFlush(t) ==
  /\ At(t, "append")
  /\ Put(t, Head(todo[t])[2]) /\ Done(t)
  /\ UNCHANGED <<proc, start, ctxfd, newfd, state, logfd, kernel, fate, parent, prog>>

(* The connection behind ctx->logfd. *)
ConnOf(t) == IF ctxfd[t] \in Fds THEN fdtab[proc[t]][ctxfd[t]] ELSE None

(* Mutant: the buffer goes out a byte at a time. *)
lb_flush_write_bytewise(t) ==
  /\ At(t, "flush") /\ start[t] < Len(lb[t]) /\ ConnOf(t) \in up
  /\ wire' = [wire EXCEPT ![ConnOf(t)] = @ \o SubSeq(lb[t], start[t] + 1, start[t] + 1)]
  /\ start' = [start EXCEPT ![t] = @ + 1]
  /\ UNCHANGED <<proc, todo, lb, nrec, ctxfd, newfd, state, logfd, fdtab, up, fate, parent, prog>>

(* lb_flush(): one write() of what is left. *)
lb_flush_write(t) ==
  /\ At(t, "flush") /\ start[t] < Len(lb[t]) /\ ConnOf(t) \in up
  /\ \E r \in 1..Len(lb[t]) - start[t] :
       /\ prog.partial \/ r = Len(lb[t]) - start[t]
       /\ wire' = [wire EXCEPT ![ConnOf(t)] = @ \o SubSeq(lb[t], start[t] + 1, start[t] + r)]
       /\ start' = [start EXCEPT ![t] = @ + r]
  /\ UNCHANGED <<proc, todo, lb, nrec, ctxfd, newfd, state, logfd, fdtab, up, fate, parent, prog>>

(* write() on a closed descriptor: exit(1), whose flush fails the same way *)
(* until the stack is used up.  On a socket that is not connected yet:     *)
(* SIGPIPE.                                                                *)
lb_flush_fails(t) ==
  /\ At(t, "flush") /\ start[t] < Len(lb[t]) /\ ConnOf(t) \notin up
  /\ Fatal(t)
  /\ \/ /\ ConnOf(t) = None /\ todo[t] # exit_steps
        /\ todo' = [todo EXCEPT ![t] = exit_steps]
        /\ start' = [start EXCEPT ![t] = 0]
        /\ UNCHANGED <<state, fdtab>>
     \/ /\ ConnOf(t) = None => todo[t] = exit_steps
        /\ Gone(t)
        /\ UNCHANGED <<todo, start>>
  /\ UNCHANGED <<proc, lb, nrec, ctxfd, newfd, logfd, up, wire, parent, prog>>

(* Mutant: one write() is taken to be enough. *)
lb_flush_done_early(t) ==
  /\ At(t, "flush") /\ (start[t] > 0 \/ lb[t] = << >>)
  /\ lb' = [lb EXCEPT ![t] = << >>]
  /\ start' = [start EXCEPT ![t] = 0]
  /\ Done(t)
  /\ UNCHANGED <<proc, nrec, ctxfd, newfd, state, logfd, kernel, fate, parent, prog>>

lb_flush_done(t) ==
  /\ At(t, "flush") /\ start[t] = Len(lb[t])
  /\ lb' = [lb EXCEPT ![t] = << >>]
  /\ start' = [start EXCEPT ![t] = 0]
  /\ Done(t)
  /\ UNCHANGED <<proc, nrec, ctxfd, newfd, state, logfd, kernel, fate, parent, prog>>

(* A program that keeps its calls apart forks, or creates a thread, only   *)
(* when no other thread of it is in logd_init() or in exit().              *)
Apart(t) ==
  \/ prog.overlap
  \/ \A u \in Tasks \ {t} : proc[u] = proc[t] /\ state[u] = "live" =>
                              ~Has(u, "ctx") /\ ~Has(u, "die")

(* real_fork(): the child has the parent's descriptors, a fresh context    *)
(* (fork_init(), alloc_ctx()) and the record of its birth.                 *)
fork_child(t) ==
  /\ At(t, "fork") /\ Apart(t)
  /\ IF IdleTasks = {} \/ IdleProcs = {}
     THEN UNCHANGED <<task, logfd, fdtab, parent>>     \* fork() fails
     ELSE LET u == MinOf(IdleTasks)
              p == MinOf(IdleProcs)
          IN  /\ proc'  = [proc EXCEPT ![u] = p]
              /\ state' = [state EXCEPT ![u] = "live"]
              /\ logfd' = [logfd EXCEPT ![p] = logfd[proc[t]]]
              /\ fdtab' = [fdtab EXCEPT ![p] = fdtab[proc[t]]]
              /\ ctxfd' = [ctxfd EXCEPT ![u] = logfd[proc[t]]]
              /\ parent' = [parent EXCEPT ![u] = <<t, nrec[t]>>]
              /\ nrec'  = [nrec EXCEPT ![u] = 1]
              /\ lb'    = [lb EXCEPT ![u] = Record(u, 1, CtlSize)]
              /\ UNCHANGED <<start, newfd>>
  /\ Done(t)
  /\ UNCHANGED <<fate, up, wire, prog>>

(* real_pthread_create(); the thread runs start_routine_wrapper(). *)
spawn(t) ==
  /\ At(t, "spawn") /\ Apart(t)
  /\ IF IdleTasks = {} \/ Claimed >= prog.conns
     THEN Done(t) /\ UNCHANGED <<proc, state>>
     ELSE LET u == MinOf(IdleTasks)
          IN  /\ proc'  = [proc EXCEPT ![u] = proc[t]]
              /\ state' = [state EXCEPT ![u] = "live"]
              /\ todo'  = [todo EXCEPT ![t] = Tail(@), ![u] = logd_init \o <<log(CtlSize)>>]
  /\ UNCHANGED <<lb, start, nrec, ctxfd, newfd, logfd, kernel, fate, parent, prog>>

(* real_execve(): fails, or the new image has one thread, the descriptors  *)
(* and nothing else, and runs vfd_init().                                  *)
exec(t) ==
  /\ At(t, "exec")
  /\ \/ Done(t) /\ UNCHANGED <<state, fate>>
     \/ /\ Claimed < prog.conns
        /\ state' = [u \in Tasks |-> IF u # t /\ proc[u] = proc[t] THEN "ended" ELSE state[u]]
        /\ fate'  = [fate EXCEPT ![proc[t]] = "running"]
        /\ todo'  = [todo EXCEPT ![t] = logd_init \o <<log(CtlSize)>>]
  /\ UNCHANGED <<proc, lb, start, nrec, ctxfd, newfd, logfd, kernel, parent, prog>>

(* logd_init(), one access to the global logfd at a time. *)
FreeFds(p) == {f \in Fds \ {LOGD_FD} : fdtab[p][f] = None}

logd_init_socket(t) ==
  /\ At(t, "socket")
  /\ LET p == proc[t]
         f == MinOf(FreeFds(p))
     IN  /\ logfd' = [logfd EXCEPT ![p] = f]
         /\ fdtab' = [fdtab EXCEPT ![p][f] = MinOf(Conns \ Made)]
  /\ Done(t)
  /\ UNCHANGED <<task, up, wire, fate, parent, prog>>

Global(t) == IF logfd[proc[t]] \in Fds THEN fdtab[proc[t]][logfd[proc[t]]] ELSE None

(* real_connect(logfd): fails on a closed descriptor and on one that is    *)
(* connected already; the thread has no context yet, so that the           *)
(* vfd_shutdown() of real_exit() logs through a null pointer.              *)
logd_init_connect(t) ==
  /\ At(t, "connect")
  /\ \/ /\ Global(t) \in Conns \ up
        /\ up' = up \cup {Global(t)}
        /\ Done(t)
        /\ UNCHANGED <<state, fdtab, fate>>
     \/ /\ Global(t) \in up \cup {None}
        /\ Fatal(t) /\ Gone(t)
        /\ UNCHANGED <<todo, up>>
  /\ UNCHANGED <<proc, lb, start, nrec, ctxfd, newfd, logfd, wire, parent, prog>>

logd_init_dup2(t) ==
  /\ At(t, "dup2")
  /\ IF Global(t) = None
     THEN newfd' = [newfd EXCEPT ![t] = -1] /\ UNCHANGED fdtab
     ELSE /\ newfd' = [newfd EXCEPT ![t] = LOGD_FD]
          /\ fdtab' = [fdtab EXCEPT ![proc[t]][LOGD_FD] = Global(t)]
  /\ Done(t)
  /\ UNCHANGED <<proc, lb, start, nrec, ctxfd, state, logfd, up, wire, fate, parent, prog>>

(* real_close(logfd), here and in vfd_shutdown(). *)
close_logfd(t) ==
  /\ At(t, "close")
  /\ LET p == proc[t]
     IN  fdtab' = IF logfd[p] \in Fds THEN [fdtab EXCEPT ![p][logfd[p]] = None] ELSE fdtab
  /\ Done(t)
  /\ UNCHANGED <<task, logfd, up, wire, fate, parent, prog>>

logd_init_newfd(t) ==
  /\ At(t, "newfd")
  /\ logfd' = [logfd EXCEPT ![proc[t]] = newfd[t]]
  /\ Done(t)
  /\ UNCHANGED <<task, kernel, fate, parent, prog>>

alloc_ctx(t) ==
  /\ At(t, "ctx")
  /\ ctxfd' = [ctxfd EXCEPT ![t] = logfd[proc[t]]]
  /\ lb'    = [lb EXCEPT ![t] = << >>]
  /\ Done(t)
  /\ UNCHANGED <<proc, start, nrec, newfd, state, logfd, kernel, fate, parent, prog>>

End(t) ==
  /\ At(t, "end")
  /\ state' = [state EXCEPT ![t] = "ended"]
  /\ Done(t)
  /\ UNCHANGED <<proc, lb, start, nrec, ctxfd, newfd, logfd, kernel, fate, parent, prog>>

real_exit(t) ==
  /\ At(t, "die")
  /\ Gone(t) /\ Done(t)
  /\ UNCHANGED <<proc, lb, start, nrec, ctxfd, newfd, logfd, up, wire, fate, parent, prog>>

-----------------------------------------------------------------------------
(* One process, after vfd_init(). *)
Init ==
  /\ prog \in Programs
  /\ proc  = [t \in Tasks |-> IF t = 1 THEN 1 ELSE None]
  /\ state = [t \in Tasks |-> IF t = 1 THEN "live" ELSE "idle"]
  /\ todo  = [t \in Tasks |-> << >>]
  /\ lb    = [t \in Tasks |-> << >>]
  /\ start = [t \in Tasks |-> 0]
  /\ nrec  = [t \in Tasks |-> 0]
  /\ ctxfd = [t \in Tasks |-> LOGD_FD]
  /\ newfd = [t \in Tasks |-> -1]
  /\ logfd = [p \in Procs |-> LOGD_FD]
  /\ fdtab = [p \in Procs |-> [f \in Fds |-> IF p = 1 /\ f = LOGD_FD THEN 1 ELSE None]]
  /\ fate  = [p \in Procs |-> "running"]
  /\ up    = {1}
  /\ wire  = [c \in Conns |-> << >>]
  /\ parent = [t \in Tasks |-> <<None, 0>>]

Program(t) == Call(t) \/ fork(t) \/ pthread_create(t) \/ execve(t) \/ exit(t) \/ Return(t)

Library(t) ==
  \/ lb_alloc_bytes(t) \/ LogAfterFlush(t)
  \/ lb_flush_write(t) \/ lb_flush_fails(t) \/ lb_flush_done(t)
  \/ fork_child(t) \/ spawn(t) \/ exec(t)
  \/ logd_init_socket(t) \/ logd_init_connect(t) \/ logd_init_dup2(t)
  \/ close_logfd(t) \/ logd_init_newfd(t) \/ alloc_ctx(t)
  \/ End(t) \/ real_exit(t)

Next == \E t \in Tasks : Program(t) \/ Library(t)

Spec == Init /\ [][Next]_vars

-----------------------------------------------------------------------------
(* Properties *)

Byte == Tasks \X Nat \X (Nat \ {0}) \X (Nat \ {0})

(* No buffer is ever longer than PIPE_BUF, however the sizes of records    *)
(* add up (lb_alloc_bytes()), and lb_flush() never runs past its end.      *)
TypeOK ==
  /\ proc \in [Tasks -> Procs \cup {None}]
  /\ \A t \in Tasks : /\ lb[t] \in Seq(Byte) /\ Len(lb[t]) <= PIPE_BUF
                      /\ start[t] \in 0..Len(lb[t])
                      /\ todo[t] \in Seq(Step)
  /\ nrec \in [Tasks -> Nat]
  /\ ctxfd \in [Tasks -> Fds \cup {-1}]
  /\ newfd \in [Tasks -> {LOGD_FD, -1}]
  /\ state \in [Tasks -> {"idle", "live", "ended"}]
  /\ logfd \in [Procs -> Fds \cup {-1}]
  /\ fdtab \in [Procs -> [Fds -> Conns \cup {None}]]
  /\ fate \in [Procs -> {"running", "asked", "fatal"}]
  /\ up \subseteq Conns
  /\ \A c \in Conns : wire[c] \in Seq(Byte)
  /\ parent \in [Tasks -> (Tasks \cup {None}) \X Nat]

(* The places of the bytes of t on connection c, and in its buffer behind   *)
(* what lb_flush() has written.                                            *)
Sent(t, c) == {i \in 1..Len(wire[c]) : wire[c][i][1] = t}
Kept(t) == start[t]+1..Len(lb[t])

Arrived(t, c) == {wire[c][i] : i \in Sent(t, c)}
Bytes(t) == (UNION {Arrived(t, c) : c \in Conns}) \cup {lb[t][i] : i \in Kept(t)}

(* Byte a was logged before byte b of the same task. *)
Before(a, b) == a[2] < b[2] \/ (a[2] = b[2] /\ a[3] < b[3])

(* The task was done with connection c before it came to use d. *)
Earlier(t, c, d) == \A i \in Sent(t, c), j \in Sent(t, d) : Before(wire[c][i], wire[d][j])

Ascending(t) ==
  /\ \A c \in Conns : \A i, j \in Sent(t, c) : i < j => Before(wire[c][i], wire[c][j])
  /\ \A c, d \in Conns : c # d => Earlier(t, c, d) \/ Earlier(t, d, c)
  /\ \A c \in Conns : \A i \in Sent(t, c), j \in Kept(t) : Before(wire[c][i], lb[t][j])
  /\ \A i, j \in Kept(t) : i < j => Before(lb[t][i], lb[t][j])

Complete(t) ==
  LET bytes == Bytes(t)
  IN  /\ \A b \in bytes : b[2] \in 1..nrec[t]
      /\ \A n \in 1..nrec[t] : \E s \in 1..PIPE_BUF :
           {b \in bytes : b[2] = n} = {<<t, n, k, s>> : k \in 1..s}

(* Every byte a live task has logged is on the wire or still in its        *)
(* buffer, once, in the order of its records, through flushes caused by a  *)
(* full buffer, short writes, fork(), thread starts and exec().            *)
Conserved == \A t \in Tasks : state[t] = "live" => Ascending(t) /\ Complete(t)

(* A connection carries whole records, one after the other: what logd's    *)
(* framing of the stream relies on, and only the order and size of the     *)
(* writes of all the tasks that share the descriptor provide.  A short     *)
(* write lets another task's records in between.                           *)
WholeRecords ==
  \/ prog.partial
  \/ \A c \in Conns :
       LET q == wire[c]
       IN  \A i \in 1..Len(q) :
             /\ q[i][3] > 1 => i > 1 /\ q[i-1] = [q[i] EXCEPT ![3] = @ - 1]
             /\ q[i][3] = 1 /\ i > 1 => q[i-1][3] = q[i-1][4]

(* A forked child comes into being only after the records its parent       *)
(* logged before fork() are on the wire, so that no record of the child    *)
(* overtakes them.                                                         *)
ForkOrder ==
  \A u \in Tasks : parent[u][1] # None =>
    \A n \in 1..parent[u][2] :
      \E c \in Conns : \E i \in 1..Len(wire[c]) :
        /\ wire[c][i][1] = parent[u][1] /\ wire[c][i][2] = n
        /\ wire[c][i][3] = wire[c][i][4]

(* Nothing is left in the buffer of a process that has ended as it asked   *)
(* to.  exit() flushes the buffer of the thread that calls it and no other. *)
NothingLeft ==
  \A t \in Tasks : state[t] = "ended" /\ fate[proc[t]] = "asked" /\ ~prog.threads =>
    start[t] = Len(lb[t])

(* The library itself never ends the traced program, but for a record that *)
(* is larger than the buffer.                                              *)
Unharmed ==
  (\A s \in prog.sizes : s <= PIPE_BUF) => \A p \in Procs : fate[p] # "fatal"
=============================================================================
